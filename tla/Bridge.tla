------------------------------- MODULE Bridge -------------------------------
(***************************************************************************)
(* OpenClawProofRailBridge.run of integrations/openclaw/bridge.py: claim   *)
(* the action, call its adapter, append the receipt to the ledger, store   *)
(* the outcome.  Callers, each a process of its own, share the state       *)
(* database and the ledger file.                                           *)
(*                                                                         *)
(* An action stands for its digest.  Only calls that the gate permits are  *)
(* modelled: a denied one returns before it touches anything.              *)
(***************************************************************************)
EXTENDS Ledger, FiniteSets

CONSTANTS Actions,
          Registered,        \* actions whose type has an adapter
          MaxTimeouts,       \* bound: statements that time out on the write lock
          MaxCrashes,        \* bound: callers that die
          MaxFaults          \* bound: time-outs and crashes together

ASSUME BridgeAssumption ==
    /\ Registered \subseteq Actions /\ None \notin Actions
    /\ MaxTimeouts \in Nat /\ MaxCrashes \in Nat /\ MaxFaults \in Nat

VARIABLES executions,     \* per action, the status of its row, or None
          pc, req,        \* the callers
          crashes, timeouts,
          answers         \* history: what each call of the adapter said, or "unknown"

bridgeVars == <<executions, pc, req, crashes, timeouts, answers>>
vars == <<ledgerVars, bridgeVars>>

Outcomes == {"success", "failed", "unknown"}

ASSUME RowsAssumption == None \notin {"started"} \union Outcomes

Idle == [action |-> None, outcome |-> None, error |-> FALSE, entry |-> None]
Steps == {"claim", "resolve", "execute", "lock", "read", "write", "complete"}

Goto(c, from, to) == pc[c] = from /\ pc' = [pc EXCEPT ![c] = to]

End(c) ==
    /\ pc' = [pc EXCEPT ![c] = "idle"]
    /\ req' = [req EXCEPT ![c] = Idle]

\* Slip: an exception after the adapter was called ends the call.
RaiseUncaught(c) == End(c)

\* Slip: an append that raises does not matter to the outcome.
RaiseIgnored(c) ==
    IF pc[c] = "complete" THEN End(c)
    ELSE /\ pc' = [pc EXCEPT ![c] = "complete"]
         /\ req' = [req EXCEPT ![c].error = TRUE,
                               ![c].outcome = IF @ = None THEN "unknown" ELSE @]

\* An exception after the adapter was called.  In the try block: append an entry
\* with outcome unknown.  In the append of the except branch: do without receipt.
\* In its completion: the exception leaves run.
Raise(c) ==
    IF pc[c] = "complete" /\ req[c].error THEN End(c)
    ELSE /\ pc' = [pc EXCEPT ![c] = IF req[c].error THEN "complete" ELSE "lock"]
         /\ req' = [req EXCEPT ![c].outcome = "unknown", ![c].error = TRUE]

\* A statement waits for the database's write lock in vain.
TimesOut ==
    /\ timeouts < MaxTimeouts /\ timeouts + crashes < MaxFaults
    /\ timeouts' = timeouts + 1

-----------------------------------------------------------------------------

\* run, with a decision that permits the action.
Begin(c, a) ==
    /\ Goto(c, "idle", "claim")
    /\ req' = [req EXCEPT ![c] = [Idle EXCEPT !.action = a]]
    /\ UNCHANGED <<ledgerVars, executions, crashes, timeouts, answers>>

\* Slip: a row that is there is taken over.
ClaimExecutionAgain(c) ==
    /\ executions' = [executions EXCEPT ![req[c].action] = "started"]
    /\ Goto(c, "claim", "resolve")
    /\ UNCHANGED <<ledgerVars, req, crashes, timeouts, answers>>

\* Slip: a call that is refused the row says in it that the outcome is unknown.
ClaimExecutionReported(c) ==
    /\ pc[c] = "claim"
    /\ \/ /\ executions[req[c].action] = None
          /\ executions' = [executions EXCEPT ![req[c].action] = "started"]
          /\ Goto(c, "claim", "resolve")
          /\ UNCHANGED req
       \/ /\ executions[req[c].action] # None
          /\ executions' = [executions EXCEPT ![req[c].action] = "unknown"]
          /\ End(c)
    /\ UNCHANGED <<ledgerVars, crashes, timeouts, answers>>

\* _claim_execution: one transaction; a row that is there blocks the replay.
ClaimExecution(c) ==
    /\ pc[c] = "claim"
    /\ \/ /\ executions[req[c].action] = None
          /\ executions' = [executions EXCEPT ![req[c].action] = "started"]
          /\ Goto(c, "claim", "resolve")
          /\ UNCHANGED <<req, timeouts>>
       \/ /\ \/ executions[req[c].action] # None /\ UNCHANGED timeouts
             \/ TimesOut
          /\ End(c)
          /\ UNCHANGED executions
    /\ UNCHANGED <<ledgerVars, crashes, answers>>

\* resolve is outside the try block: without an adapter the exception leaves run.
Resolve(c) ==
    /\ pc[c] = "resolve"
    /\ \/ /\ req[c].action \in Registered
          /\ Goto(c, "resolve", "execute")
          /\ UNCHANGED req
       \/ req[c].action \notin Registered /\ End(c)
    /\ UNCHANGED <<ledgerVars, executions, crashes, timeouts, answers>>

\* What is known of an effect: an adapter that raises leaves it unknown.
Known(answer) == IF answer = None THEN "unknown" ELSE answer

\* The adapter is called: it gives a valid receipt, or an invalid one, or raises.
Execute(c) ==
    /\ pc[c] = "execute"
    /\ \E answer \in Outcomes \union {None} :
           /\ answers' = [answers EXCEPT ![req[c].action] = Append(@, Known(answer))]
           /\ \/ /\ answer # None
                 /\ Goto(c, "execute", "lock")
                 /\ req' = [req EXCEPT ![c].outcome = answer]
              \/ answer = None /\ Raise(c)
    /\ UNCHANGED <<ledgerVars, executions, crashes, timeouts>>

\* Ledger.append: open and lock the file ...
LockLedger(c) ==
    /\ Goto(c, "lock", "read")
    /\ LockFile(c)
    /\ UNCHANGED <<executions, req, crashes, timeouts, answers>>

\* ... parse every line of it, which raises if one is not JSON ...
ReadLedger(c) ==
    /\ pc[c] = "read"
    /\ \/ /\ ~torn
          /\ Goto(c, "read", "write")
          /\ req' = [req EXCEPT ![c].entry =
                        NextEntry(entries, req[c].action, req[c].outcome)]
          /\ UNCHANGED ledgerVars
       \/ torn /\ Raise(c) /\ CloseFile(c) /\ UNCHANGED fileVars
    /\ UNCHANGED <<executions, crashes, timeouts, answers>>

\* ... write and sync the new line.
WriteLedger(c) ==
    /\ pc[c] = "write"
    /\ \/ /\ WriteLine(c, req[c].entry)
          /\ Goto(c, "write", "complete")
          /\ UNCHANGED req
       \/ WriteFails(c, req[c].entry) /\ Raise(c)
    /\ UNCHANGED <<executions, crashes, timeouts, answers>>

\* _complete_execution.
Complete(c) ==
    /\ pc[c] = "complete"
    /\ \/ /\ executions' = [executions EXCEPT ![req[c].action] = req[c].outcome]
          /\ End(c)
          /\ UNCHANGED timeouts
       \/ TimesOut /\ Raise(c) /\ UNCHANGED executions
    /\ UNCHANGED <<ledgerVars, crashes, answers>>

\* The process dies; a line it was writing may be in the file in part, or whole,
\* with its newline or without.
Crash(c) ==
    /\ crashes < MaxCrashes /\ timeouts + crashes < MaxFaults /\ pc[c] # "idle"
    /\ crashes' = crashes + 1
    /\ End(c)
    /\ \/ UNCHANGED fileVars
       \/ pc[c] = "write" /\ PutPart
       \/ pc[c] = "write" /\ \E newline \in BOOLEAN : Put(req[c].entry, newline)
    /\ CloseFile(c)
    /\ UNCHANGED <<executions, timeouts, answers>>

-----------------------------------------------------------------------------

Init ==
    /\ LedgerInit
    /\ executions = [a \in Actions |-> None]
    /\ pc = [c \in Callers |-> "idle"] /\ req = [c \in Callers |-> Idle]
    /\ crashes = 0 /\ timeouts = 0 /\ answers = [a \in Actions |-> <<>>]

Run(c) == \/ ClaimExecution(c) \/ Resolve(c) \/ Execute(c) \/ LockLedger(c)
          \/ ReadLedger(c) \/ WriteLedger(c) \/ Complete(c)

Next == \/ \E c \in Callers, a \in Actions : Begin(c, a)
        \/ \E c \in Callers : Run(c)
        \/ \E c \in Callers : Crash(c)

Spec == Init /\ [][Next]_vars

\* A call that was begun runs on; nobody has to make one, and the file lock need
\* not be fair.
FairSpec == Spec /\ \A c \in Callers : WF_vars(Run(c))

-----------------------------------------------------------------------------
(* Properties *)

\* Rows, callers and ledger keep to their shape; a caller that works on an entry
\* has the file, and nobody else does.
TypeOK ==
    /\ executions \in [Actions -> {None, "started"} \union Outcomes]
    /\ pc \in [Callers -> {"idle"} \union Steps]
    /\ \A c \in Callers :
        /\ pc[c] = "idle" <=> req[c].action = None
        /\ req[c].outcome \in Outcomes <=> pc[c] \in {"lock", "read", "write", "complete"}
        /\ flock = c <=> pc[c] \in {"read", "write"}
    /\ torn \in BOOLEAN /\ ended \in BOOLEAN
    /\ crashes \in 0..MaxCrashes /\ timeouts \in 0..MaxTimeouts

\* However many callers run an action, and whoever of them dies, its adapter is
\* called at most once, and never without a row that blocks the replay.
ExecutesOnce ==
    \A a \in Actions : Len(answers[a]) <= 1 /\ (answers[a] # <<>> => executions[a] # None)

\* Whatever callers append at once, and whatever writes fail, the records that were
\* written whole are one chain, numbered without gap.
LedgerChained == Chained(entries)

\* A row says success or failed only if the adapter did and a receipt of that
\* outcome was written whole to the ledger file before: an exception is unknown.
\* On the line of a record that lost its newline it may be beyond every reader.
CompletedHasReceipt ==
    \A a \in Actions : executions[a] \in {"success", "failed"} =>
        /\ answers[a] = <<executions[a]>>
        /\ \E i \in DOMAIN entries :
               entries[i].action = a /\ entries[i].outcome = executions[a]

\* The bridge consumes first: an action is consumed by its row, the effect is the
\* call of its adapter, and what is said of it is the row's last status, which no
\* replay, exception or crash changes again and after which no adapter is called.
Consumption == INSTANCE ConsumedFirst WITH
    Keys <- Actions,
    consumed <- {a \in Actions : executions[a] # None},
    effects <- [a \in Actions |-> Len(answers[a])],
    outcomes <- [a \in Actions |-> IF executions[a] = "started" THEN None ELSE executions[a]]
ConsumesFirst == Consumption!Spec

\* Every claimed action that has an adapter gets an outcome, whatever the adapter
\* and the disk did, unless a process died or the database timed out.
ClaimsComplete ==
    \A a \in Registered :
        executions[a] = "started" ~>
            \/ executions[a] \in Outcomes
            \/ crashes > 0 \/ timeouts > 0

\* The bridge records successful actions in the ledger: when the call that ran an
\* action is over, a success the adapter reported is in it.
SuccessesAreRecorded ==
    \A a \in Actions :
        /\ answers[a] = <<"success">>
        /\ \A c \in Callers : req[c].action # a
        /\ executions[a] # "started"
        => \E i \in DOMAIN entries :
               entries[i].action = a /\ entries[i].outcome = "success"
=============================================================================
