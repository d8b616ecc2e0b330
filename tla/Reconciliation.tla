--------------------------- MODULE Reconciliation ---------------------------
(***************************************************************************)
(* POST /reconcile/github-merge of proofrail/server.py from end to end:    *)
(* QuorumObservationAdapter of proofrail/quorum.py asks its sources one    *)
(* after the other while the pull request changes (GitHubPull), the quorum *)
(* is evaluated (AttestationQuorum), the result stored, the event put in   *)
(* the audit trail (AuditTrail) and the trust checkpoint moved on.  Beside *)
(* it run the parts of POST /permits and POST /execute/github-merge that   *)
(* store and audit the permit and the execution record, and requests whose *)
(* events name no permit.                                                  *)
(*                                                                         *)
(* An execution begins here once its permit is spent, with its PUT; one    *)
(* that was ended before the PUT is one whose PUT is never decided.  The   *)
(* checks and the claim that lead there, and the trust checkpoint itself,  *)
(* are in PilotExecution.  The executor's receipt may claim anything.      *)
(***************************************************************************)
EXTENDS GitHubPull, AttestationQuorum, AuditTrail

CONSTANTS Expected,       \* per permit, the head it approves
          Sources,        \* the observation sources, in the order of the mapping
          Faulty,         \* signers that may attest to anything, or not sign it
          Lies,           \* bound: what they attest to, whatever they see
          SourcesRaise,   \* BOOLEAN: a source may raise
          MaxRequests,    \* bound: requests begun
          MaxFaults       \* bound: failed writes, failed inserts and crashes

ASSUME ReconciliationAssumption ==
    /\ Expected \in [PermitIds -> Heads]
    /\ Sources \in Seq(Signers) /\ Faulty \subseteq Signers /\ Lies \subseteq Statements
    /\ SourcesRaise \in BOOLEAN
    /\ MaxRequests \in Nat /\ MaxFaults \in Nat

VARIABLES objects,        \* pilot_objects: permits, executions and reconciliations
          moved,          \* the reconciliations whose quorum moved the checkpoint on
          acknowledged,   \* the objects whose request was answered with success
          pc, req,        \* the request threads
          requests, faults

requestVars == <<pc, req, requests>>
vars == <<pullVars, auditVars, objects, moved, acknowledged, requestVars, faults>>

-----------------------------------------------------------------------------
(* Data *)

Statement == [merged |-> merge # NoMerge, head |-> head,
              sha |-> IF merge = NoMerge THEN None ELSE merge.sha]
AllStatements ==
    [merged : {FALSE}, head : Heads, sha : {None}]
    \union [merged : {TRUE}, head : Heads, sha : Commits]

NoClaim == [side_effect_confirmed |-> FALSE, remote_operation_id |-> None]
Receipts == {NoClaim} \union
            {[side_effect_confirmed |-> TRUE, remote_operation_id |-> c] : c \in Commits}

States == {"PERMITTED", "CONSUMED", "RECONCILED", "RECONCILIATION_FAILED"}
Kinds == {"mint", "execute", "reconcile", "denied"}
Drafts == [object : Nat \union {None}, permit : PermitIds \union {None},
           state : States \union {None}, observed_at : 0..MaxClock]

ASSUME RecordsAssumption == None \notin Nat \union PermitIds \union States \union Kinds \union Drafts

\* What is stored, with (history) the objects that were acknowledged when it was.
Object(type, p, state, receipt) ==
    [type |-> type, permit |-> p, state |-> state, receipt |-> receipt,
     after |-> acknowledged]
Permit(p) == Object("permit", p, "PERMITTED", NoClaim)
Execution(p, receipt) == Object("execution", p, "CONSUMED", receipt)
ReconciliationOf(p, state) == Object("reconciliation", p, state, NoClaim)
Stored(type, p) == \E i \in DOMAIN objects : objects[i].type = type /\ objects[i].permit = p

Idle == [kind |-> None, permit |-> None, receipt |-> NoClaim, attestations |-> <<>>,
         met |-> FALSE, draft |-> None, event |-> None]
Steps == {"store", "observe", "conclude", "lock", "write", "insert", "advance"}

Goto(t, from, to) == pc[t] = from /\ pc' = [pc EXCEPT ![t] = to]
End(t) == pc' = [pc EXCEPT ![t] = "idle"] /\ req' = [req EXCEPT ![t] = Idle]
Fault == faults < MaxFaults /\ faults' = faults + 1

-----------------------------------------------------------------------------
(* Requests *)

Begin(t, kind, p, receipt, first) ==
    /\ requests < MaxRequests /\ requests' = requests + 1
    /\ Goto(t, "idle", first)
    /\ req' = [req EXCEPT ![t] = [Idle EXCEPT !.kind = kind, !.permit = p, !.receipt = receipt]]
    /\ UNCHANGED <<auditVars, objects, moved, acknowledged, faults>>

\* _mint_permit, under a fresh uuid4.
BeginMint(t, p) ==
    /\ ~Stored("permit", p)
    /\ \A u \in Threads : req[u].kind = "mint" => req[u].permit # p
    /\ Begin(t, "mint", p, NoClaim, "store")
    /\ UNCHANGED pullVars

\* _execute_github_merge after the claim, which happens once for a stored permit.
BeginExecute(t, p, receipt) ==
    /\ Stored("permit", p)
    /\ puts[p] = "none" /\ SendPut(p)
    /\ Begin(t, "execute", p, receipt, "store")

\* The round of observers after so many answers.
RoundAfter(answers) == IF answers = Len(Sources) THEN "conclude" ELSE "observe"

\* _reconcile_github_merge: of any execution that is stored, also one whose event is
\* not written yet, or will never be.
BeginReconcile(t, i) ==
    /\ objects[i].type = "execution"
    /\ Begin(t, "reconcile", objects[i].permit, objects[i].receipt, RoundAfter(0))
    /\ UNCHANGED pullVars

\* A request that _audit_request_failure reports; the event has no state, so the
\* report skips it, and its permit is left out.
BeginDenied(t) ==
    /\ requests < MaxRequests /\ requests' = requests + 1
    /\ Goto(t, "idle", "lock")
    /\ Timestamp
    /\ req' = [req EXCEPT ![t] = [Idle EXCEPT !.kind = "denied",
                                              !.draft = Draft(None, None, None, clock')]]
    /\ UNCHANGED <<pullVars, lines, ended, rows, ledgerLock, objects, moved, acknowledged,
                   faults>>

\* QuorumObservationAdapter.observe: the next source.  One that raises ends the
\* request, and nothing is recorded.
Observe(t) ==
    LET signer == Sources[Len(req[t].attestations) + 1]
        Answer(attestation) ==
            /\ req' = [req EXCEPT ![t].attestations = Append(@, attestation)]
            /\ pc' = [pc EXCEPT ![t] = RoundAfter(Len(req[t].attestations) + 1)]
    IN /\ pc[t] = "observe"
       /\ \/ /\ signer \notin Faulty
             /\ Answer([signer |-> signer, statement |-> Statement, valid |-> TRUE])
          \/ /\ signer \in Faulty
             /\ \/ \E statement \in Lies :
                      Answer([signer |-> signer, statement |-> statement, valid |-> TRUE])
                \/ Answer([signer |-> signer, statement |-> Statement, valid |-> FALSE])
          \/ SourcesRaise /\ End(t)
       /\ UNCHANGED <<pullVars, auditVars, objects, moved, acknowledged, requests, faults>>

\* Slip: the head is not compared.
ConfirmsAnyHead(p, receipt, statement) ==
    /\ statement.merged
    /\ receipt.side_effect_confirmed /\ statement.sha = receipt.remote_operation_id

\* The comparison with permit and receipt.
Confirms(p, receipt, statement) ==
    /\ statement.merged /\ statement.head = Expected[p]
    /\ receipt.side_effect_confirmed /\ statement.sha = receipt.remote_operation_id

\* _put_object, then the event is drafted.
Store(t, object, met) ==
    /\ objects' = Append(objects, object)
    /\ pc' = [pc EXCEPT ![t] = "lock"]
    /\ Timestamp
    /\ req' = [req EXCEPT ![t].met = met, ![t].attestations = <<>>,
                  ![t].draft = Draft(Len(objects) + 1, object.permit, object.state, clock')]
    /\ UNCHANGED faults
StoreFails(t) == DatabaseFails /\ Fault /\ End(t) /\ UNCHANGED <<objects, clock>>

StorePermit(t) ==
    /\ pc[t] = "store" /\ req[t].kind = "mint"
    /\ Store(t, Permit(req[t].permit), FALSE) \/ StoreFails(t)
    /\ UNCHANGED <<pullVars, lines, ended, rows, ledgerLock, moved, acknowledged, requests>>

StoreExecution(t) ==
    /\ pc[t] = "store" /\ req[t].kind = "execute"
    /\ Store(t, Execution(req[t].permit, req[t].receipt), FALSE) \/ StoreFails(t)
    /\ UNCHANGED <<pullVars, lines, ended, rows, ledgerLock, moved, acknowledged, requests>>

\* The quorum is evaluated, the result stored.
Conclude(t) ==
    LET met == QuorumMet(req[t].attestations)
        confirmed == met /\ Confirms(req[t].permit, req[t].receipt,
                                     QuorumStatement(req[t].attestations))
        state == IF confirmed THEN "RECONCILED" ELSE "RECONCILIATION_FAILED"
    IN /\ pc[t] = "conclude"
       /\ Store(t, ReconciliationOf(req[t].permit, state), met) \/ StoreFails(t)
       /\ UNCHANGED <<pullVars, lines, ended, rows, ledgerLock, moved, acknowledged, requests>>

-----------------------------------------------------------------------------
(* _audit, and what comes after it *)

\* The request is answered with success, or ends in an exception.
Acknowledge(t) ==
    /\ acknowledged' = acknowledged \union {req[t].draft.object}
    /\ End(t)
Raise(t) == End(t) /\ UNCHANGED acknowledged

\* The lock is taken and the file read; a line that is not JSON raises.
Lock(t) ==
    /\ pc[t] = "lock"
    /\ \/ /\ Readable(lines)
          /\ Acquire(t)
          /\ Goto(t, "lock", "write")
          /\ req' = [req EXCEPT ![t].event = NextEvent(Records(lines), req[t].draft)]
       \/ ~Readable(lines) /\ ledgerLock[Host[t]] = None /\ End(t) /\ UNCHANGED ledgerLock
    /\ UNCHANGED <<pullVars, lines, ended, rows, clock, objects, moved, acknowledged,
                   requests, faults>>

\* Slip: a write that raises does not matter.
WriteIgnored(t) ==
    /\ pc[t] = "write"
    /\ \/ WriteLine(req[t].event) /\ UNCHANGED faults
       \/ WriteFails(req[t].event) /\ Fault
    /\ Goto(t, "write", "insert")
    /\ UNCHANGED req
    /\ Release(t)
    /\ UNCHANGED <<pullVars, rows, clock, objects, moved, acknowledged, requests>>

\* The line is written and synced, or that raises; the lock is left.
Write(t) ==
    /\ pc[t] = "write"
    /\ \/ /\ WriteLine(req[t].event)
          /\ Goto(t, "write", "insert")
          /\ UNCHANGED <<req, faults>>
       \/ WriteFails(req[t].event) /\ Fault /\ End(t)
    /\ Release(t)
    /\ UNCHANGED <<pullVars, rows, clock, objects, moved, acknowledged, requests>>

\* Slip: an insert that raises does not matter.
InsertIgnored(t) ==
    /\ pc[t] = "insert"
    /\ \/ InsertRow(req[t].event) /\ UNCHANGED faults
       \/ DatabaseFails /\ Fault /\ UNCHANGED rows
    /\ IF req[t].kind = "denied" THEN Raise(t) ELSE Acknowledge(t)
    /\ UNCHANGED <<pullVars, lines, ended, ledgerLock, clock, objects, moved, requests>>

\* The row is inserted, or that raises.
Insert(t) ==
    /\ pc[t] = "insert"
    /\ \/ /\ InsertRow(req[t].event)
          /\ UNCHANGED faults
          /\ \/ req[t].met /\ Goto(t, "insert", "advance") /\ UNCHANGED <<req, acknowledged>>
             \/ req[t].kind # "denied" /\ ~req[t].met /\ Acknowledge(t)
             \/ req[t].kind = "denied" /\ Raise(t)
       \/ ~Insertable(req[t].event) /\ Raise(t) /\ UNCHANGED <<rows, faults>>
       \/ DatabaseFails /\ Fault /\ Raise(t) /\ UNCHANGED rows
    /\ UNCHANGED <<pullVars, lines, ended, ledgerLock, clock, objects, moved, requests>>

\* The quorum moves the trust checkpoint on, or that raises.
Advance(t) ==
    /\ pc[t] = "advance"
    /\ \/ /\ moved' = moved \union {req[t].draft.object}
          /\ Acknowledge(t)
          /\ UNCHANGED faults
       \/ Fault /\ Raise(t) /\ UNCHANGED moved
    /\ UNCHANGED <<pullVars, auditVars, objects, requests>>

\* A process dies, with all its requests; the line being written is left in part,
\* or whole.
Crash(h) ==
    LET lost == {t \in Threads : Host[t] = h /\ pc[t] # "idle"}
        writing == {t \in lost : pc[t] = "write"}
    IN /\ lost # {} /\ Fault
       /\ pc' = [t \in Threads |-> IF t \in lost THEN "idle" ELSE pc[t]]
       /\ req' = [t \in Threads |-> IF t \in lost THEN Idle ELSE req[t]]
       /\ ledgerLock' = [ledgerLock EXCEPT ![h] = None]
       /\ \/ UNCHANGED <<lines, ended>>
          \/ \E t \in writing : WriteFails(req[t].event)
       /\ UNCHANGED <<pullVars, rows, clock, objects, moved, acknowledged, requests>>

-----------------------------------------------------------------------------
(* The provider *)

Provider ==
    /\ Others \/ \E p \in PermitIds : DecidePut(p, Expected[p])
    /\ UNCHANGED <<auditVars, objects, moved, acknowledged, requestVars, faults>>

-----------------------------------------------------------------------------

Init ==
    /\ PullInit /\ AuditInit
    /\ objects = <<>> /\ moved = {} /\ acknowledged = {}
    /\ pc = [t \in Threads |-> "idle"] /\ req = [t \in Threads |-> Idle]
    /\ requests = 0 /\ faults = 0

\* A request that was begun.
Step(t) == \/ StorePermit(t) \/ StoreExecution(t) \/ Observe(t) \/ Conclude(t)
           \/ Lock(t) \/ Write(t) \/ Insert(t) \/ Advance(t)

Next ==
    \/ \E t \in Threads, p \in PermitIds : BeginMint(t, p)
    \/ \E t \in Threads, p \in PermitIds, receipt \in Receipts : BeginExecute(t, p, receipt)
    \/ \E t \in Threads, i \in DOMAIN objects : BeginReconcile(t, i)
    \/ \E t \in Threads : BeginDenied(t)
    \/ \E t \in Threads : Step(t)
    \/ \E h \in Processes : Crash(h)
    \/ Provider

Spec == Init /\ [][Next]_vars

-----------------------------------------------------------------------------
(* Properties *)

\* Rows, objects and requests keep to their shape, and a thread is between the two
\* steps of the ledger exactly while it has its process's ledger lock.
TypeOK ==
    /\ PullTypeOK
    /\ pc \in [Threads -> {"idle"} \union Steps]
    /\ \A t \in Threads :
        /\ pc[t] = "idle" <=> req[t].kind = None
        /\ pc[t] \in {"lock", "write", "insert", "advance"} <=> req[t].draft # None
        /\ ledgerLock[Host[t]] = t <=> pc[t] = "write"
    /\ acknowledged \union moved \subseteq DOMAIN objects
    /\ faults \in 0..MaxFaults /\ requests \in 0..MaxRequests

\* Whatever requests are audited at once and whatever writes fail, the events that
\* were written whole are one chain, numbered without gap; and as long as nothing
\* failed verify_ledger accepts the file, so that checkpoints and exports are served.
LedgerVerifies ==
    /\ \A event \in Written :
          \/ event.sequence = 1 /\ event.previous = Genesis
          \/ \E before \in Written : /\ event.sequence = before.sequence + 1
                                     /\ event.previous = before.hash
    /\ \A a, b \in Written : a.sequence = b.sequence => a = b
    /\ faults = 0 => VerifyLedger(lines).valid

\* The two stores of the audit trail agree: a row is a copy of an event in the
\* file, and an event is without its row only if a request is about to insert it or
\* a failure came between the two, a crash for each request it ended.
StoresAgree ==
    LET rowless == Written \ rows
        inserting == {req[t].event : t \in {u \in Threads : pc[u] = "insert"}}
    IN /\ rows \subseteq Written
       /\ Cardinality(rowless \ inserting) <= faults * Cardinality(Threads)

\* What a client was told succeeded, and what moved the trust checkpoint on, is
\* stored and has exactly one event, in both stores, of its permit and state.
AcknowledgedIsAudited ==
    \A i \in acknowledged \union moved :
        LET events == {row \in rows : row.body.object = i}
        IN /\ Cardinality(events) = 1
           /\ events \subseteq Written
           /\ \A event \in events : /\ event.body.permit = objects[i].permit
                                    /\ event.body.state = objects[i].state

\* What a round of observers is found to agree on was stated by one that is not
\* faulty, whichever ones fewer than the threshold are, although they are asked at
\* different moments and attest to different things.
QuorumsAreWitnessed ==
    \A t \in Threads : pc[t] = "conclude" => Witnessed(req[t].attestations)

\* With fewer faulty observers than the threshold, a permit is reported RECONCILED
\* only if its pull request is merged at the approved head, by the commit that the
\* executor's receipt names: neither a lying executor, nor a lying observer, nor
\* a change in the middle of the round makes it so.
ReportedReconciledIsTrue ==
    \A p \in PermitIds : "RECONCILED" \in Range(ReportedStates(p)) =>
        /\ merge # NoMerge /\ merge.head = Expected[p]
        /\ \E i \in DOMAIN objects :
              /\ objects[i].type = "execution" /\ objects[i].permit = p
              /\ objects[i].receipt.remote_operation_id = merge.sha

\* The life-cycle report keeps the order that clients saw: what was stored when a
\* request was already answered is reported after it, although events are dated before
\* they wait for the lock, and times may be equal.  The one exception is an event that
\* is dated on a whole second: it goes behind the later ones of that second.
ReportFollowsAnswers ==
    \A a, b \in rows :
        a.body.object # None /\ b.body.object # None
        /\ a.body.object \in objects[b.body.object].after =>
            \/ Earlier(a, b)
            \/ /\ Whole(a.body.observed_at)
               /\ a.body.observed_at < b.body.observed_at
               /\ b.body.observed_at < a.body.observed_at + SecondTicks

\* Whatever raises or dies while it has the ledger lock, no request is left waiting
\* for nobody: as long as one is not done, one of its process can go on.
NobodyWaitsForNobody ==
    \A h \in Processes :
        LET pending == {t \in Threads : Host[t] = h /\ pc[t] # "idle"}
        IN pending # {} => \E t \in pending : ENABLED Step(t)
=============================================================================
