----------------------------- MODULE Bridge_proofs -----------------------------
(***************************************************************************)
(* What Bridge satisfies for any callers and actions, whatever fails.      *)
(*                                                                         *)
(* Inductive invariants:                                                   *)
(*    TypeInv     types, each call's locals, and who has the ledger file   *)
(*    UseInv      a call past its claim alone works on its action          *)
(*    LedgerInv   the file is a chain, and the entry about to be written   *)
(*                is its next link                                         *)
(*    ReceiptInv  an outcome about to be stored has its receipt            *)
(*    SuccessInv  a success is in the ledger or on its way there, while no *)
(*                write fails and no caller dies                           *)
(***************************************************************************)
EXTENDS Bridge, TLAPS

-----------------------------------------------------------------------------
(* Types *)

Requests(S) == [action : Actions \union {None}, outcome : Outcomes \union {None},
                error : BOOLEAN, entry : S \union {None}]
AllSteps == {"idle"} \union Steps
Recording == {"lock", "read", "write", "complete"}

\* Entries are nested in one another, and so are of no type that could be named.
IsLedger(lines) == \E S : lines \in Seq(S)
AreRequests(r) == \E S : r \in [Callers -> Requests(S)]

StoreOK ==
    /\ executions \in [Actions -> {None, "started"} \union Outcomes]
    /\ answers \in [Actions -> Seq(Outcomes \union {None})]
    /\ IsLedger(entries)
    /\ torn \in BOOLEAN /\ ended \in BOOLEAN /\ flock \in Callers \union {None}
    /\ crashes \in 0..MaxCrashes /\ timeouts \in 0..MaxTimeouts
ThreadOK ==
    /\ pc \in [Callers -> AllSteps]
    /\ AreRequests(req)
LocalOK(c) ==
    /\ pc[c] = "idle" => req[c] = Idle
    /\ pc[c] # "idle" => req[c].action \in Actions
    /\ req[c].outcome \in Outcomes <=> pc[c] \in Recording
    /\ flock = c <=> pc[c] \in {"read", "write"}

TypeInv == StoreOK /\ ThreadOK /\ \A c \in Callers : LocalOK(c)

\* Every step of a caller.
CallerStep(c) == Run(c) \/ Crash(c) \/ \E a \in Actions : Begin(c, a)

LEMMA NextCases ==
    ASSUME [Next]_vars
    PROVE  (\E c \in Callers : CallerStep(c)) \/ UNCHANGED vars
  BY DEF Next, CallerStep

LEMMA TypeInit == Init => TypeInv
<1> SUFFICES ASSUME Init PROVE TypeInv
  OBVIOUS
<1>0. entries \in Seq({})
  BY DEF Init, LedgerInit
<1>1. StoreOK
  <2>1. answers \in [Actions -> Seq(Outcomes \union {None})]
    BY DEF Init
  <2>2. IsLedger(entries)
    BY <1>0 DEF IsLedger
  <2>3. executions \in [Actions -> {None, "started"} \union Outcomes]
    BY DEF Init
  <2>4. torn \in BOOLEAN /\ ended \in BOOLEAN /\ flock \in Callers \union {None}
    BY DEF Init, LedgerInit
  <2>5. crashes \in 0..MaxCrashes /\ timeouts \in 0..MaxTimeouts
    BY BridgeAssumption DEF Init
  <2> QED BY <2>1, <2>2, <2>3, <2>4, <2>5 DEF StoreOK
<1>2. Idle \in Requests({})
  BY DEF Idle, Requests
<1>3. ThreadOK
  <2>1. req \in [Callers -> Requests({})]
    BY <1>2 DEF Init
  <2>2. AreRequests(req)
    BY <2>1 DEF AreRequests
  <2> QED BY <2>2 DEF Init, ThreadOK, AllSteps
<1>4. ASSUME NEW c \in Callers PROVE LocalOK(c)
  <2>1. req[c] = Idle /\ pc[c] = "idle" /\ flock = None /\ flock # c
    BY LedgerAssumption DEF Init, LedgerInit
  <2>2. Idle.outcome = None /\ None \notin Outcomes
    BY RowsAssumption DEF Idle
  <2> QED BY <2>1, <2>2 DEF LocalOK, Recording
<1> QED BY <1>1, <1>3, <1>4 DEF TypeInv

\* How a step moves its caller; the others stay where they are.
Moves(c, step) == /\ pc' \in [Callers -> AllSteps] /\ pc'[c] = step
                  /\ \A d \in Callers \ {c} : pc'[d] = pc[d] /\ req'[d] = req[d]

LEMMA EndMoves ==
    ASSUME ThreadOK, NEW c \in Callers, End(c)
    PROVE  ThreadOK' /\ Moves(c, "idle") /\ req'[c] = Idle
<1>1. PICK S : req \in [Callers -> Requests(S)]
  BY DEF ThreadOK, AreRequests
<1>2. Idle \in Requests(S)
  BY DEF Idle, Requests
<1>3. req' \in [Callers -> Requests(S)] /\ req'[c] = Idle
  BY <1>1, <1>2 DEF End
<1>4. pc' \in [Callers -> AllSteps] /\ pc'[c] = "idle"
  BY DEF End, ThreadOK, AllSteps
<1> QED BY <1>1, <1>3, <1>4 DEF ThreadOK, AreRequests, Moves, End

LEMMA GotoMoves ==
    ASSUME ThreadOK, NEW c \in Callers, NEW from, NEW to \in AllSteps, Goto(c, from, to),
           \A d \in Callers \ {c} : req'[d] = req[d]
    PROVE  Moves(c, to) /\ pc[c] = from
  BY DEF Goto, ThreadOK, Moves

LEMMA RaiseMoves ==
    ASSUME ThreadOK, NEW c \in Callers, Raise(c), pc[c] \in {"execute", "read", "write", "complete"}
    PROVE  /\ ThreadOK'
           /\ \/ Moves(c, "idle") /\ req'[c] = Idle
              \/ /\ Moves(c, "lock") \/ (pc[c] # "complete" /\ Moves(c, "complete"))
                 /\ req'[c].action = req[c].action /\ req'[c].outcome = "unknown"
<1>1. PICK S : req \in [Callers -> Requests(S)]
  BY DEF ThreadOK, AreRequests
<1>2. CASE pc[c] = "complete" /\ req[c].error
  BY <1>2, EndMoves DEF Raise
<1>3. CASE ~(pc[c] = "complete" /\ req[c].error)
  <2>1. req' = [req EXCEPT ![c].outcome = "unknown", ![c].error = TRUE]
    BY <1>3 DEF Raise
  <2>2. /\ req' \in [Callers -> Requests(S)]
        /\ req'[c].action = req[c].action /\ req'[c].outcome = "unknown"
        /\ \A d \in Callers \ {c} : req'[d] = req[d]
    BY <1>1, <2>1 DEF Requests, Outcomes
  <2>3. pc' = [pc EXCEPT ![c] = IF req[c].error THEN "complete" ELSE "lock"]
    BY <1>3 DEF Raise
  <2>4. req[c].error \in BOOLEAN
    BY <1>1 DEF Requests
  <2>5. Moves(c, "lock") \/ (pc[c] # "complete" /\ Moves(c, "complete"))
    BY <1>3, <2>2, <2>3, <2>4 DEF ThreadOK, Moves, AllSteps, Steps
  <2>6. ThreadOK'
    BY <2>2, <2>5 DEF ThreadOK, AreRequests, Moves
  <2> QED BY <2>2, <2>5, <2>6
<1> QED BY <1>2, <1>3

\* A line more in the file.
LEMMA AppendTypes ==
    ASSUME IsLedger(entries), NEW entry, entries' = Append(entries, entry)
    PROVE  IsLedger(entries')
<1>1. PICK S : entries \in Seq(S)
  BY DEF IsLedger
<1> DEFINE T == S \union {entry}
<1>2. entries \in Seq(T)
  BY <1>1
<1>3. Append(entries, entry) \in Seq(T)
  BY <1>2
<1> QED BY <1>3 DEF IsLedger

\* Who is where, given that the others stay: a call's file lock and the rest of it.
LEMMA OthersStay ==
    ASSUME TypeInv, NEW c \in Callers, NEW step, Moves(c, step),
           \/ flock' = flock
           \/ flock = None /\ flock' = c
           \/ flock = c /\ flock' = None
    PROVE  \A d \in Callers \ {c} : LocalOK(d)'
<1>1. None \notin Callers
  BY LedgerAssumption
<1> QED BY <1>1 DEF TypeInv, LocalOK, Moves

\* The call is over.
LEMMA EndLocal ==
    ASSUME NEW c \in Callers, Moves(c, "idle"), req'[c] = Idle, flock' # c
    PROVE  LocalOK(c)'
<1>1. Idle.outcome = None /\ None \notin Outcomes
  BY RowsAssumption DEF Idle
<1> QED BY <1>1 DEF LocalOK, Recording, Moves

\* An exception is noted; the file, if it was open, is closed.
LEMMA RaiseTypes ==
    ASSUME TypeInv, NEW c \in Callers, Raise(c), pc[c] \in {"execute", "read", "write", "complete"},
           CloseFile(c) \/ (UNCHANGED flock /\ pc[c] \in {"execute", "complete"})
    PROVE  ThreadOK' /\ \A d \in Callers : LocalOK(d)'
<1>0. ThreadOK /\ LocalOK(c) /\ None \notin Callers
  BY LedgerAssumption DEF TypeInv
<1>1. flock' # c /\ (flock' = flock \/ (flock = c /\ flock' = None))
  BY <1>0 DEF CloseFile, LocalOK
<1>2. /\ ThreadOK'
      /\ \/ Moves(c, "idle") /\ req'[c] = Idle
         \/ /\ Moves(c, "lock") \/ Moves(c, "complete")
            /\ req'[c].action = req[c].action /\ req'[c].outcome = "unknown"
  BY <1>0, RaiseMoves
<1>3. \A d \in Callers \ {c} : LocalOK(d)'
  BY <1>1, <1>2, OthersStay
<1>4. LocalOK(c)'
  <2>1. CASE Moves(c, "idle") /\ req'[c] = Idle
    BY <1>1, <2>1, EndLocal
  <2>2. CASE /\ Moves(c, "lock") \/ Moves(c, "complete")
             /\ req'[c].action = req[c].action /\ req'[c].outcome = "unknown"
    BY <1>0, <1>1, <2>2 DEF LocalOK, Moves, Recording, Outcomes
  <2> QED BY <1>2, <2>1, <2>2
<1> QED BY <1>2, <1>3, <1>4

\* The call ends; the file, if it was open, is closed.
LEMMA EndTypes ==
    ASSUME TypeInv, NEW c \in Callers, End(c),
           CloseFile(c) \/ (UNCHANGED flock /\ pc[c] \notin {"read", "write"})
    PROVE  ThreadOK' /\ \A d \in Callers : LocalOK(d)'
<1>0. ThreadOK /\ LocalOK(c) /\ None \notin Callers
  BY LedgerAssumption DEF TypeInv
<1>1. flock' # c /\ (flock' = flock \/ (flock = c /\ flock' = None))
  BY <1>0 DEF CloseFile, LocalOK
<1>2. ThreadOK' /\ Moves(c, "idle") /\ req'[c] = Idle
  BY <1>0, EndMoves
<1>3. \A d \in Callers \ {c} : LocalOK(d)'
  BY <1>1, <1>2, OthersStay
<1> QED BY <1>1, <1>2, <1>3, EndLocal

\* A step of the call, with its locals as they were but for the outcome and entry.
LEMMA GoTypes ==
    ASSUME TypeInv, NEW c \in Callers, NEW from, NEW to \in Steps, Goto(c, from, to),
           ThreadOK', \A d \in Callers \ {c} : req'[d] = req[d],
           req'[c].action \in Actions, req'[c].outcome \in Outcomes <=> to \in Recording,
           flock' = c <=> to \in {"read", "write"},
           flock' = flock \/ (flock = None /\ flock' = c) \/ (flock = c /\ flock' = None)
    PROVE  \A d \in Callers : LocalOK(d)'
<1>1. Moves(c, to) /\ to # "idle"
  BY GotoMoves DEF TypeInv, AllSteps, Steps
<1>2. \A d \in Callers \ {c} : LocalOK(d)'
  BY <1>1, OthersStay
<1>3. LocalOK(c)'
  BY <1>1 DEF LocalOK, Moves
<1> QED BY <1>2, <1>3

LEMMA ThreadMoves ==
    ASSUME TypeInv, NEW c \in Callers, NEW from, NEW to \in AllSteps, Goto(c, from, to),
           \/ UNCHANGED req
           \/ \E a \in Actions : req' = [req EXCEPT ![c] = [Idle EXCEPT !.action = a]]
           \/ \E answer \in Outcomes : req' = [req EXCEPT ![c].outcome = answer]
           \/ \E entry : req' = [req EXCEPT ![c].entry = entry]
    PROVE  /\ ThreadOK' /\ \A d \in Callers \ {c} : req'[d] = req[d]
           /\ \A answer \in Outcomes : req' = [req EXCEPT ![c].outcome = answer] =>
                 req'[c].outcome = answer /\ req'[c].action = req[c].action
           /\ \A entry : req' = [req EXCEPT ![c].entry = entry] =>
                 /\ req'[c].outcome = req[c].outcome /\ req'[c].action = req[c].action
                 /\ req'[c].entry = entry
<1>1. PICK S : req \in [Callers -> Requests(S)]
  BY DEF TypeInv, ThreadOK, AreRequests
<1>2. pc' \in [Callers -> AllSteps]
  BY DEF TypeInv, ThreadOK, Goto
<1>3. ASSUME UNCHANGED req PROVE req' \in [Callers -> Requests(S)]
  BY <1>1, <1>3
<1>4. ASSUME NEW a \in Actions, req' = [req EXCEPT ![c] = [Idle EXCEPT !.action = a]]
      PROVE  req' \in [Callers -> Requests(S)]
  BY <1>1, <1>4 DEF Requests, Idle
<1>5. ASSUME NEW answer \in Outcomes, req' = [req EXCEPT ![c].outcome = answer]
      PROVE  req' \in [Callers -> Requests(S)]
  BY <1>1, <1>5 DEF Requests
<1>6. ASSUME NEW entry, req' = [req EXCEPT ![c].entry = entry]
      PROVE  req' \in [Callers -> Requests(S \union {entry})]
  BY <1>1, <1>6 DEF Requests
<1>7. ThreadOK'
  BY <1>2, <1>3, <1>4, <1>5, <1>6 DEF ThreadOK, AreRequests
<1>8. \A d \in Callers \ {c} : req'[d] = req[d]
  BY <1>1
<1>9. ASSUME NEW answer \in Outcomes, req' = [req EXCEPT ![c].outcome = answer]
      PROVE  req'[c].outcome = answer /\ req'[c].action = req[c].action
  BY <1>1, <1>9 DEF Requests
<1>10. ASSUME NEW entry, req' = [req EXCEPT ![c].entry = entry]
       PROVE  /\ req'[c].outcome = req[c].outcome /\ req'[c].action = req[c].action
              /\ req'[c].entry = entry
  BY <1>1, <1>10 DEF Requests
<1> QED BY <1>7, <1>8, <1>9, <1>10

LEMMA BeginTypes ==
    ASSUME TypeInv, NEW c \in Callers, NEW a \in Actions, Begin(c, a)
    PROVE  TypeInv' /\ req'[c].action = a
<1>1. /\ UNCHANGED <<fileVars, flock, executions, crashes, timeouts, answers>>
      /\ Goto(c, "idle", "claim") /\ req' = [req EXCEPT ![c] = [Idle EXCEPT !.action = a]]
  BY DEF Begin, ledgerVars, fileVars
<1>2. StoreOK'
  BY <1>1 DEF TypeInv, StoreOK, fileVars
<1>3. ThreadOK' /\ \A d \in Callers \ {c} : req'[d] = req[d]
  BY <1>1, ThreadMoves DEF AllSteps, Steps
<1>4. req'[c].action = a /\ req'[c].outcome = None /\ None \notin Outcomes
  <2>1. \E S : req \in [Callers -> Requests(S)]
    BY DEF TypeInv, ThreadOK, AreRequests
  <2>2. req'[c] = [Idle EXCEPT !.action = a]
    BY <1>1, <2>1
  <2> QED BY <2>2, RowsAssumption DEF Idle
<1>5. flock # c
  BY <1>1 DEF TypeInv, LocalOK, Goto
<1>6. \A d \in Callers : LocalOK(d)'
  BY <1>1, <1>3, <1>4, <1>5, GoTypes DEF Steps, Recording
<1> QED BY <1>2, <1>3, <1>4, <1>6 DEF TypeInv

LEMMA ClaimTypes ==
    ASSUME TypeInv, NEW c \in Callers, ClaimExecution(c)
    PROVE  TypeInv'
<1>0. /\ pc[c] = "claim" /\ req[c].action \in Actions /\ LocalOK(c)
      /\ UNCHANGED <<fileVars, flock, crashes, answers>>
  BY DEF TypeInv, LocalOK, ClaimExecution, ledgerVars, fileVars
<1>1. executions' \in [Actions -> {None, "started"} \union Outcomes]
  BY <1>0 DEF ClaimExecution, TypeInv, StoreOK, fileVars
<1>2. timeouts' \in 0..MaxTimeouts
  BY BridgeAssumption DEF ClaimExecution, TimesOut, TypeInv, StoreOK
<1>3. StoreOK'
  BY <1>0, <1>1, <1>2 DEF TypeInv, StoreOK, fileVars
<1>4. CASE Goto(c, "claim", "resolve") /\ UNCHANGED req
  <2>1. ThreadOK' /\ \A d \in Callers \ {c} : req'[d] = req[d]
    BY <1>4, ThreadMoves DEF AllSteps, Steps
  <2>2. \A d \in Callers : LocalOK(d)'
    BY <1>0, <1>4, <2>1, GoTypes DEF Steps, Recording, LocalOK
  <2> QED BY <1>3, <2>1, <2>2 DEF TypeInv
<1>5. CASE End(c)
  BY <1>0, <1>3, <1>5, EndTypes DEF TypeInv
<1> QED BY <1>4, <1>5 DEF ClaimExecution

LEMMA ResolveTypes ==
    ASSUME TypeInv, NEW c \in Callers, Resolve(c)
    PROVE  TypeInv'
<1>0. /\ pc[c] = "resolve" /\ req[c].action \in Actions /\ LocalOK(c)
      /\ UNCHANGED <<fileVars, flock, executions, crashes, timeouts, answers>>
  BY DEF TypeInv, LocalOK, Resolve, ledgerVars, fileVars
<1>3. StoreOK'
  BY <1>0 DEF TypeInv, StoreOK, fileVars
<1>4. CASE Goto(c, "resolve", "execute") /\ UNCHANGED req
  <2>1. ThreadOK' /\ \A d \in Callers \ {c} : req'[d] = req[d]
    BY <1>4, ThreadMoves DEF AllSteps, Steps
  <2>2. \A d \in Callers : LocalOK(d)'
    BY <1>0, <1>4, <2>1, GoTypes DEF Steps, Recording, LocalOK
  <2> QED BY <1>3, <2>1, <2>2 DEF TypeInv
<1>5. CASE End(c)
  BY <1>0, <1>3, <1>5, EndTypes DEF TypeInv
<1> QED BY <1>4, <1>5 DEF Resolve

LEMMA ExecuteTypes ==
    ASSUME TypeInv, NEW c \in Callers, Execute(c)
    PROVE  TypeInv'
<1>0. /\ pc[c] = "execute" /\ req[c].action \in Actions /\ LocalOK(c)
      /\ UNCHANGED <<fileVars, flock, executions, crashes, timeouts>>
  BY DEF TypeInv, LocalOK, Execute, ledgerVars, fileVars
<1>1. answers' \in [Actions -> Seq(Outcomes \union {None})]
  BY <1>0 DEF Execute, Known, Outcomes, TypeInv, StoreOK
<1>3. StoreOK'
  BY <1>0, <1>1 DEF TypeInv, StoreOK, fileVars
<1>4. ASSUME NEW answer \in Outcomes, Goto(c, "execute", "lock"),
             req' = [req EXCEPT ![c].outcome = answer]
      PROVE  TypeInv'
  <2>1. /\ ThreadOK' /\ \A d \in Callers \ {c} : req'[d] = req[d]
        /\ req'[c].outcome = answer /\ req'[c].action = req[c].action
    BY <1>4, ThreadMoves DEF AllSteps, Steps
  <2>2. \A d \in Callers : LocalOK(d)'
    BY <1>0, <1>4, <2>1, GoTypes DEF Steps, Recording, LocalOK
  <2> QED BY <1>3, <2>1, <2>2 DEF TypeInv
<1>5. CASE Raise(c)
  BY <1>0, <1>3, <1>5, RaiseTypes DEF TypeInv
<1> QED BY <1>4, <1>5 DEF Execute

LEMMA LockTypes ==
    ASSUME TypeInv, NEW c \in Callers, LockLedger(c)
    PROVE  TypeInv'
<1>0. /\ pc[c] = "lock" /\ req[c].action \in Actions /\ LocalOK(c)
      /\ flock = None /\ flock' = c /\ Goto(c, "lock", "read")
      /\ UNCHANGED <<fileVars, req, executions, crashes, timeouts, answers>>
  BY DEF TypeInv, LocalOK, LockLedger, LockFile, fileVars, Goto
<1>1. StoreOK'
  BY <1>0 DEF TypeInv, StoreOK, fileVars
<1>2. ThreadOK' /\ \A d \in Callers \ {c} : req'[d] = req[d]
  BY <1>0, ThreadMoves DEF AllSteps, Steps
<1>3. \A d \in Callers : LocalOK(d)'
  BY <1>0, <1>2, GoTypes DEF Steps, Recording, LocalOK
<1> QED BY <1>1, <1>2, <1>3 DEF TypeInv

LEMMA ReadTypes ==
    ASSUME TypeInv, NEW c \in Callers, ReadLedger(c)
    PROVE  TypeInv'
<1>0. /\ pc[c] = "read" /\ req[c].action \in Actions /\ LocalOK(c) /\ flock = c
      /\ UNCHANGED <<fileVars, executions, crashes, timeouts, answers>>
  BY DEF TypeInv, LocalOK, ReadLedger, ledgerVars, fileVars
<1>1. flock' \in Callers \union {None}
  BY DEF ReadLedger, ledgerVars, fileVars, CloseFile, TypeInv, StoreOK
<1>3. StoreOK'
  BY <1>0, <1>1 DEF TypeInv, StoreOK, fileVars
<1>4. CASE /\ Goto(c, "read", "write") /\ UNCHANGED ledgerVars
           /\ req' = [req EXCEPT ![c].entry = NextEntry(entries, req[c].action, req[c].outcome)]
  <2>1. /\ ThreadOK' /\ \A d \in Callers \ {c} : req'[d] = req[d]
        /\ req'[c].outcome = req[c].outcome /\ req'[c].action = req[c].action
    BY <1>4, ThreadMoves DEF AllSteps, Steps
  <2>2. \A d \in Callers : LocalOK(d)'
    BY <1>0, <1>4, <2>1, GoTypes DEF Steps, Recording, LocalOK, ledgerVars, fileVars
  <2> QED BY <1>3, <2>1, <2>2 DEF TypeInv
<1>5. CASE Raise(c) /\ CloseFile(c)
  BY <1>0, <1>3, <1>5, RaiseTypes DEF TypeInv
<1> QED BY <1>4, <1>5 DEF ReadLedger

LEMMA WriteTypes ==
    ASSUME TypeInv, NEW c \in Callers, WriteLedger(c)
    PROVE  TypeInv'
<1>0. /\ pc[c] = "write" /\ req[c].action \in Actions /\ LocalOK(c) /\ flock = c
      /\ UNCHANGED <<executions, crashes, timeouts, answers>> /\ CloseFile(c)
      /\ None \notin Callers
  BY LedgerAssumption DEF TypeInv, LocalOK, WriteLedger, WriteLine, WriteFails, Put, PutPart, fileVars
<1>1. flock' = None
  BY <1>0 DEF CloseFile
<1>2. IsLedger(entries')
  <2>1. entries' = entries \/ entries' = Append(entries, req[c].entry)
    BY DEF WriteLedger, WriteLine, WriteFails, Put, PutPart, fileVars
  <2> QED BY <2>1, AppendTypes DEF TypeInv, StoreOK, fileVars
<1>3. torn' \in BOOLEAN /\ ended' \in BOOLEAN
  BY DEF WriteLedger, WriteLine, WriteFails, TypeInv, StoreOK, Put, PutPart, fileVars
<1>4. StoreOK'
  BY <1>0, <1>1, <1>2, <1>3 DEF TypeInv, StoreOK, fileVars
<1>5. CASE Goto(c, "write", "complete") /\ UNCHANGED req
  <2>1. ThreadOK' /\ \A d \in Callers \ {c} : req'[d] = req[d]
    BY <1>5, ThreadMoves DEF AllSteps, Steps
  <2>2. \A d \in Callers : LocalOK(d)'
    BY <1>0, <1>1, <1>5, <2>1, GoTypes DEF Steps, Recording, LocalOK
  <2> QED BY <1>4, <2>1, <2>2 DEF TypeInv
<1>6. CASE Raise(c)
  BY <1>0, <1>4, <1>6, RaiseTypes DEF TypeInv
<1> QED BY <1>5, <1>6 DEF WriteLedger

LEMMA CompleteTypes ==
    ASSUME TypeInv, NEW c \in Callers, Complete(c)
    PROVE  TypeInv'
<1>0. /\ pc[c] = "complete" /\ req[c].action \in Actions /\ LocalOK(c)
      /\ req[c].outcome \in Outcomes
      /\ UNCHANGED <<fileVars, flock, crashes, answers>>
  BY DEF TypeInv, LocalOK, Complete, ledgerVars, fileVars, Recording
<1>1. executions' \in [Actions -> {None, "started"} \union Outcomes]
  BY <1>0 DEF Complete, TypeInv, StoreOK, fileVars
<1>2. timeouts' \in 0..MaxTimeouts
  BY BridgeAssumption DEF Complete, TimesOut, TypeInv, StoreOK
<1>3. StoreOK'
  BY <1>0, <1>1, <1>2 DEF TypeInv, StoreOK, fileVars
<1>4. CASE End(c)
  BY <1>0, <1>3, <1>4, EndTypes DEF TypeInv
<1>5. CASE Raise(c)
  BY <1>0, <1>3, <1>5, RaiseTypes DEF TypeInv
<1> QED BY <1>4, <1>5 DEF Complete

LEMMA CrashTypes ==
    ASSUME TypeInv, NEW c \in Callers, Crash(c)
    PROVE  TypeInv'
<1>0. End(c) /\ CloseFile(c) /\ UNCHANGED <<executions, timeouts, answers>>
  BY DEF Crash, Put, PutPart, fileVars
<1>1. IsLedger(entries')
  <2>1. entries' = entries \/ entries' = Append(entries, req[c].entry)
    BY DEF Crash, Put, PutPart, fileVars
  <2> QED BY <2>1, AppendTypes DEF TypeInv, StoreOK, fileVars
<1>2. torn' \in BOOLEAN /\ ended' \in BOOLEAN
  BY DEF Crash, TypeInv, StoreOK, Put, PutPart, fileVars
<1>4. flock' \in Callers \union {None}
  BY <1>0 DEF CloseFile, TypeInv, StoreOK, fileVars
<1>5. crashes' \in 0..MaxCrashes
  BY BridgeAssumption DEF Crash, TypeInv, StoreOK, Put, PutPart, fileVars
<1>3. StoreOK'
  BY <1>0, <1>1, <1>2, <1>4, <1>5 DEF TypeInv, StoreOK, fileVars
<1> QED BY <1>0, <1>3, EndTypes DEF TypeInv

LEMMA TypeStep == TypeInv /\ [Next]_vars => TypeInv'
<1> SUFFICES ASSUME TypeInv, [Next]_vars PROVE TypeInv'
  OBVIOUS
<1>1. ASSUME NEW c \in Callers, CallerStep(c) PROVE TypeInv'
  BY <1>1, BeginTypes, ClaimTypes, ResolveTypes, ExecuteTypes, LockTypes, ReadTypes,
     WriteTypes, CompleteTypes, CrashTypes DEF CallerStep, Run
<1>2. CASE UNCHANGED vars
  <2>1. UNCHANGED <<fileVars, flock, executions, pc, req, crashes, timeouts, answers>>
    BY <1>2 DEF vars, ledgerVars, fileVars, bridgeVars
  <2>2. ThreadOK' /\ \A c \in Callers : LocalOK(c)'
    BY <2>1 DEF TypeInv, ThreadOK, LocalOK
  <2>3. StoreOK'
    BY <2>1 DEF TypeInv, StoreOK, fileVars
  <2> QED BY <2>2, <2>3 DEF TypeInv
<1> QED BY <1>1, <1>2, NextCases

LEMMA TypeAlways == Spec => []TypeInv
  BY TypeInit, TypeStep, PTL DEF Spec

\* Rows, calls and the file keep their types, and only the call that reads or writes
\* the file has it.
THEOREM TypeCorrect == Spec => []TypeOK
<1>1. ASSUME TypeInv, NEW c \in Callers
      PROVE  /\ pc[c] = "idle" <=> req[c].action = None
             /\ req[c].outcome \in Outcomes <=> pc[c] \in {"lock", "read", "write", "complete"}
             /\ flock = c <=> pc[c] \in {"read", "write"}
  BY <1>1, BridgeAssumption DEF TypeInv, LocalOK, Recording, Idle
<1>2. TypeInv => TypeOK
  BY <1>1 DEF TypeInv, StoreOK, fileVars, ThreadOK, TypeOK, AllSteps
<1> QED BY <1>2, TypeAlways, PTL

-----------------------------------------------------------------------------
(* What a step of a call does *)

PastClaim == {"resolve", "execute"} \union Recording

\* To the rows, to what the adapter was asked, and to its own locals.
Shifts(c) ==
    \/ pc'[c] \notin PastClaim /\ UNCHANGED <<executions, answers>>
    \/ /\ pc[c] = "claim" /\ pc'[c] = "resolve" /\ req' = req
       /\ executions[req[c].action] = None
       /\ executions' = [executions EXCEPT ![req[c].action] = "started"]
       /\ UNCHANGED answers
    \/ /\ pc[c] = "resolve" /\ pc'[c] = "execute" /\ req' = req
       /\ UNCHANGED <<executions, answers>>
    \/ /\ pc[c] = "execute" /\ pc'[c] \in Recording \ {"write"}
       /\ req'[c].action = req[c].action
       /\ \E answer \in Outcomes \union {None} :
             /\ answers' = [answers EXCEPT ![req[c].action] = Append(@, answer)]
             /\ req'[c].outcome \in {answer, "unknown"}
       /\ UNCHANGED executions
    \/ /\ pc[c] \in Recording /\ pc'[c] \in Recording /\ req'[c].action = req[c].action
       /\ req'[c].outcome \in {req[c].outcome, "unknown"}
       /\ UNCHANGED <<executions, answers>>
    \/ /\ pc[c] = "complete" /\ pc'[c] = "idle"
       /\ executions' = [executions EXCEPT ![req[c].action] = req[c].outcome]
       /\ UNCHANGED answers

\* To the ledger.
Writes(c) ==
    \/ entries' = entries /\ pc'[c] # "write"
    \/ /\ entries' = entries /\ pc[c] = "read" /\ pc'[c] = "write"
       /\ req'[c].entry = NextEntry(entries, req'[c].action, req'[c].outcome)
    \/ pc[c] = "write" /\ pc'[c] # "write" /\ entries' = Append(entries, req[c].entry)

\* It is about to store success or failure only with the receipt written.
Receipted(c) ==
    pc'[c] = "complete" /\ req'[c].outcome \in {"success", "failed"} =>
        /\ pc[c] = "write" /\ entries' = Append(entries, req[c].entry)
        /\ req'[c].action = req[c].action /\ req'[c].outcome = req[c].outcome

Stays(d) == pc'[d] = pc[d] /\ req'[d] = req[d]
Effects(c) ==
    /\ Shifts(c) /\ Writes(c) /\ Receipted(c)
    /\ \A d \in Callers \ {c} : Stays(d)

LEMMA EndEffects ==
    ASSUME TypeInv, NEW c \in Callers, End(c), UNCHANGED <<executions, answers>>,
           entries' = entries \/ (pc[c] = "write" /\ entries' = Append(entries, req[c].entry))
    PROVE  Effects(c)
<1>1. Moves(c, "idle")
  BY EndMoves DEF TypeInv
<1> QED BY <1>1 DEF Effects, Shifts, Writes, Receipted, Stays, Moves, PastClaim, Recording

LEMMA RaiseEffects ==
    ASSUME TypeInv, NEW c \in Callers, Raise(c), pc[c] \in {"read", "write", "complete"},
           UNCHANGED <<executions, answers>>,
           entries' = entries \/ (pc[c] = "write" /\ entries' = Append(entries, req[c].entry))
    PROVE  Effects(c)
<1>1. \/ Moves(c, "idle") /\ req'[c] = Idle
      \/ /\ Moves(c, "lock") \/ (pc[c] # "complete" /\ Moves(c, "complete"))
         /\ req'[c].action = req[c].action /\ req'[c].outcome = "unknown"
  BY RaiseMoves DEF TypeInv
<1>2. CASE Moves(c, "idle") /\ req'[c] = Idle
  BY <1>2 DEF Effects, Shifts, Writes, Receipted, Stays, Moves, PastClaim, Recording
<1>3. CASE /\ Moves(c, "lock") \/ (pc[c] # "complete" /\ Moves(c, "complete"))
           /\ req'[c].action = req[c].action /\ req'[c].outcome = "unknown"
  BY <1>3 DEF Effects, Shifts, Writes, Receipted, Stays, Moves, Recording
<1> QED BY <1>1, <1>2, <1>3

LEMMA CallerEffects ==
    ASSUME TypeInv, NEW c \in Callers, CallerStep(c)
    PROVE  Effects(c)
<1>0. ThreadOK /\ LocalOK(c) /\ pc \in [Callers -> AllSteps]
  BY DEF TypeInv, ThreadOK
<1>1. CASE \E a \in Actions : Begin(c, a)
  <2>1. Goto(c, "idle", "claim") /\ UNCHANGED <<entries, executions, answers>>
    BY <1>1 DEF Begin, ledgerVars, fileVars
  <2>2. \A d \in Callers \ {c} : req'[d] = req[d]
    BY <1>1, <2>1, ThreadMoves DEF Begin, AllSteps, Steps
  <2>3. Moves(c, "claim")
    BY <1>0, <2>1, <2>2, GotoMoves DEF AllSteps, Steps
  <2> QED BY <2>1, <2>3
          DEF Effects, Shifts, Writes, Receipted, Stays, Moves, PastClaim, Recording
<1>2. CASE ClaimExecution(c)
  <2>0. pc[c] = "claim" /\ UNCHANGED <<entries, answers>>
    BY <1>2 DEF ClaimExecution, ledgerVars, fileVars
  <2>1. CASE End(c) /\ UNCHANGED executions
    BY <2>0, <2>1, EndEffects
  <2>2. CASE /\ executions[req[c].action] = None
             /\ executions' = [executions EXCEPT ![req[c].action] = "started"]
             /\ Goto(c, "claim", "resolve") /\ UNCHANGED req
    BY <1>0, <2>0, <2>2 DEF Goto, Effects, Shifts, Writes, Receipted, Stays
  <2> QED BY <1>2, <2>1, <2>2 DEF ClaimExecution
<1>3. CASE Resolve(c)
  <2>1. CASE End(c)
    BY <1>3, <2>1, EndEffects DEF Resolve, ledgerVars, fileVars
  <2>2. CASE Goto(c, "resolve", "execute") /\ UNCHANGED req
    BY <1>0, <1>3, <2>2
    DEF Resolve, ledgerVars, fileVars, Goto, Effects, Shifts, Writes, Receipted, Stays
  <2> QED BY <1>3, <2>1, <2>2 DEF Resolve
<1>4. CASE Execute(c)
  <2>0. PICK answer \in Outcomes \union {None} :
           /\ answers' = [answers EXCEPT ![req[c].action] = Append(@, Known(answer))]
           /\ \/ /\ answer # None
                 /\ Goto(c, "execute", "lock")
                 /\ req' = [req EXCEPT ![c].outcome = answer]
              \/ answer = None /\ Raise(c)
    BY <1>4 DEF Execute
  <2>1. pc[c] = "execute" /\ UNCHANGED <<entries, executions>>
    BY <1>4 DEF Execute, ledgerVars, fileVars
  <2>4. /\ Known(answer) \in Outcomes \union {None}
        /\ Known(answer) = IF answer = None THEN "unknown" ELSE answer
    BY DEF Known, Outcomes
  <2>2. CASE answer \in Outcomes /\ Goto(c, "execute", "lock")
             /\ req' = [req EXCEPT ![c].outcome = answer]
    <3>1. /\ \A d \in Callers \ {c} : req'[d] = req[d]
          /\ req'[c].outcome = answer /\ req'[c].action = req[c].action
      BY <2>2, ThreadMoves DEF AllSteps, Steps
    <3>2. Moves(c, "lock")
      BY <1>0, <2>2, <3>1, GotoMoves DEF AllSteps, Steps
    <3> QED BY <2>0, <2>1, <2>2, <2>4, <3>1, <3>2, RowsAssumption
            DEF Effects, Shifts, Writes, Receipted, Stays, Moves, Recording
  <2>3. CASE Raise(c)
    <3>1. /\ Moves(c, "lock") \/ Moves(c, "complete")
          /\ req'[c].action = req[c].action /\ req'[c].outcome = "unknown"
      <4>1. pc'[c] # "idle"
        BY <1>0, <2>1, <2>3 DEF Raise
      <4> QED BY <1>0, <2>1, <2>3, <4>1, RaiseMoves DEF Moves
    <3> QED BY <2>0, <2>1, <2>4, <3>1
            DEF Effects, Shifts, Writes, Receipted, Stays, Moves, Recording
  <2> QED BY <2>0, <2>2, <2>3
<1>5. CASE LockLedger(c)
  BY <1>0, <1>5
  DEF LockLedger, LockFile, fileVars, Goto, Effects, Shifts, Writes, Receipted, Stays, Recording
<1>6. CASE ReadLedger(c)
  <2>1. CASE Raise(c)
    BY <1>6, <2>1, RaiseEffects DEF ReadLedger, ledgerVars, fileVars
  <2>2. CASE /\ Goto(c, "read", "write") /\ UNCHANGED ledgerVars
             /\ req' = [req EXCEPT ![c].entry = NextEntry(entries, req[c].action, req[c].outcome)]
    <3>1. /\ \A d \in Callers \ {c} : req'[d] = req[d]
          /\ req'[c].outcome = req[c].outcome /\ req'[c].action = req[c].action
          /\ req'[c].entry = NextEntry(entries, req[c].action, req[c].outcome)
      BY <2>2, ThreadMoves DEF AllSteps, Steps
    <3>2. Moves(c, "write") /\ pc[c] = "read"
      BY <1>0, <2>2, <3>1, GotoMoves DEF AllSteps, Steps
    <3>3. UNCHANGED <<entries, executions, answers>>
      BY <1>6, <2>2 DEF ReadLedger, ledgerVars, fileVars
    <3> QED BY <3>1, <3>2, <3>3
            DEF Effects, Shifts, Writes, Receipted, Stays, Moves, Recording
  <2> QED BY <1>6, <2>1, <2>2 DEF ReadLedger
<1>7. CASE WriteLedger(c)
  <2>1. CASE WriteFails(c, req[c].entry) /\ Raise(c)
    BY <1>7, <2>1, RaiseEffects DEF WriteLedger, WriteFails, Put, PutPart, fileVars
  <2>2. CASE WriteLine(c, req[c].entry) /\ Goto(c, "write", "complete") /\ UNCHANGED req
    BY <1>0, <1>7, <2>2
    DEF WriteLedger, WriteLine, Goto, Effects, Shifts, Writes, Receipted, Stays, Recording, Put, PutPart, fileVars
  <2> QED BY <1>7, <2>1, <2>2 DEF WriteLedger
<1>8. CASE Complete(c)
  <2>1. CASE Raise(c) /\ UNCHANGED executions
    BY <1>8, <2>1, RaiseEffects DEF Complete, ledgerVars, fileVars
  <2>2. CASE End(c) /\ executions' = [executions EXCEPT ![req[c].action] = req[c].outcome]
    <3>1. Moves(c, "idle")
      BY <1>0, <2>2, EndMoves
    <3>2. pc[c] = "complete" /\ UNCHANGED <<entries, answers>>
      BY <1>8 DEF Complete, ledgerVars, fileVars
    <3> QED BY <2>2, <3>1, <3>2 DEF Effects, Shifts, Writes, Receipted, Stays, Moves
  <2> QED BY <1>8, <2>1, <2>2 DEF Complete
<1>9. CASE Crash(c)
  BY <1>9, EndEffects DEF Crash, Put, PutPart, fileVars
<1> QED BY <1>1, <1>2, <1>3, <1>4, <1>5, <1>6, <1>7, <1>8, <1>9 DEF CallerStep, Run

-----------------------------------------------------------------------------
(* An adapter is called once *)

OwnOK(c) ==
    /\ pc[c] \in PastClaim => executions[req[c].action] = "started"
    /\ pc[c] \in {"resolve", "execute"} => answers[req[c].action] = <<>>
    /\ pc[c] \in Recording /\ req[c].outcome \in {"success", "failed"} =>
          answers[req[c].action] = <<req[c].outcome>>
Alone == \A c, d \in Callers :
    pc[c] \in PastClaim /\ pc[d] \in PastClaim /\ req[c].action = req[d].action => c = d
RowOK(a) == Len(answers[a]) <= 1 /\ (answers[a] # <<>> => executions[a] # None)

UseInv == Alone /\ (\A c \in Callers : OwnOK(c)) /\ (\A a \in Actions : RowOK(a))

LEMMA UseInit == Init => UseInv
  BY DEF Init, UseInv, Alone, OwnOK, RowOK, PastClaim, Recording

LEMMA UseStepCaller ==
    ASSUME TypeInv, TypeInv', UseInv, NEW c \in Callers, Effects(c)
    PROVE  UseInv'
<1> DEFINE a == req[c].action
<1>0. /\ LocalOK(c) /\ OwnOK(c) /\ Shifts(c) /\ \A d \in Callers \ {c} : Stays(d)
      /\ executions \in [Actions -> {None, "started"} \union Outcomes]
      /\ answers \in [Actions -> Seq(Outcomes \union {None})]
      /\ pc[c] # "idle" => a \in Actions
      /\ "started" # None /\ None \notin Outcomes
  BY RowsAssumption DEF TypeInv, StoreOK, LocalOK, UseInv, Effects
\* Whoever is past its claim now was already, with that action, or claims it.
<1>1. pc'[c] \in PastClaim =>
         /\ a \in Actions /\ req'[c].action = a
         /\ pc[c] \in PastClaim \/ (pc[c] = "claim" /\ executions[a] = None)
  BY <1>0 DEF Shifts, PastClaim, Recording
<1>2. ASSUME NEW d \in Callers \ {c}, pc[d] \in PastClaim, pc'[c] \in PastClaim
      PROVE  req[d].action # a
  BY <1>0, <1>1, <1>2 DEF UseInv, Alone, OwnOK
<1>3. Alone'
  BY <1>0, <1>1, <1>2 DEF UseInv, Alone, Stays
<1>4. ASSUME NEW b \in Actions, b # a PROVE executions'[b] = executions[b] /\ answers'[b] = answers[b]
  BY <1>0, <1>4 DEF Shifts
<1>5. ASSUME NEW d \in Callers \ {c} PROVE OwnOK(d)'
  <2>1. pc'[d] = pc[d] /\ req'[d] = req[d] /\ OwnOK(d) /\ LocalOK(d)
    BY <1>0 DEF Stays, UseInv, TypeInv
  <2>2. CASE pc[d] \in PastClaim
    <3>1. req[d].action \in Actions
      BY <2>1, <2>2 DEF LocalOK, PastClaim, Recording
    <3>2. CASE req[d].action # a
      BY <1>4, <2>1, <3>1, <3>2 DEF OwnOK
    <3>3. CASE req[d].action = a
      <4>1. pc[c] \notin PastClaim /\ executions[a] # None
        BY <1>0, <2>1, <2>2, <3>3 DEF UseInv, Alone, OwnOK
      <4>2. UNCHANGED <<executions, answers>>
        BY <1>0, <4>1 DEF Shifts, PastClaim, Recording
      <4> QED BY <2>1, <4>2 DEF OwnOK
    <3> QED BY <3>2, <3>3
  <2> QED BY <2>1, <2>2 DEF OwnOK, PastClaim
<1>6. OwnOK(c)'
  <2>1. CASE pc'[c] \notin PastClaim
    BY <2>1 DEF OwnOK, PastClaim
  <2>2. CASE /\ pc[c] = "claim" /\ pc'[c] = "resolve" /\ req' = req /\ executions[a] = None
             /\ executions' = [executions EXCEPT ![a] = "started"] /\ UNCHANGED answers
    <3>1. answers[a] = <<>>
      BY <1>0, <2>2 DEF UseInv, RowOK
    <3> QED BY <1>0, <2>2, <3>1 DEF OwnOK, Recording
  <2>3. CASE /\ pc[c] = "resolve" /\ pc'[c] = "execute" /\ req' = req
             /\ UNCHANGED <<executions, answers>>
    BY <1>0, <2>3 DEF OwnOK, PastClaim, Recording
  <2>4. CASE /\ pc[c] = "execute" /\ pc'[c] \in Recording /\ req'[c].action = a
             /\ \E answer \in Outcomes \union {None} :
                   /\ answers' = [answers EXCEPT ![a] = Append(@, answer)]
                   /\ req'[c].outcome \in {answer, "unknown"}
             /\ UNCHANGED executions
    <3>1. answers[a] = <<>> /\ executions[a] = "started"
      BY <1>0, <2>4 DEF OwnOK, PastClaim
    <3>2. PICK answer \in Outcomes \union {None} :
             /\ answers' = [answers EXCEPT ![a] = Append(@, answer)]
             /\ req'[c].outcome \in {answer, "unknown"}
      BY <2>4
    <3>3. answers'[a] = <<answer>>
      BY <1>0, <2>4, <3>1, <3>2
    <3>4. pc'[c] \notin {"resolve", "execute"}
      BY <2>4 DEF Recording
    <3>5. req'[c].outcome \in {"success", "failed"} => answers'[a] = <<req'[c].outcome>>
      BY <3>2, <3>3
    <3> QED BY <2>4, <3>1, <3>4, <3>5 DEF OwnOK
  <2>5. CASE /\ pc[c] \in Recording /\ pc'[c] \in Recording /\ req'[c].action = a
             /\ req'[c].outcome \in {req[c].outcome, "unknown"}
             /\ UNCHANGED <<executions, answers>>
    BY <1>0, <2>5 DEF OwnOK, PastClaim, Recording
  <2>6. CASE pc'[c] = "idle"
    BY <2>6 DEF OwnOK, PastClaim, Recording
  <2> QED BY <1>0, <2>1, <2>2, <2>3, <2>4, <2>5, <2>6 DEF Shifts
<1>7. ASSUME NEW b \in Actions PROVE RowOK(b)'
  <2>0. RowOK(b)
    BY DEF UseInv
  <2>1. CASE b # a
    BY <1>4, <2>0, <2>1 DEF RowOK
  <2>2. CASE b = a /\ UNCHANGED answers
    <3>1. executions[a] # None => executions'[a] # None
      <4>1. pc[c] = "complete" => req[c].outcome # None
        BY <1>0 DEF LocalOK, Recording
      <4> QED BY <1>0, <2>2, <4>1 DEF Shifts
    <3> QED BY <2>0, <2>2, <3>1 DEF RowOK
  <2>3. CASE b = a /\ pc[c] = "execute" /\ UNCHANGED executions
    <3>1. answers[a] = <<>> /\ executions[a] = "started"
      BY <1>0, <2>3 DEF OwnOK, PastClaim
    <3>2. CASE answers' = answers
      BY <1>0, <2>0, <2>3, <3>1, <3>2 DEF RowOK
    <3>3. ASSUME NEW answer \in Outcomes \union {None},
                 answers' = [answers EXCEPT ![a] = Append(@, answer)]
          PROVE  RowOK(b)'
      <4>1. answers'[a] = <<answer>>
        BY <1>0, <2>3, <3>1, <3>3
      <4> QED BY <1>0, <2>3, <3>1, <4>1 DEF RowOK
    <3> QED BY <1>0, <2>3, <3>2, <3>3 DEF Shifts
  <2> QED BY <1>0, <2>1, <2>2, <2>3 DEF Shifts
<1> QED BY <1>3, <1>5, <1>6, <1>7 DEF UseInv

LEMMA UseStep == TypeInv /\ UseInv /\ [Next]_vars => UseInv'
<1> SUFFICES ASSUME TypeInv, UseInv, [Next]_vars PROVE UseInv'
  OBVIOUS
<1>1. ASSUME NEW c \in Callers, CallerStep(c) PROVE UseInv'
  BY <1>1, TypeStep, CallerEffects, UseStepCaller
<1>2. CASE UNCHANGED vars
  BY <1>2 DEF vars, bridgeVars, UseInv, Alone, OwnOK, RowOK
<1> QED BY <1>1, <1>2, NextCases

LEMMA UseAlways == Spec => []UseInv
<1>1. TypeInv /\ UseInv /\ [Next]_vars => UseInv'
  BY UseStep
<1> QED BY <1>1, UseInit, TypeAlways, PTL DEF Spec

\* However many callers run an action, and whoever dies, its adapter is called once.
THEOREM ActionsExecuteOnce == Spec => []ExecutesOnce
<1>1. UseInv => ExecutesOnce
  BY DEF UseInv, RowOK, ExecutesOnce
<1> QED BY <1>1, UseAlways, PTL

-----------------------------------------------------------------------------
(* The ledger is a chain *)

LedgerInv ==
    /\ Chained(entries)
    /\ \A c \in Callers : pc[c] = "write" =>
          req[c].entry = NextEntry(entries, req[c].action, req[c].outcome)

\* The next entry of a chain makes a chain.
LEMMA NextEntryChains ==
    ASSUME NEW S, NEW lines \in Seq(S), Chained(lines), NEW action, NEW outcome
    PROVE  Chained(Append(lines, NextEntry(lines, action, outcome)))
<1> DEFINE entry == NextEntry(lines, action, outcome)
           longer == Append(lines, entry)
<1>1. /\ entry.sequence = Len(lines) + 1
      /\ entry.previous = IF lines = <<>> THEN Genesis ELSE lines[Len(lines)]
  BY DEF NextEntry
<1> HIDE DEF entry
<1>2. lines \in Seq(S \union {entry})
  OBVIOUS
<1>3. /\ DOMAIN longer = 1..(Len(lines) + 1) /\ Len(lines) \in Nat
      /\ \A i \in 1..Len(lines) : longer[i] = lines[i]
      /\ longer[Len(lines) + 1] = entry
      /\ DOMAIN lines = 1..Len(lines)
      /\ lines = <<>> <=> Len(lines) = 0
  BY <1>2
<1> HIDE DEF longer
<1>4. ASSUME NEW i \in 1..(Len(lines) + 1)
      PROVE  /\ longer[i].sequence = i
             /\ longer[i].previous = IF i = 1 THEN Genesis ELSE longer[i - 1]
  <2>1. CASE i \in 1..Len(lines)
    <3>1. longer[i] = lines[i] /\ (i # 1 => longer[i - 1] = lines[i - 1])
      BY <1>3, <2>1
    <3> QED BY <1>3, <2>1, <3>1 DEF Chained
  <2>2. CASE i = Len(lines) + 1
    <3>1. i # 1 => longer[i - 1] = lines[Len(lines)]
      BY <1>3, <2>2
    <3> QED BY <1>1, <1>3, <2>2, <3>1
  <2> QED BY <1>3, <2>1, <2>2
<1> QED BY <1>3, <1>4 DEF Chained, longer, entry

LEMMA LedgerStepCaller ==
    ASSUME TypeInv, LedgerInv, NEW c \in Callers, Effects(c)
    PROVE  LedgerInv'
<1>0. Writes(c) /\ (\A d \in Callers \ {c} : Stays(d)) /\ IsLedger(entries) /\ LocalOK(c)
  BY DEF Effects, TypeInv, StoreOK
<1>1. CASE entries' = entries
  BY <1>0, <1>1 DEF LedgerInv, Writes, Stays
<1>2. CASE pc[c] = "write" /\ pc'[c] # "write" /\ entries' = Append(entries, req[c].entry)
  <2>1. Chained(entries')
    <3>1. PICK S : entries \in Seq(S)
      BY <1>0 DEF IsLedger
    <3> QED BY <1>2, <3>1, NextEntryChains DEF LedgerInv
  <2>2. ASSUME NEW d \in Callers PROVE pc'[d] # "write"
    BY <1>0, <1>2 DEF TypeInv, LocalOK, Stays
  <2> QED BY <2>1, <2>2 DEF LedgerInv
<1> QED BY <1>0, <1>1, <1>2 DEF Writes

LEMMA LedgerAlways == Spec => []LedgerInv
<1>1. Init => LedgerInv
  BY DEF Init, LedgerInit, LedgerInv, Chained
<1>2. TypeInv /\ LedgerInv /\ [Next]_vars => LedgerInv'
  <2> SUFFICES ASSUME TypeInv, LedgerInv, [Next]_vars PROVE LedgerInv'
    OBVIOUS
  <2>1. ASSUME NEW c \in Callers, CallerStep(c) PROVE LedgerInv'
    BY <2>1, CallerEffects, LedgerStepCaller
  <2>2. CASE UNCHANGED vars
    BY <2>2 DEF vars, ledgerVars, fileVars, bridgeVars, LedgerInv
  <2> QED BY <2>1, <2>2, NextCases
<1> QED BY <1>1, <1>2, TypeAlways, PTL DEF Spec

\* Whatever callers append at once and whatever writes fail, the file is one chain.
THEOREM LedgerIsChained == Spec => []LedgerChained
<1>1. LedgerInv => LedgerChained
  BY DEF LedgerInv, LedgerChained
<1> QED BY <1>1, LedgerAlways, PTL

-----------------------------------------------------------------------------
(* The receipt comes first *)

HasReceipt(lines, a, outcome) ==
    \E i \in DOMAIN lines : lines[i].action = a /\ lines[i].outcome = outcome

ReceiptInv ==
    /\ CompletedHasReceipt
    /\ \A c \in Callers :
          pc[c] = "complete" /\ req[c].outcome \in {"success", "failed"} =>
              HasReceipt(entries, req[c].action, req[c].outcome)

LEMMA ReceiptsStay ==
    ASSUME NEW S, NEW lines \in Seq(S), NEW entry, NEW a, NEW outcome
    PROVE  /\ HasReceipt(lines, a, outcome) => HasReceipt(Append(lines, entry), a, outcome)
           /\ entry.action = a /\ entry.outcome = outcome =>
                 HasReceipt(Append(lines, entry), a, outcome)
<1>1. lines \in Seq(S \union {entry})
  OBVIOUS
<1> DEFINE longer == Append(lines, entry)
<1>2. /\ DOMAIN longer = 1..(Len(lines) + 1) /\ Len(lines) \in Nat
      /\ \A i \in 1..Len(lines) : longer[i] = lines[i]
      /\ longer[Len(lines) + 1] = entry
      /\ DOMAIN lines = 1..Len(lines)
  BY <1>1
<1> HIDE DEF longer
<1>3. Len(lines) + 1 \in DOMAIN longer
  BY <1>2
<1>4. DOMAIN lines \subseteq DOMAIN longer
  BY <1>2
<1>5. HasReceipt(lines, a, outcome) => HasReceipt(longer, a, outcome)
  BY <1>2, <1>4 DEF HasReceipt
<1>6. entry.action = a /\ entry.outcome = outcome => HasReceipt(longer, a, outcome)
  BY <1>2, <1>3 DEF HasReceipt
<1> QED BY <1>5, <1>6 DEF longer

LEMMA ReceiptStepCaller ==
    ASSUME TypeInv, TypeInv', UseInv, LedgerInv, ReceiptInv, NEW c \in Callers, Effects(c)
    PROVE  ReceiptInv'
<1> DEFINE a == req[c].action
<1>0. /\ Shifts(c) /\ Writes(c) /\ Receipted(c) /\ \A d \in Callers \ {c} : Stays(d)
      /\ LocalOK(c) /\ OwnOK(c)
      /\ executions \in [Actions -> {None, "started"} \union Outcomes]
      /\ answers \in [Actions -> Seq(Outcomes \union {None})]
      /\ pc[c] # "idle" => a \in Actions
  BY DEF Effects, TypeInv, StoreOK, LocalOK, UseInv
<1>1. PICK S : entries \in Seq(S)
  BY DEF TypeInv, StoreOK, IsLedger
<1>2. ASSUME NEW b, NEW outcome, HasReceipt(entries, b, outcome)
      PROVE  HasReceipt(entries', b, outcome)
  <2>1. entries' = entries \/ entries' = Append(entries, req[c].entry)
    BY <1>0 DEF Writes
  <2> QED BY <1>1, <1>2, <2>1, ReceiptsStay
<1>3. ASSUME NEW d \in Callers, pc'[d] = "complete", req'[d].outcome \in {"success", "failed"}
      PROVE  HasReceipt(entries', req'[d].action, req'[d].outcome)
  <2>1. CASE d # c
    BY <1>0, <1>2, <1>3, <2>1 DEF ReceiptInv, Stays
  <2>2. CASE d = c
    <3>1. /\ pc[c] = "write" /\ entries' = Append(entries, req[c].entry)
          /\ req'[c].action = a /\ req'[c].outcome = req[c].outcome
      BY <1>0, <1>3, <2>2 DEF Receipted
    <3>2. req[c].entry = NextEntry(entries, a, req[c].outcome)
      BY <3>1 DEF LedgerInv
    <3>3. /\ NextEntry(entries, a, req[c].outcome).action = a
          /\ NextEntry(entries, a, req[c].outcome).outcome = req[c].outcome
      BY DEF NextEntry
    <3> QED BY <1>1, <2>2, <3>1, <3>2, <3>3, ReceiptsStay
  <2> QED BY <2>1, <2>2
<1>4. CompletedHasReceipt'
  <2> SUFFICES ASSUME NEW b \in Actions, executions'[b] \in {"success", "failed"}
               PROVE  /\ answers'[b] = <<executions'[b]>>
                      /\ HasReceipt(entries', b, executions'[b])
    BY DEF CompletedHasReceipt, HasReceipt
  <2>1. CASE executions'[b] = executions[b]
    <3>1. answers[b] = <<executions[b]>> /\ HasReceipt(entries, b, executions[b])
      BY <2>1 DEF ReceiptInv, CompletedHasReceipt, HasReceipt
    <3>2. answers'[b] = answers[b]
      <4>1. pc[c] = "execute" => b # a
        BY <1>0, <2>1 DEF OwnOK, PastClaim
      <4> QED BY <1>0, <4>1 DEF Shifts
    <3> QED BY <1>2, <2>1, <3>1, <3>2
  <2>2. CASE /\ b = a /\ pc[c] = "complete" /\ executions'[b] = req[c].outcome
             /\ UNCHANGED answers
    <3>1. answers[a] = <<req[c].outcome>>
      BY <1>0, <2>2 DEF OwnOK, Recording
    <3>2. HasReceipt(entries, a, req[c].outcome)
      BY <2>2 DEF ReceiptInv
    <3> QED BY <1>2, <2>2, <3>1, <3>2
  <2>3. CASE executions'[b] = "started"
    BY <2>3
  <2> QED BY <1>0, <2>1, <2>2, <2>3 DEF Shifts
<1> QED BY <1>3, <1>4 DEF ReceiptInv

LEMMA ReceiptAlways == Spec => []ReceiptInv
<1>1. Init => ReceiptInv
  BY RowsAssumption DEF Init, ReceiptInv, CompletedHasReceipt, Outcomes
<1>2. TypeInv /\ UseInv /\ LedgerInv /\ ReceiptInv /\ [Next]_vars => ReceiptInv'
  <2> SUFFICES ASSUME TypeInv, UseInv, LedgerInv, ReceiptInv, [Next]_vars PROVE ReceiptInv'
    OBVIOUS
  <2>1. ASSUME NEW c \in Callers, CallerStep(c) PROVE ReceiptInv'
    BY <2>1, TypeStep, CallerEffects, ReceiptStepCaller
  <2>2. CASE UNCHANGED vars
    BY <2>2 DEF vars, ledgerVars, fileVars, bridgeVars, ReceiptInv, CompletedHasReceipt
  <2> QED BY <2>1, <2>2, NextCases
<1> QED BY <1>1, <1>2, TypeAlways, UseAlways, LedgerAlways, PTL DEF Spec

\* A row says success or failed only if the adapter did and a receipt of that outcome
\* was written whole to the file, in this append or an earlier one.
THEOREM CompletionsHaveReceipts == Spec => []CompletedHasReceipt
<1>1. ReceiptInv => CompletedHasReceipt
  BY DEF ReceiptInv
<1> QED BY <1>1, ReceiptAlways, PTL

-----------------------------------------------------------------------------
(* The claim comes first *)

\* What a caller's step is to the abstract authority: a claim consumes, the call of
\* the adapter is the effect, a completion concludes, and nothing else is seen.
LEMMA ConsumptionStepCaller ==
    ASSUME TypeInv, UseInv, NEW c \in Callers, Effects(c)
    PROVE  [Consumption!Next]_(Consumption!consumptionVars)
<1> DEFINE Consumed == {b \in Actions : executions[b] # None}
           Called == [b \in Actions |-> Len(answers[b])]
           Said(rows) == [b \in Actions |-> IF rows[b] = "started" THEN None ELSE rows[b]]
<1>0. /\ Shifts(c) /\ LocalOK(c) /\ OwnOK(c)
      /\ executions \in [Actions -> {None, "started"} \union Outcomes]
      /\ answers \in [Actions -> Seq(Outcomes \union {None})]
      /\ pc[c] # "idle" => req[c].action \in Actions
      /\ None \notin {"started"} \union Outcomes
  BY RowsAssumption DEF Effects, TypeInv, StoreOK, LocalOK, UseInv
<1>1. PICK a : a = req[c].action
  OBVIOUS
<1>2. CASE /\ pc[c] = "claim" /\ executions[a] = None
           /\ executions' = [executions EXCEPT ![a] = "started"] /\ answers' = answers
  <2>1. a \in Actions /\ a \notin Consumed
    BY <1>0, <1>2, <1>1
  <2>2. Consumed' = Consumed \union {a}
    BY <1>0, <1>2, <2>1
  <2>3. Said(executions') = Said(executions)
    BY <1>0, <1>2, <2>1
  <2>4. Called' = Called
    BY <1>2
  <2>5. Consumption!Consume(a)
    BY <2>1, <2>2, <2>3, <2>4 DEF Consumption!Consume
  <2> QED BY <2>1, <2>5 DEF Consumption!Next
<1>3. CASE /\ pc[c] = "execute" /\ executions' = executions
           /\ \E answer \in Outcomes \union {None} :
                 answers' = [answers EXCEPT ![a] = Append(@, answer)]
  <2>1. a \in Actions /\ executions[a] = "started" /\ answers[a] = <<>>
    BY <1>0, <1>3, <1>1 DEF OwnOK, PastClaim
  <2>2. PICK answer \in Outcomes \union {None} :
           answers' = [answers EXCEPT ![a] = Append(@, answer)]
    BY <1>3
  <2>3. answers'[a] = <<answer>> /\ \A b \in Actions \ {a} : answers'[b] = answers[b]
    BY <1>0, <2>1, <2>2
  <2>4. Called[a] = 0 /\ Called'[a] = 1 /\ \A b \in Actions \ {a} : Called'[b] = Called[b]
    BY <2>1, <2>3
  <2>5. Called' = [Called EXCEPT ![a] = 1]
    BY <2>1, <2>4
  <2>6. a \in Consumed /\ Said(executions)[a] = None /\ Consumed' = Consumed
    BY <1>0, <1>3, <2>1
  <2>7. Consumption!Affect(a)
    BY <1>3, <2>4, <2>5, <2>6 DEF Consumption!Affect
  <2> QED BY <2>1, <2>7 DEF Consumption!Next
<1>4. CASE /\ pc[c] = "complete" /\ answers' = answers
           /\ executions' = [executions EXCEPT ![a] = req[c].outcome]
  <2>1. a \in Actions /\ executions[a] = "started" /\ req[c].outcome \in Outcomes
    BY <1>0, <1>4, <1>1 DEF OwnOK, LocalOK, PastClaim, Recording
  <2>2. req[c].outcome \notin {None, "started"}
    BY <1>0, <2>1 DEF Outcomes
  <2>3. Consumed' = Consumed /\ a \in Consumed
    BY <1>0, <1>4, <2>1, <2>2
  <2>4. Said(executions') = [Said(executions) EXCEPT ![a] = req[c].outcome]
    BY <1>0, <1>4, <2>1, <2>2
  <2>5. Called' = Called /\ Said(executions)[a] = None
    BY <1>4, <2>1
  <2>6. Consumption!Conclude(a)
    BY <2>1, <2>3, <2>4, <2>5 DEF Consumption!Conclude
  <2> QED BY <2>1, <2>6 DEF Consumption!Next
<1>5. CASE UNCHANGED <<executions, answers>>
  BY <1>5 DEF Consumption!consumptionVars
<1> QED BY <1>0, <1>1, <1>2, <1>3, <1>4, <1>5 DEF Shifts

\* Whatever callers, adapters, disk and crashes do, the bridge consumes an action
\* before its adapter is called, calls it once, and says of it one thing, finally.
THEOREM BridgeConsumesFirst == Spec => ConsumesFirst
<1>1. Init => Consumption!Init
  <2>1. Init => \A a \in Actions : executions[a] = None /\ answers[a] = <<>>
    BY DEF Init
  <2>2. None # "started"
    BY RowsAssumption
  <2> QED BY <2>1, <2>2 DEF Consumption!Init
<1>2. TypeInv /\ UseInv /\ [Next]_vars => [Consumption!Next]_(Consumption!consumptionVars)
  <2>1. ASSUME TypeInv, UseInv, NEW c \in Callers, CallerStep(c)
        PROVE  [Consumption!Next]_(Consumption!consumptionVars)
    BY <2>1, CallerEffects, ConsumptionStepCaller
  <2>2. ASSUME UNCHANGED vars PROVE UNCHANGED Consumption!consumptionVars
    BY <2>2 DEF vars, bridgeVars, Consumption!consumptionVars
  <2> QED BY <2>1, <2>2, NextCases
<1> QED BY <1>1, <1>2, TypeAlways, UseAlways, PTL DEF Spec, ConsumesFirst, Consumption!Spec

-----------------------------------------------------------------------------
(* How far the ledger records successes *)

\* With a disk that writes and callers that live.
Undisturbed == DiskFailures = {} /\ MaxCrashes = 0

\* A success that is in the ledger, or on its way there.
Pending(a, c) == /\ pc[c] \in {"lock", "read", "write"}
                 /\ req[c].action = a /\ req[c].outcome = "success"
SuccessInv ==
    /\ ~torn /\ ended
    /\ \A a \in Actions : answers[a] = <<"success">> =>
          HasReceipt(entries, a, "success") \/ \E c \in Callers : Pending(a, c)

\* A call on its way to the ledger gets there: only a torn file, a write that fails
\* or a crash could turn it back.
LEMMA PendingStep ==
    ASSUME Undisturbed, TypeInv, LedgerInv, ~torn, NEW c \in Callers, CallerStep(c),
           NEW a \in Actions, Pending(a, c)
    PROVE  HasReceipt(entries', a, "success") \/ Pending(a, c)'
<1>0. /\ LocalOK(c) /\ ThreadOK /\ pc \in [Callers -> AllSteps]
      /\ pc[c] \in {"lock", "read", "write"}
      /\ req[c].action = a /\ req[c].outcome = "success"
  BY DEF TypeInv, ThreadOK, Pending
<1>1. ~Crash(c)
  BY DEF Crash, Undisturbed, TypeInv, StoreOK, Put, PutPart, fileVars
<1>2. LockLedger(c) \/ ReadLedger(c) \/ WriteLedger(c)
  BY <1>0, <1>1 DEF CallerStep, Run, Begin, ClaimExecution, Resolve, Execute, Complete, Goto
<1>3. CASE LockLedger(c)
  BY <1>0, <1>3 DEF LockLedger, Goto, Pending
<1>4. CASE ReadLedger(c)
  <2>1. /\ Goto(c, "read", "write")
        /\ req' = [req EXCEPT ![c].entry = NextEntry(entries, req[c].action, req[c].outcome)]
    BY <1>4 DEF ReadLedger
  <2>2. req'[c].outcome = req[c].outcome /\ req'[c].action = req[c].action
    BY <2>1, ThreadMoves DEF AllSteps, Steps
  <2> QED BY <1>0, <2>1, <2>2 DEF Goto, Pending
<1>5. CASE WriteLedger(c)
  <2>1. pc[c] = "write" /\ WriteLine(c, req[c].entry)
    BY <1>5 DEF WriteLedger, WriteFails, Undisturbed, Put, PutPart, fileVars
  <2>2. req[c].entry = NextEntry(entries, a, "success") /\ entries' = Append(entries, req[c].entry)
    BY <1>0, <2>1 DEF LedgerInv, WriteLine, Put, PutPart, fileVars
  <2>3. /\ NextEntry(entries, a, "success").action = a
        /\ NextEntry(entries, a, "success").outcome = "success"
    BY DEF NextEntry
  <2>4. PICK S : entries \in Seq(S)
    BY DEF TypeInv, StoreOK, IsLedger
  <2> QED BY <2>2, <2>3, <2>4, ReceiptsStay
<1> QED BY <1>2, <1>3, <1>4, <1>5

\* Only a write that fails, or a crash, tears the file.
LEMMA FileStaysWhole ==
    ASSUME Undisturbed, TypeInv, ~torn, ended, NEW c \in Callers, CallerStep(c)
    PROVE  ~torn' /\ ended'
<1>1. ~Crash(c)
  BY DEF Crash, Undisturbed, TypeInv, StoreOK, Put, PutPart, fileVars
<1>2. ASSUME Run(c) PROVE ~torn' /\ ended'
  <2>1. CASE ClaimExecution(c)
    BY <2>1 DEF ClaimExecution, ledgerVars, fileVars
  <2>2. CASE Resolve(c)
    BY <2>2 DEF Resolve, ledgerVars, fileVars
  <2>3. CASE Execute(c)
    BY <2>3 DEF Execute, ledgerVars, fileVars
  <2>4. CASE LockLedger(c)
    BY <2>4 DEF LockLedger, LockFile, fileVars
  <2>5. CASE ReadLedger(c)
    <3>1. UNCHANGED ledgerVars
      BY <2>5, Zenon DEF ReadLedger
    <3> QED BY <3>1 DEF ledgerVars, fileVars
  <2>6. CASE WriteLedger(c)
    BY <2>6 DEF WriteLedger, WriteLine, WriteFails, Undisturbed, Put, PutPart, fileVars
  <2>7. CASE Complete(c)
    BY <2>7 DEF Complete, ledgerVars, fileVars
  <2> QED BY <1>2, <2>1, <2>2, <2>3, <2>4, <2>5, <2>6, <2>7 DEF Run
<1>3. ASSUME NEW b \in Actions, Begin(c, b) PROVE ~torn' /\ ended'
  BY <1>3 DEF Begin, ledgerVars, fileVars
<1> QED BY <1>1, <1>2, <1>3 DEF CallerStep

\* What the adapter has said changes only when it is called, and then its caller
\* has the answer in hand.
LEMMA AnswerInHand ==
    ASSUME TypeInv, UseInv, NEW c \in Callers, CallerStep(c), NEW a \in Actions,
           answers'[a] # answers[a], answers'[a] = <<"success">>
    PROVE  Pending(a, c)'
<1>0. /\ Effects(c) /\ OwnOK(c) /\ LocalOK(c) /\ pc \in [Callers -> AllSteps]
      /\ answers \in [Actions -> Seq(Outcomes \union {None})]
  BY CallerEffects DEF TypeInv, StoreOK, ThreadOK, UseInv
<1>1. pc[c] = "execute" /\ req[c].action = a /\ answers[a] = <<>>
  <2>1. pc[c] = "execute"
    BY <1>0 DEF Effects, Shifts
  <2>2. req[c].action = a
    BY <1>0, <2>1 DEF Effects, Shifts, LocalOK
  <2> QED BY <1>0, <2>1, <2>2 DEF OwnOK
<1>2. Execute(c)
  <2>1. ~Crash(c)
    BY <1>0 DEF Crash, Put, PutPart, fileVars
  <2> QED BY <1>1, <2>1 DEF CallerStep, Run, Begin, ClaimExecution, Resolve, LockLedger,
                        ReadLedger, WriteLedger, Complete, Goto
<1>3. PICK answer \in Outcomes \union {None} :
         /\ answers' = [answers EXCEPT ![req[c].action] = Append(@, Known(answer))]
         /\ \/ /\ answer # None
               /\ Goto(c, "execute", "lock")
               /\ req' = [req EXCEPT ![c].outcome = answer]
            \/ answer = None /\ Raise(c)
  BY <1>2 DEF Execute
<1>4. answer = "success"
  <2>1. answers'[a] = <<Known(answer)>>
    BY <1>0, <1>1, <1>3
  <2> QED BY <2>1 DEF Known
<1>5. Goto(c, "execute", "lock") /\ req' = [req EXCEPT ![c].outcome = answer] /\ answer \in Outcomes
  BY <1>3, <1>4, RowsAssumption DEF Outcomes
<1>6. req'[c].outcome = answer /\ req'[c].action = req[c].action
  BY <1>5, ThreadMoves DEF AllSteps, Steps
<1> QED BY <1>0, <1>1, <1>4, <1>5, <1>6 DEF Goto, Pending

LEMMA SuccessStep ==
    ASSUME Undisturbed, TypeInv, UseInv, LedgerInv, SuccessInv, [Next]_vars
    PROVE  SuccessInv'
<1>1. ASSUME NEW c \in Callers, CallerStep(c) PROVE SuccessInv'
  <2>1. Effects(c) /\ ~torn /\ ~torn' /\ ended'
    BY <1>1, CallerEffects, FileStaysWhole DEF SuccessInv
  <2>2. ASSUME NEW a \in Actions, answers'[a] = <<"success">>
        PROVE  HasReceipt(entries', a, "success") \/ \E d \in Callers : Pending(a, d)'
    <3>1. CASE answers'[a] # answers[a]
      BY <1>1, <2>2, <3>1, AnswerInHand
    <3>2. CASE answers[a] = <<"success">> /\ HasReceipt(entries, a, "success")
      <4>1. entries' = entries \/ entries' = Append(entries, req[c].entry)
        BY <2>1 DEF Effects, Writes
      <4>2. PICK S : entries \in Seq(S)
        BY DEF TypeInv, StoreOK, IsLedger
      <4> QED BY <3>2, <4>1, <4>2, ReceiptsStay
    <3>3. ASSUME NEW d \in Callers, Pending(a, d)
          PROVE  HasReceipt(entries', a, "success") \/ Pending(a, d)'
      <4>1. CASE d = c
        BY <1>1, <2>1, <3>3, <4>1, PendingStep
      <4>2. CASE d # c
        BY <2>1, <3>3, <4>2 DEF Effects, Stays, Pending
      <4> QED BY <4>1, <4>2
    <3> QED BY <2>2, <3>1, <3>2, <3>3 DEF SuccessInv
  <2> QED BY <2>1, <2>2 DEF SuccessInv
<1>2. CASE UNCHANGED vars
  BY <1>2 DEF vars, ledgerVars, fileVars, bridgeVars, SuccessInv, Pending
<1> QED BY <1>1, <1>2, NextCases

\* As long as no write fails and no caller dies, every success of an adapter is in
\* the ledger when its call is over, whatever the database's lock does to the row.
THEOREM SuccessesRecorded ==
    ASSUME Undisturbed
    PROVE  Spec => []SuccessesAreRecorded
<1>1. Init => SuccessInv
  BY DEF Init, LedgerInit, SuccessInv
<1>2. TypeInv /\ UseInv /\ LedgerInv /\ SuccessInv /\ [Next]_vars => SuccessInv'
  BY SuccessStep
<1>3. TypeInv /\ SuccessInv => SuccessesAreRecorded
  BY DEF SuccessInv, Pending, SuccessesAreRecorded, HasReceipt
<1> QED BY <1>1, <1>2, <1>3, TypeAlways, UseAlways, LedgerAlways, PTL DEF Spec
================================================================================
