------------------------ MODULE PilotExecution_proofs ------------------------
(***************************************************************************)
(* What PilotExecution satisfies for all constants, with proofs.           *)
(*                                                                         *)
(* Inductive invariants, each with a step lemma named after it:            *)
(*    TypeInv        types of the records, and of each handler's locals    *)
(*    UseInv         between claim and PUT a thread alone owns its permit  *)
(*    ReplayInv      the claims are in one line of replay states           *)
(*    PastInv        a checkpoint commits only claims that were made       *)
(*    LockInv        whoever is past the trust lock holds it               *)
(*    CheckpointInv  in one process, what a thread holds is in the file    *)
(*    FreshInv       what a deciding thread has read is in its window      *)
(*    AttemptInv     from claim to record a thread alone owns its permit   *)
(*    TruthInv       what is taken for a merge is one, at the approved head*)
(*    FailureInv     what is taken for a failure has no effect             *)
(* The lemmas named Enters... say by which steps a part of the handlers is *)
(* entered; they are all that is needed of the actions that are not named. *)
(***************************************************************************)
EXTENDS PilotExecution, ControlPlane_proofs

-----------------------------------------------------------------------------
(* Types *)

\* TypeOK in three parts: the control plane and the provider, what is stored,
\* and what belongs to the threads.
WorldOK == CPTypeOK /\ PullTypeOK
StoreOK ==
    /\ evaluations \subseteq Evaluations
    /\ permits \in [PermitIds -> Permits \union {None}]
    /\ executions \subseteq Executions
    /\ reconciliations \subseteq Reconciliations
    /\ audit \subseteq Events
    /\ claims \subseteq ClaimRows
    /\ checkpoint \in Checkpoints
    /\ expired \subseteq PermitIds
    /\ crashes \in 0..MaxCrashes /\ interrupted \subseteq Followed
    /\ dispatched \in [PermitIds -> Nat]
ThreadOK ==
    /\ lock \in [Processes -> Threads \union {None}]
    /\ pc \in [Threads -> Steps]
    /\ req \in [Threads -> Requests]
    /\ window \in [Threads -> [policies : SUBSET Documents, tables : SUBSET RoleTables]]

LEMMA TypeParts == TypeOK <=> WorldOK /\ StoreOK /\ ThreadOK
  BY DEF TypeOK, WorldOK, StoreOK, ThreadOK

Executing == {"admit", "record"} \union Deciding \union Acting

\* What a handler has in its locals at each of its steps.
LocalOK(t) ==
    /\ pc[t] \in {"evalReadable", "evalPolicy", "evalIdentity"} => req[t].evaluation \in Drafts
    /\ pc[t] = "evalIdentity" => req[t].evaluation.policy \in Documents
    /\ pc[t] \in {"evalPut", "mintRead", "mintPut"} => req[t].evaluation \in Evaluations
    /\ pc[t] \in {"mintRead", "mintPut"} => req[t].nonce \in Nonces
    /\ pc[t] \in Executing =>
          /\ req[t].user \in Principals
          /\ req[t].permit \in PermitIds /\ permits[req[t].permit] # None
    /\ pc[t] \in {"mintPut", "verify", "claim", "readvance", "restore"} \union Acting =>
          req[t].checkpoint \in Checkpoints
    /\ pc[t] \in {"advance", "store", "record"} => req[t].receipt \in Receipts
    /\ pc[t] \in {"observe", "conclude"} => req[t].execution \in Executions
    /\ pc[t] \in {"conclude", "readmit"} \union Advancing => req[t].observation \in Observations
    /\ pc[t] = "audit" => req[t].event \in Events
Locals == \A t \in Threads : LocalOK(t)

\* The parts of a step that are the same everywhere: where a thread goes, and how
\* a handler ends or is denied.
LEMMA GotoTypes ==
    ASSUME ThreadOK, NEW t \in Threads, NEW from, NEW to \in Steps, Goto(t, from, to)
    PROVE  pc' \in [Threads -> Steps] /\ pc[t] = from /\ pc'[t] = to
  BY DEF ThreadOK, Goto

LEMMA ForgetTypes ==
    ASSUME ThreadOK, NEW t \in Threads, Forget(t)
    PROVE  window' \in [Threads -> [policies : SUBSET Documents, tables : SUBSET RoleTables]]
  BY DEF ThreadOK, Forget

LEMMA ReleaseTypes ==
    ASSUME ThreadOK, NEW t \in Threads, Release(t)
    PROVE  lock' \in [Processes -> Threads \union {None}]
  BY DEF ThreadOK, Release

LEMMA IdleTypes == Idle \in Requests
  BY DEF Idle, Requests

LEMMA EndTypes ==
    ASSUME ThreadOK, NEW t \in Threads, End(t)
    PROVE  ThreadOK' /\ LocalOK(t)' /\ pc'[t] = "idle" /\ req'[t] = Idle
<1>1. pc'[t] = "idle" /\ pc' \in [Threads -> Steps]
  BY DEF End, ThreadOK, Steps
<1>2. req' \in [Threads -> Requests] /\ req'[t] = Idle
  BY IdleTypes DEF End, ThreadOK
<1>3. ThreadOK'
  BY <1>1, <1>2, ForgetTypes, ReleaseTypes DEF End, ThreadOK
<1>4. LocalOK(t)'
  BY <1>1 DEF LocalOK, Executing, Acting, Deciding, Advancing
<1> QED BY <1>1, <1>2, <1>3, <1>4

LEMMA DenyTypes ==
    ASSUME ThreadOK, NEW t \in Threads, NEW p \in PermitIds \union {None}, Deny(t, p)
    PROVE  ThreadOK' /\ LocalOK(t)'
           /\ pc'[t] = "audit" /\ req'[t] = [Idle EXCEPT !.event = Event("denied", None, p)]
<1>1. pc'[t] = "audit" /\ pc' \in [Threads -> Steps]
  BY DEF Deny, ThreadOK, Steps
<1>2. Event("denied", None, p) \in Events
  BY DEF Event, Events
<1>3. /\ req' \in [Threads -> Requests]
      /\ req'[t] = [Idle EXCEPT !.event = Event("denied", None, p)]
  BY <1>2 DEF Deny, ThreadOK, Requests, Idle
<1>4. ThreadOK'
  BY <1>1, <1>3, ForgetTypes, ReleaseTypes DEF Deny, ThreadOK
<1>5. LocalOK(t)'
  BY <1>1, <1>2, <1>3 DEF LocalOK, Executing, Acting, Deciding, Advancing, Idle
<1> QED BY <1>1, <1>3, <1>4, <1>5

\* An assignment to one local variable of a handler.
LEMMA AssignTypes ==
    ASSUME NEW r \in Requests
    PROVE  /\ \A v \in Drafts \union {None} : [r EXCEPT !.evaluation = v] \in Requests
           /\ \A v \in Documents \union {None} : [r EXCEPT !.policy = v] \in Requests
           /\ \A v \in IdentityRoots \union {None} : [r EXCEPT !.identity = v] \in Requests
           /\ \A v \in Checkpoints \union {None} : [r EXCEPT !.checkpoint = v] \in Requests
           /\ \A v \in Receipts \union {None} : [r EXCEPT !.receipt = v] \in Requests
           /\ \A v \in Observations \union {None} : [r EXCEPT !.observation = v] \in Requests
           /\ \A v \in Events \union {None} : [r EXCEPT !.event = v] \in Requests
<1>1. \A v \in Drafts \union {None} : [r EXCEPT !.evaluation = v] \in Requests
  BY DEF Requests
<1>2. \A v \in Documents \union {None} : [r EXCEPT !.policy = v] \in Requests
  BY DEF Requests
<1>3. \A v \in IdentityRoots \union {None} : [r EXCEPT !.identity = v] \in Requests
  BY DEF Requests
<1>4. \A v \in Checkpoints \union {None} : [r EXCEPT !.checkpoint = v] \in Requests
  BY DEF Requests
<1>5. \A v \in Receipts \union {None} : [r EXCEPT !.receipt = v] \in Requests
  BY DEF Requests
<1>6. \A v \in Observations \union {None} : [r EXCEPT !.observation = v] \in Requests
  BY DEF Requests
<1>7. \A v \in Events \union {None} : [r EXCEPT !.event = v] \in Requests
  BY DEF Requests
<1> QED BY <1>1, <1>2, <1>3, <1>4, <1>5, <1>6, <1>7

\* POST /evaluate.
LEMMA EvaluateThreads ==
    ASSUME WorldOK, StoreOK, ThreadOK, Locals, NEW t \in Threads, Evaluate(t)
    PROVE  ThreadOK' /\ LocalOK(t)'
<1> USE DEF LocalOK, Executing, Acting, Deciding, Advancing
<1>1. ASSUME NEW u \in Principals, NEW h \in Heads, EvaluateRequest(t, u, h)
      PROVE  ThreadOK' /\ LocalOK(t)'
  <2>1. CASE Deny(t, None)
    BY <2>1, DenyTypes
  <2>2. CASE ~Deny(t, None)
    <3> DEFINE draft == [head |-> h, policy |-> None, identity |-> None]
               locals == [Idle EXCEPT !.user = u, !.evaluation = draft]
    <3>1. draft \in Drafts
      BY DEF Drafts
    <3>2. locals \in Requests /\ locals.evaluation = draft
      BY <3>1 DEF Idle, Requests
    <3>3. /\ req' = [req EXCEPT ![t] = locals] /\ UNCHANGED <<lock, window>>
          /\ Goto(t, "idle", "evalReadable")
      BY <1>1, <2>2 DEF EvaluateRequest
    <3> HIDE DEF locals
    <3>4. ThreadOK' /\ pc'[t] = "evalReadable" /\ req'[t] = locals
      BY <3>2, <3>3 DEF ThreadOK, Goto, Steps
    <3> QED BY <3>1, <3>2, <3>4
  <2> QED BY <2>1, <2>2
<1>2. CASE EvaluateReadable(t)
  <2>1. CASE Deny(t, None)
    BY <2>1, DenyTypes
  <2>2. CASE Goto(t, "evalReadable", "evalPolicy") /\ UNCHANGED <<lock, req, window>>
    BY <2>2 DEF ThreadOK, Goto, Steps, Locals
  <2> QED BY <1>2, <2>1, <2>2 DEF EvaluateReadable
<1>3. CASE EvaluatePolicy(t)
  <2>1. CASE End(t)
    BY <2>1, EndTypes
  <2>2. CASE ~End(t)
    <3>1. policies[active] \in Documents
      BY <1>3, <2>2 DEF EvaluatePolicy, WorldOK, CPTypeOK
    <3>2. req[t].evaluation \in Drafts
      BY <1>3 DEF EvaluatePolicy, Locals
    <3>3. [req[t].evaluation EXCEPT !.policy = policies[active]] \in Drafts
      BY <3>1, <3>2 DEF Drafts
    <3> DEFINE named == [req[t].evaluation EXCEPT !.policy = policies[active]]
    <3>4. [req[t] EXCEPT !.evaluation = named] \in Requests
      BY <3>3, AssignTypes DEF ThreadOK
    <3>5. req' = [req EXCEPT ![t] = [req[t] EXCEPT !.evaluation = named]]
      BY <1>3, <2>2 DEF EvaluatePolicy, ThreadOK, Requests
    <3>6. req' \in [Threads -> Requests]
      BY <3>4, <3>5 DEF ThreadOK
    <3>7. ThreadOK' /\ pc'[t] = "evalIdentity"
      BY <1>3, <2>2, <3>6 DEF EvaluatePolicy, ThreadOK, Goto, Steps
    <3>8. req'[t].evaluation = [req[t].evaluation EXCEPT !.policy = policies[active]]
      BY <1>3, <2>2 DEF EvaluatePolicy, ThreadOK, Requests
    <3>9. req'[t].evaluation.policy = policies[active]
      BY <3>2, <3>8 DEF Drafts
    <3> QED BY <3>1, <3>3, <3>7, <3>8, <3>9
  <2> QED BY <2>1, <2>2
<1>4. CASE EvaluateIdentity(t)
  <2>1. IdentityRoot(roles) \in IdentityRoots
    BY DEF WorldOK, CPTypeOK, IdentityRoot, IdentityRoots, RoleTables
  <2>2. req[t].evaluation \in Drafts /\ req[t].evaluation.policy \in Documents
    BY <1>4 DEF EvaluateIdentity, Goto, Locals
  <2>3. /\ [req[t].evaluation EXCEPT !.identity = IdentityRoot(roles)] \in Drafts
        /\ [req[t].evaluation EXCEPT !.identity = IdentityRoot(roles)] \in Evaluations
    BY <2>1, <2>2 DEF Drafts, Evaluations
  <2>4. req' \in [Threads -> Requests]
    BY <1>4, <2>3, AssignTypes DEF EvaluateIdentity, ThreadOK
  <2>5. ThreadOK' /\ pc'[t] = "evalPut"
    BY <1>4, <2>4 DEF EvaluateIdentity, ThreadOK, Goto, Steps, historyVars
  <2>6. req'[t].evaluation \in Evaluations
    BY <1>4, <2>3 DEF EvaluateIdentity, ThreadOK, Requests
  <2> QED BY <2>5, <2>6
<1>5. CASE EvaluatePut(t)
  <2>1. Event("evaluate", "EVALUATED", None) \in Events
    BY DEF Event, Events
  <2>2. req' \in [Threads -> Requests]
    BY <1>5, <2>1, AssignTypes DEF EvaluatePut, ThreadOK
  <2>3. ThreadOK' /\ pc'[t] = "audit"
    BY <1>5, <2>2 DEF EvaluatePut, ThreadOK, Goto, Steps, historyVars
  <2>4. req'[t].event \in Events
    BY <1>5, <2>1 DEF EvaluatePut, ThreadOK, Requests
  <2> QED BY <2>3, <2>4
<1> QED BY <1>1, <1>2, <1>3, <1>4, <1>5 DEF Evaluate

\* POST /permits.
LEMMA MintThreads ==
    ASSUME StoreOK, ThreadOK, Locals, NEW t \in Threads, Mint(t)
    PROVE  ThreadOK' /\ LocalOK(t)'
<1> USE DEF LocalOK, Executing, Acting, Deciding, Advancing
<1>1. ASSUME NEW u \in Principals, NEW e \in evaluations, NEW n \in Nonces, MintRequest(t, u, e, n)
      PROVE  ThreadOK' /\ LocalOK(t)'
  <2>1. e \in Evaluations /\ e \in Drafts
    BY DEF StoreOK, Evaluations, Drafts
  <2>2. CASE Deny(t, None)
    BY <2>2, DenyTypes
  <2>3. CASE ~Deny(t, None)
    <3> DEFINE locals == [Idle EXCEPT !.user = u, !.evaluation = e, !.nonce = n]
    <3>1. locals \in Requests /\ locals.evaluation = e /\ locals.nonce = n
      BY <2>1 DEF Idle, Requests
    <3>2. /\ req' = [req EXCEPT ![t] = locals] /\ UNCHANGED <<lock, window>>
          /\ Goto(t, "idle", "mintRead")
      BY <1>1, <2>3 DEF MintRequest
    <3> HIDE DEF locals
    <3>3. ThreadOK' /\ pc'[t] = "mintRead" /\ req'[t] = locals
      BY <3>1, <3>2 DEF ThreadOK, Goto, Steps
    <3> QED BY <2>1, <3>1, <3>3
  <2> QED BY <2>2, <2>3
<1>2. CASE MintRead(t)
  <2>1. checkpoint \in Checkpoints
    BY DEF StoreOK
  <2>2. req' \in [Threads -> Requests]
    BY <1>2, <2>1, AssignTypes DEF MintRead, ThreadOK
  <2>3. ThreadOK' /\ pc'[t] = "mintPut"
    BY <1>2, <2>2 DEF MintRead, ThreadOK, Goto, Steps, historyVars
  <2>4. /\ req'[t].checkpoint \in Checkpoints
        /\ req'[t].evaluation = req[t].evaluation /\ req'[t].nonce = req[t].nonce
    BY <1>2, <2>1 DEF MintRead, ThreadOK, Requests
  <2>5. pc[t] = "mintRead" /\ LocalOK(t)
    BY <1>2 DEF MintRead, Goto, Locals
  <2> QED BY <2>3, <2>4, <2>5
<1>3. ASSUME NEW p \in PermitIds, MintPut(t, p) PROVE ThreadOK' /\ LocalOK(t)'
  BY <1>3 DEF MintPut, Requests, Idle, Event, Events, ThreadOK, Goto, Steps, historyVars
<1> QED BY <1>1, <1>2, <1>3 DEF Mint

\* An execution goes on: the principal and the permit stay what they were.
LEMMA OnwardTypes ==
    ASSUME Locals, NEW t \in Threads, permits' = permits,
           pc[t] \in Executing, pc'[t] \in Executing,
           req'[t].user = req[t].user, req'[t].permit = req[t].permit,
           pc'[t] \in {"verify", "claim"} \union Acting => req'[t].checkpoint \in Checkpoints,
           pc'[t] \in {"advance", "store", "record"} => req'[t].receipt \in Receipts
    PROVE  LocalOK(t)'
  BY DEF Locals, LocalOK, Executing, Acting, Deciding, Advancing

\* A step that only moves on.
LEMMA MoveTypes ==
    ASSUME ThreadOK, Locals, NEW t \in Threads, NEW from \in Executing, NEW to \in Executing,
           Goto(t, from, to), UNCHANGED <<lock, req, window, permits>>,
           to \in {"verify", "claim"} \union Acting => from \in {"verify", "claim"} \union Acting,
           to \in {"advance", "store", "record"} => from \in {"advance", "store", "record"}
    PROVE  ThreadOK' /\ LocalOK(t)'
<1>1. to \in Steps
  BY DEF Executing, Steps, Locked
<1>2. ThreadOK' /\ pc[t] = from /\ pc'[t] = to
  BY <1>1, GotoTypes DEF ThreadOK
<1> QED BY <1>2, OnwardTypes DEF Locals, LocalOK

LEMMA CheckRoleTypes ==
    ASSUME ThreadOK, Locals, NEW t \in Threads, NEW permission,
           NEW from \in Executing \ {"advance", "store", "record"},
           NEW to \in {"readable", "policy"}, CheckRole(t, permission, from, to)
    PROVE  ThreadOK' /\ LocalOK(t)'
<1>1. req[t].permit \in PermitIds
  BY DEF CheckRole, Locals, LocalOK
<1>2. CASE Deny(t, req[t].permit)
  BY <1>1, <1>2, DenyTypes
<1>3. CASE Goto(t, from, to) /\ UNCHANGED <<lock, req, window>>
  <2>1. permits' = permits
    BY DEF CheckRole, storeVars
  <2>2. to \in Executing /\ to \notin {"verify", "claim"} \union Acting
        /\ to \notin {"advance", "store", "record"}
    BY DEF Executing, Deciding, Acting
  <2> QED BY <1>3, <2>1, <2>2, MoveTypes
<1> QED BY <1>2, <1>3 DEF CheckRole

\* POST /execute/github-merge, up to the claim.
LEMMA DecideThreads ==
    ASSUME WorldOK, StoreOK, ThreadOK, Locals, NEW t \in Threads,
           \/ \E u \in Principals, p \in PermitIds : ExecuteRequest(t, u, p)
           \/ Admit(t) \/ Authorize(t) \/ ExecuteReadable(t) \/ ReadPolicy(t)
           \/ ReadIdentity(t) \/ ReadCheckpoint(t) \/ Verify(t) \/ Claim(t)
    PROVE  ThreadOK' /\ LocalOK(t)'
<1>1. ASSUME NEW u \in Principals, NEW p \in PermitIds, ExecuteRequest(t, u, p)
      PROVE  ThreadOK' /\ LocalOK(t)'
  <2>1. CASE Deny(t, p)
    BY <2>1, DenyTypes
  <2>2. CASE ~Deny(t, p)
    <3>1. permits'[p] # None
      BY <1>1 DEF ExecuteRequest, StoreOK, storeVars
    <3>2. [Idle EXCEPT !.user = u, !.permit = p] \in Requests
      BY DEF Idle, Requests
    <3>3. ThreadOK' /\ pc'[t] = "admit" /\ req'[t] = [Idle EXCEPT !.user = u, !.permit = p]
      BY <1>1, <2>2, <3>2 DEF ExecuteRequest, ThreadOK, Goto, Steps
    <3>4. req'[t].user = u /\ req'[t].permit = p
      BY <3>3 DEF Idle
    <3> QED
      BY <3>1, <3>3, <3>4 DEF LocalOK, Executing, Acting, Deciding, Advancing
  <2> QED BY <2>1, <2>2
<1>2. CASE Admit(t)
  <2>1. ActiveDigests \in SUBSET Documents /\ {roles} \in SUBSET RoleTables
    BY DEF WorldOK, CPTypeOK, ActiveDigests, RoleTables
  <2>2. ThreadOK'
    BY <1>2, <2>1 DEF Admit, ThreadOK, Goto, Steps, Locked, Deciding
  <2> QED
    BY <1>2, <2>2, OnwardTypes DEF Admit, ThreadOK, Goto, storeVars, Executing, Acting, Deciding
<1>3. CASE Authorize(t)
  BY <1>3, CheckRoleTypes DEF Authorize, Executing, Deciding
<1>4. CASE ExecuteReadable(t)
  BY <1>4, CheckRoleTypes DEF ExecuteReadable, Executing, Deciding
<1>5. CASE ReadPolicy(t)
  <2>1. CASE End(t)
    BY <2>1, EndTypes
  <2>2. CASE ~End(t)
    <3>1. policies[active] \in Documents
      BY <1>5, <2>2 DEF ReadPolicy, WorldOK, CPTypeOK
    <3>2. req' \in [Threads -> Requests]
      BY <1>5, <2>2, <3>1, AssignTypes DEF ReadPolicy, ThreadOK
    <3>3. ThreadOK' /\ pc[t] = "policy" /\ pc'[t] = "identity"
      BY <1>5, <2>2, <3>2 DEF ReadPolicy, ThreadOK, Goto, Steps, Locked, Deciding
    <3>4. req'[t].user = req[t].user /\ req'[t].permit = req[t].permit
      BY <1>5, <2>2 DEF ReadPolicy, ThreadOK, Requests
    <3> QED
      BY <1>5, <3>3, <3>4, OnwardTypes DEF ReadPolicy, storeVars, Executing, Acting, Deciding
  <2> QED BY <2>1, <2>2
<1>6. CASE ReadIdentity(t)
  <2>1. IdentityRoot(roles) \in IdentityRoots
    BY DEF WorldOK, CPTypeOK, IdentityRoot, IdentityRoots, RoleTables
  <2>2. req' \in [Threads -> Requests]
    BY <1>6, <2>1, AssignTypes DEF ReadIdentity, ThreadOK
  <2>3. ThreadOK' /\ pc[t] = "identity" /\ pc'[t] = "checkpoint"
    BY <1>6, <2>2 DEF ReadIdentity, ThreadOK, Goto, Steps, Locked, Deciding, historyVars
  <2>4. req'[t].user = req[t].user /\ req'[t].permit = req[t].permit
    BY <1>6 DEF ReadIdentity, ThreadOK, Requests
  <2> QED
    BY <1>6, <2>3, <2>4, OnwardTypes DEF ReadIdentity, storeVars, Executing, Acting, Deciding
<1>7. CASE ReadCheckpoint(t)
  <2>1. checkpoint \in Checkpoints
    BY DEF StoreOK
  <2>2. req' \in [Threads -> Requests]
    BY <1>7, <2>1, AssignTypes DEF ReadCheckpoint, ThreadOK
  <2>3. ThreadOK' /\ pc[t] = "checkpoint" /\ pc'[t] = "verify"
    BY <1>7, <2>2 DEF ReadCheckpoint, ThreadOK, Goto, Steps, Locked, Deciding, historyVars
  <2>4. /\ req'[t].user = req[t].user /\ req'[t].permit = req[t].permit
        /\ req'[t].checkpoint = checkpoint
    BY <1>7 DEF ReadCheckpoint, ThreadOK, Requests
  <2> QED
    BY <1>7, <2>1, <2>3, <2>4, OnwardTypes
       DEF ReadCheckpoint, storeVars, Executing, Acting, Deciding
<1>8. CASE Verify(t)
  <2>1. req[t].permit \in PermitIds
    BY <1>8 DEF Verify, Locals, LocalOK, Executing, Deciding
  <2>2. CASE Deny(t, req[t].permit)
    BY <2>1, <2>2, DenyTypes
  <2>3. CASE ~Deny(t, req[t].permit)
    BY <1>8, <2>3, MoveTypes DEF Verify, storeVars, Executing, Deciding
  <2> QED BY <2>2, <2>3
<1>9. CASE Claim(t)
  <2>1. req[t].permit \in PermitIds
    BY <1>9 DEF Claim, Locals, LocalOK, Executing, Deciding
  <2>2. CASE Deny(t, req[t].permit)
    BY <2>1, <2>2, DenyTypes
  <2>3. CASE ~Deny(t, req[t].permit)
    <3>1. ThreadOK' /\ pc[t] = "claim" /\ pc'[t] = "preflight" /\ req' = req
      BY <1>9, <2>3, ForgetTypes DEF Claim, ThreadOK, Goto, Steps, Locked, Acting
    <3> QED
      BY <1>9, <3>1, OnwardTypes
         DEF Claim, storeVars, Executing, Acting, Deciding, Locals, LocalOK
  <2> QED BY <2>2, <2>3
<1> QED BY <1>1, <1>2, <1>3, <1>4, <1>5, <1>6, <1>7, <1>8, <1>9

\* What the adapter returns is a receipt, whatever the provider answers.
LEMMA ReceiptTypes ==
    ASSUME PullTypeOK, NEW answer \in GetAnswers, NEW h, NEW mergeable
    PROVE  /\ LookupReceipt(answer, h) \in Receipts
           /\ Preflight(answer, h, mergeable) \in Receipts \union {None}
<1>1. \A sha \in Commits \union {None} : Receipt("success", TRUE, sha) \in Receipts
  BY DEF Receipt, Receipts
<1>2. FailedReceipt \in Receipts /\ UnknownReceipt \in Receipts
  BY DEF Receipt, Receipts, FailedReceipt, UnknownReceipt
<1>3. answer.sha \in Commits \union {None}
  BY DEF GetAnswers, Pull, Unavailable, PullTypeOK, Merges
<1> QED BY <1>1, <1>2, <1>3 DEF LookupReceipt, Preflight

\* A receipt arrives, and the thread moves on to bring the checkpoint forward.
LEMMA ReceiptArrives ==
    ASSUME ThreadOK, Locals, NEW t \in Threads, permits' = permits,
           NEW from \in {"preflight", "await", "lookup"}, Goto(t, from, "advance"),
           NEW receipt \in Receipts, req' = [req EXCEPT ![t].receipt = receipt],
           UNCHANGED <<lock, window>>
    PROVE  ThreadOK' /\ LocalOK(t)'
<1>1. req' \in [Threads -> Requests]
  BY AssignTypes DEF ThreadOK
<1>2. ThreadOK' /\ pc[t] = from /\ pc'[t] = "advance"
  BY <1>1 DEF ThreadOK, Goto, Steps, Locked, Acting
<1>3. /\ req'[t].user = req[t].user /\ req'[t].permit = req[t].permit
      /\ req'[t].checkpoint = req[t].checkpoint /\ req'[t].receipt = receipt
  BY DEF ThreadOK, Requests
<1>4. req[t].checkpoint \in Checkpoints
  BY <1>2 DEF Locals, LocalOK, Acting
<1> QED BY <1>2, <1>3, <1>4, OnwardTypes DEF Executing, Acting

\* Successors of a checkpoint are checkpoints.
LEMMA NextCheckpointTypes ==
    ASSUME StoreOK, NEW c \in Checkpoints, NEW root \in ObservationRoots
    PROVE  /\ NextTrustCheckpoint(c, claims, root) \in Checkpoints
           /\ Roots(c).observation \in ObservationRoots
<1>1. [replay |-> ReplayRegistryRoot(claims), observation |-> root] \in Links
  BY DEF StoreOK, ReplayRegistryRoot, Links
<1>2. c \in Seq(Links) /\ c # <<>>
  BY DEF Checkpoints
<1>3. Append(c, [replay |-> ReplayRegistryRoot(claims), observation |-> root])
         \in Seq(Links) \ {<<>>}
  BY <1>1, <1>2
<1>4. Len(c) \in 1..Len(c)
  BY <1>2
<1>5. Roots(c) \in Links
  BY <1>2, <1>4 DEF Roots
<1> QED BY <1>3, <1>5 DEF NextTrustCheckpoint, Checkpoints, Links

\* POST /execute/github-merge, from the claim on.
LEMMA ActThreads ==
    ASSUME WorldOK, StoreOK, ThreadOK, Locals, NEW t \in Threads,
           \/ GetPull(t) \/ PutMerge(t) \/ AwaitMerge(t) \/ Lookup(t)
           \/ Advance(t) \/ Store(t) \/ Record(t)
    PROVE  ThreadOK' /\ LocalOK(t)'
<1>0. FailedReceipt \in Receipts /\ UnknownReceipt \in Receipts
  BY DEF Receipt, Receipts, FailedReceipt, UnknownReceipt
<1>1. CASE GetPull(t)
  <2>1. permits' = permits
    BY <1>1 DEF GetPull, storeVars
  <2>2. CASE End(t)
    BY <2>2, EndTypes
  <2>3. CASE ~End(t)
    <3>1. PICK answer \in GetAnswers, mergeable \in BOOLEAN :
            LET receipt == Preflight(answer, ExpectedHead(t), mergeable) IN
            /\ \/ receipt = None /\ Goto(t, "preflight", "merge") /\ UNCHANGED req
               \/ /\ receipt # None
                  /\ Goto(t, "preflight", "advance")
                  /\ req' = [req EXCEPT ![t].receipt = receipt]
            /\ UNCHANGED <<lock, window>>
      BY <1>1, <2>3 DEF GetPull
    <3> DEFINE receipt == Preflight(answer, ExpectedHead(t), mergeable)
    <3>2. receipt \in Receipts \union {None}
      BY ReceiptTypes DEF WorldOK
    <3>3. CASE receipt = None /\ Goto(t, "preflight", "merge") /\ UNCHANGED req
      BY <2>1, <3>1, <3>3, MoveTypes DEF Executing, Acting
    <3>4. CASE receipt # None /\ Goto(t, "preflight", "advance")
               /\ req' = [req EXCEPT ![t].receipt = receipt]
      <4> HIDE DEF receipt
      <4> QED BY <2>1, <3>1, <3>2, <3>4, ReceiptArrives
    <3> QED BY <3>1, <3>3, <3>4
  <2> QED BY <2>2, <2>3
<1>2. CASE PutMerge(t)
  BY <1>2, MoveTypes DEF PutMerge, storeVars, Executing, Acting
<1>3. CASE AwaitMerge(t)
  <2>1. permits' = permits
    BY <1>3 DEF AwaitMerge, storeVars
  <2>2. CASE End(t)
    BY <2>2, EndTypes
  <2>3. CASE Goto(t, "await", "lookup") /\ UNCHANGED <<lock, req, window>>
    BY <2>1, <2>3, MoveTypes DEF Executing, Acting
  <2>4. CASE Goto(t, "await", "advance") /\ req' = [req EXCEPT ![t].receipt = FailedReceipt]
             /\ UNCHANGED <<lock, window>>
    BY <1>0, <2>1, <2>4, ReceiptArrives
  <2> QED BY <1>3, <2>2, <2>3, <2>4 DEF AwaitMerge
<1>4. CASE Lookup(t)
  <2>1. permits' = permits
    BY <1>4 DEF Lookup, storeVars
  <2>2. CASE End(t)
    BY <2>2, EndTypes
  <2>3. CASE ~End(t)
    <3>1. UNCHANGED <<lock, window>> /\ Goto(t, "lookup", "advance")
      BY <1>4, <2>3 DEF Lookup
    <3>2. PICK receipt \in Receipts : req' = [req EXCEPT ![t].receipt = receipt]
      <4>1. CASE req' = [req EXCEPT ![t].receipt = UnknownReceipt]
        BY <1>0, <4>1
      <4>2. CASE \E answer \in GetAnswers :
                   req' = [req EXCEPT ![t].receipt = LookupReceipt(answer, ExpectedHead(t))]
        <5>1. PICK answer \in GetAnswers :
                   req' = [req EXCEPT ![t].receipt = LookupReceipt(answer, ExpectedHead(t))]
          BY <4>2
        <5>2. LookupReceipt(answer, ExpectedHead(t)) \in Receipts
          BY ReceiptTypes DEF WorldOK
        <5> QED BY <5>1, <5>2
      <4> QED BY <1>4, <2>3, <4>1, <4>2 DEF Lookup
    <3> QED BY <2>1, <3>1, <3>2, ReceiptArrives
  <2> QED BY <2>2, <2>3
<1>5. CASE Advance(t)
  <2> DEFINE c == req[t].checkpoint
             next == NextTrustCheckpoint(c, claims, Roots(c).observation)
  <2>1. pc[t] = "advance" /\ LocalOK(t)
    BY <1>5 DEF Advance, Goto, Locals
  <2>2. c \in Checkpoints /\ req[t].receipt \in Receipts
    BY <2>1 DEF LocalOK, Acting
  <2>3. Roots(c).observation \in ObservationRoots
    BY <2>2, NextCheckpointTypes DEF ObservationRoots
  <2>4. next \in Checkpoints
    BY <2>2, <2>3, NextCheckpointTypes
  <2> HIDE DEF next
  <2>5. req' = [req EXCEPT ![t].checkpoint = next]
    BY <1>5 DEF Advance, next
  <2>6. req' \in [Threads -> Requests]
    BY <2>4, <2>5, AssignTypes DEF ThreadOK
  <2>7. ThreadOK' /\ pc'[t] = "store"
    BY <1>5, <2>6 DEF Advance, ThreadOK, Goto, Steps, Locked, Acting, historyVars
  <2>8. /\ req'[t].user = req[t].user /\ req'[t].permit = req[t].permit
        /\ req'[t].receipt = req[t].receipt /\ req'[t].checkpoint = next
    BY <2>5 DEF ThreadOK, Requests
  <2> QED
    BY <1>5, <2>1, <2>2, <2>4, <2>7, <2>8, OnwardTypes
       DEF Advance, storeVars, Executing, Acting
<1>6. CASE Store(t)
  <2>1. ThreadOK' /\ pc[t] = "store" /\ pc'[t] = "record" /\ req' = req
    BY <1>6, ReleaseTypes DEF Store, ThreadOK, Goto, Steps, historyVars
  <2>2. req[t].receipt \in Receipts
    BY <2>1 DEF Locals, LocalOK
  <2> QED
    BY <1>6, <2>1, <2>2, OnwardTypes DEF Store, storeVars, Executing, Acting, Deciding
<1>7. CASE Record(t)
  <2>1. req[t].permit \in PermitIds
    BY <1>7 DEF Record, Goto, Locals, LocalOK, Executing
  <2>2. Event("execute", "CONSUMED", req[t].permit) \in Events
    BY <2>1 DEF Event, Events
  <2>3. [Idle EXCEPT !.event = Event("execute", "CONSUMED", req[t].permit)] \in Requests
    BY <2>2, IdleTypes, AssignTypes
  <2>4. ThreadOK' /\ pc'[t] = "audit"
    BY <1>7, <2>3 DEF Record, ThreadOK, Goto, Steps, historyVars
  <2>5. req'[t].event \in Events
    BY <1>7, <2>2 DEF Record, ThreadOK, Idle
  <2> QED
    BY <2>4, <2>5 DEF LocalOK, Executing, Acting, Deciding, Advancing
<1> QED BY <1>1, <1>2, <1>3, <1>4, <1>5, <1>6, <1>7

\* What a reconciler observes is an observation.
LEMMA ObservationTypes ==
    ASSUME PullTypeOK, NEW observation \in ObserveAnswers
    PROVE  /\ observation \in Observations
           /\ [observation EXCEPT !.merged = FALSE, !.sha = None] \in Observations
<1>1. NotObserved \in Observations
  BY DEF NotObserved, Observations
<1>2. ASSUME NEW answer \in GetAnswers PROVE Seen(answer) \in Observations
  <2>1. /\ Pull.sha \in Commits \union {None} /\ Pull.head \in Heads
        /\ Pull.merged \in BOOLEAN
    BY DEF Pull, PullTypeOK, Merges
  <2>2. Seen(Pull) \in Observations
    BY <2>1, PilotAssumption DEF Seen, Observations
  <2>3. Seen(Unavailable) \in Observations
    BY PilotAssumption DEF Seen, Observations, Unavailable
  <2> QED BY <2>2, <2>3 DEF GetAnswers
<1>3. Pull \in GetAnswers
  BY DEF GetAnswers
<1>4. observation \in Observations
  BY <1>1, <1>2, <1>3 DEF ObserveAnswers
<1> QED BY <1>4 DEF Observations

\* POST /reconcile/github-merge, and the audit event every handler ends with.
LEMMA ReconcileThreads ==
    ASSUME WorldOK, StoreOK, ThreadOK, Locals, NEW t \in Threads, Reconcile(t) \/ Audit(t)
    PROVE  ThreadOK' /\ LocalOK(t)'
<1>1. ASSUME NEW u \in Principals, NEW execution \in executions, ReconcileRequest(t, u, execution)
      PROVE  ThreadOK' /\ LocalOK(t)'
  <2>1. CASE Deny(t, None)
    BY <2>1, DenyTypes
  <2>2. CASE ~Deny(t, None)
    <3>1. execution \in Executions
      BY DEF StoreOK
    <3>2. [Idle EXCEPT !.user = u, !.execution = execution] \in Requests
      BY <3>1 DEF Idle, Requests
    <3>3. ThreadOK' /\ pc'[t] = "observe" /\ req'[t] = [Idle EXCEPT !.user = u, !.execution = execution]
      BY <1>1, <2>2, <3>2 DEF ReconcileRequest, ThreadOK, Goto, Steps
    <3>4. req'[t].execution = execution
      BY <3>3 DEF Idle
    <3> QED
      BY <3>1, <3>3, <3>4 DEF LocalOK, Executing, Acting, Deciding, Advancing
  <2> QED BY <2>1, <2>2
<1>2. CASE Observe(t)
  <2>1. CASE End(t)
    BY <2>1, EndTypes
  <2>2. CASE ~End(t)
    <3>1. PICK observation \in Observations :
             /\ Goto(t, "observe", "conclude")
             /\ req' = [req EXCEPT ![t].observation = observation]
             /\ UNCHANGED <<lock, window>>
      <4>1. PICK seen \in ObserveAnswers :
               /\ Goto(t, "observe", "conclude")
               /\ req' = [req EXCEPT ![t].observation = IF RequireQuorum /\ ~seen.met
                       THEN [seen EXCEPT !.merged = FALSE, !.sha = None] ELSE seen]
               /\ UNCHANGED <<lock, window>>
        BY <1>2, <2>2 DEF Observe
      <4>2. (IF RequireQuorum /\ ~seen.met
             THEN [seen EXCEPT !.merged = FALSE, !.sha = None] ELSE seen) \in Observations
        BY ObservationTypes DEF WorldOK
      <4> QED BY <4>1, <4>2
    <3>2. req' \in [Threads -> Requests]
      BY <3>1, AssignTypes DEF ThreadOK
    <3>3. ThreadOK' /\ pc[t] = "observe" /\ pc'[t] = "conclude"
      BY <3>1, <3>2 DEF ThreadOK, Goto, Steps
    <3>4. req'[t].execution = req[t].execution /\ req'[t].observation \in Observations
      BY <3>1 DEF ThreadOK, Requests
    <3> QED
      BY <3>3, <3>4 DEF Locals, LocalOK, Executing, Acting, Deciding, Advancing
  <2> QED BY <2>1, <2>2
<1>3. CASE Conclude(t)
  <2> DEFINE state == IF Confirmed(req[t].execution, req[t].observation)
                      THEN "RECONCILED" ELSE "RECONCILIATION_FAILED"
             event == Event("reconcile", state, req[t].execution.permit)
  <2>1. req[t].execution \in Executions /\ req[t].observation \in Observations
    BY <1>3 DEF Conclude, Goto, Locals, LocalOK
  <2>2. req[t].execution.permit \in PermitIds
    BY <2>1 DEF Executions
  <2>3. event \in Events
    BY <2>2 DEF Event, Events
  <2>4. req' = [req EXCEPT ![t].event = event]
    BY <1>3 DEF Conclude
  <2> HIDE DEF event
  <2>5. req' \in [Threads -> Requests]
    BY <2>3, <2>4, AssignTypes DEF ThreadOK
  <2>6. ThreadOK' /\ pc'[t] = "audit"
    BY <1>3, <2>5 DEF Conclude, ThreadOK, Goto, Steps, historyVars
  <2>7. req'[t].event = event
    BY <2>4 DEF ThreadOK, Requests
  <2> QED
    BY <2>3, <2>6, <2>7 DEF LocalOK, Executing, Acting, Deciding, Advancing
<1>4. CASE Readmit(t)
  <2>1. ThreadOK' /\ pc[t] = "readmit" /\ pc'[t] = "rereadCheckpoint" /\ req' = req
    BY <1>4 DEF Readmit, ThreadOK, Goto, Steps, Locked, Advancing, historyVars
  <2> QED
    BY <2>1 DEF Locals, LocalOK, Executing, Acting, Deciding, Advancing
<1>5. CASE RereadCheckpoint(t)
  <2>1. checkpoint \in Checkpoints
    BY DEF StoreOK
  <2>2. req' \in [Threads -> Requests]
    BY <1>5, <2>1, AssignTypes DEF RereadCheckpoint, ThreadOK
  <2>3. ThreadOK' /\ pc[t] = "rereadCheckpoint" /\ pc'[t] = "readvance"
    BY <1>5, <2>2 DEF RereadCheckpoint, ThreadOK, Goto, Steps, Locked, Advancing, historyVars
  <2>4. req'[t].observation = req[t].observation /\ req'[t].checkpoint = checkpoint
    BY <1>5 DEF RereadCheckpoint, ThreadOK, Requests
  <2> QED
    BY <2>1, <2>3, <2>4 DEF Locals, LocalOK, Executing, Acting, Deciding, Advancing
<1>6. CASE Readvance(t)
  <2> DEFINE next == NextTrustCheckpoint(req[t].checkpoint, claims,
                                         ObservationRoot(req[t].observation))
  <2>1. req[t].checkpoint \in Checkpoints /\ req[t].observation \in Observations
    BY <1>6 DEF Readvance, Goto, Locals, LocalOK, Advancing
  <2>2. next \in Checkpoints
    BY <2>1, NextCheckpointTypes DEF ObservationRoots
  <2>3. req' = [req EXCEPT ![t].checkpoint = next]
    BY <1>6 DEF Readvance
  <2> HIDE DEF next
  <2>4. req' \in [Threads -> Requests]
    BY <2>2, <2>3, AssignTypes DEF ThreadOK
  <2>5. ThreadOK' /\ pc'[t] = "restore"
    BY <1>6, <2>4 DEF Readvance, ThreadOK, Goto, Steps, Locked, Advancing, historyVars
  <2>6. req'[t].observation = req[t].observation /\ req'[t].checkpoint = next
    BY <2>3 DEF ThreadOK, Requests
  <2> QED
    BY <2>1, <2>2, <2>5, <2>6 DEF LocalOK, Executing, Acting, Deciding, Advancing
<1>7. CASE Restore(t)
  BY <1>7, EndTypes DEF Restore
<1>8. CASE Audit(t)
  <2>1. CASE End(t)
    BY <2>1, EndTypes
  <2>2. CASE ~End(t)
    <3>1. QuorumObserved(t) /\ Goto(t, "audit", "readmit") /\ UNCHANGED <<lock, req, window>>
      BY <1>8, <2>2 DEF Audit
    <3>2. ThreadOK' /\ pc'[t] = "readmit" /\ req' = req
      BY <3>1 DEF ThreadOK, Goto, Steps
    <3>3. req[t].observation \in Observations
      BY <3>1 DEF QuorumObserved, ThreadOK, Requests
    <3> QED
      BY <3>2, <3>3 DEF LocalOK, Executing, Acting, Deciding, Advancing
  <2> QED BY <2>1, <2>2
<1> QED BY <1>1, <1>2, <1>3, <1>4, <1>5, <1>6, <1>7, <1>8 DEF Reconcile

\* A step of a thread keeps the types of what belongs to threads.
LEMMA StepThreads ==
    ASSUME WorldOK, StoreOK, ThreadOK, Locals, NEW t \in Threads, Step(t)
    PROVE  ThreadOK' /\ LocalOK(t)'
  BY EvaluateThreads, MintThreads, DecideThreads, ActThreads, ReconcileThreads, EndTypes
     DEF Step, Execute, Fail

\* The steps that write to a store, a file, or the provider.
Writing(t) ==
    \/ EvaluatePut(t) \/ (\E p \in PermitIds : MintPut(t, p))
    \/ Claim(t) \/ PutMerge(t) \/ Store(t) \/ Record(t)
    \/ Conclude(t) \/ Restore(t) \/ Audit(t)

LEMMA StepWrites ==
    ASSUME NEW t \in Threads, Step(t)
    PROVE  /\ UNCHANGED <<cpVars, expired, crashes>>
           /\ interrupted' = interrupted \/ Fail(t)
           /\ UNCHANGED <<pullVars, storeVars, trustVars, dispatched>> \/ Writing(t)
<1> USE DEF clockVars
<1>1. CASE Evaluate(t)
  BY <1>1 DEF Evaluate, EvaluateRequest, EvaluateReadable, EvaluatePolicy, EvaluateIdentity,
              EvaluatePut, historyVars, Writing
<1>2. CASE Mint(t)
  BY <1>2 DEF Mint, MintRequest, MintRead, MintPut, historyVars, Writing
<1>3. CASE Execute(t)
  BY <1>3 DEF Execute, ExecuteRequest, Admit, Authorize, ExecuteReadable, CheckRole, ReadPolicy,
              ReadIdentity, ReadCheckpoint, Verify, Claim, GetPull, PutMerge, AwaitMerge, Lookup,
              Advance, Store, Record, historyVars, Writing
<1>4. CASE Reconcile(t)
  BY <1>4 DEF Reconcile, ReconcileRequest, Observe, Conclude, Readmit, RereadCheckpoint,
              Readvance, Restore, historyVars, Writing
<1>5. CASE Audit(t)
  BY <1>5 DEF Audit, Writing
<1>6. CASE Fail(t)
  BY <1>6 DEF Fail
<1> QED BY <1>1, <1>2, <1>3, <1>4, <1>5, <1>6 DEF Step

LEMMA TrustConstraintsTypes ==
    ASSUME NEW c \in Checkpoints
    PROVE  TrustConstraints(c) \in TrustRecords
<1>1. c \in Seq(Links) /\ Len(c) \in Nat /\ Len(c) # 0
  BY DEF Checkpoints
<1>2. Roots(c) \in Links
  BY <1>1 DEF Roots
<1> QED
  BY <1>1, <1>2 DEF TrustConstraints, TrustRecords, Links, RecordHash, Epoch, MonotonicCounter

\* A step of a thread keeps the types of what is stored.
LEMMA StepStores ==
    ASSUME StoreOK, ThreadOK, Locals, NEW t \in Threads, Step(t)
    PROVE  StoreOK'
<1>0. crashes' = crashes /\ expired' = expired /\ interrupted' \subseteq Followed
  BY StepWrites DEF Fail, Spending, StoreOK
<1>1. CASE EvaluatePut(t)
  <2>1. req[t].evaluation \in Evaluations
    BY <1>1 DEF EvaluatePut, Goto, Locals, LocalOK
  <2> QED BY <1>0, <1>1, <2>1 DEF EvaluatePut, StoreOK, trustVars, historyVars
<1>2. ASSUME NEW p \in PermitIds, MintPut(t, p) PROVE StoreOK'
  <2>1. req[t].evaluation \in Evaluations /\ req[t].nonce \in Nonces
        /\ req[t].checkpoint \in Checkpoints
    BY <1>2 DEF MintPut, Goto, Locals, LocalOK
  <2>2. [evaluation |-> req[t].evaluation, nonce |-> req[t].nonce,
         trust |-> TrustConstraints(req[t].checkpoint)] \in Permits
    BY <2>1, TrustConstraintsTypes DEF Permits
  <2> QED BY <1>0, <1>2, <2>2 DEF MintPut, StoreOK, trustVars, historyVars
<1>3. CASE Claim(t)
  <2>1. req[t].permit \in PermitIds /\ permits[req[t].permit] \in Permits
        /\ req[t].user \in Principals
    BY <1>3 DEF Claim, Locals, LocalOK, Executing, Deciding, StoreOK
  <2>2. [permit |-> req[t].permit, nonce |-> permits[req[t].permit].nonce,
         executor |-> req[t].user] \in ClaimRows
    BY <2>1 DEF ClaimRows, Permits
  <2>3. claims' \subseteq ClaimRows
    BY <1>3, <2>2 DEF Claim, StoreOK
  <2> QED BY <1>0, <1>3, <2>3 DEF Claim, StoreOK, storeVars
<1>4. CASE PutMerge(t)
  <2>1. dispatched' \in [PermitIds -> Nat]
    BY <1>4 DEF PutMerge, StoreOK, Goto, Locals, LocalOK, Executing, Acting
  <2> QED BY <1>0, <1>4, <2>1 DEF PutMerge, StoreOK, storeVars, trustVars
<1>5. CASE Store(t)
  <2>1. req[t].checkpoint \in Checkpoints
    BY <1>5 DEF Store, Goto, Locals, LocalOK, Acting
  <2> QED BY <1>0, <1>5, <2>1 DEF Store, StoreOK, storeVars, historyVars
<1>6. CASE Record(t)
  <2>1. req[t].permit \in PermitIds /\ req[t].user \in Principals /\ req[t].receipt \in Receipts
    BY <1>6 DEF Record, Goto, Locals, LocalOK, Executing
  <2>2. [permit |-> req[t].permit, executor |-> req[t].user, receipt |-> req[t].receipt,
         preliminary_state |-> AuthorityState(req[t].receipt)] \in Executions
    BY <2>1 DEF Executions, AuthorityState
  <2> QED BY <1>0, <1>6, <2>2 DEF Record, StoreOK, trustVars, historyVars
<1>7. CASE Conclude(t)
  <2>1. req[t].execution \in Executions /\ req[t].observation \in Observations
    BY <1>7 DEF Conclude, Goto, Locals, LocalOK
  <2>2. req[t].execution.permit \in PermitIds /\ req[t].observation.sha \in Commits \union {None}
    BY <2>1 DEF Executions, Observations
  <2>3. reconciliations' \subseteq Reconciliations
    BY <1>7, <2>2 DEF Conclude, StoreOK, Reconciliations
  <2> QED BY <1>0, <1>7, <2>3 DEF Conclude, StoreOK, trustVars, historyVars
<1>8. CASE Restore(t)
  <2>1. req[t].checkpoint \in Checkpoints
    BY <1>8 DEF Restore, Locals, LocalOK
  <2> QED BY <1>0, <1>8, <2>1 DEF Restore, StoreOK, storeVars
<1>9. CASE Audit(t)
  <2>1. req[t].event \in Events
    BY <1>9 DEF Audit, Locals, LocalOK
  <2> QED BY <1>0, <1>9, <2>1 DEF Audit, StoreOK, trustVars
<1>10. CASE UNCHANGED <<storeVars, trustVars, dispatched>>
  BY <1>0, <1>10 DEF StoreOK, storeVars, trustVars
<1> QED
  BY <1>1, <1>2, <1>3, <1>4, <1>5, <1>6, <1>7, <1>8, <1>9, <1>10, StepWrites DEF Writing

\* A step of a thread keeps the types of the control plane and the provider.
LEMMA StepWorld ==
    ASSUME WorldOK, ThreadOK, Locals, NEW t \in Threads, Step(t)
    PROVE  WorldOK'
<1>1. CPTypeOK'
  BY StepWrites DEF WorldOK, CPTypeOK, cpVars
<1>2. CASE PutMerge(t)
  <2>1. req[t].permit \in PermitIds
    BY <1>2 DEF PutMerge, Goto, Locals, LocalOK, Executing, Acting
  <2> QED BY <1>1, <1>2, <2>1 DEF PutMerge, SendPut, WorldOK, PullTypeOK
<1>3. CASE UNCHANGED pullVars
  BY <1>1, <1>3 DEF WorldOK, PullTypeOK, pullVars
<1>4. Writing(t) => PutMerge(t) \/ UNCHANGED pullVars
  BY DEF Writing, EvaluatePut, MintPut, Claim, Store, Record, Conclude, Restore, Audit
<1> QED BY <1>2, <1>3, <1>4, StepWrites

\* The locals of the other threads stay as they are, and permits are never lost.
LEMMA StepFrame ==
    ASSUME StoreOK, ThreadOK, NEW t \in Threads, Step(t)
    PROVE  /\ \A u \in Threads \ {t} : pc'[u] = pc[u] /\ req'[u] = req[u]
           /\ \A p \in PermitIds : permits[p] # None => permits'[p] = permits[p]
<1>1. \A u \in Threads \ {t} : pc'[u] = pc[u] /\ req'[u] = req[u]
  <2> USE DEF ThreadOK, Goto, End, Deny
  <2>1. CASE Evaluate(t)
    BY <2>1 DEF Evaluate, EvaluateRequest, EvaluateReadable, EvaluatePolicy, EvaluateIdentity,
                EvaluatePut
  <2>2. CASE Mint(t)
    BY <2>2 DEF Mint, MintRequest, MintRead, MintPut
  <2>3. CASE Execute(t)
    BY <2>3 DEF Execute, ExecuteRequest, Admit, Authorize, ExecuteReadable, CheckRole,
                ReadPolicy, ReadIdentity, ReadCheckpoint, Verify, Claim, GetPull, PutMerge,
                AwaitMerge, Lookup, Advance, Store, Record
  <2>4. CASE Reconcile(t)
    BY <2>4 DEF Reconcile, ReconcileRequest, Observe, Conclude, Readmit, RereadCheckpoint,
                Readvance, Restore
  <2>5. CASE Audit(t)
    BY <2>5 DEF Audit
  <2>6. CASE Fail(t)
    BY <2>6 DEF Fail
  <2> QED BY <2>1, <2>2, <2>3, <2>4, <2>5, <2>6 DEF Step
<1>2. permits' = permits \/ \E p \in PermitIds : MintPut(t, p)
  BY StepWrites DEF Writing, EvaluatePut, Claim, PutMerge, Store, Record, Conclude, Restore,
                    Audit, storeVars
<1> QED BY <1>1, <1>2 DEF MintPut, StoreOK

\* A step of the environment: time, a crash, the control plane, the provider.
Environment ==
    \/ \E p \in PermitIds : Expire(p)
    \/ \E host \in Processes : Crash(host)
    \/ Govern
    \/ Provide

\* A crash forgets the locals of a process; nothing else touches them.
LEMMA EnvironmentThreads ==
    ASSUME WorldOK, ThreadOK, Locals, Environment
    PROVE  /\ ThreadOK' /\ Locals'
           /\ \A u \in Threads : pc'[u] = "idle" \/ (pc'[u] = pc[u] /\ req'[u] = req[u])
           /\ permits' = permits
<1>1. ASSUME NEW p \in PermitIds, Expire(p)
      PROVE  UNCHANGED <<lock, pc, req, window, permits>>
  BY <1>1 DEF Expire, threadVars, historyVars, storeVars
<1>2. CASE Provide
  BY <1>2 DEF Provide, threadVars, historyVars, storeVars, ThreadOK, Locals, LocalOK
<1>3. CASE Govern
  <2>1. CPTypeOK'
    BY <1>3, CPTypeStep DEF Govern, WorldOK
  <2>2. ActiveDigests' \in SUBSET Documents /\ {roles'} \in SUBSET RoleTables
    BY <2>1 DEF CPTypeOK, ActiveDigests, RoleTables
  <2>3. ThreadOK' /\ UNCHANGED <<pc, req, permits>>
    BY <1>3, <2>2 DEF Govern, ThreadOK, threadVars, storeVars
  <2> QED BY <2>3 DEF Locals, LocalOK
<1>4. ASSUME NEW host \in Processes, Crash(host)
      PROVE  /\ ThreadOK' /\ Locals' /\ permits' = permits
             /\ \A u \in Threads : pc'[u] = "idle" \/ (pc'[u] = pc[u] /\ req'[u] = req[u])
  <2>1. permits' = permits
    BY <1>4 DEF Crash, storeVars
  <2>2. \A u \in Threads : pc'[u] = "idle" \/ (pc'[u] = pc[u] /\ req'[u] = req[u])
    BY <1>4 DEF Crash
  <2>3. lock' \in [Processes -> Threads \union {None}] /\ pc' \in [Threads -> Steps]
    BY <1>4 DEF Crash, ThreadOK, Steps
  <2>4. req' \in [Threads -> Requests]
    BY <1>4, IdleTypes DEF Crash, ThreadOK
  <2>5. window' \in [Threads -> [policies : SUBSET Documents, tables : SUBSET RoleTables]]
    BY <1>4 DEF Crash, ThreadOK
  <2>6. Locals'
    BY <2>1, <2>2 DEF Locals, LocalOK, Executing, Acting, Deciding, Advancing
  <2> QED BY <2>1, <2>2, <2>3, <2>4, <2>5, <2>6 DEF ThreadOK
<1> QED
  BY <1>1, <1>2, <1>3, <1>4
     DEF Environment, ThreadOK, Locals, LocalOK, Provide, Govern, threadVars, storeVars

LEMMA EnvironmentTypes ==
    ASSUME WorldOK, StoreOK, Environment
    PROVE  WorldOK' /\ StoreOK'
<1>1. ASSUME NEW p \in PermitIds, Expire(p) PROVE WorldOK' /\ StoreOK'
  BY <1>1 DEF Expire, WorldOK, StoreOK, CPTypeOK, PullTypeOK, cpVars, pullVars, storeVars,
              trustVars, historyVars
<1>2. ASSUME NEW host \in Processes, Crash(host) PROVE WorldOK' /\ StoreOK'
  <2>1. CPTypeOK' /\ PullTypeOK'
    BY <1>2 DEF Crash, WorldOK, CPTypeOK, PullTypeOK, cpVars, pullVars
  <2>2. crashes' \in 0..MaxCrashes /\ interrupted' \subseteq Followed
    BY <1>2, PilotAssumption DEF Crash, StoreOK, Spending
  <2> QED BY <1>2, <2>1, <2>2 DEF Crash, WorldOK, StoreOK, storeVars, trustVars
<1>3. CASE Govern
  <2>1. CPTypeOK'
    BY <1>3, CPTypeStep DEF Govern, WorldOK
  <2>2. PullTypeOK'
    BY <1>3 DEF Govern, WorldOK, PullTypeOK, pullVars
  <2> QED BY <1>3, <2>1, <2>2 DEF Govern, WorldOK, StoreOK, storeVars, trustVars, clockVars
<1>4. CASE Provide
  <2>1. CPTypeOK'
    BY <1>4 DEF Provide, WorldOK, CPTypeOK, cpVars
  <2>2. PullTypeOK'
    <3>1. ASSUME NEW h \in Heads, Push(h) PROVE PullTypeOK'
      BY <3>1, PullAssumption DEF Push, WorldOK, PullTypeOK
    <3>2. CASE ForeignMerge
      BY <3>2 DEF ForeignMerge, WorldOK, PullTypeOK, Merges, Commits
    <3>3. ASSUME NEW p \in PermitIds, DecidePut(p, permits[p].evaluation.head) PROVE PullTypeOK'
      BY <3>3 DEF DecidePut, WorldOK, PullTypeOK, Merges, Commits
    <3> QED BY <1>4, <3>1, <3>2, <3>3 DEF Provide, Others
  <2> QED
    BY <1>4, <2>1, <2>2 DEF Provide, WorldOK, StoreOK, storeVars, trustVars, clockVars, historyVars
<1> QED BY <1>1, <1>2, <1>3, <1>4 DEF Environment

LEMMA NextCases == Next <=> (\E t \in Threads : Step(t)) \/ Environment
  BY DEF Next, Environment

\* The inductive invariant for types.
TypeInv == TypeOK /\ Locals

LEMMA TypeInit == Init => TypeInv
<1> SUFFICES ASSUME Init PROVE TypeInv
  OBVIOUS
<1>1. CPTypeOK
  BY ControlPlaneAssumption DEF Init, CPInit, CPTypeOK
<1>2. PullTypeOK
  BY PullAssumption DEF Init, PullInit, PullTypeOK
<1>3. checkpoint \in Checkpoints
  BY DEF Init, GenesisCheckpoint, ReplayRegistryRoot, Checkpoints, Links, ObservationRoots
<1>4. StoreOK
  BY <1>3, PilotAssumption DEF Init, StoreOK
<1>5. ThreadOK /\ Locals
  BY IdleTypes DEF Init, ThreadOK, Locals, LocalOK, Steps, Executing, Acting, Deciding, Advancing
<1> QED BY <1>1, <1>2, <1>4, <1>5, TypeParts DEF TypeInv, WorldOK

LEMMA TypeStep == TypeInv /\ [Next]_vars => TypeInv'
<1> SUFFICES ASSUME TypeInv, [Next]_vars PROVE TypeInv'
  OBVIOUS
<1>0. WorldOK /\ StoreOK /\ ThreadOK /\ Locals
  BY TypeParts DEF TypeInv
<1>1. ASSUME NEW t \in Threads, Step(t) PROVE TypeInv'
  <2>1. WorldOK' /\ StoreOK' /\ ThreadOK' /\ LocalOK(t)'
    BY <1>0, <1>1, StepWorld, StepStores, StepThreads
  <2>2. ASSUME NEW u \in Threads \ {t} PROVE LocalOK(u)'
    <3>1. pc'[u] = pc[u] /\ req'[u] = req[u] /\ LocalOK(u)
      BY <1>0, <1>1, StepFrame DEF Locals
    <3>2. \A p \in PermitIds : permits[p] # None => permits'[p] = permits[p]
      BY <1>0, <1>1, StepFrame
    <3> QED BY <3>1, <3>2 DEF LocalOK
  <2> QED BY <2>1, <2>2, TypeParts DEF TypeInv, Locals, TypeOK, WorldOK, StoreOK, ThreadOK
<1>2. CASE Environment
  <2>1. WorldOK' /\ StoreOK' /\ ThreadOK' /\ Locals'
    BY <1>0, <1>2, EnvironmentThreads, EnvironmentTypes
  <2> QED BY <2>1 DEF TypeInv, TypeOK, WorldOK, StoreOK, ThreadOK
<1>3. CASE UNCHANGED vars
  BY <1>3 DEF vars, cpVars, pullVars, storeVars, trustVars, threadVars, clockVars, historyVars,
              TypeInv, TypeOK, CPTypeOK, PullTypeOK, Locals, LocalOK
<1> QED BY <1>1, <1>2, <1>3, NextCases

LEMMA TypeAlways == Spec => []TypeInv
  BY TypeInit, TypeStep, PTL DEF Spec

\* Every record the pilot stores, every handler's locals included, is of its type:
\* only the authority states of STATE_MACHINE.md are ever recorded.
THEOREM TypeCorrect == Spec => []TypeOK
<1>1. TypeInv => TypeOK
  BY DEF TypeInv
<1> QED BY <1>1, TypeAlways, PTL

-----------------------------------------------------------------------------
(* A permit backs at most one PUT *)

\* Which steps change the registry, the PUTs sent, and the checkpoint file.
LEMMA StepEffects ==
    ASSUME NEW t \in Threads, Step(t)
    PROVE  /\ claims' = claims \/ Claim(t)
           /\ dispatched' = dispatched \/ PutMerge(t)
           /\ checkpoint' = checkpoint \/ Store(t) \/ Restore(t)
           /\ executions' = executions \/ Record(t)
           /\ permits' = permits \/ \E p \in PermitIds : MintPut(t, p)
<1>1. Writing(t) =>
           /\ claims' = claims \/ Claim(t)
           /\ dispatched' = dispatched \/ PutMerge(t)
           /\ checkpoint' = checkpoint \/ Store(t) \/ Restore(t)
           /\ executions' = executions \/ Record(t)
           /\ permits' = permits \/ \E p \in PermitIds : MintPut(t, p)
  BY DEF Writing, EvaluatePut, MintPut, Claim, PutMerge, Store, Record, Conclude, Restore, Audit,
         trustVars, historyVars, storeVars
<1> QED BY <1>1, StepWrites DEF storeVars, trustVars

LEMMA EnvironmentEffects ==
    ASSUME Environment
    PROVE  UNCHANGED <<storeVars, trustVars, dispatched>>
  BY DEF Environment, Expire, Crash, Govern, Provide, historyVars

\* Between its claim and its PUT a thread owns the permit.
Sending == {"preflight", "merge"}

UseInv ==
    /\ SingleUse
    /\ \A t \in Threads : pc[t] \in Sending =>
          Claimed(req[t].permit) /\ dispatched[req[t].permit] = 0
    /\ \A t, u \in Threads : pc[t] \in Sending /\ pc[u] \in Sending /\ t # u =>
          req[t].permit # req[u].permit

\* There are two ways into sending: a claim, and from the GET on to the PUT.
LEMMA EntersSending ==
    ASSUME ThreadOK, NEW t \in Threads, Step(t), pc'[t] \in Sending
    PROVE  req' = req /\ (Claim(t) \/ pc[t] = "preflight")
<1> USE DEF ThreadOK, Goto, End, Deny, Sending
<1>1. CASE Evaluate(t)
  BY <1>1 DEF Evaluate, EvaluateRequest, EvaluateReadable, EvaluatePolicy, EvaluateIdentity,
              EvaluatePut
<1>2. CASE Mint(t)
  BY <1>2 DEF Mint, MintRequest, MintRead, MintPut
<1>3. CASE Execute(t)
  BY <1>3 DEF Execute, ExecuteRequest, Admit, Authorize, ExecuteReadable, CheckRole,
              ReadPolicy, ReadIdentity, ReadCheckpoint, Verify, Claim, GetPull, PutMerge,
              AwaitMerge, Lookup, Advance, Store, Record
<1>4. CASE Reconcile(t)
  BY <1>4 DEF Reconcile, ReconcileRequest, Observe, Conclude, Readmit, RereadCheckpoint,
              Readvance, Restore
<1>5. CASE Audit(t)
  BY <1>5 DEF Audit
<1>6. CASE Fail(t)
  BY <1>6 DEF Fail
<1> QED BY <1>1, <1>2, <1>3, <1>4, <1>5, <1>6 DEF Step

LEMMA UseStep == TypeInv /\ UseInv /\ [Next]_vars => UseInv'
<1> SUFFICES ASSUME TypeInv, UseInv, [Next]_vars PROVE UseInv'
  OBVIOUS
<1>0. StoreOK /\ ThreadOK /\ Locals
  BY TypeParts DEF TypeInv
<1>1. ASSUME NEW t \in Threads, Step(t) PROVE UseInv'
  <2>1. \A u \in Threads \ {t} : pc'[u] = pc[u] /\ req'[u] = req[u]
    BY <1>0, <1>1, StepFrame
  <2>2. CASE Claim(t) /\ pc'[t] \in Sending
    <3>1. /\ \A row \in claims : row.permit # req[t].permit
          /\ dispatched' = dispatched /\ req' = req
          /\ claims' = claims \union {[permit |-> req[t].permit,
                                       nonce |-> permits[req[t].permit].nonce,
                                       executor |-> req[t].user]}
      BY <1>0, <2>2 DEF Claim, Claimable, Deny, Sending, ThreadOK
    <3>2. req[t].permit \in PermitIds
      BY <1>0, <2>2 DEF Claim, Locals, LocalOK, Executing, Deciding
    <3>3. dispatched[req[t].permit] = 0
      BY <1>0, <3>1, <3>2 DEF UseInv, SingleUse, Claimed, StoreOK
    <3>4. \A p : Claimed(p) => Claimed(p)'
      BY <3>1 DEF Claimed
    <3>5. Claimed(req[t].permit)'
      <4> DEFINE row == [permit |-> req[t].permit, nonce |-> permits[req[t].permit].nonce,
                         executor |-> req[t].user]
      <4>1. row.permit = req[t].permit
        OBVIOUS
      <4> HIDE DEF row
      <4>2. row \in claims'
        BY <3>1 DEF row
      <4>3. req'[t] = req[t]
        BY <3>1
      <4> QED BY <4>1, <4>2, <4>3 DEF Claimed
    <3>6. \A u \in Threads \ {t} : pc[u] \in Sending => req[u].permit # req[t].permit
      BY <3>1 DEF UseInv, Claimed
    <3>7. SingleUse'
      BY <3>1, <3>4 DEF UseInv, SingleUse
    <3>8. \A u \in Threads : pc'[u] \in Sending =>
             Claimed(req[u].permit)' /\ dispatched'[req[u].permit] = 0
      BY <2>1, <3>1, <3>3, <3>4, <3>5 DEF UseInv
    <3>9. \A u, w \in Threads : pc'[u] \in Sending /\ pc'[w] \in Sending /\ u # w =>
             req[u].permit # req[w].permit
      BY <2>1, <3>6 DEF UseInv
    <3> QED BY <3>1, <3>7, <3>8, <3>9 DEF UseInv
  <2>3. CASE PutMerge(t)
    <3>1. /\ pc[t] = "merge" /\ pc'[t] = "await" /\ req' = req /\ claims' = claims
          /\ dispatched' = [dispatched EXCEPT ![req[t].permit] = @ + 1]
      BY <1>0, <2>3 DEF PutMerge, Goto, trustVars, ThreadOK
    <3>2. req[t].permit \in PermitIds /\ dispatched[req[t].permit] = 0 /\ Claimed(req[t].permit)
      BY <1>0, <3>1 DEF UseInv, Sending, Locals, LocalOK, Executing, Acting
    <3>3. dispatched'[req[t].permit] = 1
          /\ \A p \in PermitIds \ {req[t].permit} : dispatched'[p] = dispatched[p]
      BY <1>0, <3>1, <3>2 DEF StoreOK
    <3>4. \A p : Claimed(p)' <=> Claimed(p)
      BY <3>1 DEF Claimed
    <3>5. SingleUse'
      BY <3>2, <3>3, <3>4 DEF UseInv, SingleUse
    <3>6. \A u \in Threads : pc'[u] \in Sending =>
             /\ u # t /\ pc[u] \in Sending /\ req'[u] = req[u]
             /\ req[u].permit \in PermitIds \ {req[t].permit}
      BY <1>0, <2>1, <3>1 DEF UseInv, Sending, Locals, LocalOK, Executing, Acting
    <3> QED BY <3>3, <3>4, <3>5, <3>6 DEF UseInv
  <2>4. CASE ~(Claim(t) /\ pc'[t] \in Sending) /\ ~PutMerge(t)
    <3>1. dispatched' = dispatched /\ \A p : Claimed(p) => Claimed(p)'
      BY <1>1, <2>4, StepEffects DEF Claim, Claimed
    <3>2. \A u \in Threads : pc'[u] \in Sending => pc[u] \in Sending /\ req'[u] = req[u]
      BY <1>0, <1>1, <2>1, <2>4, EntersSending DEF Sending
    <3> QED BY <3>1, <3>2 DEF UseInv, SingleUse
  <2> QED BY <2>2, <2>3, <2>4
<1>2. CASE Environment
  <2>1. claims' = claims /\ dispatched' = dispatched
    BY <1>2, EnvironmentEffects DEF trustVars
  <2>2. \A u \in Threads : pc'[u] \in Sending => pc[u] \in Sending /\ req'[u] = req[u]
    <3>1. WorldOK
      BY TypeParts DEF TypeInv
    <3> QED BY <1>0, <1>2, <3>1, EnvironmentThreads DEF Sending
  <2> QED BY <2>1, <2>2 DEF UseInv, SingleUse, Claimed
<1>3. CASE UNCHANGED vars
  BY <1>3 DEF vars, trustVars, threadVars, historyVars, UseInv, SingleUse, Claimed
<1> QED BY <1>1, <1>2, <1>3, NextCases

LEMMA UseAlways == Spec => []UseInv
<1>1. Init => UseInv
  BY DEF Init, UseInv, SingleUse, Claimed, Sending
<1> QED BY <1>1, UseStep, TypeAlways, PTL DEF Spec

\* However requests, processes, timeouts and crashes interleave, at most one PUT
\* is sent under a permit, and only after its claim was committed.
THEOREM PermitsAreSingleUse == Spec => []SingleUse
<1>1. UseInv => SingleUse
  BY DEF UseInv
<1> QED BY <1>1, UseAlways, PTL

-----------------------------------------------------------------------------
(* Every claim is made from a replay state of its own *)

\* The registry a permit was bound to when it was minted.
Before(row) == permits[row.permit].trust.replay_root.claims

\* Of two claims exactly one was there when the permit of the other was bound: no
\* two of them stand side by side on one past.
ClaimsInOneLine == \A c, d \in claims : c # d => (c \in Before(d) <=> d \notin Before(c))

\* The claims form a chain: each was made when exactly Before(row) was there.  A
\* thread about to claim holds the checkpoint its permit is bound to.
ReplayInv ==
    /\ \A row \in claims : row \notin Before(row) /\ Before(row) \subseteq claims
    /\ \A row \in claims : permits[row.permit] # None
    /\ ClaimsInOneLine
    /\ \A t \in Threads : pc[t] = "claim" =>
          TrustHolds(permits[req[t].permit].trust, req[t].checkpoint)

\* There is one way to the claim.
LEMMA EntersClaim ==
    ASSUME ThreadOK, NEW t \in Threads, Step(t), pc'[t] = "claim"
    PROVE  Verify(t) /\ PermitHolds(t) /\ req' = req /\ permits' = permits
<1> USE DEF ThreadOK, Goto, End, Deny
<1>1. CASE Evaluate(t)
  BY <1>1 DEF Evaluate, EvaluateRequest, EvaluateReadable, EvaluatePolicy, EvaluateIdentity,
              EvaluatePut
<1>2. CASE Mint(t)
  BY <1>2 DEF Mint, MintRequest, MintRead, MintPut
<1>3. CASE Execute(t)
  BY <1>3 DEF Execute, ExecuteRequest, Admit, Authorize, ExecuteReadable, CheckRole,
              ReadPolicy, ReadIdentity, ReadCheckpoint, Verify, Claim, GetPull, PutMerge,
              AwaitMerge, Lookup, Advance, Store, Record, storeVars
<1>4. CASE Reconcile(t)
  BY <1>4 DEF Reconcile, ReconcileRequest, Observe, Conclude, Readmit, RereadCheckpoint,
              Readvance, Restore
<1>5. CASE Audit(t)
  BY <1>5 DEF Audit
<1>6. CASE Fail(t)
  BY <1>6 DEF Fail
<1> QED BY <1>1, <1>2, <1>3, <1>4, <1>5, <1>6 DEF Step

\* The row a claim adds, and what holds when it does.
NewRow(t) == [permit |-> req[t].permit, nonce |-> permits[req[t].permit].nonce,
              executor |-> req[t].user]

LEMMA ClaimAdds ==
    ASSUME ThreadOK, Locals, ReplayInv, NEW t \in Threads, Claim(t), claims' # claims
    PROVE  /\ claims' = claims \union {NewRow(t)}
           /\ NewRow(t).permit = req[t].permit /\ NewRow(t) \notin claims
           /\ req[t].permit \in PermitIds /\ permits[req[t].permit] # None
           /\ ~Claimed(req[t].permit)
           /\ VerifyTrustCheckpoint(req[t].checkpoint, claims)
           /\ TrustHolds(permits[req[t].permit].trust, req[t].checkpoint)
           /\ permits' = permits /\ pc[t] = "claim" /\ pc'[t] = "preflight"
<1>1. NewRow(t).permit = req[t].permit
  BY DEF NewRow
<1>2. /\ Claimable(t) /\ Goto(t, "claim", "preflight")
      /\ claims' = claims \union {NewRow(t)}
  BY DEF Claim, NewRow
<1>3. pc[t] = "claim" /\ pc'[t] = "preflight" /\ permits' = permits
  BY <1>2 DEF Claim, Goto, ThreadOK, storeVars
<1>4. ~Claimed(req[t].permit) /\ VerifyTrustCheckpoint(req[t].checkpoint, claims)
  BY <1>2 DEF Claimable, Claimed
<1>5. NewRow(t) \notin claims
  BY <1>1, <1>4 DEF Claimed
<1>6. req[t].permit \in PermitIds /\ permits[req[t].permit] # None
  BY <1>3 DEF Locals, LocalOK, Executing, Deciding
<1>7. TrustHolds(permits[req[t].permit].trust, req[t].checkpoint)
  BY <1>3 DEF ReplayInv
<1> QED BY <1>1, <1>2, <1>3, <1>4, <1>5, <1>6, <1>7

\* A claim is made exactly when the permit is bound to the present registry.
LEMMA ClaimBefore ==
    ASSUME NEW t \in Threads, NEW p,
           VerifyTrustCheckpoint(req[t].checkpoint, claims),
           TrustHolds(permits[p].trust, req[t].checkpoint)
    PROVE  permits[p].trust.replay_root = [claims |-> claims]
  BY DEF VerifyTrustCheckpoint, TrustHolds, ReplayRegistryRoot

LEMMA ReplayStep == TypeInv /\ ReplayInv /\ [Next]_vars => ReplayInv'
<1> SUFFICES ASSUME TypeInv, ReplayInv, [Next]_vars PROVE ReplayInv'
  OBVIOUS
<1>0. WorldOK /\ StoreOK /\ ThreadOK /\ Locals
  BY TypeParts DEF TypeInv
<1>1. ASSUME NEW t \in Threads, Step(t) PROVE ReplayInv'
  <2>1. /\ \A u \in Threads \ {t} : pc'[u] = pc[u] /\ req'[u] = req[u]
        /\ \A p \in PermitIds : permits[p] # None => permits'[p] = permits[p]
    BY <1>0, <1>1, StepFrame
  <2>2. \A row \in claims : permits'[row.permit] = permits[row.permit]
    BY <1>0, <2>1 DEF ReplayInv, StoreOK, ClaimRows
  <2>3. \A row \in claims : Before(row)' = Before(row)
    BY <2>2 DEF Before
  <2>4. ASSUME NEW u \in Threads, pc'[u] = "claim"
        PROVE  TrustHolds(permits[req[u].permit].trust, req[u].checkpoint)'
    <3>1. CASE u = t
      BY <1>0, <1>1, <2>4, <3>1, EntersClaim DEF PermitHolds, TrustHolds
    <3>2. CASE u # t
      <4>1. pc[u] = "claim" /\ req'[u] = req[u]
        BY <2>1, <2>4, <3>2
      <4>2. req[u].permit \in PermitIds /\ permits[req[u].permit] # None
        BY <1>0, <4>1 DEF Locals, LocalOK, Executing, Deciding
      <4>3. permits'[req[u].permit] = permits[req[u].permit]
        BY <2>1, <4>2
      <4> QED BY <4>1, <4>3 DEF ReplayInv, TrustHolds
    <3> QED BY <3>1, <3>2
  <2>5. CASE claims' = claims
    BY <2>2, <2>3, <2>4, <2>5 DEF ReplayInv, ClaimsInOneLine
  <2>6. CASE claims' # claims
    <3>1. Claim(t)
      BY <1>1, <2>6, StepEffects
    <3>2. PICK row :
             /\ claims' = claims \union {row} /\ row \notin claims
             /\ row.permit = req[t].permit /\ permits[row.permit] # None /\ permits' = permits
             /\ permits[row.permit].trust.replay_root = [claims |-> claims]
      BY <1>0, <2>6, <3>1, ClaimAdds, ClaimBefore
    <3>3. Before(row)' = claims
      BY <3>2 DEF Before
    <3>4. \A c \in claims : c \in Before(row)' /\ row \notin Before(c)'
      BY <2>3, <3>2, <3>3 DEF ReplayInv
    <3>5. \A c \in claims' : c \notin Before(c)' /\ Before(c)' \subseteq claims'
      BY <2>3, <3>2, <3>3 DEF ReplayInv
    <3>6. \A c \in claims' : permits'[c.permit] # None
      BY <3>2 DEF ReplayInv
    <3>7. ClaimsInOneLine'
      BY <2>3, <3>2, <3>4 DEF ReplayInv, ClaimsInOneLine
    <3> QED BY <2>4, <3>5, <3>6, <3>7 DEF ReplayInv
  <2> QED BY <2>5, <2>6
<1>2. CASE Environment
  <2>1. claims' = claims /\ permits' = permits
    BY <1>2, EnvironmentEffects DEF trustVars, storeVars
  <2>2. \A u \in Threads : pc'[u] = "claim" => pc[u] = "claim" /\ req'[u] = req[u]
    BY <1>0, <1>2, EnvironmentThreads
  <2> QED BY <2>1, <2>2 DEF ReplayInv, ClaimsInOneLine, Before, TrustHolds
<1>3. CASE UNCHANGED vars
  BY <1>3 DEF vars, trustVars, storeVars, threadVars, ReplayInv, ClaimsInOneLine, Before,
              TrustHolds
<1> QED BY <1>1, <1>2, <1>3, NextCases

LEMMA ReplayAlways == Spec => []ReplayInv
<1>1. Init => ReplayInv
  BY DEF Init, ReplayInv, ClaimsInOneLine
<1> QED BY <1>1, ReplayStep, TypeAlways, PTL DEF Spec

\* No two permits bound to the same replay state are both spent, whichever process
\* spends them: the recheck under the write lock of the registry decides.
THEOREM ReplayStatesAreSpentOnce == Spec => []OneClaimPerReplayState
<1>1. ReplayInv => OneClaimPerReplayState
  <2> SUFFICES ASSUME ReplayInv, NEW c \in claims, NEW d \in claims, Before(c) = Before(d)
               PROVE  c = d
    BY DEF OneClaimPerReplayState, Before
  <2> QED BY DEF ReplayInv, ClaimsInOneLine
<1> QED BY <1>1, ReplayAlways, PTL

\* However many threads and processes spend, the claims of the registry are in one
\* line: every permit that was spent was bound to the spending of all before it.
THEOREM ClaimsAreInOneLine == Spec => []ClaimsInOneLine
<1>1. ReplayInv => ClaimsInOneLine
  BY DEF ReplayInv
<1> QED BY <1>1, ReplayAlways, PTL

-----------------------------------------------------------------------------
(* Checkpoints commit what was claimed *)

\* A checkpoint commits only claims that were made, in the file and in the hands
\* of a thread that mints from it or writes it.
Committed(c) == Roots(c).replay.claims
PastInv ==
    /\ Committed(checkpoint) \subseteq claims
    /\ \A t \in Threads : pc[t] \in {"mintPut", "store", "restore"} =>
          Committed(req[t].checkpoint) \subseteq claims

LEMMA EntersPast ==
    ASSUME ThreadOK, NEW t \in Threads, Step(t), pc'[t] \in {"mintPut", "store", "restore"}
    PROVE  MintRead(t) \/ Advance(t) \/ Readvance(t)
<1> USE DEF ThreadOK, Goto, End, Deny
<1>1. CASE Evaluate(t)
  BY <1>1 DEF Evaluate, EvaluateRequest, EvaluateReadable, EvaluatePolicy, EvaluateIdentity,
              EvaluatePut
<1>2. CASE Mint(t)
  BY <1>2 DEF Mint, MintRequest, MintPut
<1>3. CASE Execute(t)
  BY <1>3 DEF Execute, ExecuteRequest, Admit, Authorize, ExecuteReadable, CheckRole,
              ReadPolicy, ReadIdentity, ReadCheckpoint, Verify, Claim, GetPull, PutMerge,
              AwaitMerge, Lookup, Store, Record
<1>4. CASE Reconcile(t)
  BY <1>4 DEF Reconcile, ReconcileRequest, Observe, Conclude, Readmit, RereadCheckpoint,
              Restore
<1>5. CASE Audit(t)
  BY <1>5 DEF Audit
<1>6. CASE Fail(t)
  BY <1>6 DEF Fail
<1> QED BY <1>1, <1>2, <1>3, <1>4, <1>5, <1>6 DEF Step

\* What the successor of a checkpoint commits.
LEMMA NextCommits ==
    ASSUME NEW c \in Checkpoints, NEW rows, NEW root
    PROVE  Committed(NextTrustCheckpoint(c, rows, root)) = rows
<1> DEFINE link == [replay |-> ReplayRegistryRoot(rows), observation |-> root]
<1>1. c \in Seq(Links) /\ Len(c) \in Nat
  BY DEF Checkpoints
<1>2. link.replay.claims = rows
  BY DEF ReplayRegistryRoot
<1> HIDE DEF link
<1>3. Append(c, link)[Len(Append(c, link))] = link
  BY <1>1
<1>4. NextTrustCheckpoint(c, rows, root) = Append(c, link)
  BY DEF NextTrustCheckpoint, link
<1> QED BY <1>2, <1>3, <1>4 DEF Committed, Roots

LEMMA PastStep == TypeInv /\ PastInv /\ [Next]_vars => PastInv'
<1> SUFFICES ASSUME TypeInv, PastInv, [Next]_vars PROVE PastInv'
  OBVIOUS
<1>0. WorldOK /\ StoreOK /\ ThreadOK /\ Locals
  BY TypeParts DEF TypeInv
<1>1. ASSUME NEW t \in Threads, Step(t) PROVE PastInv'
  <2>1. \A u \in Threads \ {t} : pc'[u] = pc[u] /\ req'[u] = req[u]
    BY <1>0, <1>1, StepFrame
  <2>2. claims \subseteq claims'
    BY <1>1, StepEffects DEF Claim
  <2>3. Committed(checkpoint') \subseteq claims'
    BY <1>1, <2>2, StepEffects DEF PastInv, Store, Restore, Goto, Committed
  <2>4. ASSUME pc'[t] \in {"mintPut", "store", "restore"}
        PROVE  Committed(req'[t].checkpoint) \subseteq claims'
    <3>1. CASE MintRead(t)
      BY <1>0, <2>2, <3>1 DEF MintRead, ThreadOK, Requests, PastInv, Committed
    <3>2. CASE Advance(t)
      <4> DEFINE next == NextTrustCheckpoint(req[t].checkpoint, claims,
                                             Roots(req[t].checkpoint).observation)
      <4>1. req[t].checkpoint \in Checkpoints
        BY <1>0, <3>2 DEF Advance, Goto, Locals, LocalOK, Acting
      <4>2. Committed(next) = claims
        BY <4>1, NextCommits
      <4>3. req' = [req EXCEPT ![t].checkpoint = next]
        BY <3>2 DEF Advance
      <4> HIDE DEF next
      <4>4. req'[t].checkpoint = next
        BY <1>0, <4>3 DEF ThreadOK, Requests
      <4> QED BY <2>2, <4>2, <4>4 DEF Committed
    <3>3. CASE Readvance(t)
      <4> DEFINE next == NextTrustCheckpoint(req[t].checkpoint, claims,
                                             ObservationRoot(req[t].observation))
      <4>1. req[t].checkpoint \in Checkpoints
        BY <1>0, <3>3 DEF Readvance, Goto, Locals, LocalOK
      <4>2. Committed(next) = claims
        BY <4>1, NextCommits
      <4>3. req' = [req EXCEPT ![t].checkpoint = next]
        BY <3>3 DEF Readvance
      <4> HIDE DEF next
      <4>4. req'[t].checkpoint = next
        BY <1>0, <4>3 DEF ThreadOK, Requests
      <4> QED BY <2>2, <4>2, <4>4 DEF Committed
    <3> QED BY <1>0, <1>1, <2>4, <3>1, <3>2, <3>3, EntersPast
  <2> QED BY <2>1, <2>2, <2>3, <2>4 DEF PastInv, Committed
<1>2. CASE Environment
  <2>1. UNCHANGED <<claims, checkpoint>>
    BY <1>2, EnvironmentEffects DEF trustVars
  <2>2. \A u \in Threads : pc'[u] \in {"mintPut", "store", "restore"} =>
           pc[u] = pc'[u] /\ req'[u] = req[u]
    BY <1>0, <1>2, EnvironmentThreads
  <2> QED BY <2>1, <2>2 DEF PastInv, Committed
<1>3. CASE UNCHANGED vars
  BY <1>3 DEF vars, trustVars, threadVars, PastInv, Committed
<1> QED BY <1>1, <1>2, <1>3, NextCases

LEMMA PastAlways == Spec => []PastInv
<1>1. Init => PastInv
  BY DEF Init, PastInv, Committed, Roots, GenesisCheckpoint, ReplayRegistryRoot
<1> QED BY <1>1, PastStep, TypeAlways, PTL DEF Spec

-----------------------------------------------------------------------------
(* An attempt owns its permit until it is recorded *)

Attempting == Acting \union {"record"}

\* An assignment to one local leaves the others alone.
LEMMA AssignKeeps ==
    ASSUME ThreadOK, NEW t \in Threads, NEW v
    PROVE  /\ \/ req' = [req EXCEPT ![t].receipt = v]
              \/ req' = [req EXCEPT ![t].policy = v]
              \/ req' = [req EXCEPT ![t].identity = v]
              => req'[t].checkpoint = req[t].checkpoint /\ req'[t].permit = req[t].permit
           /\ req' = [req EXCEPT ![t].checkpoint = v]
              => req'[t].checkpoint = v /\ req'[t].permit = req[t].permit
  BY DEF ThreadOK, Requests

LEMMA ReceiptKeeps ==
    ASSUME ThreadOK, NEW t \in Threads, GetPull(t) \/ AwaitMerge(t) \/ Lookup(t), pc'[t] # "idle"
    PROVE  req'[t].checkpoint = req[t].checkpoint /\ req'[t].permit = req[t].permit
<1>1. req' = req \/ \E v : req' = [req EXCEPT ![t].receipt = v]
  <2>1. CASE GetPull(t)
    BY <2>1 DEF GetPull, End, ThreadOK
  <2>2. CASE AwaitMerge(t)
    BY <2>2 DEF AwaitMerge, End, ThreadOK
  <2>3. CASE Lookup(t)
    BY <2>3 DEF Lookup, End, ThreadOK
  <2> QED BY <2>1, <2>2, <2>3
<1> QED BY <1>1, AssignKeeps

LEMMA EntersActing ==
    ASSUME ThreadOK, NEW t \in Threads, Step(t), pc'[t] \in Acting \union {"record"}
    PROVE  /\ req'[t].permit = req[t].permit
           /\ pc'[t] \in Acting => pc[t] \in Acting \/ Claim(t)
           /\ pc'[t] = "store" => Advance(t)
           /\ pc'[t] = "record" => Store(t)
<1> USE DEF ThreadOK, Goto, End, Deny, Acting
<1>1. CASE Evaluate(t)
  BY <1>1 DEF Evaluate, EvaluateRequest, EvaluateReadable, EvaluatePolicy, EvaluateIdentity,
              EvaluatePut
<1>2. CASE Mint(t)
  BY <1>2 DEF Mint, MintRequest, MintRead, MintPut
<1>3. CASE Execute(t)
  <2>1. CASE GetPull(t) \/ AwaitMerge(t) \/ Lookup(t)
    <3>1. req'[t].permit = req[t].permit
      BY <2>1, ReceiptKeeps
    <3> QED BY <2>1, <3>1 DEF GetPull, AwaitMerge, Lookup
  <2>2. CASE Advance(t)
    BY <2>2, AssignKeeps DEF Advance
  <2>3. CASE Claim(t) \/ PutMerge(t) \/ Store(t)
    BY <2>3 DEF Claim, PutMerge, Store
  <2>4. CASE \/ ReadCheckpoint(t) \/ Verify(t) \/ ReadPolicy(t) \/ ReadIdentity(t)
             \/ Authorize(t) \/ ExecuteReadable(t) \/ Admit(t)
    BY <2>4 DEF ReadCheckpoint, Verify, ReadPolicy, ReadIdentity, Authorize, ExecuteReadable,
                CheckRole, Admit
  <2>5. CASE Record(t) \/ \E u \in Principals, p \in PermitIds : ExecuteRequest(t, u, p)
    BY <2>5 DEF Record, ExecuteRequest
  <2> QED BY <1>3, <2>1, <2>2, <2>3, <2>4, <2>5 DEF Execute
<1>4. CASE Reconcile(t)
  BY <1>4 DEF Reconcile, ReconcileRequest, Observe, Conclude, Readmit, RereadCheckpoint,
              Readvance, Restore
<1>5. CASE Audit(t)
  BY <1>5 DEF Audit
<1>6. CASE Fail(t)
  BY <1>6 DEF Fail
<1> QED BY <1>1, <1>2, <1>3, <1>4, <1>5, <1>6 DEF Step

\* From its claim until its record a thread alone acts for its permit, of which
\* nothing is recorded; nothing is ever recorded of a permit that was not claimed.
AttemptInv ==
    /\ \A t \in Threads : pc[t] \in Attempting =>
          Claimed(req[t].permit) /\ Records(req[t].permit) = {}
    /\ \A t, u \in Threads : pc[t] \in Attempting /\ pc[u] \in Attempting /\ t # u =>
          req[t].permit # req[u].permit
    /\ \A e \in executions : Claimed(e.permit)

\* What a claim and a record do to AttemptInv.
LEMMA ClaimBegins ==
    ASSUME ThreadOK, AttemptInv, NEW t \in Threads, Claim(t), pc'[t] = "preflight"
    PROVE  /\ ~Claimed(req[t].permit) /\ Claimed(req[t].permit)'
           /\ Records(req[t].permit) = {} /\ executions' = executions
           /\ \A u \in Threads : pc[u] \in Attempting => req[u].permit # req[t].permit
<1>1. pc[t] = "claim" /\ Claimable(t) /\ NewRow(t) \in claims'
  BY DEF Claim, Deny, ThreadOK, NewRow
<1>2. ~Claimed(req[t].permit)
  BY <1>1 DEF Claimable, Claimed
<1>3. Claimed(req[t].permit)'
  <2>1. PICK row : row = NewRow(t)
    OBVIOUS
  <2>2. row \in claims' /\ row.permit = req[t].permit
    BY <1>1, <2>1 DEF NewRow
  <2>3. \E r \in claims' : r.permit = req[t].permit
    BY <2>2
  <2>4. req'[t] = req[t]
    BY <1>1 DEF Claim, Deny, ThreadOK
  <2> QED BY <2>3, <2>4 DEF Claimed
<1>4. executions' = executions
  BY DEF Claim, storeVars
<1> QED BY <1>2, <1>3, <1>4 DEF AttemptInv, Records

LEMMA AttemptStep == TypeInv /\ AttemptInv /\ [Next]_vars => AttemptInv'
<1> SUFFICES ASSUME TypeInv, AttemptInv, [Next]_vars PROVE AttemptInv'
  OBVIOUS
<1>0. StoreOK /\ ThreadOK /\ Locals /\ WorldOK
  BY TypeParts DEF TypeInv
<1>1. ASSUME NEW t \in Threads, Step(t) PROVE AttemptInv'
  <2>1. \A u \in Threads \ {t} : pc'[u] = pc[u] /\ req'[u] = req[u]
    BY <1>0, <1>1, StepFrame
  <2>2. \A p : Claimed(p) => (\E row \in claims' : row.permit = p)
    BY <1>1, StepEffects DEF Claim, Claimed
  <2>3. pc'[t] \in Attempting => req'[t].permit = req[t].permit
                                /\ (pc[t] \in Attempting \/ Claim(t))
    BY <1>0, <1>1, EntersActing DEF Attempting, Store, Goto, Acting
  <2>4. CASE Record(t)
    <3>1. /\ pc[t] \in Attempting /\ pc'[t] \notin Attempting
          /\ Claimed(req[t].permit)
      BY <1>0, <2>4 DEF Record, Goto, ThreadOK, Attempting, Acting, AttemptInv
    <3> DEFINE new == [permit |-> req[t].permit, executor |-> req[t].user,
                       receipt |-> req[t].receipt,
                       preliminary_state |-> AuthorityState(req[t].receipt)]
    <3>0. executions' = executions \union {new} /\ new.permit = req[t].permit
      BY <2>4 DEF Record
    <3>2. PICK e : executions' = executions \union {e} /\ e.permit = req[t].permit
      BY <3>0
    <3>3. \A u \in Threads \ {t} : pc[u] \in Attempting => req[u].permit # e.permit
      BY <3>1, <3>2 DEF AttemptInv
    <3>4. \A u \in Threads : pc'[u] \in Attempting =>
             /\ pc[u] \in Attempting /\ req'[u] = req[u] /\ req[u].permit # e.permit
      BY <2>1, <3>1, <3>3
    <3>5. \A p : p # e.permit /\ Records(p) = {} => {f \in executions' : f.permit = p} = {}
      BY <3>2 DEF Records
    <3>6. \A f \in executions' : \E row \in claims' : row.permit = f.permit
      BY <2>2, <3>1, <3>2 DEF AttemptInv
    <3> QED BY <2>2, <3>4, <3>5, <3>6 DEF AttemptInv, Claimed, Records
  <2>5. CASE executions' = executions
    <3>1. \A f \in executions' : \E row \in claims' : row.permit = f.permit
      BY <2>2, <2>5 DEF AttemptInv
    <3>2. CASE pc'[t] \in Attempting /\ pc[t] \notin Attempting
      <4>1. Claim(t) /\ req'[t].permit = req[t].permit
        BY <2>3, <3>2
      <4>2. pc'[t] = "preflight"
        BY <1>0, <3>2, <4>1 DEF Claim, Goto, Deny, ThreadOK, Attempting, Acting
      <4>3. /\ Claimed(req[t].permit)' /\ Records(req[t].permit) = {}
            /\ \A u \in Threads : pc[u] \in Attempting => req[u].permit # req[t].permit
        BY <1>0, <4>1, <4>2, ClaimBegins
      <4>4. \A u \in Threads : pc'[u] \in Attempting =>
               Claimed(req[u].permit)' /\ Records(req'[u].permit) = {}
        <5>1. Claimed(req[t].permit)' /\ Records(req'[t].permit) = {}
          BY <4>1, <4>3
        <5>2. ASSUME NEW u \in Threads \ {t}, pc'[u] \in Attempting
              PROVE  Claimed(req[u].permit)' /\ Records(req'[u].permit) = {}
          BY <2>1, <2>2, <5>2 DEF AttemptInv, Claimed
        <5> QED BY <5>1, <5>2
      <4>5. \A u, w \in Threads : pc'[u] \in Attempting /\ pc'[w] \in Attempting /\ u # w =>
               req'[u].permit # req'[w].permit
        BY <2>1, <4>1, <4>3 DEF AttemptInv
      <4> QED BY <2>5, <3>1, <4>4, <4>5 DEF AttemptInv, Claimed, Records
    <3>3. CASE pc'[t] \in Attempting => pc[t] \in Attempting
      <4>1. \A u \in Threads : pc'[u] \in Attempting =>
               pc[u] \in Attempting /\ req'[u].permit = req[u].permit
        BY <2>1, <2>3, <3>3
      <4>2. \A u \in Threads : pc'[u] \in Attempting =>
               Claimed(req[u].permit)' /\ Records(req'[u].permit) = {}
        BY <2>2, <4>1 DEF AttemptInv, Claimed
      <4>3. \A u, w \in Threads : pc'[u] \in Attempting /\ pc'[w] \in Attempting /\ u # w =>
               req'[u].permit # req'[w].permit
        BY <4>1 DEF AttemptInv
      <4> QED BY <2>5, <3>1, <4>2, <4>3 DEF AttemptInv, Claimed, Records
    <3> QED BY <3>2, <3>3
  <2> QED BY <1>1, <2>4, <2>5, StepEffects
<1>2. CASE Environment
  <2>1. claims' = claims /\ executions' = executions
    BY <1>2, EnvironmentEffects DEF storeVars, trustVars
  <2>2. \A u \in Threads : pc'[u] \in Attempting => pc[u] = pc'[u] /\ req'[u] = req[u]
    BY <1>0, <1>2, EnvironmentThreads DEF Attempting, Acting
  <2> QED BY <2>1, <2>2 DEF AttemptInv, Claimed, Records
<1>3. CASE UNCHANGED vars
  BY <1>3 DEF vars, storeVars, trustVars, threadVars, AttemptInv, Claimed, Records
<1> QED BY <1>1, <1>2, <1>3, NextCases

LEMMA AttemptAlways == Spec => []AttemptInv
<1>1. Init => AttemptInv
  BY DEF Init, AttemptInv, Attempting, Acting
<1> QED BY <1>1, AttemptStep, TypeAlways, PTL DEF Spec

-----------------------------------------------------------------------------
(* The pilot implements the single-use authority *)

\* The mapped state, one variable at a time.
Bound == [p \in PermitIds |-> BoundTo(permits[p])]
Said == [p \in PermitIds |-> Records(p)]

\* Minting is granting: a permit is bound to a registry of the past.
LEMMA MintGrants ==
    ASSUME TypeInv, PastInv, NEW t \in Threads, NEW p \in PermitIds, MintPut(t, p)
    PROVE  Bound' = Bound \/ Authority!Grant(p)
<1>0. StoreOK /\ ThreadOK /\ Locals
  BY TypeParts DEF TypeInv
<1>1. /\ permits[p] = None /\ pc[t] = "mintPut"
      /\ UNCHANGED <<claims, dispatched, executions>>
  BY DEF MintPut, Goto, trustVars, historyVars
<1> DEFINE permit == [evaluation |-> req[t].evaluation, nonce |-> req[t].nonce,
                      trust |-> TrustConstraints(req[t].checkpoint)]
<1>2. /\ permits' = [permits EXCEPT ![p] = permit]
      /\ permit.trust = TrustConstraints(req[t].checkpoint)
  BY DEF MintPut
<1> HIDE DEF permit
<1>3. permit.trust.replay_root.claims = Committed(req[t].checkpoint)
  BY <1>2 DEF TrustConstraints, Committed
<1>4. Committed(req[t].checkpoint) \subseteq claims
  BY <1>1 DEF PastInv
<1>5. Bound' = [Bound EXCEPT ![p] = BoundTo(permit)]
  BY <1>0, <1>2 DEF Bound, StoreOK
<1>6. Bound[p] = None
  BY <1>1 DEF Bound, BoundTo
<1>7. CASE permit = None
  BY <1>5, <1>6, <1>7 DEF BoundTo, Bound
<1>8. CASE permit # None
  <2>1. BoundTo(permit) \in SUBSET Spent
    BY <1>3, <1>4, <1>8 DEF BoundTo, Spent
  <2>2. Spent' = Spent /\ Said' = Said
    BY <1>1 DEF Spent, Said, Records
  <2> QED
    BY <1>1, <1>5, <1>6, <2>1, <2>2 DEF Authority!Grant, Bound, Said
<1> QED BY <1>7, <1>8

\* A claim is a spending of a permit bound to exactly what is spent.
LEMMA ClaimSpends ==
    ASSUME TypeInv, ReplayInv, NEW t \in Threads, Claim(t), claims' # claims
    PROVE  \E p \in PermitIds : Authority!Spend(p)
<1>0. ThreadOK /\ Locals
  BY TypeParts DEF TypeInv
<1>1. PICK row :
         /\ claims' = claims \union {row} /\ row \notin claims
         /\ row.permit = req[t].permit /\ row.permit \in PermitIds
         /\ permits[row.permit] # None /\ permits' = permits
         /\ ~Claimed(row.permit)
         /\ permits[row.permit].trust.replay_root = [claims |-> claims]
  BY <1>0, ClaimAdds, ClaimBefore
<1>2. dispatched' = dispatched /\ Said' = Said
  BY DEF Claim, storeVars, Said, Records
<1>3. Bound[row.permit] = Spent /\ row.permit \notin Spent
  BY <1>1 DEF Bound, BoundTo, Spent, Claimed
<1>4. Spent' = Spent \union {row.permit} /\ Bound' = Bound
  BY <1>1 DEF Spent, Bound
<1>5. Authority!Spend(row.permit)
  BY <1>1, <1>2, <1>3, <1>4 DEF Authority!Spend, Bound, Said
<1> QED BY <1>1, <1>5

\* A PUT is an act under a spent permit that has not acted.
LEMMA PutActs ==
    ASSUME TypeInv, UseInv, AttemptInv, NEW t \in Threads, PutMerge(t)
    PROVE  \E p \in PermitIds : Authority!Act(p)
<1>0. StoreOK /\ ThreadOK /\ Locals
  BY TypeParts DEF TypeInv
<1> DEFINE p == req[t].permit
<1>1. /\ pc[t] = "merge" /\ UNCHANGED <<claims, permits, executions>>
      /\ dispatched' = [dispatched EXCEPT ![p] = @ + 1]
  BY DEF PutMerge, Goto, trustVars, storeVars
<1>2. p \in PermitIds /\ Claimed(p) /\ dispatched[p] = 0
  BY <1>0, <1>1 DEF UseInv, Sending, Locals, LocalOK, Executing, Acting
<1>3. dispatched' = [dispatched EXCEPT ![p] = 1]
  BY <1>1, <1>2
<1>4. p \in Spent /\ Spent' = Spent /\ Bound' = Bound /\ Said' = Said
  BY <1>1, <1>2 DEF Claimed, Spent, Bound, Said, Records
<1>5. Said[p] = {}
  BY <1>1, <1>2 DEF AttemptInv, Attempting, Acting, Said
<1>6. Authority!Act(p)
  BY <1>2, <1>3, <1>4, <1>5 DEF Authority!Act, Bound, Said
<1> QED BY <1>2, <1>6

\* The record of an attempt concludes its permit, of which nothing was said.
LEMMA RecordConcludes ==
    ASSUME TypeInv, StoreOK', AttemptInv, NEW t \in Threads, Record(t)
    PROVE  \E p \in PermitIds : Authority!Conclude(p)
<1>0. StoreOK /\ ThreadOK /\ Locals
  BY TypeParts DEF TypeInv
<1>1. PICK p \in PermitIds :
         /\ p = req[t].permit /\ UNCHANGED <<claims, permits, dispatched>>
         /\ Claimed(p) /\ Records(p) = {}
  BY <1>0 DEF Record, Goto, trustVars, historyVars, Locals, LocalOK, Executing, AttemptInv,
              Attempting
<1>2. PICK e : executions' = executions \union {e} /\ e.permit = p
  <2> DEFINE new == [permit |-> req[t].permit, executor |-> req[t].user,
                     receipt |-> req[t].receipt,
                     preliminary_state |-> AuthorityState(req[t].receipt)]
  <2>1. executions' = executions \union {new} /\ new.permit = p
    BY <1>1 DEF Record
  <2> QED BY <2>1
<1>3. e \in Executions
  BY <1>2 DEF StoreOK
<1>4. /\ Records(p)' = {e}
      /\ \A q \in PermitIds \ {p} : Records(q)' = Records(q)
  <2>1. \A f \in executions : f.permit # p
    BY <1>1 DEF Records
  <2>2. {f \in executions' : f.permit = p} = {e}
    BY <1>2, <2>1
  <2>3. ASSUME NEW q \in PermitIds \ {p}
        PROVE  {f \in executions' : f.permit = q} = {f \in executions : f.permit = q}
    BY <1>2
  <2> QED BY <2>2, <2>3 DEF Records
<1>5. Said[p] = {} /\ Said'[p] = {e} /\ Said' = [Said EXCEPT ![p] = {e}]
  BY <1>1, <1>4 DEF Said
<1>6. p \in Spent /\ Spent' = Spent /\ Bound' = Bound
  BY <1>1 DEF Claimed, Spent, Bound
<1>7. Authority!Conclude(p)
  BY <1>1, <1>3, <1>5, <1>6 DEF Authority!Conclude, Bound, Said
<1> QED BY <1>1, <1>7

LEMMA AuthorityStep ==
    ASSUME TypeInv, UseInv, ReplayInv, PastInv, AttemptInv, [Next]_vars
    PROVE  [Authority!Next]_(Authority!authorityVars)
<1>1. ASSUME UNCHANGED <<claims, permits, dispatched, executions>>
      PROVE  UNCHANGED Authority!authorityVars
  BY <1>1 DEF Authority!authorityVars, Spent, Records
<1>2. ASSUME NEW t \in Threads, Step(t)
      PROVE  [Authority!Next]_(Authority!authorityVars)
  <2>1. ASSUME NEW p \in PermitIds, MintPut(t, p)
        PROVE  [Authority!Next]_(Authority!authorityVars)
    <3>1. UNCHANGED <<claims, dispatched, executions>>
      BY <2>1 DEF MintPut, trustVars, historyVars
    <3>2. Said' = Said
      BY <3>1 DEF Said, Records
    <3> QED
      BY <2>1, <3>1, <3>2, MintGrants
         DEF Authority!Next, Authority!authorityVars, Spent, Bound, Said
  <2>2. CASE claims' # claims
    BY <1>2, <2>2, StepEffects, ClaimSpends DEF Authority!Next
  <2>3. CASE PutMerge(t)
    BY <2>3, PutActs DEF Authority!Next
  <2>4. CASE Record(t)
    <3>1. StoreOK'
      BY TypeStep, TypeParts DEF TypeInv, TypeOK, StoreOK
    <3> QED BY <2>4, <3>1, RecordConcludes DEF Authority!Next
  <2> QED BY <1>1, <1>2, <2>1, <2>2, <2>3, <2>4, StepEffects
<1>3. CASE Environment
  BY <1>1, <1>3, EnvironmentEffects DEF trustVars, storeVars
<1>4. CASE UNCHANGED vars
  BY <1>1, <1>4 DEF vars, trustVars, storeVars, historyVars
<1> QED BY <1>2, <1>3, <1>4, NextCases

\* Whatever the threads, the processes, the network and the governors do, the
\* pilot behaves as a single-use authority: one claim, then at most one PUT, then at
\* most one execution record, under each permit and in this order.
THEOREM PilotImplementsAuthority == Spec => ImplementsAuthority
<1>1. Init => Authority!Init
  BY DEF Init, Authority!Init, BoundTo, Spent, Records
<1> QED
  BY <1>1, AuthorityStep, TypeAlways, UseAlways, ReplayAlways, PastAlways, AttemptAlways, PTL
     DEF Spec, ImplementsAuthority, Authority!Spec

-----------------------------------------------------------------------------
(* And so a permit is consumed first, as an action of the two integrations is *)

Consumption == INSTANCE ConsumedFirst WITH
    Keys <- PermitIds,
    Outcomes <- {{e} : e \in Executions},
    None <- {},
    consumed <- Spent,
    effects <- dispatched,
    outcomes <- Said
ConsumesFirst == Consumption!Spec

LEMMA AuthorityStepConsumes ==
    ASSUME [Authority!Next]_(Authority!authorityVars)
    PROVE  [Consumption!Next]_(Consumption!consumptionVars)
<1> USE DEF Said
<1>1. CASE UNCHANGED Authority!authorityVars
  BY <1>1 DEF Authority!authorityVars, Consumption!consumptionVars
<1>2. ASSUME NEW p \in PermitIds, Authority!Grant(p)
      PROVE  UNCHANGED Consumption!consumptionVars
  BY <1>2 DEF Authority!Grant, Consumption!consumptionVars
<1>3. ASSUME NEW p \in PermitIds, Authority!Spend(p) PROVE Consumption!Consume(p)
  BY <1>3 DEF Authority!Spend, Consumption!Consume
<1>4. ASSUME NEW p \in PermitIds, Authority!Act(p) PROVE Consumption!Affect(p)
  BY <1>4 DEF Authority!Act, Consumption!Affect
<1>5. ASSUME NEW p \in PermitIds, Authority!Conclude(p) PROVE Consumption!Conclude(p)
  BY <1>5 DEF Authority!Conclude, Consumption!Conclude
<1> QED BY <1>1, <1>2, <1>3, <1>4, <1>5 DEF Authority!Next, Consumption!Next

\* Whatever threads, processes, network and crashes do, a permit is claimed before its
\* PUT, there is at most one PUT, and one execution record says what became of it, after
\* which no PUT is sent.
THEOREM PilotConsumesFirst == Spec => ConsumesFirst
<1>1. Init => Consumption!Init
  BY DEF Init, Consumption!Init, Spent, Said, Records
<1>2. TypeInv /\ UseInv /\ ReplayInv /\ PastInv /\ AttemptInv /\ [Next]_vars
         => [Consumption!Next]_(Consumption!consumptionVars)
  BY AuthorityStep, AuthorityStepConsumes
<1> QED
  BY <1>1, <1>2, TypeAlways, UseAlways, ReplayAlways, PastAlways, AttemptAlways, PTL
     DEF Spec, ConsumesFirst, Consumption!Spec

-----------------------------------------------------------------------------
(* The trust lock, and one process's checkpoint *)

\* Whoever is past `with self._trust_lock' holds the lock of its process.
LockInv == \A t \in Threads : pc[t] \in Locked => lock[Host[t]] = t

LEMMA EntersLocked ==
    ASSUME ThreadOK, NEW t \in Threads, Step(t)
    PROVE  /\ pc'[t] \in Locked =>
                 (pc[t] \in Locked /\ lock' = lock) \/ Admit(t) \/ Readmit(t)
           /\ lock' = lock \/ Release(t) \/ Admit(t) \/ Readmit(t)
<1> USE DEF ThreadOK, Goto, End, Deny, Locked, Deciding, Acting, Advancing
<1>1. CASE Evaluate(t)
  <2>1. CASE EvaluateReadable(t) \/ EvaluatePolicy(t)
    BY <2>1 DEF EvaluateReadable, EvaluatePolicy
  <2>2. CASE EvaluateIdentity(t) \/ EvaluatePut(t)
    BY <2>2 DEF EvaluateIdentity, EvaluatePut
  <2>3. ASSUME NEW u \in Principals, NEW h \in Heads, EvaluateRequest(t, u, h)
        PROVE  /\ pc'[t] \in Locked =>
                    (pc[t] \in Locked /\ lock' = lock) \/ Admit(t) \/ Readmit(t)
               /\ lock' = lock \/ Release(t) \/ Admit(t) \/ Readmit(t)
    BY <2>3 DEF EvaluateRequest
  <2> QED BY <1>1, <2>1, <2>2, <2>3 DEF Evaluate
<1>2. CASE Mint(t)
  <2>1. CASE MintRead(t)
    BY <2>1 DEF MintRead
  <2>3. ASSUME NEW p \in PermitIds, MintPut(t, p)
        PROVE  /\ pc'[t] \in Locked =>
                    (pc[t] \in Locked /\ lock' = lock) \/ Admit(t) \/ Readmit(t)
               /\ lock' = lock \/ Release(t) \/ Admit(t) \/ Readmit(t)
    BY <2>3 DEF MintPut
  <2>2. ASSUME NEW u \in Principals, NEW e \in evaluations, NEW n \in Nonces,
               MintRequest(t, u, e, n)
        PROVE  /\ pc'[t] \in Locked =>
                    (pc[t] \in Locked /\ lock' = lock) \/ Admit(t) \/ Readmit(t)
               /\ lock' = lock \/ Release(t) \/ Admit(t) \/ Readmit(t)
    BY <2>2 DEF MintRequest
  <2> QED BY <1>2, <2>1, <2>2, <2>3 DEF Mint
<1>3. CASE Execute(t)
  BY <1>3 DEF Execute, ExecuteRequest, Authorize, ExecuteReadable, CheckRole,
              ReadPolicy, ReadIdentity, ReadCheckpoint, Verify, Claim, GetPull, PutMerge,
              AwaitMerge, Lookup, Advance, Store, Record
<1>4. CASE Reconcile(t)
  BY <1>4 DEF Reconcile, ReconcileRequest, Observe, Conclude, RereadCheckpoint,
              Readvance, Restore
<1>5. CASE Audit(t)
  BY <1>5 DEF Audit
<1>6. CASE Fail(t)
  BY <1>6 DEF Fail
<1> QED BY <1>1, <1>2, <1>3, <1>4, <1>5, <1>6 DEF Step

LEMMA LockStep == TypeInv /\ LockInv /\ [Next]_vars => LockInv'
<1> SUFFICES ASSUME TypeInv, LockInv, [Next]_vars PROVE LockInv'
  OBVIOUS
<1>0. WorldOK /\ StoreOK /\ ThreadOK /\ Locals
  BY TypeParts DEF TypeInv
<1>1. ASSUME NEW t \in Threads, Step(t) PROVE LockInv'
  <2>1. \A u \in Threads \ {t} : pc'[u] = pc[u] /\ req'[u] = req[u]
    BY <1>0, <1>1, StepFrame
  <2>2. Host[t] \in Processes
    BY PilotAssumption
  <2>3. ASSUME NEW u \in Threads \ {t}, lock[Host[u]] = u PROVE lock'[Host[u]] = u
    <3>1. Host[u] \in Processes /\ u # None
      BY PilotAssumption
    <3>2. CASE Release(t)
      BY <1>0, <2>3, <3>1, <3>2 DEF Release, ThreadOK
    <3>3. CASE Admit(t) \/ Readmit(t)
      BY <1>0, <2>3, <3>1, <3>3 DEF Admit, Readmit, ThreadOK
    <3> QED BY <1>0, <1>1, <2>3, <3>2, <3>3, EntersLocked
  <2>4. pc'[t] \in Locked => lock'[Host[t]] = t
    BY <1>0, <1>1, <2>2, EntersLocked DEF LockInv, Admit, Readmit, ThreadOK
  <2> QED BY <2>1, <2>3, <2>4 DEF LockInv
<1>2. CASE Environment
  <2>1. ASSUME NEW host \in Processes, Crash(host) PROVE LockInv'
    <3>1. ASSUME NEW u \in Threads, pc'[u] \in Locked
          PROVE  Host[u] # host /\ pc'[u] = pc[u] /\ lock'[Host[u]] = lock[Host[u]]
      <4>1. Host[u] # host /\ pc'[u] = pc[u]
        BY <2>1, <3>1 DEF Crash, Locked, Deciding, Acting, Advancing
      <4>2. Host[u] \in Processes
        BY PilotAssumption
      <4> QED BY <1>0, <2>1, <4>1, <4>2 DEF Crash, ThreadOK
    <3> QED BY <3>1 DEF LockInv
  <2>2. ASSUME UNCHANGED <<lock, pc>> PROVE LockInv'
    BY <2>2 DEF LockInv
  <2> QED BY <1>2, <2>1, <2>2 DEF Environment, Expire, Govern, Provide, threadVars
<1>3. CASE UNCHANGED vars
  BY <1>3 DEF vars, threadVars, LockInv
<1> QED BY <1>1, <1>2, <1>3, NextCases

LEMMA LockAlways == Spec => []LockInv
<1>1. Init => LockInv
  BY DEF Init, LockInv, Locked, Deciding, Acting, Advancing
<1> QED BY <1>1, LockStep, TypeAlways, PTL DEF Spec

\* All threads belong to one process.
OneServer == \A t, u \in Threads : Host[t] = Host[u]

\* After reading the checkpoint and before writing its successor.
Holding == {"verify", "claim", "preflight", "merge", "await", "lookup", "advance", "readvance"}

\* A successor of the checkpoint file that keeps what the file commits.
Succeeds(c) ==
    \E link \in Links : c = Append(checkpoint, link) /\ Committed(checkpoint) \subseteq Committed(c)

\* In one process the checkpoint a thread holds is the one in the file, until the
\* thread writes its successor; what a thread claimed is in the one it writes.
CheckpointInv ==
    /\ RecordedClaimsCheckpointed
    /\ \A t \in Threads :
          /\ pc[t] \in Holding => req[t].checkpoint = checkpoint
          /\ pc[t] \in {"store", "restore"} => Succeeds(req[t].checkpoint)
          /\ pc[t] \in Acting => Claimed(req[t].permit)
          /\ pc[t] = "store" =>
                \E row \in Committed(req[t].checkpoint) : row.permit = req[t].permit
          /\ pc[t] = "record" =>
                \E row \in Committed(checkpoint) : row.permit = req[t].permit

LEMMA EntersHolding ==
    ASSUME ThreadOK, NEW t \in Threads, Step(t), pc'[t] \in Holding
    PROVE  /\ checkpoint' = checkpoint
           /\ \/ req'[t].checkpoint = checkpoint
              \/ pc[t] \in Holding /\ req'[t].checkpoint = req[t].checkpoint
<1> USE DEF ThreadOK, Goto, End, Deny, Holding, trustVars
<1>1. CASE Evaluate(t)
  BY <1>1 DEF Evaluate, EvaluateRequest, EvaluateReadable, EvaluatePolicy, EvaluateIdentity,
              EvaluatePut
<1>2. CASE Mint(t)
  BY <1>2 DEF Mint, MintRequest, MintRead, MintPut
<1>3. CASE Execute(t)
  <2>1. CASE ReadCheckpoint(t)
    BY <2>1, AssignKeeps DEF ReadCheckpoint
  <2>2. CASE GetPull(t) \/ AwaitMerge(t) \/ Lookup(t)
    <3>1. req'[t].checkpoint = req[t].checkpoint
      BY <2>2, ReceiptKeeps
    <3> QED BY <2>2, <3>1 DEF GetPull, AwaitMerge, Lookup
  <2>3. CASE Verify(t) \/ Claim(t) \/ PutMerge(t)
    BY <2>3 DEF Verify, Claim, PutMerge
  <2>4. CASE ReadPolicy(t) \/ ReadIdentity(t) \/ Authorize(t) \/ ExecuteReadable(t) \/ Admit(t)
    BY <2>4 DEF ReadPolicy, ReadIdentity, Authorize, ExecuteReadable, CheckRole, Admit
  <2>5. CASE Advance(t) \/ Store(t) \/ Record(t)
    BY <2>5 DEF Advance, Store, Record
  <2>6. CASE \E u \in Principals, p \in PermitIds : ExecuteRequest(t, u, p)
    BY <2>6 DEF ExecuteRequest
  <2> QED BY <1>3, <2>1, <2>2, <2>3, <2>4, <2>5, <2>6 DEF Execute
<1>4. CASE Reconcile(t)
  <2>1. CASE RereadCheckpoint(t)
    BY <2>1, AssignKeeps DEF RereadCheckpoint
  <2>2. CASE ~RereadCheckpoint(t)
    BY <1>4, <2>2 DEF Reconcile, ReconcileRequest, Observe, Conclude, Readmit, Readvance, Restore
  <2> QED BY <2>1, <2>2
<1>5. CASE Audit(t)
  BY <1>5 DEF Audit
<1>6. CASE Fail(t)
  BY <1>6 DEF Fail
<1> QED BY <1>1, <1>2, <1>3, <1>4, <1>5, <1>6 DEF Step

\* What a thread that advances the checkpoint of the file makes of it.
LEMMA SuccessorSucceeds ==
    ASSUME StoreOK, PastInv, NEW root \in ObservationRoots
    PROVE  /\ Succeeds(NextTrustCheckpoint(checkpoint, claims, root))
           /\ Committed(NextTrustCheckpoint(checkpoint, claims, root)) = claims
<1>1. checkpoint \in Checkpoints
  BY DEF StoreOK
<1>2. Committed(NextTrustCheckpoint(checkpoint, claims, root)) = claims
  BY <1>1, NextCommits
<1>3. [replay |-> ReplayRegistryRoot(claims), observation |-> root] \in Links
  BY DEF StoreOK, ReplayRegistryRoot, Links
<1> QED BY <1>2, <1>3 DEF Succeeds, PastInv, NextTrustCheckpoint

LEMMA EntersStore ==
    ASSUME StoreOK, ThreadOK, Locals, PastInv, CheckpointInv, NEW t \in Threads,
           Advance(t) \/ Readvance(t)
    PROVE  /\ UNCHANGED <<claims, checkpoint>>
           /\ Succeeds(req'[t].checkpoint) /\ Committed(req'[t].checkpoint) = claims
<1>1. UNCHANGED <<claims, checkpoint>>
  BY DEF Advance, Readvance, trustVars
<1>2. checkpoint \in Checkpoints
  BY DEF StoreOK
<1>3. req[t].checkpoint = checkpoint
  BY DEF Advance, Readvance, Goto, CheckpointInv, Holding
<1>4. PICK root \in ObservationRoots :
         req' = [req EXCEPT ![t].checkpoint = NextTrustCheckpoint(checkpoint, claims, root)]
  <2>1. CASE Advance(t)
    <3>0. EmptyRoot \in ObservationRoots
      BY DEF ObservationRoots
    <3>1. Roots(checkpoint).observation \in ObservationRoots
      BY <1>2, <3>0, NextCheckpointTypes
    <3>2. req' = [req EXCEPT ![t].checkpoint = NextTrustCheckpoint(req[t].checkpoint, claims,
                                Roots(req[t].checkpoint).observation)]
      BY <2>1 DEF Advance
    <3> QED BY <1>3, <3>1, <3>2
  <2>2. CASE Readvance(t)
    <3>1. req[t].observation \in Observations
      BY <2>2 DEF Readvance, Goto, Locals, LocalOK, Advancing
    <3>2. ObservationRoot(req[t].observation) \in ObservationRoots
      BY <3>1 DEF ObservationRoots
    <3> QED BY <1>3, <2>2, <3>2 DEF Readvance
  <2> QED BY <2>1, <2>2
<1>5. req'[t].checkpoint = NextTrustCheckpoint(checkpoint, claims, root)
  BY <1>4, AssignKeeps
<1> QED BY <1>1, <1>5, SuccessorSucceeds

\* A row the file commits stays committed by what is written next.
LEMMA CommittedStays ==
    ASSUME CheckpointInv, NEW t \in Threads, Step(t)
    PROVE  /\ Committed(checkpoint) \subseteq Committed(checkpoint')
           /\ checkpoint' # checkpoint =>
                 pc[t] \in {"store", "restore"} /\ Succeeds(checkpoint')
<1>1. CASE checkpoint' = checkpoint
  BY <1>1
<1>2. CASE checkpoint' # checkpoint
  <2>1. checkpoint' = req[t].checkpoint /\ pc[t] \in {"store", "restore"}
    BY <1>2, StepEffects DEF Store, Restore, Goto
  <2>2. Succeeds(req[t].checkpoint)
    BY <2>1 DEF CheckpointInv
  <2> QED BY <2>1, <2>2 DEF Succeeds
<1> QED BY <1>1, <1>2

LEMMA CheckpointStep ==
    ASSUME OneServer
    PROVE  TypeInv /\ LockInv /\ PastInv /\ CheckpointInv /\ [Next]_vars => CheckpointInv'
<1> SUFFICES ASSUME TypeInv, LockInv, PastInv, CheckpointInv, [Next]_vars PROVE CheckpointInv'
  OBVIOUS
<1>0. WorldOK /\ StoreOK /\ ThreadOK /\ Locals
  BY TypeParts DEF TypeInv
<1>1. ASSUME NEW t \in Threads, Step(t) PROVE CheckpointInv'
  <2>1. \A u \in Threads \ {t} : pc'[u] = pc[u] /\ req'[u] = req[u]
    BY <1>0, <1>1, StepFrame
  <2>2. /\ Committed(checkpoint) \subseteq Committed(checkpoint')
        /\ checkpoint' # checkpoint =>
              pc[t] \in {"store", "restore"} /\ Succeeds(checkpoint')
    BY <1>1, CommittedStays
  <2>3. \A p : Claimed(p) => Claimed(p)'
    BY <1>1, StepEffects DEF Claim, Claimed
  <2>4. RecordedClaimsCheckpointed'
    <3>1. \A e \in executions' : \E row \in Committed(checkpoint) : row.permit = e.permit
      <4>1. CASE executions' = executions
        BY <4>1 DEF CheckpointInv, RecordedClaimsCheckpointed, Committed
      <4>2. CASE Record(t)
        <5> DEFINE new == [permit |-> req[t].permit, executor |-> req[t].user,
                           receipt |-> req[t].receipt,
                           preliminary_state |-> AuthorityState(req[t].receipt)]
        <5>1. executions' = executions \union {new}
          BY <4>2 DEF Record
        <5>2. new.permit = req[t].permit
          OBVIOUS
        <5> HIDE DEF new
        <5>3. \E row \in Committed(checkpoint) : row.permit = new.permit
          BY <4>2, <5>2 DEF Record, Goto, CheckpointInv
        <5> QED
          BY <5>1, <5>3 DEF CheckpointInv, RecordedClaimsCheckpointed, Committed
      <4> QED BY <1>1, <4>1, <4>2, StepEffects
    <3> QED BY <2>2, <3>1 DEF RecordedClaimsCheckpointed, Committed
  <2>5. ASSUME NEW u \in Threads \ {t}
        PROVE  /\ pc'[u] \in Holding => req'[u].checkpoint = checkpoint'
               /\ pc'[u] \in {"store", "restore"} => Succeeds(req[u].checkpoint)'
               /\ pc'[u] \in Acting => Claimed(req[u].permit)'
               /\ pc'[u] = "store" =>
                     \E row \in Committed(req[u].checkpoint)' : row.permit = req'[u].permit
               /\ pc'[u] = "record" =>
                     \E row \in Committed(checkpoint)' : row.permit = req'[u].permit
    <3>1. pc'[u] = pc[u] /\ req'[u] = req[u]
      BY <2>1
    <3>2. pc[u] \in Locked => checkpoint' = checkpoint
      BY <2>2 DEF LockInv, OneServer, Locked, Acting, Advancing
    <3>3. Holding \union {"store", "restore"} \subseteq Locked
      BY DEF Holding, Locked, Deciding, Acting, Advancing
    <3> QED BY <2>2, <2>3, <3>1, <3>2, <3>3 DEF CheckpointInv, Succeeds, Committed
  <2>6. pc'[t] \in Holding => req'[t].checkpoint = checkpoint'
    BY <1>0, <1>1, EntersHolding DEF CheckpointInv
  <2>7. pc'[t] \in {"store", "restore"} => Succeeds(req[t].checkpoint)'
    <3>1. ASSUME Advance(t) \/ Readvance(t) PROVE Succeeds(req[t].checkpoint)'
      BY <1>0, <3>1, EntersStore DEF Succeeds, Committed
    <3>2. MintRead(t) => pc'[t] = "mintPut"
      BY <1>0 DEF MintRead, Goto, ThreadOK
    <3> QED BY <1>0, <1>1, <3>1, <3>2, EntersPast
  <2>8. pc'[t] \in Acting => Claimed(req[t].permit)'
    <3>1. CASE pc[t] \in Acting
      BY <1>0, <1>1, <2>3, <3>1, EntersActing DEF CheckpointInv, Claimed
    <3>2. CASE Claim(t) /\ pc'[t] \in Acting
      <4>1. claims' = claims \union {NewRow(t)} /\ req' = req
        BY <1>0, <3>2 DEF Claim, Deny, Acting, NewRow, ThreadOK
      <4>2. NewRow(t).permit = req[t].permit
        BY DEF NewRow
      <4> QED BY <4>1, <4>2 DEF Claimed
    <3> QED BY <1>0, <1>1, <3>1, <3>2, EntersActing
  <2>9. pc'[t] = "store" =>
           \E row \in Committed(req[t].checkpoint)' : row.permit = req'[t].permit
    <3> SUFFICES ASSUME pc'[t] = "store"
                 PROVE  \E row \in Committed(req'[t].checkpoint) : row.permit = req'[t].permit
      BY DEF Committed, Roots
    <3>1. Advance(t) /\ req'[t].permit = req[t].permit
      BY <1>0, <1>1, EntersActing DEF Acting
    <3>2. Committed(req'[t].checkpoint) = claims
      BY <1>0, <3>1, EntersStore
    <3>3. Claimed(req[t].permit)
      BY <3>1 DEF Advance, Goto, CheckpointInv, Acting
    <3> QED BY <3>1, <3>2, <3>3 DEF Claimed
  <2>10. pc'[t] = "record" =>
            \E row \in Committed(checkpoint)' : row.permit = req'[t].permit
    <3> SUFFICES ASSUME pc'[t] = "record"
                 PROVE  \E row \in Committed(checkpoint') : row.permit = req'[t].permit
      BY DEF Committed, Roots
    <3>1. Store(t) /\ req'[t].permit = req[t].permit
      BY <1>0, <1>1, EntersActing
    <3>2. checkpoint' = req[t].checkpoint /\ pc[t] = "store"
      BY <3>1 DEF Store, Goto
    <3> QED BY <3>1, <3>2 DEF CheckpointInv
  <2> QED BY <2>4, <2>5, <2>6, <2>7, <2>8, <2>9, <2>10 DEF CheckpointInv
<1>2. CASE Environment
  <2>1. UNCHANGED <<claims, checkpoint, executions>>
    BY <1>2, EnvironmentEffects DEF trustVars, storeVars
  <2>2. \A u \in Threads : pc'[u] = "idle" \/ (pc'[u] = pc[u] /\ req'[u] = req[u])
    BY <1>0, <1>2, EnvironmentThreads
  <2> QED
    BY <2>1, <2>2 DEF CheckpointInv, RecordedClaimsCheckpointed, Succeeds, Committed, Roots,
                      Claimed, Holding, Acting
<1>3. CASE UNCHANGED vars
  BY <1>3 DEF vars, trustVars, storeVars, threadVars, CheckpointInv, RecordedClaimsCheckpointed,
              Succeeds, Committed, Roots, Claimed
<1> QED BY <1>1, <1>2, <1>3, NextCases

LEMMA CheckpointAlways ==
    ASSUME OneServer
    PROVE  Spec => []CheckpointInv
<1>1. Init => CheckpointInv
  BY DEF Init, CheckpointInv, RecordedClaimsCheckpointed, Holding, Acting
<1>2. TypeInv /\ LockInv /\ PastInv /\ CheckpointInv /\ [Next]_vars => CheckpointInv'
  BY CheckpointStep
<1> QED BY <1>1, <1>2, TypeAlways, LockAlways, PastAlways, PTL DEF Spec

\* In one process, an execution record is stored only after the checkpoint that
\* commits its claim, and no later checkpoint, written by an execution or by a
\* reconciliation, drops the claim again.
THEOREM RecordsAreCheckpointed ==
    ASSUME OneServer
    PROVE  Spec => []RecordedClaimsCheckpointed
<1>1. CheckpointInv => RecordedClaimsCheckpointed
  BY DEF CheckpointInv
<1> QED BY <1>1, CheckpointAlways, PTL

\* In one process the checkpoint file moves only to direct successors, whichever
\* handlers write it and wherever the process dies.
THEOREM CheckpointFileAdvances ==
    ASSUME OneServer
    PROVE  Spec => CheckpointAdvances
<1>1. TypeInv /\ CheckpointInv /\ [Next]_vars =>
         [checkpoint' # checkpoint =>
            checkpoint' = Append(checkpoint, Roots(checkpoint'))]_vars
  <2> SUFFICES ASSUME TypeInv, CheckpointInv, Next, checkpoint' # checkpoint
               PROVE  checkpoint' = Append(checkpoint, Roots(checkpoint'))
    OBVIOUS
  <2>1. PICK t \in Threads : Step(t)
    BY NextCases, EnvironmentEffects DEF trustVars
  <2>2. PICK link \in Links : checkpoint' = Append(checkpoint, link)
    BY <2>1, CommittedStays DEF Succeeds
  <2>3. checkpoint \in Seq(Links)
    BY TypeParts DEF TypeInv, StoreOK, Checkpoints
  <2>4. Append(checkpoint, link)[Len(Append(checkpoint, link))] = link
    BY <2>3
  <2> QED BY <2>2, <2>4 DEF Roots
<1> QED BY <1>1, TypeAlways, CheckpointAlways, PTL DEF Spec, CheckpointAdvances

\* In one process a claim extends the registry the checkpoint file commits, under
\* a permit bound to that very checkpoint: after a crash between a claim and its
\* checkpoint nothing is claimed until a reconciliation has written one.
THEOREM ClaimsExtendTheCheckpoint ==
    ASSUME OneServer
    PROVE  Spec => ClaimExtendsCheckpoint
<1>1. TypeInv /\ ReplayInv /\ CheckpointInv /\ [Next]_vars =>
         [claims' # claims =>
            /\ VerifyTrustCheckpoint(checkpoint, claims)
            /\ \A row \in claims' \ claims :
                  permits[row.permit].trust.checkpoint_root = RecordHash(checkpoint)]_vars
  <2> SUFFICES ASSUME TypeInv, ReplayInv, CheckpointInv, Next, claims' # claims
               PROVE  /\ VerifyTrustCheckpoint(checkpoint, claims)
                      /\ \A row \in claims' \ claims :
                            permits[row.permit].trust.checkpoint_root = RecordHash(checkpoint)
    OBVIOUS
  <2>1. ThreadOK /\ Locals
    BY TypeParts DEF TypeInv
  <2>2. PICK t \in Threads : Claim(t)
    BY NextCases, EnvironmentEffects, StepEffects DEF trustVars
  <2>3. /\ claims' = claims \union {NewRow(t)} /\ NewRow(t).permit = req[t].permit
        /\ VerifyTrustCheckpoint(req[t].checkpoint, claims)
        /\ TrustHolds(permits[req[t].permit].trust, req[t].checkpoint)
        /\ pc[t] = "claim"
    BY <2>1, <2>2, ClaimAdds
  <2>4. req[t].checkpoint = checkpoint
    BY <2>3 DEF CheckpointInv, Holding
  <2> QED BY <2>3, <2>4 DEF TrustHolds
<1> QED
  BY <1>1, TypeAlways, ReplayAlways, CheckpointAlways, PTL DEF Spec, ClaimExtendsCheckpoint

-----------------------------------------------------------------------------
(* Nothing is claimed on authority that was gone before the lock was taken *)

\* The window of a thread has all that was true since it was admitted, and what
\* the thread has read so far is in its window.
FreshThread(t) ==
    /\ pc[t] \in Deciding => roles \in window[t].tables /\ ActiveDigests \subseteq window[t].policies
    /\ pc[t] \in Deciding \ {"authorize"} =>
          \E table \in window[t].tables : Can(table[req[t].user], "action:execute")
    /\ pc[t] \in {"identity", "checkpoint", "verify", "claim"} =>
          req[t].policy \in window[t].policies
    /\ pc[t] \in {"checkpoint", "verify", "claim"} =>
          \E table \in window[t].tables : req[t].identity = IdentityRoot(table)
    /\ pc[t] = "claim" =>
          LET e == permits[req[t].permit].evaluation IN
          e.policy = req[t].policy /\ e.identity = req[t].identity
FreshInv == \A t \in Threads : FreshThread(t)

\* The ways into the part of the handler that decides.
LEMMA EntersDeciding ==
    ASSUME ThreadOK, NEW t \in Threads, Step(t), pc'[t] \in Deciding
    PROVE  \/ Admit(t) \/ Authorize(t) \/ ExecuteReadable(t) \/ ReadPolicy(t)
           \/ ReadIdentity(t) \/ ReadCheckpoint(t) \/ Verify(t)
<1> USE DEF ThreadOK, Goto, End, Deny, Deciding
<1>1. CASE Evaluate(t)
  <2>1. CASE EvaluateReadable(t) \/ EvaluatePolicy(t)
    BY <2>1 DEF EvaluateReadable, EvaluatePolicy
  <2>2. CASE EvaluateIdentity(t) \/ EvaluatePut(t)
    BY <2>2 DEF EvaluateIdentity, EvaluatePut
  <2>3. ASSUME NEW u \in Principals, NEW h \in Heads, EvaluateRequest(t, u, h)
        PROVE  FALSE
    BY <2>3 DEF EvaluateRequest
  <2> QED BY <1>1, <2>1, <2>2, <2>3 DEF Evaluate
<1>2. CASE Mint(t)
  <2>1. CASE MintRead(t)
    BY <2>1 DEF MintRead
  <2>3. ASSUME NEW p \in PermitIds, MintPut(t, p) PROVE FALSE
    BY <2>3 DEF MintPut
  <2>2. ASSUME NEW u \in Principals, NEW e \in evaluations, NEW n \in Nonces,
               MintRequest(t, u, e, n)
        PROVE  FALSE
    BY <2>2 DEF MintRequest
  <2> QED BY <1>2, <2>1, <2>2, <2>3 DEF Mint
<1>3. CASE Execute(t)
  BY <1>3 DEF Execute, ExecuteRequest, Claim, GetPull, PutMerge, AwaitMerge, Lookup, Advance,
              Store, Record
<1>4. CASE Reconcile(t)
  BY <1>4 DEF Reconcile, ReconcileRequest, Observe, Conclude, Readmit, RereadCheckpoint,
              Readvance, Restore
<1>5. CASE Audit(t)
  BY <1>5 DEF Audit
<1>6. CASE Fail(t)
  BY <1>6 DEF Fail
<1> QED BY <1>1, <1>2, <1>3, <1>4, <1>5, <1>6 DEF Step

LEMMA WindowFrame ==
    ASSUME ThreadOK, NEW t \in Threads, Step(t)
    PROVE  \A u \in Threads \ {t} : window'[u] = window[u]
<1> USE DEF ThreadOK, Forget, End, Deny, historyVars
<1>1. CASE Evaluate(t)
  BY <1>1 DEF Evaluate, EvaluateRequest, EvaluateReadable, EvaluatePolicy, EvaluateIdentity,
              EvaluatePut
<1>2. CASE Mint(t)
  BY <1>2 DEF Mint, MintRequest, MintRead, MintPut
<1>3. CASE Execute(t)
  BY <1>3 DEF Execute, ExecuteRequest, Admit, Authorize, ExecuteReadable, CheckRole,
              ReadPolicy, ReadIdentity, ReadCheckpoint, Verify, Claim, GetPull, PutMerge,
              AwaitMerge, Lookup, Advance, Store, Record
<1>4. CASE Reconcile(t)
  BY <1>4 DEF Reconcile, ReconcileRequest, Observe, Conclude, Readmit, RereadCheckpoint,
              Readvance, Restore
<1>5. CASE Audit(t)
  BY <1>5 DEF Audit
<1>6. CASE Fail(t)
  BY <1>6 DEF Fail
<1> QED BY <1>1, <1>2, <1>3, <1>4, <1>5, <1>6 DEF Step

\* What a deciding thread reads is what it has in its window.
LEMMA DecideFresh ==
    ASSUME ThreadOK, NEW t \in Threads, FreshThread(t), Step(t), pc'[t] \in Deciding
    PROVE  FreshThread(t)'
<1> USE DEF FreshThread, Deciding
<1>0. roles' = roles /\ active' = active /\ policies' = policies
  BY StepWrites DEF cpVars
<1>1. ActiveDigests' = ActiveDigests
  BY <1>0 DEF ActiveDigests
<1>2. CASE Admit(t)
  BY <1>0, <1>1, <1>2 DEF Admit, Goto, ThreadOK
<1>3. CASE Authorize(t) \/ ExecuteReadable(t)
  BY <1>0, <1>1, <1>3 DEF Authorize, ExecuteReadable, CheckRole, Goto, Deny, ThreadOK
<1>4. CASE ReadPolicy(t)
  <2>1. /\ pc[t] = "policy" /\ pc'[t] = "identity" /\ window' = window
        /\ req' = [req EXCEPT ![t].policy = policies[active]]
        /\ policies[active] \in ActiveDigests
    BY <1>4 DEF ReadPolicy, Goto, End, ThreadOK, ActiveDigests
  <2>2. req'[t].policy = policies[active] /\ req'[t].user = req[t].user
    BY <2>1 DEF ThreadOK, Requests
  <2> QED BY <1>0, <1>1, <2>1, <2>2
<1>5. CASE ReadIdentity(t)
  <2>1. /\ pc[t] = "identity" /\ pc'[t] = "checkpoint" /\ window' = window
        /\ req' = [req EXCEPT ![t].identity = IdentityRoot(roles)]
    BY <1>5 DEF ReadIdentity, Goto, ThreadOK, historyVars
  <2>2. req'[t].identity = IdentityRoot(roles) /\ req'[t].user = req[t].user
        /\ req'[t].policy = req[t].policy
    BY <2>1 DEF ThreadOK, Requests
  <2> QED BY <1>0, <1>1, <2>1, <2>2
<1>6. CASE ReadCheckpoint(t)
  <2>1. /\ pc[t] = "checkpoint" /\ pc'[t] = "verify" /\ window' = window
        /\ req' = [req EXCEPT ![t].checkpoint = checkpoint]
    BY <1>6 DEF ReadCheckpoint, Goto, ThreadOK, historyVars
  <2>2. req'[t].identity = req[t].identity /\ req'[t].user = req[t].user
        /\ req'[t].policy = req[t].policy
    BY <2>1 DEF ThreadOK, Requests
  <2> QED BY <1>0, <1>1, <2>1, <2>2
<1>7. CASE Verify(t)
  <2>1. /\ pc[t] = "verify" /\ pc'[t] = "claim" /\ PermitHolds(t)
        /\ UNCHANGED <<req, window, permits>>
    BY <1>7 DEF Verify, Goto, Deny, ThreadOK, storeVars
  <2> QED BY <1>0, <1>1, <2>1 DEF PermitHolds
<1> QED BY <1>2, <1>3, <1>4, <1>5, <1>6, <1>7, EntersDeciding

LEMMA FreshStep == TypeInv /\ FreshInv /\ [Next]_vars => FreshInv'
<1> SUFFICES ASSUME TypeInv, FreshInv, [Next]_vars PROVE FreshInv'
  OBVIOUS
<1>0. WorldOK /\ StoreOK /\ ThreadOK /\ Locals
  BY TypeParts DEF TypeInv
<1>1. ASSUME NEW t \in Threads, Step(t) PROVE FreshInv'
  <2>1. FreshThread(t)'
    <3>1. CASE pc'[t] \in Deciding
      BY <1>0, <1>1, <3>1, DecideFresh DEF FreshInv
    <3>2. CASE pc'[t] \notin Deciding
      BY <3>2 DEF FreshThread, Deciding
    <3> QED BY <3>1, <3>2
  <2>2. ASSUME NEW u \in Threads \ {t} PROVE FreshThread(u)'
    <3>1. pc'[u] = pc[u] /\ req'[u] = req[u] /\ window'[u] = window[u]
      BY <1>0, <1>1, StepFrame, WindowFrame
    <3>2. roles' = roles /\ ActiveDigests' = ActiveDigests
      BY <1>1, StepWrites DEF cpVars, ActiveDigests
    <3>3. pc[u] = "claim" => permits'[req[u].permit] = permits[req[u].permit]
      BY <1>0, <1>1, StepFrame DEF Locals, LocalOK, Executing, Deciding
    <3> QED BY <3>1, <3>2, <3>3 DEF FreshInv, FreshThread
  <2> QED BY <2>1, <2>2 DEF FreshInv
<1>2. CASE Environment
  <2> SUFFICES ASSUME NEW t \in Threads, pc'[t] \in Deciding PROVE FreshThread(t)'
    BY DEF FreshInv, FreshThread, Deciding
  <2>1. pc'[t] = pc[t] /\ req'[t] = req[t] /\ permits' = permits
    BY <1>0, <1>2, EnvironmentThreads DEF Deciding
  <2>2. CASE Govern
    <3>1. /\ window'[t].policies = window[t].policies \union ActiveDigests'
          /\ window'[t].tables = window[t].tables \union {roles'}
      BY <2>1, <2>2 DEF Govern
    <3> QED BY <2>1, <3>1 DEF FreshInv, FreshThread
  <2>3. CASE ~Govern
    <3>1. window'[t] = window[t] /\ UNCHANGED cpVars
      BY <1>2, <2>3 DEF Environment, Expire, Crash, Provide, historyVars, Deciding
    <3>2. roles' = roles /\ ActiveDigests' = ActiveDigests
      BY <3>1 DEF cpVars, ActiveDigests
    <3> QED BY <2>1, <3>1, <3>2 DEF FreshInv, FreshThread
  <2> QED BY <2>2, <2>3
<1>3. CASE UNCHANGED vars
  BY <1>3 DEF vars, cpVars, storeVars, threadVars, historyVars, FreshInv, FreshThread,
              ActiveDigests
<1> QED BY <1>1, <1>2, <1>3, NextCases

\* However roles are granted and policies are replaced while a request waits for
\* the lock or runs, nothing is claimed under a policy, an identity root or a role
\* that was none of the tenant's since the lock was taken.
THEOREM ClaimsAreFresh == Spec => []FreshAuthority
<1>1. Init => FreshInv
  BY DEF Init, FreshInv, FreshThread, Deciding
<1>2. FreshInv => FreshAuthority
  BY DEF FreshInv, FreshThread, FreshAuthority, Deciding
<1> QED BY <1>1, <1>2, FreshStep, TypeAlways, PTL DEF Spec

-----------------------------------------------------------------------------
(* A recorded success is a merge at the approved head *)

MergeIs(h, sha) == merge # NoMerge /\ merge = [head |-> h, sha |-> sha]

Approved(p, sha) == permits[p] # None /\ MergeIs(permits[p].evaluation.head, sha)

\* Merges are final, at the head they were made at; what a thread holds of a merge
\* that counts is true, and so is what was recorded of it.
TruthThread(t) ==
    /\ pc[t] \in {"advance", "store", "record"} /\ req[t].receipt.status = "success" =>
          Approved(req[t].permit, req[t].receipt.remote_operation_id)
    /\ pc[t] \in {"observe", "conclude"} => permits[req[t].execution.permit] # None
    /\ pc[t] = "conclude" /\ req[t].observation.merged =>
          MergeIs(req[t].observation.head, req[t].observation.sha)
TruthInv ==
    /\ merge # NoMerge => merge.head = head
    /\ \A t \in Threads : TruthThread(t)
    /\ \A e \in executions :
          /\ permits[e.permit] # None
          /\ e.preliminary_state = "RECONCILED" =>
                Approved(e.permit, e.receipt.remote_operation_id)
    /\ \A r \in reconciliations :
          /\ permits[r.permit] # None
          /\ r.state = "RECONCILED" => Approved(r.permit, r.sha)

\* What a merged answer says is so.
LEMMA AnswerIsTrue ==
    ASSUME PullTypeOK, TruthInv, NEW answer \in GetAnswers, answer.status = 200, answer.merged
    PROVE  MergeIs(answer.head, answer.sha)
<1>1. Unavailable.status = 404
  BY DEF Unavailable
<1>2. answer = Pull
  BY <1>1 DEF GetAnswers
<1>3. merge # NoMerge /\ answer.head = head /\ answer.sha = merge.sha
  BY <1>2 DEF Pull
<1>4. merge \in Merges /\ merge.head = head
  BY <1>3 DEF PullTypeOK, TruthInv
<1> QED BY <1>3, <1>4 DEF MergeIs, Merges

\* A receipt of success is only given for a merge at the expected head.
LEMMA ReceiptIsTrue ==
    ASSUME PullTypeOK, TruthInv, NEW answer \in GetAnswers, NEW expected, NEW mergeable,
           NEW receipt, receipt.status = "success",
           \/ receipt = Preflight(answer, expected, mergeable) /\ receipt # None
           \/ receipt \in {LookupReceipt(answer, expected), FailedReceipt, UnknownReceipt}
    PROVE  MergeIs(expected, receipt.remote_operation_id)
<1>1. FailedReceipt.status = "failed" /\ UnknownReceipt.status = "unknown"
  BY DEF FailedReceipt, UnknownReceipt, Receipt
<1>2. /\ answer.status = 200 /\ answer.merged /\ answer.head = expected
      /\ receipt = Receipt("success", TRUE, answer.sha)
  BY <1>1 DEF Preflight, LookupReceipt
<1> QED BY <1>2, AnswerIsTrue DEF Receipt

LEMMA EntersReceipt ==
    ASSUME ThreadOK, NEW t \in Threads, Step(t), pc'[t] \in {"advance", "store", "record"}
    PROVE  \/ GetPull(t) \/ AwaitMerge(t) \/ Lookup(t)
           \/ /\ pc[t] \in {"advance", "store"}
              /\ req'[t].receipt = req[t].receipt /\ req'[t].permit = req[t].permit
<1> USE DEF ThreadOK, Goto, End, Deny
<1>1. CASE Evaluate(t)
  BY <1>1 DEF Evaluate, EvaluateRequest, EvaluateReadable, EvaluatePolicy, EvaluateIdentity,
              EvaluatePut
<1>2. CASE Mint(t)
  BY <1>2 DEF Mint, MintRequest, MintRead, MintPut
<1>3. CASE Execute(t)
  <2>1. CASE Advance(t)
    BY <2>1 DEF Advance, Requests
  <2>2. CASE Store(t)
    BY <2>2 DEF Store
  <2>3. CASE ~Advance(t) /\ ~Store(t)
    BY <1>3, <2>3 DEF Execute, ExecuteRequest, Admit, Authorize, ExecuteReadable, CheckRole,
                ReadPolicy, ReadIdentity, ReadCheckpoint, Verify, Claim, PutMerge, Record
  <2> QED BY <2>1, <2>2, <2>3
<1>4. CASE Reconcile(t)
  BY <1>4 DEF Reconcile, ReconcileRequest, Observe, Conclude, Readmit, RereadCheckpoint,
              Readvance, Restore
<1>5. CASE Audit(t)
  BY <1>5 DEF Audit
<1>6. CASE Fail(t)
  BY <1>6 DEF Fail
<1> QED BY <1>1, <1>2, <1>3, <1>4, <1>5, <1>6 DEF Step

LEMMA EntersObserve ==
    ASSUME ThreadOK, NEW t \in Threads, Step(t), pc'[t] \in {"observe", "conclude"}
    PROVE  \/ \E u \in Principals, e \in executions : ReconcileRequest(t, u, e) /\ pc'[t] = "observe"
           \/ Observe(t) /\ pc'[t] = "conclude"
<1> USE DEF ThreadOK, Goto, End, Deny
<1>1. CASE Evaluate(t)
  BY <1>1 DEF Evaluate, EvaluateRequest, EvaluateReadable, EvaluatePolicy, EvaluateIdentity,
              EvaluatePut
<1>2. CASE Mint(t)
  BY <1>2 DEF Mint, MintRequest, MintRead, MintPut
<1>3. CASE Execute(t)
  BY <1>3 DEF Execute, ExecuteRequest, Admit, Authorize, ExecuteReadable, CheckRole,
              ReadPolicy, ReadIdentity, ReadCheckpoint, Verify, Claim, GetPull, PutMerge,
              AwaitMerge, Lookup, Advance, Store, Record
<1>4. CASE Reconcile(t)
  BY <1>4 DEF Reconcile, ReconcileRequest, Observe, Conclude, Readmit, RereadCheckpoint,
              Readvance, Restore
<1>5. CASE Audit(t)
  BY <1>5 DEF Audit
<1>6. CASE Fail(t)
  BY <1>6 DEF Fail
<1> QED BY <1>1, <1>2, <1>3, <1>4, <1>5, <1>6 DEF Step

\* A receipt a thread takes up is true.
LEMMA ReceiptTrue ==
    ASSUME PullTypeOK, StoreOK, ThreadOK, Locals, TruthInv, NEW t \in Threads,
           GetPull(t) \/ AwaitMerge(t) \/ Lookup(t),
           pc'[t] \in {"advance", "store", "record"}, req'[t].receipt.status = "success"
    PROVE  Approved(req[t].permit, req'[t].receipt.remote_operation_id)
<1> DEFINE receipt == req'[t].receipt
<1>1. PICK answer \in GetAnswers, mergeable \in BOOLEAN :
         \/ receipt = Preflight(answer, ExpectedHead(t), mergeable) /\ receipt # None
         \/ receipt \in {LookupReceipt(answer, ExpectedHead(t)), FailedReceipt, UnknownReceipt}
  <2>0. Pull \in GetAnswers
    BY DEF GetAnswers
  <2>1. CASE GetPull(t)
    <3>1. PICK answer \in GetAnswers, mergeable \in BOOLEAN :
             /\ Preflight(answer, ExpectedHead(t), mergeable) # None
             /\ req' = [req EXCEPT ![t].receipt =
                          Preflight(answer, ExpectedHead(t), mergeable)]
      BY <2>1 DEF GetPull, Goto, End, ThreadOK
    <3>2. receipt = Preflight(answer, ExpectedHead(t), mergeable)
      BY <3>1 DEF ThreadOK, Requests
    <3> QED BY <3>1, <3>2
  <2>2. CASE AwaitMerge(t)
    <3>1. req' = [req EXCEPT ![t].receipt = FailedReceipt]
      BY <2>2 DEF AwaitMerge, Goto, End, ThreadOK
    <3>2. receipt = FailedReceipt
      BY <3>1 DEF ThreadOK, Requests
    <3> QED BY <2>0, <3>2
  <2>3. CASE Lookup(t)
    <3>1. CASE req' = [req EXCEPT ![t].receipt = UnknownReceipt]
      <4>1. receipt = UnknownReceipt
        BY <3>1 DEF ThreadOK, Requests
      <4> QED BY <2>0, <4>1
    <3>2. ASSUME NEW answer \in GetAnswers,
                 req' = [req EXCEPT ![t].receipt = LookupReceipt(answer, ExpectedHead(t))]
          PROVE  receipt = LookupReceipt(answer, ExpectedHead(t))
      BY <3>2 DEF ThreadOK, Requests
    <3>3. ~End(t)
      BY <2>3 DEF Lookup, End, ThreadOK
    <3> QED BY <2>3, <3>1, <3>2, <3>3 DEF Lookup
  <2> QED BY <2>1, <2>2, <2>3
<1>2. MergeIs(ExpectedHead(t), receipt.remote_operation_id)
  BY <1>1, ReceiptIsTrue
<1>3. permits[req[t].permit] # None
  BY DEF GetPull, AwaitMerge, Lookup, Goto, Locals, LocalOK, Executing, Acting
<1> QED BY <1>2, <1>3 DEF Approved, ExpectedHead

\* An observation a thread takes up is true.
LEMMA ObservationTrue ==
    ASSUME PullTypeOK, ThreadOK, TruthInv, NEW t \in Threads, Observe(t),
           pc'[t] = "conclude", req'[t].observation.merged
    PROVE  MergeIs(req'[t].observation.head, req'[t].observation.sha)
<1>1. PICK observation \in ObserveAnswers :
         req' = [req EXCEPT ![t].observation =
                    IF RequireQuorum /\ ~observation.met
                    THEN [observation EXCEPT !.merged = FALSE, !.sha = None]
                    ELSE observation]
  BY DEF Observe, End, ThreadOK
<1>2. PICK taken :
         /\ req' = [req EXCEPT ![t].observation = taken]
         /\ taken = observation \/ taken = [observation EXCEPT !.merged = FALSE, !.sha = None]
  BY <1>1
<1>3. req'[t].observation = taken
  BY <1>2 DEF ThreadOK, Requests
<1>4. observation = NotObserved \/ \E answer \in GetAnswers :
         answer.status = 200 /\ observation = Seen(answer)
  <2>1. Pull \in GetAnswers /\ Pull.status = 200
    BY DEF GetAnswers, Pull
  <2> QED BY <2>1 DEF ObserveAnswers
<1>5. ~NotObserved.merged
  BY DEF NotObserved
<1>6. taken = observation
  <2>1. [observation EXCEPT !.merged = FALSE, !.sha = None].merged = FALSE
    BY <1>4 DEF NotObserved, Seen
  <2> QED BY <1>2, <1>3, <2>1
<1>7. PICK answer \in GetAnswers : answer.status = 200 /\ observation = Seen(answer)
  BY <1>3, <1>4, <1>5, <1>6
<1>8. /\ observation.merged = answer.merged /\ observation.head = answer.head
      /\ observation.sha = answer.sha
  BY <1>7 DEF Seen
<1> QED BY <1>3, <1>6, <1>7, <1>8, AnswerIsTrue

\* The approvals that hold keep holding: merges are final, permits are kept.
LEMMA ApprovedStays ==
    ASSUME NEW p \in PermitIds, NEW sha, Approved(p, sha),
           merge' = merge \/ merge = NoMerge,
           permits[p] # None => permits'[p] = permits[p]
    PROVE  Approved(p, sha)'
  BY DEF Approved, MergeIs

LEMMA TruthStep == TypeInv /\ TruthInv /\ [Next]_vars => TruthInv'
<1> SUFFICES ASSUME TypeInv, TruthInv, [Next]_vars PROVE TruthInv'
  OBVIOUS
<1>0. /\ WorldOK /\ StoreOK /\ ThreadOK /\ Locals /\ PullTypeOK
      /\ \A e \in executions : e.permit \in PermitIds
      /\ \A r \in reconciliations : r.permit \in PermitIds
  BY TypeParts DEF TypeInv, WorldOK, StoreOK, Executions, Reconciliations
<1>1. ASSUME NEW t \in Threads, Step(t) PROVE TruthInv'
  <2>1. /\ \A u \in Threads \ {t} : pc'[u] = pc[u] /\ req'[u] = req[u]
        /\ \A p \in PermitIds : permits[p] # None => permits'[p] = permits[p]
    BY <1>0, <1>1, StepFrame
  <2>2. merge' = merge /\ head' = head
    BY <1>1, StepWrites DEF Writing, EvaluatePut, MintPut, Claim, PutMerge, SendPut, Store,
                            Record, Conclude, Restore, Audit, pullVars
  <2>3. ASSUME NEW p \in PermitIds, NEW sha, Approved(p, sha) PROVE Approved(p, sha)'
    BY <2>1, <2>2, <2>3, ApprovedStays
  <2>4. ASSUME NEW u \in Threads \ {t} PROVE TruthThread(u)'
    <3>1. pc'[u] = pc[u] /\ req'[u] = req[u] /\ TruthThread(u)
      BY <2>1 DEF TruthInv
    <3>2. /\ pc[u] \in {"advance", "store", "record"} => req[u].permit \in PermitIds
          /\ pc[u] \in {"observe", "conclude"} => req[u].execution.permit \in PermitIds
      BY <1>0 DEF Locals, LocalOK, Executing, Acting, Executions
    <3> QED BY <2>1, <2>2, <2>3, <3>1, <3>2 DEF TruthThread, MergeIs
  <2>5. TruthThread(t)'
    <3>1. ASSUME pc'[t] \in {"advance", "store", "record"}, req'[t].receipt.status = "success"
          PROVE  Approved(req[t].permit, req[t].receipt.remote_operation_id)'
      <4>1. CASE GetPull(t) \/ AwaitMerge(t) \/ Lookup(t)
        <5>1. Approved(req[t].permit, req'[t].receipt.remote_operation_id)
          BY <1>0, <3>1, <4>1, ReceiptTrue
        <5>2. req[t].permit \in PermitIds
          BY <1>0, <4>1 DEF GetPull, AwaitMerge, Lookup, Goto, Locals, LocalOK, Executing, Acting
        <5>3. req'[t].permit = req[t].permit
          BY <1>0, <3>1, <4>1, ReceiptKeeps
        <5>4. Approved(req[t].permit, req'[t].receipt.remote_operation_id)
                => merge' # NoMerge
          BY <2>2 DEF Approved, MergeIs
        <5> QED BY <2>1, <2>2, <5>1, <5>2, <5>3 DEF Approved, MergeIs
      <4>2. CASE /\ pc[t] \in {"advance", "store"}
                 /\ req'[t].receipt = req[t].receipt /\ req'[t].permit = req[t].permit
        <5>1. req[t].permit \in PermitIds
          BY <1>0, <4>2 DEF Locals, LocalOK, Executing, Acting
        <5>2. Approved(req[t].permit, req[t].receipt.remote_operation_id)
          BY <3>1, <4>2 DEF TruthInv, TruthThread
        <5> QED BY <2>1, <2>2, <4>2, <5>1, <5>2 DEF Approved, MergeIs
      <4> QED BY <1>0, <1>1, <3>1, <4>1, <4>2, EntersReceipt
    <3>2. ASSUME pc'[t] \in {"observe", "conclude"}
          PROVE  permits'[req'[t].execution.permit] # None
      <4>1. ASSUME NEW u \in Principals, NEW e \in executions, ReconcileRequest(t, u, e),
                   pc'[t] = "observe"
            PROVE  permits'[req'[t].execution.permit] # None
        <5>1. req'[t] = [Idle EXCEPT !.user = u, !.execution = e]
          BY <1>0, <4>1 DEF ReconcileRequest, Deny, ThreadOK
        <5>2. req'[t].execution = e
          BY <5>1 DEF Idle
        <5> QED BY <1>0, <2>1, <5>2 DEF TruthInv
      <4>2. CASE Observe(t) /\ pc'[t] = "conclude"
        <5>1. req'[t].execution = req[t].execution /\ pc[t] = "observe"
          <6>1. pc[t] = "observe" /\ pc'[t] # "idle"
            BY <4>2 DEF Observe, Goto
          <6>2. req'[t].execution = req[t].execution
            <7>1. ~End(t)
              BY <1>0, <6>1 DEF End, ThreadOK
            <7>2. PICK seen : req' = [req EXCEPT ![t].observation = seen]
              BY <4>2, <7>1 DEF Observe
            <7>3. req'[t] = [req[t] EXCEPT !.observation = seen]
              BY <1>0, <7>2 DEF ThreadOK
            <7> QED BY <1>0, <7>3 DEF ThreadOK, Requests
          <6> QED BY <6>1, <6>2
        <5>2. permits[req[t].execution.permit] # None /\ req[t].execution.permit \in PermitIds
          BY <1>0, <5>1 DEF TruthInv, TruthThread, Locals, LocalOK, Executions
        <5> QED BY <2>1, <5>1, <5>2
      <4> QED BY <1>0, <1>1, <3>2, <4>1, <4>2, EntersObserve
    <3>3. ASSUME pc'[t] = "conclude", req'[t].observation.merged
          PROVE  MergeIs(req[t].observation.head, req[t].observation.sha)'
      <4>1. Observe(t)
        BY <1>0, <1>1, <3>3, EntersObserve
      <4> QED BY <1>0, <2>2, <3>3, <4>1, ObservationTrue DEF MergeIs
    <3> QED BY <3>1, <3>2, <3>3 DEF TruthThread
  <2>6. \A e \in executions' :
           /\ permits'[e.permit] # None
           /\ e.preliminary_state = "RECONCILED" =>
                 Approved(e.permit, e.receipt.remote_operation_id)'
    <3>1. ASSUME NEW e \in executions
          PROVE  /\ permits'[e.permit] # None
                 /\ e.preliminary_state = "RECONCILED" =>
                       Approved(e.permit, e.receipt.remote_operation_id)'
      BY <1>0, <2>1, <2>3 DEF TruthInv
    <3>2. CASE executions' = executions
      BY <3>1, <3>2
    <3>3. CASE Record(t)
      <4>1. /\ pc[t] = "record" /\ req[t].permit \in PermitIds
            /\ permits[req[t].permit] # None /\ permits' = permits
        BY <1>0, <3>3 DEF Record, Goto, Locals, LocalOK, Executing
      <4>2. AuthorityState(req[t].receipt) = "RECONCILED" => req[t].receipt.status = "success"
        BY DEF AuthorityState
      <4> DEFINE row == [permit |-> req[t].permit, executor |-> req[t].user,
                         receipt |-> req[t].receipt,
                         preliminary_state |-> AuthorityState(req[t].receipt)]
      <4>3. /\ row.permit = req[t].permit /\ row.receipt = req[t].receipt
            /\ row.preliminary_state = AuthorityState(req[t].receipt)
        OBVIOUS
      <4>4. executions' = executions \union {row}
        BY <3>3 DEF Record
      <4>5. PICK new : new = row
        OBVIOUS
      <4> HIDE DEF row
      <4>6. new.preliminary_state = "RECONCILED" =>
               Approved(new.permit, new.receipt.remote_operation_id)
        BY <4>1, <4>2, <4>3, <4>5 DEF TruthInv, TruthThread
      <4>7. new.permit \in PermitIds /\ permits'[new.permit] # None
        BY <4>1, <4>3, <4>5
      <4>8. executions' = executions \union {new}
        BY <4>4, <4>5
      <4> QED BY <2>3, <3>1, <4>6, <4>7, <4>8
    <3> QED BY <1>1, <3>2, <3>3, StepEffects
  <2>7. \A r \in reconciliations' :
           /\ permits'[r.permit] # None
           /\ r.state = "RECONCILED" => Approved(r.permit, r.sha)'
    <3>1. ASSUME NEW r \in reconciliations
          PROVE  /\ permits'[r.permit] # None
                 /\ r.state = "RECONCILED" => Approved(r.permit, r.sha)'
      BY <1>0, <2>1, <2>3 DEF TruthInv
    <3>2. CASE reconciliations' = reconciliations
      BY <3>1, <3>2
    <3>3. CASE Conclude(t)
      <4> DEFINE execution == req[t].execution
                 observation == req[t].observation
      <4>1. /\ pc[t] = "conclude" /\ execution.permit \in PermitIds
            /\ permits[execution.permit] # None /\ permits' = permits
        BY <1>0, <3>3 DEF Conclude, Goto, Locals, LocalOK, Executions, TruthInv, TruthThread
      <4>2. Confirmed(execution, observation) => Approved(execution.permit, observation.sha)
        BY <4>1 DEF Confirmed, TruthInv, TruthThread, Approved, MergeIs
      <4> DEFINE row == [permit |-> execution.permit, sha |-> observation.sha,
                         state |-> IF Confirmed(execution, observation)
                                   THEN "RECONCILED" ELSE "RECONCILIATION_FAILED"]
      <4>3. /\ row.permit = execution.permit /\ row.sha = observation.sha
            /\ row.state = "RECONCILED" => Confirmed(execution, observation)
        OBVIOUS
      <4>4. reconciliations' = reconciliations \union {row}
        BY <3>3 DEF Conclude
      <4>5. PICK new : new = row
        OBVIOUS
      <4> HIDE DEF row
      <4>6. /\ reconciliations' = reconciliations \union {new}
            /\ new.permit = execution.permit /\ new.sha = observation.sha
            /\ new.state = "RECONCILED" => Confirmed(execution, observation)
        BY <4>3, <4>4, <4>5
      <4>7. new.state = "RECONCILED" => Approved(new.permit, new.sha)
        BY <4>2, <4>6
      <4>8. new.permit \in PermitIds /\ permits'[new.permit] # None
        BY <4>1, <4>6
      <4>9. new.state = "RECONCILED" => Approved(new.permit, new.sha)'
        BY <2>3, <4>7, <4>8
      <4> HIDE DEF execution, observation
      <4> QED BY <3>1, <4>6, <4>8, <4>9
    <3>4. reconciliations' = reconciliations \/ Conclude(t)
      BY <1>1, StepWrites DEF Writing, EvaluatePut, MintPut, Claim, PutMerge, Store, Record,
                              Restore, Audit, storeVars
    <3> QED BY <3>2, <3>3, <3>4
  <2> QED BY <2>2, <2>4, <2>5, <2>6, <2>7 DEF TruthInv
<1>2. CASE Environment
  <2>1. /\ permits' = permits /\ executions' = executions
        /\ reconciliations' = reconciliations
    BY <1>2, EnvironmentEffects DEF storeVars
  <2>2. \A u \in Threads : pc'[u] = "idle" \/ (pc'[u] = pc[u] /\ req'[u] = req[u])
    BY <1>0, <1>2, EnvironmentThreads
  <2>3. /\ merge' = merge \/ merge = NoMerge
        /\ merge' # NoMerge => merge'.head = head'
    <3>1. ASSUME NEW h \in Heads, Push(h)
          PROVE  merge = NoMerge /\ merge' = merge
      BY <3>1 DEF Push
    <3>2. CASE ForeignMerge
      BY <3>2 DEF ForeignMerge
    <3>3. ASSUME NEW p \in PermitIds, DecidePut(p, permits[p].evaluation.head)
          PROVE  /\ head' = head
                 /\ merge' = merge \/ (merge = NoMerge /\ merge' = [head |-> head, sha |-> p])
      BY <3>3 DEF DecidePut
    <3>4. CASE Provide
      BY <3>1, <3>2, <3>3, <3>4 DEF Provide, Others, ForeignMerge, TruthInv
    <3>5. CASE ~Provide
      BY <1>2, <3>5 DEF Environment, Expire, Crash, Govern, pullVars, TruthInv
    <3> QED BY <3>4, <3>5
  <2>4. ASSUME NEW p \in PermitIds, NEW sha, Approved(p, sha) PROVE Approved(p, sha)'
    BY <2>1, <2>3, <2>4, ApprovedStays
  <2>5. ASSUME NEW u \in Threads PROVE TruthThread(u)'
    <3>1. CASE pc'[u] = "idle"
      BY <3>1 DEF TruthThread
    <3>2. CASE pc'[u] = pc[u] /\ req'[u] = req[u]
      <4>1. /\ pc[u] \in {"advance", "store", "record"} => req[u].permit \in PermitIds
            /\ pc[u] \in {"observe", "conclude"} => req[u].execution.permit \in PermitIds
        BY <1>0 DEF Locals, LocalOK, Executing, Acting, Executions
      <4> QED BY <2>1, <2>3, <2>4, <3>2, <4>1 DEF TruthInv, TruthThread, MergeIs
    <3> QED BY <2>2, <3>1, <3>2
  <2> QED BY <1>0, <2>1, <2>3, <2>4, <2>5 DEF TruthInv
<1>3. CASE UNCHANGED vars
  BY <1>3 DEF vars, pullVars, storeVars, threadVars, TruthInv, TruthThread, Approved, MergeIs
<1> QED BY <1>1, <1>2, <1>3, NextCases

LEMMA TruthAlways == Spec => []TruthInv
<1>1. Init => TruthInv
  BY DEF Init, PullInit, TruthInv, TruthThread
<1> QED BY <1>1, TruthStep, TypeAlways, PTL DEF Spec

\* A success is recorded, by the executor or by a reconciler, only of a merge that
\* is in the pull request for good, at the head the permit approved and under the
\* recorded merge commit: no timeout, late answer, foreign merge or push, and no
\* repeated reconciliation makes the pilot claim more.
THEOREM ReconciliationsAreTrue == Spec => []ReconciledIsTrue
<1>1. TruthInv => ReconciledIsTrue
  BY DEF TruthInv, ReconciledIsTrue, Approved, MergeIs
<1> QED BY <1>1, TruthAlways, PTL

-----------------------------------------------------------------------------
(* How far the documented promises hold that the code does not keep *)

\* An attempt is left by its record; only a store that raises, a GET that raises, or an
\* answer that cannot be decoded, ends the handler before.
LEMMA LeavesAttempt ==
    ASSUME ThreadOK, ~GetRaises, NEW t \in Threads, Step(t), pc[t] \in Attempting
    PROVE  Record(t) \/ Fail(t) \/ (pc'[t] \in Attempting /\ req'[t].permit = req[t].permit)
<1> SUFFICES ASSUME ~Fail(t)
             PROVE  Record(t) \/ (pc'[t] \in Attempting /\ req'[t].permit = req[t].permit)
  OBVIOUS
<1> USE DEF Attempting, Acting
<1>1. Execute(t)
  <2>1. ~Evaluate(t)
    BY DEF Evaluate, EvaluateRequest, EvaluateReadable, EvaluatePolicy, EvaluateIdentity,
           EvaluatePut, Goto
  <2>2. ~Mint(t)
    BY DEF Mint, MintRequest, MintRead, MintPut, Goto
  <2>3. ~Reconcile(t)
    BY DEF Reconcile, ReconcileRequest, Observe, Conclude, Readmit, RereadCheckpoint, Readvance,
           Restore, Goto
  <2>4. ~Audit(t)
    BY DEF Audit
  <2> QED BY <2>1, <2>2, <2>3, <2>4 DEF Step
<1>2. \/ GetPull(t) \/ PutMerge(t) \/ AwaitMerge(t) \/ Lookup(t)
      \/ Advance(t) \/ Store(t) \/ Record(t)
  <2>1. ~(\E u \in Principals, p \in PermitIds : ExecuteRequest(t, u, p)) /\ ~Admit(t)
    BY DEF ExecuteRequest, Admit, Goto
  <2>2. ~Authorize(t) /\ ~ExecuteReadable(t)
    BY DEF Authorize, ExecuteReadable, CheckRole
  <2>3. ~ReadPolicy(t) /\ ~ReadIdentity(t) /\ ~ReadCheckpoint(t) /\ ~Verify(t) /\ ~Claim(t)
    BY DEF ReadPolicy, ReadIdentity, ReadCheckpoint, Verify, Claim, Goto
  <2> QED BY <1>1, <2>1, <2>2, <2>3 DEF Execute
<1>3. "garbled" \notin Faults
  BY DEF GetRaises
<1>4. CASE GetPull(t) \/ AwaitMerge(t) \/ Lookup(t)
  <2>1. pc'[t] \in Attempting
    <3>1. CASE GetPull(t)
      BY <3>1 DEF GetPull, Goto, ThreadOK
    <3>2. CASE AwaitMerge(t)
      <4>1. \A outcome : PutAnswers(outcome) \intersect Raised = {}
        BY <1>3 DEF PutAnswers, Raised
      <4> QED BY <3>2, <4>1 DEF AwaitMerge, Goto, ThreadOK
    <3>3. CASE Lookup(t)
      BY <1>3, <3>3 DEF Lookup, Goto, ThreadOK
    <3> QED BY <1>4, <3>1, <3>2, <3>3
  <2> QED BY <1>4, <2>1, ReceiptKeeps
<1>5. CASE PutMerge(t) \/ Store(t)
  BY <1>5 DEF PutMerge, Store, Goto, ThreadOK
<1>6. CASE Advance(t)
  BY <1>6, AssignKeeps DEF Advance, Goto, ThreadOK
<1> QED BY <1>2, <1>4, <1>5, <1>6

\* Every followed claim can be reconciled, or its handler was interrupted.
Accounted(p) == Reconcilable(p) \/ p \in interrupted
RecordedUnlessInterrupted ==
    \A row \in claims : row.permit \in Followed => Accounted(row.permit)

LEMMA ReconcilableStep ==
    ASSUME ~GetRaises
    PROVE  TypeInv /\ RecordedUnlessInterrupted /\ [Next]_vars => RecordedUnlessInterrupted'
<1> SUFFICES ASSUME TypeInv, RecordedUnlessInterrupted, [Next]_vars
             PROVE  RecordedUnlessInterrupted'
  OBVIOUS
<1>0. StoreOK /\ ThreadOK /\ Locals /\ WorldOK
  BY TypeParts DEF TypeInv
<1>1. ASSUME NEW t \in Threads, Step(t) PROVE RecordedUnlessInterrupted'
  <2>1. \A u \in Threads \ {t} : pc'[u] = pc[u] /\ req'[u] = req[u]
    BY <1>0, <1>1, StepFrame
  <2>2. executions \subseteq executions'
    BY <1>1, StepEffects DEF Record
  <2>3. interrupted \subseteq interrupted'
    BY <1>1, StepWrites DEF Fail
  <2>4. ASSUME NEW row \in claims, row.permit \in Followed
        PROVE  Accounted(row.permit)'
    <3>1. CASE row.permit \in interrupted \/ \E e \in executions : e.permit = row.permit
      BY <2>2, <2>3, <3>1 DEF Accounted, Reconcilable
    <3>2. ASSUME NEW u \in Threads \ {t}, req[u].permit = row.permit, pc[u] \in Attempting
          PROVE  Accounted(row.permit)'
      BY <2>1, <3>2 DEF Accounted, Reconcilable, Attempting
    <3>3. CASE req[t].permit = row.permit /\ pc[t] \in Attempting
      <4>1. CASE Record(t)
        <5> DEFINE new == [permit |-> req[t].permit, executor |-> req[t].user,
                           receipt |-> req[t].receipt,
                           preliminary_state |-> AuthorityState(req[t].receipt)]
        <5>1. new \in executions' /\ new.permit = row.permit
          BY <3>3, <4>1 DEF Record
        <5> QED BY <5>1 DEF Accounted, Reconcilable
      <4>2. CASE pc'[t] \in Attempting /\ req'[t].permit = req[t].permit
        BY <3>3, <4>2 DEF Accounted, Reconcilable, Attempting
      <4>3. CASE Fail(t)
        <5>1. row.permit \in interrupted'
          BY <2>4, <3>3, <4>3 DEF Fail, Spending, Attempting
        <5> QED BY <5>1 DEF Accounted
      <4> QED BY <1>0, <1>1, <3>3, <4>1, <4>2, <4>3, LeavesAttempt
    <3> QED BY <2>4, <3>1, <3>2, <3>3
             DEF RecordedUnlessInterrupted, Accounted, Reconcilable, Attempting
  <2>5. CASE claims' = claims
    BY <2>4, <2>5 DEF RecordedUnlessInterrupted, Accounted
  <2>6. CASE claims' # claims
    <3>1. Claim(t)
      BY <1>1, <2>6, StepEffects
    <3>2. /\ claims' = claims \union {NewRow(t)}
          /\ pc'[t] = "preflight" /\ req'[t] = req[t]
      BY <1>0, <2>6, <3>1 DEF Claim, Goto, ThreadOK, NewRow
    <3>3. PICK row : row = NewRow(t)
      OBVIOUS
    <3>4. claims' = claims \union {row} /\ row.permit = req[t].permit
      BY <3>2, <3>3 DEF NewRow
    <3>5. Accounted(row.permit)'
      BY <3>2, <3>4 DEF Accounted, Reconcilable, Acting
    <3> QED BY <2>4, <3>4, <3>5 DEF RecordedUnlessInterrupted, Accounted
  <2> QED BY <2>5, <2>6
<1>2. CASE Environment
  <2>1. claims' = claims /\ executions' = executions
    BY <1>2, EnvironmentEffects DEF storeVars, trustVars
  <2>2. ASSUME NEW host \in Processes, Crash(host) PROVE RecordedUnlessInterrupted'
    <3>1. ASSUME NEW row \in claims, row.permit \in Followed
          PROVE  Accounted(row.permit)'
      <4>1. CASE row.permit \in interrupted \/ \E e \in executions : e.permit = row.permit
        BY <2>1, <2>2, <4>1 DEF Crash, Accounted, Reconcilable
      <4>2. ASSUME NEW u \in Threads, req[u].permit = row.permit, pc[u] \in Attempting
            PROVE  Accounted(row.permit)'
        <5>1. CASE Host[u] = host
          <6>1. row.permit \in Spending(u)
            BY <3>1, <4>2 DEF Spending, Attempting
          <6>2. row.permit \in interrupted'
            BY <2>2, <5>1, <6>1 DEF Crash
          <6> QED BY <6>2 DEF Accounted
        <5>2. CASE Host[u] # host
          <6>1. pc'[u] = pc[u] /\ req'[u] = req[u]
            BY <2>2, <5>2 DEF Crash
          <6> QED BY <4>2, <6>1 DEF Accounted, Reconcilable, Attempting
        <5> QED BY <5>1, <5>2
      <4> QED BY <3>1, <4>1, <4>2 DEF RecordedUnlessInterrupted, Accounted, Reconcilable, Attempting
    <3> QED BY <2>1, <3>1 DEF RecordedUnlessInterrupted, Accounted
  <2>3. CASE UNCHANGED <<pc, req, interrupted>>
    BY <2>1, <2>3 DEF RecordedUnlessInterrupted, Accounted, Reconcilable
  <2> QED BY <1>2, <2>2, <2>3 DEF Environment, Expire, Govern, Provide, threadVars, clockVars
<1>3. CASE UNCHANGED vars
  BY <1>3 DEF vars, storeVars, trustVars, threadVars, clockVars,
              RecordedUnlessInterrupted, Accounted, Reconcilable
<1> QED BY <1>1, <1>2, <1>3, NextCases

\* "Preserve consumed authority and reconcile": while the adapter answers, with
\* whatever status, a claim that is followed has an execution record or a handler that
\* will write one, unless that handler was ended after the claim by a crash or by a
\* registry, checkpoint file or object store that raised (server.py:411-434).
THEOREM ClaimsStayReconcilable ==
    ASSUME ~GetRaises
    PROVE  Spec => []RecordedUnlessInterrupted
<1>1. Init => RecordedUnlessInterrupted
  BY DEF Init, RecordedUnlessInterrupted
<1> QED BY <1>1, ReconcilableStep, TypeAlways, PTL DEF Spec

\* The PUT of a permit had no effect, and the one that may be under way will have none.
Harmless(p) == puts[p] \in {"none", "rejected"} \/ (merge # NoMerge /\ merge.sha # p)

\* A merge under a permit's name was made by its PUT at the head it approves, and what
\* is called failed is harmless.
FailureInv ==
    /\ \A p \in PermitIds : puts[p] # "none" => dispatched[p] > 0
    /\ merge # NoMerge /\ merge.sha \in PermitIds =>
          /\ puts[merge.sha] = "merged"
          /\ permits[merge.sha] # None /\ merge.head = permits[merge.sha].evaluation.head
    /\ \A t \in Threads :
          pc[t] \in {"advance", "store", "record"} /\ req[t].receipt.status = "failed" =>
             Harmless(req[t].permit)
    /\ \A e \in executions : e.preliminary_state = "EXECUTION_FAILED" => Harmless(e.permit)

\* A receipt of failure is only taken up when nothing was sent, when GitHub refused, or
\* when the pull request was merged at another head.
LEMMA FailureTrue ==
    ASSUME "server_error" \notin Faults, PullTypeOK, StoreOK, ThreadOK, Locals,
           UseInv, TruthInv, FailureInv, NEW t \in Threads,
           GetPull(t) \/ AwaitMerge(t) \/ Lookup(t),
           pc'[t] \in {"advance", "store", "record"}, req'[t].receipt.status = "failed"
    PROVE  Harmless(req[t].permit)
<1>1. req[t].permit \in PermitIds
  BY DEF GetPull, AwaitMerge, Lookup, Goto, Locals, LocalOK, Executing, Acting
<1>2. CASE GetPull(t)
  <2>1. dispatched[req[t].permit] = 0
    BY <1>2 DEF GetPull, UseInv, Sending
  <2>2. puts[req[t].permit] = "none"
    BY <1>1, <2>1 DEF FailureInv
  <2> QED BY <2>2 DEF Harmless
<1>3. CASE AwaitMerge(t)
  <2>1. PICK answer \in PutAnswers(puts[req[t].permit]) : answer \in Failed
    BY <1>3 DEF AwaitMerge, Goto, End, ThreadOK
  <2>2. puts[req[t].permit] = "rejected"
    BY <2>1 DEF PutAnswers, Failed
  <2> QED BY <2>2 DEF Harmless
<1>4. CASE Lookup(t)
  <2>1. UnknownReceipt.status = "unknown"
    BY DEF UnknownReceipt, Receipt
  <2>2. PICK answer \in GetAnswers : LookupReceipt(answer, ExpectedHead(t)).status = "failed"
    <3>1. req' # [req EXCEPT ![t].receipt = UnknownReceipt]
      BY <2>1 DEF ThreadOK, Requests
    <3>2. PICK answer \in GetAnswers :
             req' = [req EXCEPT ![t].receipt = LookupReceipt(answer, ExpectedHead(t))]
      BY <1>4, <3>1 DEF Lookup, End, ThreadOK
    <3>3. req'[t].receipt = LookupReceipt(answer, ExpectedHead(t))
      BY <3>2 DEF ThreadOK, Requests
    <3> QED BY <3>3
  <2>3. answer.status = 200 /\ answer.merged /\ answer.head # ExpectedHead(t)
    BY <2>1, <2>2 DEF LookupReceipt, Receipt
  <2>4. MergeIs(answer.head, answer.sha)
    BY <2>3, AnswerIsTrue
  <2>5. merge # NoMerge /\ merge.head # permits[req[t].permit].evaluation.head
    BY <2>3, <2>4 DEF MergeIs, ExpectedHead
  <2>6. merge.sha # req[t].permit
    BY <1>1, <2>5 DEF FailureInv
  <2> QED BY <2>5, <2>6 DEF Harmless
<1> QED BY <1>2, <1>3, <1>4

\* A PUT is sent for the first time under its permit, of which nothing was said.
LEMMA PutIsFirst ==
    ASSUME StoreOK, Locals, UseInv, AttemptInv, FailureInv, NEW t \in Threads, PutMerge(t)
    PROVE  \E p \in PermitIds :
              /\ p = req[t].permit /\ puts[p] = "none" /\ puts' = [puts EXCEPT ![p] = "sent"]
              /\ dispatched' = [dispatched EXCEPT ![p] = @ + 1]
              /\ merge' = merge /\ permits' = permits
              /\ \A e \in executions : e.permit # p
              /\ \A u \in Threads : u # t /\ pc[u] \in Attempting => req[u].permit # p
<1> DEFINE p == req[t].permit
<1>1. pc[t] = "merge"
  BY DEF PutMerge, Goto
<1>2. p \in PermitIds /\ dispatched[p] = 0
  BY <1>1 DEF Locals, LocalOK, Executing, Acting, UseInv, Sending
<1>3. puts[p] = "none"
  BY <1>2 DEF FailureInv
<1>4. Records(p) = {} /\ \A u \in Threads : u # t /\ pc[u] \in Attempting => req[u].permit # p
  BY <1>1 DEF AttemptInv, Attempting, Acting
<1>5. /\ puts' = [puts EXCEPT ![p] = "sent"] /\ merge' = merge /\ permits' = permits
      /\ dispatched' = [dispatched EXCEPT ![p] = @ + 1]
  BY DEF PutMerge, SendPut, storeVars
<1> QED BY <1>2, <1>3, <1>4, <1>5 DEF Records

LEMMA FailureStep ==
    ASSUME "server_error" \notin Faults
    PROVE  TypeInv /\ UseInv /\ AttemptInv /\ TruthInv /\ FailureInv /\ [Next]_vars => FailureInv'
<1> SUFFICES ASSUME TypeInv, UseInv, AttemptInv, TruthInv, FailureInv, [Next]_vars
             PROVE  FailureInv'
  OBVIOUS
<1>0. /\ WorldOK /\ StoreOK /\ ThreadOK /\ Locals /\ PullTypeOK
      /\ \A e \in executions : e.permit \in PermitIds
  BY TypeParts DEF TypeInv, WorldOK, StoreOK, Executions
<1>1. ASSUME NEW t \in Threads, Step(t) PROVE FailureInv'
  <2>1. /\ \A u \in Threads \ {t} : pc'[u] = pc[u] /\ req'[u] = req[u]
        /\ \A p \in PermitIds : permits[p] # None => permits'[p] = permits[p]
    BY <1>0, <1>1, StepFrame
  <2>2. CASE PutMerge(t)
    <3>1. PICK p \in PermitIds :
             /\ p = req[t].permit /\ puts[p] = "none" /\ puts' = [puts EXCEPT ![p] = "sent"]
             /\ dispatched' = [dispatched EXCEPT ![p] = @ + 1]
             /\ merge' = merge /\ permits' = permits
             /\ \A e \in executions : e.permit # p
             /\ \A u \in Threads : u # t /\ pc[u] \in Attempting => req[u].permit # p
      BY <1>0, <2>2, PutIsFirst
    <3>2. \A q \in PermitIds : puts'[q] # "none" => dispatched'[q] > 0
      BY <1>0, <3>1 DEF StoreOK, PullTypeOK, FailureInv
    <3>3. merge # NoMerge /\ merge.sha \in PermitIds => merge.sha # p
      BY <3>1 DEF FailureInv
    <3>4. ASSUME NEW q \in PermitIds, q # p, Harmless(q) PROVE Harmless(q)'
      BY <1>0, <3>1, <3>4 DEF Harmless, PullTypeOK
    <3>5. executions' = executions /\ pc'[t] = "await"
      BY <1>0, <2>2 DEF PutMerge, storeVars, Goto, ThreadOK
    <3>6. ASSUME NEW u \in Threads, pc'[u] \in {"advance", "store", "record"},
                 req'[u].receipt.status = "failed"
          PROVE  Harmless(req[u].permit)'
      <4>1. u # t /\ pc[u] = pc'[u] /\ req'[u] = req[u]
        BY <2>1, <3>5, <3>6
      <4>2. req[u].permit \in PermitIds /\ req[u].permit # p /\ Harmless(req[u].permit)
        BY <1>0, <3>1, <3>6, <4>1 DEF Locals, LocalOK, Executing, Acting, Attempting, FailureInv
      <4>3. PICK q \in PermitIds : q = req[u].permit /\ q = req'[u].permit
        BY <4>1, <4>2
      <4>4. Harmless(q)'
        BY <3>4, <4>2, <4>3
      <4> QED BY <4>3, <4>4 DEF Harmless
    <3>7. \A e \in executions' : e.preliminary_state = "EXECUTION_FAILED" => Harmless(e.permit)'
      BY <1>0, <3>1, <3>4, <3>5 DEF FailureInv
    <3>8. merge' # NoMerge /\ merge'.sha \in PermitIds =>
             /\ puts'[merge'.sha] = "merged"
             /\ permits'[merge'.sha] # None
             /\ merge'.head = permits'[merge'.sha].evaluation.head
      BY <1>0, <3>1, <3>3 DEF FailureInv, PullTypeOK
    <3> QED BY <3>2, <3>6, <3>7, <3>8 DEF FailureInv
  <2>3. CASE ~PutMerge(t)
    <3>1. UNCHANGED <<puts, merge, dispatched>>
      BY <1>1, <2>3, StepWrites DEF Writing, EvaluatePut, MintPut, Claim, Store, Record, Conclude,
                                    Restore, Audit, pullVars, historyVars
    <3>2. \A q : Harmless(q)' <=> Harmless(q)
      BY <3>1 DEF Harmless
    <3>3. ASSUME NEW u \in Threads, pc'[u] \in {"advance", "store", "record"},
                 req'[u].receipt.status = "failed"
          PROVE  Harmless(req'[u].permit)
      <4>1. CASE u # t
        BY <2>1, <3>3, <4>1 DEF FailureInv
      <4>2. CASE u = t
        <5>1. CASE GetPull(t) \/ AwaitMerge(t) \/ Lookup(t)
          <6>1. Harmless(req[t].permit)
            BY <1>0, <3>3, <4>2, <5>1, FailureTrue
          <6>2. req'[t].permit = req[t].permit
            BY <1>0, <3>3, <4>2, <5>1, ReceiptKeeps
          <6> QED BY <4>2, <6>1, <6>2
        <5>2. CASE /\ pc[t] \in {"advance", "store"}
                   /\ req'[t].receipt = req[t].receipt /\ req'[t].permit = req[t].permit
          BY <3>3, <4>2, <5>2 DEF FailureInv
        <5> QED BY <1>0, <1>1, <3>3, <4>2, <5>1, <5>2, EntersReceipt
      <4> QED BY <4>1, <4>2
    <3>4. \A e \in executions' : e.preliminary_state = "EXECUTION_FAILED" => Harmless(e.permit)
      <4>1. CASE executions' = executions
        BY <4>1 DEF FailureInv
      <4>2. CASE Record(t)
        <5> DEFINE row == [permit |-> req[t].permit, executor |-> req[t].user,
                           receipt |-> req[t].receipt,
                           preliminary_state |-> AuthorityState(req[t].receipt)]
        <5>1. /\ executions' = executions \union {row} /\ row.permit = req[t].permit
              /\ row.preliminary_state = AuthorityState(req[t].receipt) /\ pc[t] = "record"
          BY <4>2 DEF Record, Goto
        <5>2. PICK new : new = row
          OBVIOUS
        <5> HIDE DEF row
        <5>3. AuthorityState(req[t].receipt) = "EXECUTION_FAILED" => req[t].receipt.status = "failed"
          BY DEF AuthorityState
        <5>4. new.preliminary_state = "EXECUTION_FAILED" => Harmless(new.permit)
          BY <5>1, <5>2, <5>3 DEF FailureInv
        <5> QED BY <5>1, <5>2, <5>4 DEF FailureInv
      <4> QED BY <1>1, <4>1, <4>2, StepEffects
    <3>5. merge # NoMerge /\ merge.sha \in PermitIds =>
             permits'[merge.sha] # None /\ merge.head = permits'[merge.sha].evaluation.head
      BY <2>1 DEF FailureInv
    <3> QED BY <3>1, <3>2, <3>3, <3>4, <3>5 DEF FailureInv, Harmless
  <2> QED BY <2>2, <2>3
<1>2. CASE Environment
  <2>1. permits' = permits /\ executions' = executions /\ dispatched' = dispatched
    BY <1>2, EnvironmentEffects DEF storeVars
  <2>2. \A u \in Threads : pc'[u] = "idle" \/ (pc'[u] = pc[u] /\ req'[u] = req[u])
    BY <1>0, <1>2, EnvironmentThreads
  <2>3. /\ \A q \in PermitIds : Harmless(q) => Harmless(q)'
        /\ \A q \in PermitIds : puts'[q] # "none" => puts[q] # "none"
        /\ merge' # NoMerge /\ merge'.sha \in PermitIds =>
              /\ puts'[merge'.sha] = "merged"
              /\ permits[merge'.sha] # None
              /\ merge'.head = permits[merge'.sha].evaluation.head
    <3>1. ASSUME NEW h \in Heads, Push(h) PROVE UNCHANGED <<merge, puts>>
      BY <3>1 DEF Push
    <3>2. CASE UNCHANGED <<merge, puts>>
      BY <3>2 DEF FailureInv, Harmless
    <3>3. CASE ForeignMerge
      BY <3>3, PullAssumption DEF ForeignMerge, Harmless
    <3>4. ASSUME NEW p \in PermitIds, permits[p] # None, DecidePut(p, permits[p].evaluation.head)
          PROVE  /\ \A q \in PermitIds : Harmless(q) => Harmless(q)'
                 /\ \A q \in PermitIds : puts'[q] # "none" => puts[q] # "none"
                 /\ merge' # NoMerge /\ merge'.sha \in PermitIds =>
                       /\ puts'[merge'.sha] = "merged"
                       /\ permits[merge'.sha] # None
                       /\ merge'.head = permits[merge'.sha].evaluation.head
      <4>1. /\ puts[p] = "sent" /\ puts'[p] \in {"merged", "rejected"}
            /\ \A q \in PermitIds \ {p} : puts'[q] = puts[q]
        BY <1>0, <3>4 DEF DecidePut, PullTypeOK
      <4>2. \/ merge' = merge
            \/ merge = NoMerge /\ merge' = [head |-> permits[p].evaluation.head, sha |-> p]
               /\ puts'[p] = "merged"
        BY <1>0, <3>4 DEF DecidePut, PullTypeOK
      <4>3. CASE merge' = merge
        BY <4>1, <4>3 DEF FailureInv, Harmless
      <4>4. CASE merge = NoMerge /\ merge' = [head |-> permits[p].evaluation.head, sha |-> p]
                 /\ puts'[p] = "merged"
        BY <3>4, <4>1, <4>4 DEF Harmless
      <4> QED BY <4>2, <4>3, <4>4
    <3>5. CASE Provide
      BY <3>1, <3>2, <3>3, <3>4, <3>5 DEF Provide, Others
    <3>6. CASE ~Provide
      BY <1>2, <3>2, <3>6 DEF Environment, Expire, Crash, Govern, pullVars
    <3> QED BY <3>5, <3>6
  <2>4. ASSUME NEW u \in Threads, pc'[u] \in {"advance", "store", "record"},
               req'[u].receipt.status = "failed"
        PROVE  Harmless(req[u].permit)'
    <3>1. pc[u] = pc'[u] /\ req'[u] = req[u]
      BY <2>2, <2>4
    <3>2. PICK q \in PermitIds : q = req[u].permit /\ q = req'[u].permit
      BY <1>0, <2>4, <3>1 DEF Locals, LocalOK, Executing, Acting
    <3>3. Harmless(q)'
      BY <2>3, <2>4, <3>1, <3>2 DEF FailureInv
    <3> QED BY <3>2, <3>3 DEF Harmless
  <2>5. \A e \in executions' : e.preliminary_state = "EXECUTION_FAILED" => Harmless(e.permit)'
    BY <1>0, <2>1, <2>3 DEF FailureInv
  <2> QED BY <2>1, <2>3, <2>4, <2>5 DEF FailureInv
<1>3. CASE UNCHANGED vars
  BY <1>3 DEF vars, pullVars, storeVars, threadVars, historyVars, FailureInv, Harmless
<1> QED BY <1>1, <1>2, <1>3, NextCases

\* EXECUTION_FAILED means that "the effect definitely did not occur" unless GitHub
\* answers the PUT with a 500: that answer alone, taken for a refusal, makes the code
\* say more than it knows, whatever else times out, is unreachable, or dies.
THEOREM FailuresAreTrue ==
    ASSUME "server_error" \notin Faults
    PROVE  Spec => []FailedMeansNoEffect
<1>1. Init => FailureInv
  BY DEF Init, PullInit, FailureInv
<1>2. TypeInv /\ FailureInv => FailedMeansNoEffect
  <2> SUFFICES ASSUME TypeInv, FailureInv, NEW e \in executions,
                      e.preliminary_state = "EXECUTION_FAILED", merge # NoMerge
               PROVE  merge.sha # e.permit
    BY DEF FailedMeansNoEffect
  <2>1. e.permit \in PermitIds
    BY TypeParts DEF TypeInv, StoreOK, Executions
  <2> QED BY <2>1 DEF FailureInv, Harmless
<1> QED
  BY <1>1, <1>2, FailureStep, TypeAlways, UseAlways, AttemptAlways, TruthAlways, PTL DEF Spec

=============================================================================
