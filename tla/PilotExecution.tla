--------------------------- MODULE PilotExecution ---------------------------
(***************************************************************************)
(* The pilot control plane of proofrail/server.py from evaluation to       *)
(* reconciliation, with proofrail/permit.py and proofrail/trust.py, the    *)
(* control plane it asks (ControlPlane), the adapter it acts through       *)
(* (GitHubAdapter) and the provider (GitHubPull).                          *)
(*                                                                         *)
(* A ThreadingHTTPServer handles every request on a thread of its own.     *)
(* A thread's program counter names the next step of its handler: each     *)
(* step is one access to something shared, a SQLite transaction, a file,   *)
(* a lock, a call of the provider.  Threads of one process share the trust *)
(* lock; all processes share the databases and the checkpoint file.        *)
(*                                                                         *)
(* Evidence, external state and approval roots are taken from the same     *)
(* stored evaluation when a permit is minted and when it is executed, so   *)
(* the two always agree and are left out.  Signatures verify: every        *)
(* record met here was signed by this server and read back from its store. *)
(* All permits are for one pull request and differ in the head they name.  *)
(***************************************************************************)
EXTENDS ControlPlane, GitHubAdapter, TrustCheckpoint

CONSTANTS Threads,        \* request threads
          Processes,      \* server processes
          Host,           \* the process each thread belongs to
          Nonces,         \* nonces a client may ask for, or uuid4 may give
          QuorumAdapter,  \* the adapter observes through a signed quorum
          RequireQuorum,  \* require_observation_quorum
          StoresRaise,    \* BOOLEAN: a database, a file or the ledger may raise
          Audited,        \* bound: the actions whose audit events are kept
          Followed,       \* bound: the permits of which interruptions are kept
          MaxEvaluations, \* bound: evaluations
          MaxExpired,     \* bound: permits whose deadline passes
          MaxEpoch,       \* bound: no reconciliation starts at a later epoch
          MaxCrashes      \* bound: process crashes

ASSUME PilotAssumption ==
    /\ Host \in [Threads -> Processes]
    /\ QuorumAdapter \in BOOLEAN /\ RequireQuorum \in BOOLEAN /\ StoresRaise \in BOOLEAN
    /\ Followed \subseteq PermitIds
    /\ None \notin Threads \union Principals \union PermitIds \union Nonces
                    \union Documents
    /\ MaxEvaluations \in Nat /\ MaxExpired \in Nat /\ MaxEpoch \in Nat /\ MaxCrashes \in Nat

VARIABLES
    \* pilot_objects and the audit trail
    evaluations, permits, executions, reconciliations, audit,
    \* the replay registry and the trust checkpoint file
    claims, checkpoint,
    \* per process and per thread, lost in a crash
    lock, pc, req,
    \* the clock, the number of crashes, and (history) the permits whose handler a
    \* crash or a store that raised has ended after the claim
    expired, crashes, interrupted,
    \* history: PUTs sent per permit; what was true since a thread was admitted
    dispatched, window

storeVars == <<evaluations, permits, executions, reconciliations, audit>>
trustVars == <<claims, checkpoint>>
threadVars == <<lock, pc, req>>
clockVars == <<expired, crashes, interrupted>>
historyVars == <<dispatched, window>>
vars == <<cpVars, pullVars, storeVars, trustVars, threadVars, clockVars, historyVars>>

-----------------------------------------------------------------------------
(* Data *)

RoleTables == [Principals -> Roles \union {Unknown}]
IdentityRoots == [principals : RoleTables]

\* An evaluation record; while it is being made some roots are not read yet.
Evaluations == [head : Heads, policy : Documents, identity : IdentityRoots]
Drafts == [head : Heads, policy : Documents \union {None},
           identity : IdentityRoots \union {None}]

\* A row of permit_claims.
ClaimRows == [permit : PermitIds, nonce : Nonces, executor : Principals]

\* What a quorum of observers, or the adapter itself, reports of the provider.
Observations == [met : BOOLEAN, merged : BOOLEAN,
                 head : Heads \union {None}, sha : Commits \union {None}]
ObservationRoot(observation) == [observed |-> {observation}]
ObservationRoots == {EmptyRoot} \union {ObservationRoot(o) : o \in Observations}

Links == [replay : [claims : SUBSET ClaimRows], observation : ObservationRoots]
Checkpoints == Seq(Links) \ {<<>>}
TrustRecords == [replay_root : [claims : SUBSET ClaimRows],
                 checkpoint_root : Checkpoints, observation_root : ObservationRoots,
                 minimum_checkpoint_epoch : Nat, monotonic_counter : Nat]
Permits == [evaluation : Evaluations, nonce : Nonces, trust : TrustRecords]

Executions == [permit : PermitIds, executor : Principals, receipt : Receipts,
               preliminary_state : {"RECONCILED", "EXECUTION_FAILED",
                                    "RECONCILIATION_FAILED"}]
Reconciliations == [permit : PermitIds, state : {"RECONCILED", "RECONCILIATION_FAILED"},
                    sha : Commits \union {None}]

Event(action, state, permit) == [action |-> action, state |-> state, permit |-> permit]
Events == [action : {"evaluate", "mint", "execute", "reconcile", "denied"},
           state : {"EVALUATED", "PERMITTED", "CONSUMED", "RECONCILED",
                    "RECONCILIATION_FAILED", None},
           permit : PermitIds \union {None}]

\* The local variables of a handler.
Idle == [user |-> None, permit |-> None, evaluation |-> None, nonce |-> None,
         policy |-> None, identity |-> None, checkpoint |-> None,
         receipt |-> None, execution |-> None, observation |-> None,
         event |-> None]
Requests == [user : Principals \union {None}, permit : PermitIds \union {None},
             evaluation : Drafts \union {None}, nonce : Nonces \union {None},
             policy : Documents \union {None}, identity : IdentityRoots \union {None},
             checkpoint : Checkpoints \union {None}, receipt : Receipts \union {None},
             execution : Executions \union {None},
             observation : Observations \union {None}, event : Events \union {None}]

\* The steps of the handlers.  Deciding: holding the trust lock, not yet claimed.
\* Acting: the claim is committed.
Deciding == {"authorize", "readable", "policy", "identity", "checkpoint", "verify", "claim"}
Acting == {"preflight", "merge", "await", "lookup", "advance", "store"}
Advancing == {"rereadCheckpoint", "readvance", "restore"}
Locked == Deciding \union Acting \union Advancing
Steps == {"idle", "evalReadable", "evalPolicy", "evalIdentity", "evalPut",
          "mintRead", "mintPut", "admit", "record",
          "observe", "conclude", "readmit", "audit"} \union Locked
\* Those that read or write a database or a file.
Storing == Steps \ {"idle", "admit", "readmit", "merge", "await", "lookup", "observe"}

ActiveDigests == IF active = 0 THEN {} ELSE {policies[active]}

-----------------------------------------------------------------------------
(* Helpers for steps *)

Goto(t, from, to) ==
    /\ pc[t] = from
    /\ pc' = [pc EXCEPT ![t] = to]

Release(t) == lock' = [lock EXCEPT ![Host[t]] = IF @ = t THEN None ELSE @]
Forget(t) == window' = [window EXCEPT ![t] = [policies |-> {}, tables |-> {}]]

\* A handler is over: its locals are gone, and the trust lock with them.
End(t) ==
    /\ pc' = [pc EXCEPT ![t] = "idle"]
    /\ req' = [req EXCEPT ![t] = Idle]
    /\ Release(t)
    /\ Forget(t)

\* The permit a handler has spent and still has to account for.
Spending(t) == {p \in Followed :
    \/ pc[t] \in Acting \union {"record"} /\ req[t].permit = p
    \/ pc[t] = "audit" /\ req[t].event = Event("execute", "CONSUMED", p)}

\* AuthorizationError or PermitError: the with block is left, and the error
\* handler of `request' writes an audit event that names the permit.  A request of
\* a principal without a role is refused before it changes anything: no event.
Deny(t, permit) ==
    /\ pc' = [pc EXCEPT ![t] = "audit"]
    /\ req' = [req EXCEPT ![t] = [Idle EXCEPT !.event = Event("denied", None, permit)]]
    /\ Release(t)
    /\ Forget(t)

-----------------------------------------------------------------------------
(* POST /evaluate *)

EvaluateRequest(t, u, h) ==
    /\ pc[t] = "idle" /\ Cardinality(evaluations) < MaxEvaluations
    /\ \/ /\ Can(roles[u], "evaluation:create")
          /\ Goto(t, "idle", "evalReadable")
          /\ req' = [req EXCEPT ![t] = [Idle EXCEPT !.user = u,
                       !.evaluation = [head |-> h, policy |-> None, identity |-> None]]]
          /\ UNCHANGED <<lock, window>>
       \/ roles[u] # Unknown /\ ~Can(roles[u], "evaluation:create") /\ Deny(t, None)
    /\ UNCHANGED <<cpVars, pullVars, storeVars, trustVars, clockVars, dispatched>>

\* get_active_policy, its own role check in its own transaction.
EvaluateReadable(t) ==
    /\ pc[t] = "evalReadable"
    /\ \/ /\ Can(roles[req[t].user], "policy:read")
          /\ Goto(t, "evalReadable", "evalPolicy")
          /\ UNCHANGED <<lock, req, window>>
       \/ /\ ~Can(roles[req[t].user], "policy:read")
          /\ Deny(t, None)
    /\ UNCHANGED <<cpVars, pullVars, storeVars, trustVars, clockVars, dispatched>>

EvaluatePolicy(t) ==
    /\ pc[t] = "evalPolicy"
    /\ \/ /\ active # 0
          /\ Goto(t, "evalPolicy", "evalIdentity")
          /\ req' = [req EXCEPT ![t].evaluation.policy = policies[active]]
          /\ UNCHANGED <<lock, window>>
       \/ active = 0 /\ End(t)
    /\ UNCHANGED <<cpVars, pullVars, storeVars, trustVars, clockVars, dispatched>>

\* The identity root is read after the policy, in another transaction.
EvaluateIdentity(t) ==
    /\ Goto(t, "evalIdentity", "evalPut")
    /\ req' = [req EXCEPT ![t].evaluation.identity = IdentityRoot(roles)]
    /\ UNCHANGED <<cpVars, pullVars, storeVars, trustVars, lock, clockVars, historyVars>>

EvaluatePut(t) ==
    /\ Goto(t, "evalPut", "audit")
    /\ evaluations' = evaluations \union {req[t].evaluation}
    /\ req' = [req EXCEPT ![t].event = Event("evaluate", "EVALUATED", None)]
    /\ UNCHANGED <<cpVars, pullVars, permits, executions, reconciliations, audit,
                   trustVars, lock, clockVars, historyVars>>

Evaluate(t) ==
    \/ \E u \in Principals, h \in Heads : EvaluateRequest(t, u, h)
    \/ EvaluateReadable(t) \/ EvaluatePolicy(t)
    \/ EvaluateIdentity(t) \/ EvaluatePut(t)

-----------------------------------------------------------------------------
(* POST /permits *)

\* Bound: as many permits are asked for as PermitIds has names.
Minting == {t \in Threads : pc[t] \in {"mintRead", "mintPut"}}
NamesLeft == Cardinality(Minting) < Cardinality({p \in PermitIds : permits[p] = None})

\* mint_permit refuses a role that may mint but may not issue.
MayIssue(role) == Can(role, "permit:mint") /\ role \in PermitIssuerRoles

MintRequest(t, u, e, n) ==
    /\ pc[t] = "idle" /\ NamesLeft
    /\ \/ /\ MayIssue(roles[u])
          /\ Goto(t, "idle", "mintRead")
          /\ req' = [req EXCEPT ![t] = [Idle EXCEPT !.user = u, !.evaluation = e, !.nonce = n]]
          /\ UNCHANGED <<lock, window>>
       \/ roles[u] # Unknown /\ ~MayIssue(roles[u]) /\ Deny(t, None)
    /\ UNCHANGED <<cpVars, pullVars, storeVars, trustVars, clockVars, dispatched>>

\* The checkpoint file is read without the trust lock.
MintRead(t) ==
    /\ Goto(t, "mintRead", "mintPut")
    /\ req' = [req EXCEPT ![t].checkpoint = checkpoint]
    /\ UNCHANGED <<cpVars, pullVars, storeVars, trustVars, lock, clockVars, historyVars>>

\* A fresh uuid4 names the permit.
MintPut(t, p) ==
    /\ Goto(t, "mintPut", "audit")
    /\ permits[p] = None
    /\ permits' = [permits EXCEPT ![p] =
                     [evaluation |-> req[t].evaluation, nonce |-> req[t].nonce,
                      trust |-> TrustConstraints(req[t].checkpoint)]]
    /\ req' = [req EXCEPT ![t] = [Idle EXCEPT !.event = Event("mint", "PERMITTED", p)]]
    /\ UNCHANGED <<cpVars, pullVars, evaluations, executions, reconciliations, audit,
                   trustVars, lock, clockVars, historyVars>>

Mint(t) ==
    \/ \E u \in Principals, e \in evaluations, n \in Nonces : MintRequest(t, u, e, n)
    \/ MintRead(t)
    \/ \E p \in PermitIds : MintPut(t, p)

-----------------------------------------------------------------------------
(* POST /execute/github-merge, up to the claim *)

ExecuteRequest(t, u, p) ==
    /\ pc[t] = "idle" /\ permits[p] # None
    /\ \/ /\ Can(roles[u], "action:execute")
          /\ Goto(t, "idle", "admit")
          /\ req' = [req EXCEPT ![t] = [Idle EXCEPT !.user = u, !.permit = p]]
          /\ UNCHANGED <<lock, window>>
       \/ /\ roles[u] # Unknown /\ ~Can(roles[u], "action:execute")
          /\ Deny(t, p)
    /\ UNCHANGED <<cpVars, pullVars, storeVars, trustVars, clockVars, dispatched>>

\* `with self._trust_lock' is entered.
Admit(t) ==
    /\ Goto(t, "admit", "authorize")
    /\ lock[Host[t]] = None
    /\ lock' = [lock EXCEPT ![Host[t]] = t]
    /\ window' = [window EXCEPT ![t] = [policies |-> ActiveDigests, tables |-> {roles}]]
    /\ UNCHANGED <<cpVars, pullVars, storeVars, trustVars, req, clockVars, dispatched>>

\* A role check of the control plane: on to the next step, or denied.
CheckRole(t, permission, from, to) ==
    /\ pc[t] = from
    /\ \/ /\ Can(roles[req[t].user], permission)
          /\ Goto(t, from, to)
          /\ UNCHANGED <<lock, req, window>>
       \/ /\ ~Can(roles[req[t].user], permission)
          /\ Deny(t, req[t].permit)
    /\ UNCHANGED <<cpVars, pullVars, storeVars, trustVars, clockVars, dispatched>>

Authorize(t) == CheckRole(t, "action:execute", "authorize", "readable")
ExecuteReadable(t) == CheckRole(t, "policy:read", "readable", "policy")

\* Slip: the policy root is taken from the evaluation, like the other roots.
ReadPolicyEvaluated(t) ==
    /\ Goto(t, "policy", "identity")
    /\ req' = [req EXCEPT ![t].policy = permits[req[t].permit].evaluation.policy]
    /\ UNCHANGED <<cpVars, pullVars, storeVars, trustVars, lock, clockVars, historyVars>>

ReadPolicy(t) ==
    /\ pc[t] = "policy"
    /\ \/ /\ active # 0
          /\ Goto(t, "policy", "identity")
          /\ req' = [req EXCEPT ![t].policy = policies[active]]
          /\ UNCHANGED <<lock, window>>
       \/ active = 0 /\ End(t)
    /\ UNCHANGED <<cpVars, pullVars, storeVars, trustVars, clockVars, dispatched>>

ReadIdentity(t) ==
    /\ Goto(t, "identity", "checkpoint")
    /\ req' = [req EXCEPT ![t].identity = IdentityRoot(roles)]
    /\ UNCHANGED <<cpVars, pullVars, storeVars, trustVars, lock, clockVars, historyVars>>

ReadCheckpoint(t) ==
    /\ Goto(t, "checkpoint", "verify")
    /\ req' = [req EXCEPT ![t].checkpoint = checkpoint]
    /\ UNCHANGED <<cpVars, pullVars, storeVars, trustVars, lock, clockVars, historyVars>>

\* replay_claim_exists.
Claimed(p) == \E row \in claims : row.permit = p

\* Slip: the permit's trust constraints are not compared.
PermitHoldsUnbound(t) ==
    LET permit == permits[req[t].permit] IN
    /\ VerifyTrustCheckpoint(req[t].checkpoint, claims)
    /\ ~Claimed(req[t].permit)
    /\ req[t].permit \notin expired
    /\ permit.evaluation.identity = req[t].identity
    /\ permit.evaluation.policy = req[t].policy

\* consume_permit up to its transaction: the time is sampled, the checkpoint is
\* compared with the registry, and verify_permit compares the permit with what
\* was read.
PermitHolds(t) ==
    LET permit == permits[req[t].permit] IN
    /\ VerifyTrustCheckpoint(req[t].checkpoint, claims)
    /\ ~Claimed(req[t].permit)
    /\ req[t].permit \notin expired
    /\ permit.evaluation.identity = req[t].identity
    /\ permit.evaluation.policy = req[t].policy
    /\ TrustHolds(permit.trust, req[t].checkpoint)

Verify(t) ==
    /\ pc[t] = "verify"
    /\ \/ /\ PermitHolds(t)
          /\ Goto(t, "verify", "claim")
          /\ UNCHANGED <<lock, req, window>>
       \/ /\ ~PermitHolds(t)
          /\ Deny(t, req[t].permit)
    /\ UNCHANGED <<cpVars, pullVars, storeVars, trustVars, clockVars, dispatched>>

\* Slip: the checkpoint is not compared again under the write lock.
ClaimableUnchecked(t) ==
    \A row \in claims : /\ row.permit # req[t].permit
                        /\ row.nonce # permits[req[t].permit].nonce

\* BEGIN IMMEDIATE .. COMMIT: the checkpoint is compared again under the write
\* lock, and the row must respect the primary key and UNIQUE(nonce).
Claimable(t) ==
    /\ VerifyTrustCheckpoint(req[t].checkpoint, claims)
    /\ \A row \in claims : /\ row.permit # req[t].permit
                           /\ row.nonce # permits[req[t].permit].nonce

Claim(t) ==
    /\ pc[t] = "claim"
    /\ \/ /\ Claimable(t)
          /\ Goto(t, "claim", "preflight")
          /\ claims' = claims \union {[permit |-> req[t].permit,
                                       nonce |-> permits[req[t].permit].nonce,
                                       executor |-> req[t].user]}
          /\ Forget(t)
          /\ UNCHANGED <<lock, req>>
       \/ /\ ~Claimable(t)
          /\ Deny(t, req[t].permit)
          /\ UNCHANGED claims
    /\ UNCHANGED <<cpVars, pullVars, storeVars, checkpoint, clockVars, dispatched>>

-----------------------------------------------------------------------------
(* POST /execute/github-merge, from the claim on: the adapter and the record *)

ExpectedHead(t) == permits[req[t].permit].evaluation.head

\* GET before the PUT.  Nothing the transport raises here is caught by the adapter:
\* it leaves every with block and ends the request, the claim stays committed.
GetPull(t) ==
    /\ pc[t] = "preflight"
    /\ \/ \E answer \in GetAnswers, mergeable \in BOOLEAN :
             LET receipt == Preflight(answer, ExpectedHead(t), mergeable) IN
             \/ receipt = None /\ Goto(t, "preflight", "merge") /\ UNCHANGED req
             \/ /\ receipt # None
                /\ Goto(t, "preflight", "advance")
                /\ req' = [req EXCEPT ![t].receipt = receipt]
          /\ UNCHANGED <<lock, window>>
       \/ GetRaises /\ End(t)
    /\ UNCHANGED <<cpVars, pullVars, storeVars, trustVars, clockVars, dispatched>>

PutMerge(t) ==
    /\ Goto(t, "merge", "await")
    /\ SendPut(req[t].permit)
    /\ dispatched' = [dispatched EXCEPT ![req[t].permit] = @ + 1]
    /\ UNCHANGED <<cpVars, storeVars, trustVars, lock, req, clockVars, window>>

\* Slip: a PUT without an answer is sent again.
AwaitMergeRetrying(t) ==
    /\ pc[t] = "await"
    /\ \E answer \in PutAnswers(puts[req[t].permit]) :
          \/ answer \in LookedUp /\ Goto(t, "await", "lookup")
          \/ answer = "timeout" /\ Goto(t, "await", "merge")
    /\ UNCHANGED <<cpVars, pullVars, storeVars, trustVars, lock, req, clockVars, historyVars>>

AwaitMerge(t) ==
    /\ pc[t] = "await"
    /\ \E answer \in PutAnswers(puts[req[t].permit]) :
          \/ /\ answer \in LookedUp
             /\ Goto(t, "await", "lookup")
             /\ UNCHANGED <<lock, req, window>>
          \/ /\ answer \in Failed
             /\ Goto(t, "await", "advance")
             /\ req' = [req EXCEPT ![t].receipt = FailedReceipt]
             /\ UNCHANGED <<lock, window>>
          \/ answer \in Raised /\ End(t)
    /\ UNCHANGED <<cpVars, pullVars, storeVars, trustVars, clockVars, dispatched>>

\* Slip: a status other than 200 raises.
LookupRaising(t) ==
    /\ pc[t] = "lookup"
    /\ \E answer \in GetAnswers :
          \/ /\ answer.status = 200
             /\ Goto(t, "lookup", "advance")
             /\ req' = [req EXCEPT ![t].receipt = LookupReceipt(answer, ExpectedHead(t))]
             /\ UNCHANGED <<lock, window>>
          \/ answer.status # 200 /\ End(t)
    /\ UNCHANGED <<cpVars, pullVars, storeVars, trustVars, clockVars, dispatched>>

\* Slip: the second GET is repeated until it shows the merge.
LookupPolling(t) ==
    /\ pc[t] = "lookup"
    /\ \E answer \in GetAnswers :
          \/ /\ answer.status = 200 /\ answer.merged
             /\ Goto(t, "lookup", "advance")
             /\ req' = [req EXCEPT ![t].receipt = LookupReceipt(answer, ExpectedHead(t))]
          \/ ~(answer.status = 200 /\ answer.merged) /\ UNCHANGED <<pc, req>>
    /\ UNCHANGED <<cpVars, pullVars, storeVars, trustVars, lock, window, clockVars, dispatched>>

\* The second GET: a transport error is caught here, an error page is not.
Lookup(t) ==
    /\ pc[t] = "lookup"
    /\ \/ /\ Goto(t, "lookup", "advance")
          /\ \/ \E answer \in GetAnswers :
                   req' = [req EXCEPT ![t].receipt = LookupReceipt(answer, ExpectedHead(t))]
             \/ "unreachable" \in Faults /\ req' = [req EXCEPT ![t].receipt = UnknownReceipt]
          /\ UNCHANGED <<lock, window>>
       \/ "garbled" \in Faults /\ End(t)
    /\ UNCHANGED <<cpVars, pullVars, storeVars, trustVars, clockVars, dispatched>>

\* next_trust_checkpoint reads the registry; the observation root is kept.
Advance(t) ==
    /\ Goto(t, "advance", "store")
    /\ req' = [req EXCEPT ![t].checkpoint = NextTrustCheckpoint(req[t].checkpoint, claims,
                                Roots(req[t].checkpoint).observation)]
    /\ UNCHANGED <<cpVars, pullVars, storeVars, trustVars, lock, clockVars, historyVars>>

\* write_trust_checkpoint replaces the file atomically; then the lock is left.
Store(t) ==
    /\ Goto(t, "store", "record")
    /\ checkpoint' = req[t].checkpoint
    /\ Release(t)
    /\ UNCHANGED <<cpVars, pullVars, storeVars, claims, req, clockVars, historyVars>>

\* Slip: the status of the receipt is recorded as it is.
AuthorityStateRaw(receipt) == receipt.status

\* execute_github_merge: the authority state a receipt stands for.
AuthorityState(receipt) ==
    IF receipt.status = "success" /\ receipt.side_effect_confirmed THEN "RECONCILED"
    ELSE IF receipt.status = "failed" THEN "EXECUTION_FAILED"
    ELSE "RECONCILIATION_FAILED"

Record(t) ==
    /\ Goto(t, "record", "audit")
    /\ executions' = executions \union
         {[permit |-> req[t].permit, executor |-> req[t].user, receipt |-> req[t].receipt,
           preliminary_state |-> AuthorityState(req[t].receipt)]}
    /\ req' = [req EXCEPT ![t] =
                 [Idle EXCEPT !.event = Event("execute", "CONSUMED", req[t].permit)]]
    /\ UNCHANGED <<cpVars, pullVars, evaluations, permits, reconciliations, audit,
                   trustVars, lock, clockVars, historyVars>>

Execute(t) ==
    \/ \E u \in Principals, p \in PermitIds : ExecuteRequest(t, u, p)
    \/ Admit(t) \/ Authorize(t) \/ ExecuteReadable(t) \/ ReadPolicy(t)
    \/ ReadIdentity(t) \/ ReadCheckpoint(t) \/ Verify(t) \/ Claim(t)
    \/ GetPull(t) \/ PutMerge(t) \/ AwaitMerge(t) \/ Lookup(t)
    \/ Advance(t) \/ Store(t) \/ Record(t)

-----------------------------------------------------------------------------
(* POST /reconcile/github-merge *)

\* Nothing stops a second reconciliation of the same execution.
ReconcileRequest(t, u, execution) ==
    /\ pc[t] = "idle" /\ Len(checkpoint) <= MaxEpoch
    /\ \/ /\ Can(roles[u], "outcome:reconcile")
          /\ Goto(t, "idle", "observe")
          /\ req' = [req EXCEPT ![t] = [Idle EXCEPT !.user = u, !.execution = execution]]
          /\ UNCHANGED <<lock, window>>
       \/ roles[u] # Unknown /\ ~Can(roles[u], "outcome:reconcile") /\ Deny(t, None)
    /\ UNCHANGED <<cpVars, pullVars, storeVars, trustVars, clockVars, dispatched>>

\* What observe may return: the adapter reports the answer to one GET; a quorum
\* adapter reports the state its observers agreed on, or that they did not.
NotObserved == [met |-> FALSE, merged |-> FALSE, head |-> None, sha |-> None]
Seen(answer) == [met |-> QuorumAdapter, merged |-> answer.merged,
                 head |-> answer.head, sha |-> answer.sha]
ObserveAnswers ==
    IF QuorumAdapter
    THEN {Seen(Pull), NotObserved}
    ELSE {IF answer.status = 200 THEN Seen(answer) ELSE NotObserved : answer \in GetAnswers}

\* Outside the trust lock.  Without the quorum it requires, the server discards
\* the merge; an exception of the adapter, or of an observer, ends the request.
Observe(t) ==
    /\ pc[t] = "observe"
    /\ \/ \E observation \in ObserveAnswers :
             /\ Goto(t, "observe", "conclude")
             /\ req' = [req EXCEPT ![t].observation = IF RequireQuorum /\ ~observation.met
                     THEN [observation EXCEPT !.merged = FALSE, !.sha = None]
                     ELSE observation]
             /\ UNCHANGED <<lock, window>>
       \/ GetRaises /\ End(t)
    /\ UNCHANGED <<cpVars, pullVars, storeVars, trustVars, clockVars, dispatched>>

\* The merge counts as this permit's effect only at the approved head and only
\* if the executor claimed the very same merge commit.
Confirmed(execution, observation) ==
    /\ observation.merged
    /\ observation.head = permits[execution.permit].evaluation.head
    /\ execution.receipt.side_effect_confirmed
    /\ observation.sha # None
    /\ observation.sha = execution.receipt.remote_operation_id

Conclude(t) ==
    LET execution   == req[t].execution
        observation == req[t].observation
        state == IF Confirmed(execution, observation) THEN "RECONCILED"
                                                      ELSE "RECONCILIATION_FAILED" IN
    /\ Goto(t, "conclude", "audit")
    /\ reconciliations' = reconciliations \union
         {[permit |-> execution.permit, state |-> state, sha |-> observation.sha]}
    /\ req' = [req EXCEPT ![t].event = Event("reconcile", state, execution.permit)]
    /\ UNCHANGED <<cpVars, pullVars, evaluations, permits, executions, audit,
                   trustVars, lock, clockVars, historyVars>>

\* Slip: the observation root is written without the trust lock.
ReadmitUnlocked(t) ==
    /\ Goto(t, "readmit", "rereadCheckpoint")
    /\ UNCHANGED <<cpVars, pullVars, storeVars, trustVars, lock, req, clockVars, historyVars>>

Readmit(t) ==
    /\ Goto(t, "readmit", "rereadCheckpoint")
    /\ lock[Host[t]] = None
    /\ lock' = [lock EXCEPT ![Host[t]] = t]
    /\ UNCHANGED <<cpVars, pullVars, storeVars, trustVars, req, clockVars, historyVars>>

RereadCheckpoint(t) ==
    /\ Goto(t, "rereadCheckpoint", "readvance")
    /\ req' = [req EXCEPT ![t].checkpoint = checkpoint]
    /\ UNCHANGED <<cpVars, pullVars, storeVars, trustVars, lock, clockVars, historyVars>>

\* A quorum observation becomes the observation root; the registry root is taken
\* as it is, which also repairs a checkpoint that an interruption left behind.
Readvance(t) ==
    /\ Goto(t, "readvance", "restore")
    /\ req' = [req EXCEPT ![t].checkpoint = NextTrustCheckpoint(req[t].checkpoint, claims,
                                ObservationRoot(req[t].observation))]
    /\ UNCHANGED <<cpVars, pullVars, storeVars, trustVars, lock, clockVars, historyVars>>

Restore(t) ==
    /\ pc[t] = "restore"
    /\ checkpoint' = req[t].checkpoint
    /\ End(t)
    /\ UNCHANGED <<cpVars, pullVars, storeVars, claims, clockVars, dispatched>>

Reconcile(t) ==
    \/ \E u \in Principals, execution \in executions : ReconcileRequest(t, u, execution)
    \/ Observe(t) \/ Conclude(t) \/ Readmit(t)
    \/ RereadCheckpoint(t) \/ Readvance(t) \/ Restore(t)

-----------------------------------------------------------------------------
(* What every handler ends with, and the environment *)

\* _audit: the event is appended.  A reconciliation that met its quorum goes on
\* to the trust lock, every other handler is over.
QuorumObserved(t) ==
    IF req[t].observation = None THEN FALSE ELSE req[t].observation.met

Audit(t) ==
    /\ pc[t] = "audit"
    /\ audit' = audit \union {e \in {req[t].event} : e.action \in Audited}
    /\ \/ /\ QuorumObserved(t)
          /\ Goto(t, "audit", "readmit")
          /\ UNCHANGED <<lock, req, window>>
       \/ /\ ~QuorumObserved(t)
          /\ End(t)
    /\ UNCHANGED <<cpVars, pullVars, evaluations, permits, executions, reconciliations,
                   trustVars, clockVars, dispatched>>

\* A database, the checkpoint file or the ledger raises: nothing is written, and the
\* exception leaves the with block and the handler.  At "preflight" it is the read of
\* the registry that consume_permit ends with, before the adapter is called.
Fail(t) ==
    /\ StoresRaise /\ pc[t] \in Storing
    /\ End(t)
    /\ interrupted' = interrupted \union Spending(t)
    /\ UNCHANGED <<cpVars, pullVars, storeVars, trustVars, expired, crashes, dispatched>>

\* The deadline of a permit passes.
Expire(p) ==
    /\ permits[p] # None /\ p \notin expired /\ Cardinality(expired) < MaxExpired
    /\ expired' = expired \union {p}
    /\ UNCHANGED <<cpVars, pullVars, storeVars, trustVars, threadVars, crashes,
                   interrupted, historyVars>>

\* A process dies and is started again: its threads and its lock are gone, what
\* was sent to the provider is not.
Crash(host) ==
    /\ crashes < MaxCrashes
    /\ crashes' = crashes + 1
    /\ interrupted' = interrupted \union UNION {Spending(t) : t \in {s \in Threads : Host[s] = host}}
    /\ lock' = [lock EXCEPT ![host] = None]
    /\ pc' = [t \in Threads |-> IF Host[t] = host THEN "idle" ELSE pc[t]]
    /\ req' = [t \in Threads |-> IF Host[t] = host THEN Idle ELSE req[t]]
    /\ window' = [t \in Threads |-> IF Host[t] = host
                                   THEN [policies |-> {}, tables |-> {}] ELSE window[t]]
    /\ UNCHANGED <<cpVars, pullVars, storeVars, trustVars, expired, dispatched>>

\* The control plane changes under the running requests.
Govern ==
    /\ CPNext
    /\ window' = [t \in Threads |->
                    IF pc[t] \in Deciding
                    THEN [policies |-> window[t].policies \union ActiveDigests',
                          tables |-> window[t].tables \union {roles'}]
                    ELSE window[t]]
    /\ UNCHANGED <<pullVars, storeVars, trustVars, threadVars, clockVars, dispatched>>

\* GitHub decides a PUT, or other people change the pull request.
Provide ==
    /\ Others \/ \E p \in PermitIds : permits[p] # None /\ DecidePut(p, permits[p].evaluation.head)
    /\ UNCHANGED <<cpVars, storeVars, trustVars, threadVars, clockVars, historyVars>>

-----------------------------------------------------------------------------
Init ==
    /\ CPInit /\ PullInit
    /\ evaluations = {} /\ executions = {} /\ reconciliations = {} /\ audit = {}
    /\ permits = [p \in PermitIds |-> None]
    /\ claims = {}
    /\ checkpoint = GenesisCheckpoint(claims)
    /\ lock = [host \in Processes |-> None]
    /\ pc = [t \in Threads |-> "idle"]
    /\ req = [t \in Threads |-> Idle]
    /\ expired = {} /\ crashes = 0 /\ interrupted = {}
    /\ dispatched = [p \in PermitIds |-> 0]
    /\ window = [t \in Threads |-> [policies |-> {}, tables |-> {}]]

Step(t) == Evaluate(t) \/ Mint(t) \/ Execute(t) \/ Reconcile(t) \/ Audit(t) \/ Fail(t)

Next ==
    \/ \E t \in Threads : Step(t)
    \/ \E p \in PermitIds : Expire(p)
    \/ \E host \in Processes : Crash(host)
    \/ Govern
    \/ Provide

Spec == Init /\ [][Next]_vars

\* A handler that has begun goes on: the interpreter schedules its thread, and
\* the transport of the adapter gives up after its timeout.  Requests need not
\* come, locks are not fair, and neither GitHub nor governors owe a step.
Proceed(t) == pc[t] # "idle" /\ Step(t)
FairSpec == Spec /\ \A t \in Threads : WF_vars(Proceed(t))

-----------------------------------------------------------------------------
(* Properties *)

TypeOK ==
    /\ CPTypeOK /\ PullTypeOK
    /\ evaluations \subseteq Evaluations
    /\ permits \in [PermitIds -> Permits \union {None}]
    /\ executions \subseteq Executions
    /\ reconciliations \subseteq Reconciliations
    /\ audit \subseteq Events
    /\ claims \subseteq ClaimRows
    /\ checkpoint \in Checkpoints
    /\ lock \in [Processes -> Threads \union {None}]
    /\ pc \in [Threads -> Steps]
    /\ req \in [Threads -> Requests]
    /\ expired \subseteq PermitIds
    /\ crashes \in 0..MaxCrashes /\ interrupted \subseteq Followed
    /\ dispatched \in [PermitIds -> Nat]
    /\ window \in [Threads -> [policies : SUBSET Documents, tables : SUBSET RoleTables]]

\* THREAT_MODEL: "Consumed permit or nonce is replayed: deny atomically".  At
\* most one PUT is ever sent under a permit, and only after its claim committed,
\* whatever races, times out, crashes or is asked for again.
SingleUse ==
    \A p \in PermitIds : /\ dispatched[p] <= 1
                         /\ dispatched[p] > 0 => Claimed(p)

\* The claims the registry holds were each made from a replay state of their
\* own: no two permits bound to the same checkpoint are both spent, not even by
\* two processes (consume_permit's recheck under the write lock).
OneClaimPerReplayState ==
    \A c, d \in claims :
        permits[c.permit].trust.replay_root = permits[d.permit].trust.replay_root => c = d

\* Nothing is claimed on authority that was gone before the thread was admitted:
\* the permit's policy and identity roots were the tenant's at some time since
\* the lock was taken, and so was the right of the principal to execute
\* (_execute_github_merge reads all three inside the lock).
FreshAuthority ==
    \A t \in Threads : pc[t] = "claim" =>
        LET e == permits[req[t].permit].evaluation IN
        /\ e.policy \in window[t].policies
        /\ \E table \in window[t].tables : e.identity = IdentityRoot(table)
        /\ \E table \in window[t].tables : Can(table[req[t].user], "action:execute")

\* A success is recorded, by the executor or by a reconciler, only of a merge
\* that is in the pull request, at the head the permit approved and under the
\* recorded merge commit, no matter who pushed or merged meanwhile.
ReconciledIsTrue ==
    /\ \A e \in executions : e.preliminary_state = "RECONCILED" =>
          merge = [head |-> permits[e.permit].evaluation.head,
                   sha |-> e.receipt.remote_operation_id]
    /\ \A r \in reconciliations : r.state = "RECONCILED" =>
          merge = [head |-> permits[r.permit].evaluation.head, sha |-> r.sha]

\* The pilot implements the single-use authority: the permits spent are those
\* with a row in the registry, a permit is bound to the registry its checkpoint
\* commits, an action is a PUT, and what is said of a permit is its execution record:
\* there is one, and no PUT is sent after it was stored.
Spent == {row.permit : row \in claims}
BoundTo(permit) ==
    IF permit = None THEN None
    ELSE {row.permit : row \in permit.trust.replay_root.claims}
Records(p) == {e \in executions : e.permit = p}
Authority == INSTANCE SingleUseAuthority WITH
    Outcomes <- Executions,
    bound <- [p \in PermitIds |-> BoundTo(permits[p])],
    spent <- Spent,
    acts <- dispatched,
    said <- [p \in PermitIds |-> Records(p)]
ImplementsAuthority == Authority!Spec

\* One process: an execution record is stored only after the checkpoint that
\* commits its claim, and no later checkpoint drops the claim again.
RecordedClaimsCheckpointed ==
    \A e \in executions :
        \E row \in Roots(checkpoint).replay.claims : row.permit = e.permit

\* One process: a claim extends the registry the checkpoint file commits, under
\* a permit bound to that very checkpoint.  After an interrupted checkpoint
\* update nothing can be claimed (TRUST_ELIMINATION: "fails closed").
ClaimExtendsCheckpoint ==
    [][claims' # claims =>
         /\ VerifyTrustCheckpoint(checkpoint, claims)
         /\ \A row \in claims' \ claims :
               permits[row.permit].trust.checkpoint_root = RecordHash(checkpoint)]_vars

\* One process: the checkpoint file only ever moves to a direct successor of
\* what it held, whoever writes it, executions or reconciliations.
CheckpointAdvances ==
    [][checkpoint' # checkpoint =>
         checkpoint' = Append(checkpoint, Roots(checkpoint'))]_vars

\* The trust lock is left on every path out of a handler, exceptions included.
LockReleased ==
    \A t \in Threads : (lock[Host[t]] = t) ~> (lock[Host[t]] # t)

\* Where the adapter answers (~GetRaises), every claim ends in an execution record and
\* its audit event, whatever GitHub said, unless the handler was ended on the way by a
\* crash, or by a registry, a checkpoint file, an object store or a ledger that raised.
ClaimsGetRecorded ==
    \A p \in Followed :
        Claimed(p) ~> \/ /\ \E e \in executions : e.permit = p
                         /\ Event("execute", "CONSUMED", p) \in audit
                      \/ p \in interrupted

-----------------------------------------------------------------------------
(* What the documents say and the code does not do *)

\* THREAT_MODEL: "Network fails before, during, or after merge: preserve consumed
\* authority and reconcile".  Reconciliation starts from an execution record.
Reconcilable(p) ==
    \/ \E e \in executions : e.permit = p
    \/ \E t \in Threads : req[t].permit = p /\ pc[t] \in Acting \union {"record"}
ConsumedCanBeReconciled == \A row \in claims : Reconcilable(row.permit)

\* STATE_MACHINE: EXECUTION_FAILED means "the effect definitely did not occur".
FailedMeansNoEffect ==
    \A e \in executions :
        e.preliminary_state = "EXECUTION_FAILED" => merge = NoMerge \/ merge.sha # e.permit
=============================================================================
