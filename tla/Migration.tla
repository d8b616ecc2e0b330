------------------------------ MODULE Migration ------------------------------
(***************************************************************************)
(* proofrail/migration.py with SQLiteMigrationAdapter of integrations/     *)
(* openclaw/database_adapter.py: single-use authority for one database     *)
(* migration.                                                              *)
(*                                                                         *)
(* Callers run execute_database_migration concurrently, over one registry  *)
(* and one database, with no lock between them.  Each step of a caller is  *)
(* one access to the database file, the registry or the database.  The     *)
(* caller passes the trust checkpoint it holds; the library never writes   *)
(* one, so moving it on is the operator's step.                            *)
(*                                                                         *)
(* Identity, evidence, policy and state roots and the approval digest are  *)
(* what the caller says they are and compared with the permit: they are    *)
(* left out.  The migration source is compared too, and kept.              *)
(***************************************************************************)
EXTENDS SchemaDatabase, TrustCheckpoint

CONSTANTS Callers, PermitIds, Nonces,
          None,          \* no value
          Trusted,       \* the choices of "trust" at minting, a subset of BOOLEAN
          Busy,          \* BOOLEAN: others may keep database and registry locked
          MaxEpoch,      \* bound: the operator writes no checkpoint past it
          MaxExpired,    \* bound: permits whose deadline passes
          MaxCrashes,    \* bound: callers that die
          MaxFailures    \* bound: registry reads after a claim that raise

ASSUME MigrationAssumption ==
    /\ Trusted \subseteq BOOLEAN /\ Busy \in BOOLEAN
    /\ MaxEpoch \in Nat /\ MaxExpired \in Nat
    /\ MaxCrashes \in Nat /\ MaxFailures \in Nat
    /\ None \notin PermitIds \union Sources \union Shapes \union Instances

VARIABLES permits, claims, checkpoint,
          pc, req,             \* the callers
          results,             \* what each spent permit's call returned
          expired, crashes, failures,
          \* history: scripts run under a permit and where; what the path led to
          \* since a call began, and since a permit was claimed
          runs, window, held

callVars == <<pc, req>>
authorityVars == <<permits, claims, checkpoint>>
clockVars == <<expired, crashes, failures>>
historyVars == <<runs, window, held>>
vars == <<dbVars, authorityVars, callVars, results, clockVars, historyVars>>

-----------------------------------------------------------------------------
(* Data *)

Claim == [permit : PermitIds, nonce : Nonces]
TrustRecords == [replay_root : [claims : SUBSET Claim], checkpoint_root : Seq([replay :
                 [claims : SUBSET Claim], observation : {EmptyRoot}]) \ {<<>>},
                 observation_root : {EmptyRoot}, minimum_checkpoint_epoch : Nat,
                 monotonic_counter : Nat]
Permits == [database_instance : Instances, expected_schema : Schemas,
            expected_result : Schemas, source : Sources, target_version : Versions,
            nonce : Nonces, trust : TrustRecords \union {None}]

Statuses == {"success", "failed", "unknown"}
States == {"RECONCILED", "EXECUTION_FAILED", "RECONCILIATION_FAILED"}
Results == [state : States, status : Statuses]
Runs == [source : Sources, changed : BOOLEAN]

ASSUME RecordsAssumption == None \notin Permits \union TrustRecords \union Results

Idle == [permit |-> None, source |-> None, checkpoint |-> None, instance |-> None,
         shape |-> None, status |-> None]
Before == {"identify", "read", "version", "claim"}
Acting == {"inspect", "migrate", "reidentify", "reread", "reversion"}

\* What somebody who looked at the path in a period could have seen of it.
Nothing == [files |-> {}, shapes |-> {}, versions |-> {}]
Sight == IF file = Unusable THEN Nothing
         ELSE [files |-> {file}, shapes |-> {schemas[file].shape},
               versions |-> {schemas[file].version}]
Both(a, b) == [files |-> a.files \union b.files, shapes |-> a.shapes \union b.shapes,
               versions |-> a.versions \union b.versions]

Claimed(p) == \E row \in claims : row.permit = p

-----------------------------------------------------------------------------
(* Steps of a caller *)

Goto(c, from, to) == pc[c] = from /\ pc' = [pc EXCEPT ![c] = to]

\* The call leaves, with an exception or with a result.
Leave(c) ==
    /\ pc' = [pc EXCEPT ![c] = "idle"]
    /\ req' = [req EXCEPT ![c] = Idle]
    /\ window' = [window EXCEPT ![c] = Nothing]
End(c) == Leave(c) /\ UNCHANGED held
Return(c, state, status) ==
    /\ results' = [results EXCEPT ![req[c].permit] = [state |-> state, status |-> status]]
    /\ End(c)

\* _ambiguous_result: an exception after the claim.
AmbiguousResult(c) == Return(c, "RECONCILIATION_FAILED", "unknown")

\* _file_identity and _require_instance: the path leads to the permit's instance.
RequireInstance(p) == file = permits[p].database_instance

\* mint_database_migration_permit after an observation of the database; the
\* expected result is found by running the script on a copy.
Mint(p, source, nonce, trusted) ==
    /\ permits[p] = None /\ file # Unusable
    /\ \E target \in Versions :
           permits' = [permits EXCEPT ![p] =
               [database_instance |-> file, expected_schema |-> schemas[file],
                expected_result |-> After(source, schemas[file], target),
                source |-> source, target_version |-> target, nonce |-> nonce,
                trust |-> IF trusted THEN TrustConstraints(checkpoint) ELSE None]]
    /\ UNCHANGED <<dbVars, claims, checkpoint, callVars, results, clockVars, historyVars>>

\* execute_database_migration up to the first observation.
Begin(c, p, source) ==
    /\ permits[p] # None
    /\ Goto(c, "idle", "identify")
    /\ req' = [req EXCEPT ![c] = [Idle EXCEPT !.permit = p, !.source = source,
                                              !.checkpoint = checkpoint]]
    /\ window' = [window EXCEPT ![c] = Sight]
    /\ UNCHANGED <<dbVars, authorityVars, results, clockVars, runs, held>>

\* observe, up to _require_instance.
Identify(c) ==
    /\ pc[c] = "identify"
    /\ \/ /\ RequireInstance(req[c].permit)
          /\ Goto(c, "identify", "read")
          /\ UNCHANGED <<req, window, held>>
       \/ ~RequireInstance(req[c].permit) /\ End(c)
    /\ UNCHANGED <<dbVars, authorityVars, results, clockVars, runs>>

\* _connect_checked compares the path with itself, not with the permit; then the
\* rows of sqlite_master.  It raises on an unusable path and on a lock.
OpenAndRead(c, from, to) ==
    /\ file # Unusable
    /\ Goto(c, from, to)
    /\ req' = [req EXCEPT ![c].instance = file, ![c].shape = schemas[file].shape]
    /\ UNCHANGED <<results, window, held>>
ReadRaises == file = Unusable \/ Busy

Read(c) ==
    /\ pc[c] = "read"
    /\ OpenAndRead(c, "read", "version") \/ (ReadRaises /\ End(c) /\ UNCHANGED results)
    /\ UNCHANGED <<dbVars, authorityVars, clockVars, runs>>

\* _trust_values and the trust comparisons of verify_database_migration_permit.
TrustValid(p, current) ==
    permits[p].trust # None =>
        /\ VerifyTrustCheckpoint(current, claims)
        /\ ~Claimed(p)
        /\ TrustHolds(permits[p].trust, current)

\* Slip: the observed schema is not compared.
PermitHoldsUnobserved(p, source, schema, current) ==
    /\ p \notin expired
    /\ permits[p].source = source
    /\ TrustValid(p, current)

\* verify_database_migration_permit.
PermitHolds(p, source, schema, current) ==
    /\ p \notin expired
    /\ permits[p].expected_schema = schema
    /\ permits[p].source = source
    /\ TrustValid(p, current)

\* The version is read by a statement of its own, from the file that was opened.
Observed(c) == [shape |-> req[c].shape, version |-> schemas[req[c].instance].version]

Verify(c) ==
    /\ pc[c] = "version"
    /\ \/ /\ PermitHolds(req[c].permit, req[c].source, Observed(c), req[c].checkpoint)
          /\ Goto(c, "version", "claim")
          /\ UNCHANGED <<req, window, held>>
       \/ /\ Busy \/ ~PermitHolds(req[c].permit, req[c].source, Observed(c),
                                  req[c].checkpoint)
          /\ End(c)
    /\ UNCHANGED <<dbVars, authorityVars, results, clockVars, runs>>

\* Slip: a second row for a permit does not violate the primary key.
ClaimableAgain(p) == TRUE

\* permit_hash is the primary key of permit_claims, nonce is unique.
Claimable(p) ==
    \A row \in claims : row.permit # p /\ row.nonce # permits[p].nonce

\* Slip: a call that is refused the claim gives the permit a result.
ClaimPermitReported(c) ==
    /\ pc[c] = "claim"
    /\ LET p == req[c].permit
       IN \/ /\ Claimable(p)
             /\ claims' = claims \union {[permit |-> p, nonce |-> permits[p].nonce]}
             /\ held' = [held EXCEPT ![p] = Sight]
             /\ Goto(c, "claim", "inspect")
             /\ UNCHANGED <<req, window, results>>
          \/ ~Claimable(p) /\ AmbiguousResult(c) /\ UNCHANGED claims
    /\ UNCHANGED <<dbVars, permits, checkpoint, clockVars, runs>>

\* replay_registry_root, after the claim is committed: no try block is around it, so
\* that the call ends without a result.
RootRaises == failures < MaxFailures /\ failures' = failures + 1

\* _claim_permit: one transaction, without another look at checkpoint or schema,
\* and a read of the registry after it.
ClaimPermit(c) ==
    /\ pc[c] = "claim"
    /\ LET p == req[c].permit
       IN \/ /\ Claimable(p)
             /\ claims' = claims \union {[permit |-> p, nonce |-> permits[p].nonce]}
             /\ held' = [held EXCEPT ![p] = Sight]
             /\ \/ Goto(c, "claim", "inspect") /\ UNCHANGED <<req, window, failures>>
                \/ RootRaises /\ Leave(c)
          \/ (Busy \/ ~Claimable(p)) /\ End(c) /\ UNCHANGED <<claims, failures>>
    /\ UNCHANGED <<dbVars, permits, checkpoint, results, expired, crashes, runs>>

\* Slip: the exception of execute is not caught.
InspectUncaught(c) ==
    /\ pc[c] = "inspect"
    /\ \/ /\ RequireInstance(req[c].permit)
          /\ Goto(c, "inspect", "migrate")
          /\ UNCHANGED <<results, req, window, held>>
       \/ ~RequireInstance(req[c].permit) /\ End(c) /\ UNCHANGED results
    /\ UNCHANGED <<dbVars, authorityVars, clockVars, runs>>

\* execute, up to _require_instance.
Inspect(c) ==
    /\ pc[c] = "inspect"
    /\ \/ /\ RequireInstance(req[c].permit)
          /\ Goto(c, "inspect", "migrate")
          /\ UNCHANGED <<results, req, window, held>>
       \/ ~RequireInstance(req[c].permit) /\ AmbiguousResult(c)
    /\ UNCHANGED <<dbVars, authorityVars, clockVars, runs>>

\* Whoever is at work, or holds a claim, may have seen what the path leads to now.
Look ==
    /\ window' = [c \in Callers |-> IF pc[c] = "idle" THEN Nothing
                                    ELSE Both(window[c], Sight')]
    /\ held' = [p \in PermitIds |-> IF Claimed(p) THEN Both(held[p], Sight') ELSE Nothing]

\* The script in its transaction, on whatever file the path leads to by now.
RunScript(c, p) ==
    /\ file # Unusable
    /\ schemas' = [schemas EXCEPT ![file] = After(req[c].source, @, permits[p].target_version)]
    /\ req' = [req EXCEPT ![c].status =
                  IF Effect[req[c].source][schemas[file].shape].ok THEN "success" ELSE "failed"]
    /\ runs' = [runs EXCEPT ![p] = Append(@,
                  [source |-> req[c].source, changed |-> schemas' # schemas])]
    /\ Goto(c, "migrate", "reidentify")
    /\ UNCHANGED <<file, writes, replacements, results>>
    /\ Look

\* BEGIN IMMEDIATE does not get the lock: a DatabaseError, so the receipt says failed.
ScriptLocked(c) ==
    /\ Busy /\ file # Unusable
    /\ req' = [req EXCEPT ![c].status = "failed"]
    /\ Goto(c, "migrate", "reidentify")
    /\ UNCHANGED <<dbVars, results, runs, window, held>>

\* execute from _connect_checked on.
Migrate(c) ==
    /\ pc[c] = "migrate"
    /\ \/ RunScript(c, req[c].permit)
       \/ ScriptLocked(c)
       \/ file = Unusable /\ AmbiguousResult(c) /\ UNCHANGED <<dbVars, runs>>
    /\ UNCHANGED <<authorityVars, clockVars>>

\* The observation after the script, with the steps of the one before.
Reidentify(c) ==
    /\ pc[c] = "reidentify"
    /\ \/ /\ RequireInstance(req[c].permit)
          /\ Goto(c, "reidentify", "reread")
          /\ UNCHANGED <<results, req, window, held>>
       \/ ~RequireInstance(req[c].permit) /\ AmbiguousResult(c)
    /\ UNCHANGED <<dbVars, authorityVars, clockVars, runs>>

Reread(c) ==
    /\ pc[c] = "reread"
    /\ OpenAndRead(c, "reread", "reversion") \/ (ReadRaises /\ AmbiguousResult(c))
    /\ UNCHANGED <<dbVars, authorityVars, clockVars, runs>>

\* Slip: of the observation only the version is compared.
AuthorityStateVersion(p, observed, status) ==
    IF observed.version = permits[p].target_version THEN "RECONCILED"
    ELSE IF status = "failed" THEN "EXECUTION_FAILED"
    ELSE "RECONCILIATION_FAILED"

\* Slip: whatever was not reconciled is a failure.
AuthorityStateFailed(p, observed, status) ==
    IF observed = permits[p].expected_result /\ observed.version = permits[p].target_version
    THEN "RECONCILED" ELSE "EXECUTION_FAILED"

\* Slip: the receipt's status is kept as the state.
AuthorityStateRaw(p, observed, status) ==
    IF observed = permits[p].expected_result /\ observed.version = permits[p].target_version
    THEN "RECONCILED" ELSE status

\* What was observed decides first, then the executor's receipt.
AuthorityState(p, observed, status) ==
    IF observed = permits[p].expected_result /\ observed.version = permits[p].target_version
    THEN "RECONCILED"
    ELSE IF status = "failed" THEN "EXECUTION_FAILED"
    ELSE "RECONCILIATION_FAILED"

Conclude(c) ==
    /\ pc[c] = "reversion"
    /\ \/ Return(c, AuthorityState(req[c].permit, Observed(c), req[c].status), req[c].status)
       \/ Busy /\ AmbiguousResult(c)
    /\ UNCHANGED <<dbVars, authorityVars, clockVars, runs>>

Crash(c) ==
    /\ crashes < MaxCrashes /\ pc[c] # "idle"
    /\ crashes' = crashes + 1
    /\ End(c)
    /\ UNCHANGED <<dbVars, authorityVars, results, expired, failures, runs>>

-----------------------------------------------------------------------------
(* Everybody else *)

\* The operator derives the next checkpoint from the registry.
AdvanceCheckpoint ==
    /\ Epoch(checkpoint) < MaxEpoch
    /\ checkpoint' = NextTrustCheckpoint(checkpoint, claims, EmptyRoot)
    /\ UNCHANGED <<dbVars, permits, claims, callVars, results, clockVars, historyVars>>

Expire(p) ==
    /\ permits[p] # None /\ p \notin expired /\ Cardinality(expired) < MaxExpired
    /\ expired' = expired \union {p}
    /\ UNCHANGED <<dbVars, authorityVars, callVars, results, crashes, failures, historyVars>>

Others ==
    /\ DBNext
    /\ Look
    /\ UNCHANGED <<authorityVars, callVars, results, clockVars, runs>>

-----------------------------------------------------------------------------

Init ==
    /\ DBInit
    /\ permits = [p \in PermitIds |-> None]
    /\ claims = {} /\ checkpoint = GenesisCheckpoint({})
    /\ pc = [c \in Callers |-> "idle"] /\ req = [c \in Callers |-> Idle]
    /\ results = [p \in PermitIds |-> None]
    /\ expired = {} /\ crashes = 0 /\ failures = 0
    /\ runs = [p \in PermitIds |-> <<>>]
    /\ window = [c \in Callers |-> Nothing] /\ held = [p \in PermitIds |-> Nothing]

\* A call that was begun.
Call(c) == \/ Identify(c) \/ Read(c) \/ Verify(c) \/ ClaimPermit(c) \/ Inspect(c)
           \/ Migrate(c) \/ Reidentify(c) \/ Reread(c) \/ Conclude(c)

Next ==
    \/ \E p \in PermitIds, source \in Sources, nonce \in Nonces, trusted \in Trusted :
           Mint(p, source, nonce, trusted)
    \/ \E c \in Callers, p \in PermitIds, source \in Sources : Begin(c, p, source)
    \/ \E c \in Callers : Call(c)
    \/ \E c \in Callers : Crash(c)
    \/ AdvanceCheckpoint
    \/ \E p \in PermitIds : Expire(p)
    \/ Others

Spec == Init /\ [][Next]_vars

-----------------------------------------------------------------------------
(* Properties *)

\* Calls, permits and results keep to their shape, and a locally held one to the
\* step that reads it.
TypeOK ==
    /\ DBTypeOK
    /\ permits \in [PermitIds -> Permits \union {None}]
    /\ claims \subseteq Claim
    /\ pc \in [Callers -> {"idle"} \union Before \union Acting]
    /\ \A c \in Callers : req[c] = Idle <=> pc[c] = "idle"
    /\ results \in [PermitIds -> Results \union {None}]
    /\ \A p \in PermitIds : runs[p] \in Seq(Runs) /\ (results[p] # None => Claimed(p))
    /\ expired \subseteq PermitIds
    /\ crashes \in 0..MaxCrashes /\ failures \in 0..MaxFailures

\* However many callers try, a permit's script runs at most once, only after the
\* permit was claimed, and it is the script the permit names.
MigratesOnce ==
    \A p \in PermitIds :
        /\ Len(runs[p]) <= 1
        /\ \A k \in DOMAIN runs[p] : Claimed(p) /\ runs[p][k].source = permits[p].source

\* The migration consumes first: a permit is consumed by its row in the registry,
\* the effect is the run of its script, and its result is given once, by the call
\* that claimed it; no script runs after the result of its permit was given.
Consumption == INSTANCE ConsumedFirst WITH
    Keys <- PermitIds,
    Outcomes <- Results,
    consumed <- {p \in PermitIds : Claimed(p)},
    effects <- [p \in PermitIds |-> Len(runs[p])],
    outcomes <- results
ConsumesFirst == Consumption!Spec

\* A permit is claimed only if what it names, the file, the contents and the
\* version, was there to be seen since the claiming call began: an old
\* observation, or another permit's, is never what the claim rests on.
ClaimsRestOnObservation ==
    [][\A p \in PermitIds : Claimed(p)' /\ ~Claimed(p) =>
        \E c \in Callers :
            /\ req[c].permit = p
            /\ permits[p].database_instance \in window[c].files
            /\ permits[p].expected_schema.shape \in window[c].shapes
            /\ permits[p].expected_schema.version \in window[c].versions]_vars

\* A call ends RECONCILED only if the permitted contents and version were in the
\* database after the claim, whatever the executor's receipt says and whatever
\* others did to the database.
ReconciledWasHeld ==
    \A p \in PermitIds :
        results[p] # None /\ results[p].state = "RECONCILED" =>
            /\ permits[p].expected_result.shape \in held[p].shapes
            /\ permits[p].target_version \in held[p].versions

\* A call that ended EXECUTION_FAILED left nothing in any database, provided the
\* script leaves its transaction to the adapter.
FailedLeavesNothing ==
    \A p \in PermitIds :
        /\ results[p] # None /\ results[p].state = "EXECUTION_FAILED"
        /\ Atomic(permits[p].source)
        => \A k \in DOMAIN runs[p] : ~runs[p][k].changed

\* Every claim has its result or a call that is about to give it one, whatever the
\* adapter raises, unless that call died or could not read the registry after its
\* claim: one claim is lost for each of these, no more.
ClaimsAreAttended ==
    LET attended == {req[c].permit : c \in {d \in Callers : pc[d] \in Acting}}
        lost == {p \in PermitIds : Claimed(p) /\ results[p] = None /\ p \notin attended}
    IN Cardinality(lost) <= crashes + failures

\* No two permits that are bound to a trust checkpoint are claimed from one
\* registry state.
OneClaimPerReplayState ==
    \A a, b \in claims :
        /\ permits[a.permit].trust # None /\ permits[b.permit].trust # None
        /\ permits[a.permit].trust = permits[b.permit].trust
        => a = b
=============================================================================
