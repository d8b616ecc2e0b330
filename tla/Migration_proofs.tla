--------------------------- MODULE Migration_proofs ---------------------------
(***************************************************************************)
(* What Migration satisfies for any callers, permits, files and scripts.   *)
(*                                                                         *)
(* Inductive invariants, each with a step lemma named after it:            *)
(*    TypeInv     types of the records, and of each call's locals          *)
(*    UseInv      after the claim a call alone owns its permit             *)
(*    FailedInv   a call whose script failed left nothing, if it is atomic *)
(*    SightInv    what a call has read is in what was to be seen           *)
(*    AttendInv   a claim that nobody attends to costs a crash             *)
(*    ReplayInv   of one caller: a trusted claim was made on all before it *)
(*    PastInv     a checkpoint commits only claims that were made          *)
(***************************************************************************)
EXTENDS Migration, FiniteSetTheorems, TLAPS

-----------------------------------------------------------------------------
(* Types *)

Links == [replay : [claims : SUBSET Claim], observation : {EmptyRoot}]
Checkpoints == Seq(Links) \ {<<>>}
Requests == [permit : PermitIds \union {None}, source : Sources \union {None},
             checkpoint : Checkpoints \union {None}, instance : Instances \union {None},
             shape : Shapes \union {None}, status : Statuses \union {None}]
Sights == [files : SUBSET Instances, shapes : SUBSET Shapes, versions : SUBSET Versions]
Steps == {"idle"} \union Before \union Acting

\* What is stored, and what belongs to the callers.
StoreOK ==
    /\ DBTypeOK
    /\ permits \in [PermitIds -> Permits \union {None}]
    /\ claims \subseteq Claim
    /\ \A row \in claims : permits[row.permit] # None
    /\ checkpoint \in Checkpoints
    /\ results \in [PermitIds -> Results \union {None}]
    /\ \A p \in PermitIds : results[p] # None => Claimed(p)
    /\ runs \in [PermitIds -> Seq(Runs)]
    /\ held \in [PermitIds -> Sights]
    /\ expired \subseteq PermitIds
    /\ crashes \in 0..MaxCrashes /\ failures \in 0..MaxFailures
ThreadOK ==
    /\ pc \in [Callers -> Steps]
    /\ req \in [Callers -> Requests]
    /\ window \in [Callers -> Sights]

\* What a call has in its locals at each of its steps; after the claim its permit is
\* claimed.
LocalOK(c) ==
    /\ pc[c] = "idle" => req[c] = Idle
    /\ pc[c] # "idle" =>
          /\ req[c].permit \in PermitIds /\ permits[req[c].permit] # None
          /\ req[c].source \in Sources /\ req[c].checkpoint \in Checkpoints
    /\ pc[c] \in {"version", "reversion"} =>
          req[c].instance \in Instances /\ req[c].shape \in Shapes
    /\ pc[c] \in {"reidentify", "reread", "reversion"} => req[c].status \in Statuses
    /\ pc[c] \in Acting => Claimed(req[c].permit)

TypeInv == StoreOK /\ ThreadOK /\ \A c \in Callers : LocalOK(c)

LEMMA IdleTypes == Idle \in Requests /\ Idle.permit = None
  BY DEF Idle, Requests

LEMMA NothingTypes == Nothing \in Sights
  BY DEF Nothing, Sights

LEMMA SightTypes == DBTypeOK => Sight \in Sights
  BY DEF DBTypeOK, Sight, Nothing, Sights, Schemas

LEMMA BothTypes ==
    ASSUME NEW a \in Sights, NEW b \in Sights
    PROVE  /\ Both(a, b) \in Sights
           /\ Both(a, b).files = a.files \union b.files
           /\ Both(a, b).shapes = a.shapes \union b.shapes
           /\ Both(a, b).versions = a.versions \union b.versions
  BY DEF Both, Sights

\* A script leaves a schema.
LEMMA AfterTypes ==
    ASSUME NEW source \in Sources, NEW schema \in Schemas, NEW target \in Versions
    PROVE  After(source, schema, target) \in Schemas
  BY DatabaseAssumption DEF After, Schemas

LEMMA CheckpointTypes ==
    ASSUME NEW k \in Checkpoints, NEW rows \in SUBSET Claim
    PROVE  /\ NextTrustCheckpoint(k, rows, EmptyRoot) \in Checkpoints
           /\ TrustConstraints(k) \in TrustRecords
<1>1. k \in Seq(Links) /\ Len(k) \in Nat /\ Len(k) # 0
  BY DEF Checkpoints
<1>2. Roots(k) \in Links
  BY <1>1 DEF Roots
<1>3. [replay |-> ReplayRegistryRoot(rows), observation |-> EmptyRoot] \in Links
  BY DEF ReplayRegistryRoot, Links
<1>4. Append(k, [replay |-> ReplayRegistryRoot(rows), observation |-> EmptyRoot])
         \in Seq(Links) \ {<<>>}
  BY <1>1, <1>3
<1>5. k \in Seq([replay : [claims : SUBSET Claim], observation : {EmptyRoot}]) \ {<<>>}
  BY DEF Checkpoints, Links
<1> QED
  BY <1>1, <1>2, <1>4, <1>5 DEF NextTrustCheckpoint, Checkpoints, TrustConstraints,
     TrustRecords, Links, RecordHash, Epoch, MonotonicCounter

LEMMA LeaveTypes ==
    ASSUME ThreadOK, NEW c \in Callers, Leave(c)
    PROVE  /\ ThreadOK' /\ LocalOK(c)' /\ pc'[c] = "idle" /\ req'[c] = Idle
           /\ window'[c] = Nothing
           /\ \A d \in Callers \ {c} :
                 pc'[d] = pc[d] /\ req'[d] = req[d] /\ window'[d] = window[d]
<1>1. /\ pc' \in [Callers -> Steps] /\ pc'[c] = "idle"
      /\ req' \in [Callers -> Requests] /\ req'[c] = Idle
      /\ window' \in [Callers -> Sights] /\ window'[c] = Nothing
  BY IdleTypes, NothingTypes DEF Leave, ThreadOK, Steps
<1> QED BY <1>1 DEF Leave, ThreadOK, LocalOK, Acting

LEMMA EndTypes ==
    ASSUME ThreadOK, NEW c \in Callers, End(c)
    PROVE  /\ ThreadOK' /\ LocalOK(c)' /\ pc'[c] = "idle" /\ req'[c] = Idle
           /\ window'[c] = Nothing /\ held' = held
           /\ \A d \in Callers \ {c} :
                 pc'[d] = pc[d] /\ req'[d] = req[d] /\ window'[d] = window[d]
  BY LeaveTypes DEF End

LEMMA TypeInit == Init => TypeInv
<1> SUFFICES ASSUME Init PROVE TypeInv
  OBVIOUS
<1>1. DBTypeOK
  BY DatabaseAssumption DEF Init, DBInit, DBTypeOK, Schemas, Versions
<1>2. checkpoint \in Checkpoints
  BY DEF Init, GenesisCheckpoint, ReplayRegistryRoot, Checkpoints, Links
<1>3. StoreOK
  BY <1>1, <1>2, NothingTypes, MigrationAssumption DEF Init, StoreOK
<1>4. ThreadOK
  BY IdleTypes, NothingTypes DEF Init, ThreadOK, Steps
<1>5. \A c \in Callers : LocalOK(c)
  BY DEF Init, LocalOK, Acting
<1> QED BY <1>3, <1>4, <1>5 DEF TypeInv

\* A step of a call leaves the other calls' locals alone, and what its own rest on.
Frame(c) ==
    /\ permits' = permits /\ claims \subseteq claims' /\ checkpoint' = checkpoint
    /\ \A d \in Callers \ {c} : pc'[d] = pc[d] /\ req'[d] = req[d]

\* A step that changes none of the locals.
LEMMA MoveTypes ==
    ASSUME ThreadOK, NEW c \in Callers, LocalOK(c), NEW from \in Steps \ {"idle"}, NEW to,
           Goto(c, from, to), UNCHANGED <<req, window, permits, checkpoint>>,
           claims \subseteq claims',
           to \in {"read", "claim", "inspect", "migrate"} \/ (from = "reidentify" /\ to = "reread"),
           to \in Acting => Claimed(req[c].permit)'
    PROVE  ThreadOK' /\ LocalOK(c)' /\ Frame(c)
<1>1. pc[c] = from /\ pc' = [pc EXCEPT ![c] = to] /\ pc \in [Callers -> Steps]
  BY DEF Goto, ThreadOK
<1>2. pc' \in [Callers -> Steps] /\ pc'[c] = to
  BY <1>1 DEF Steps, Before, Acting
<1>3. ThreadOK'
  BY <1>2 DEF ThreadOK
<1>4. LocalOK(c)'
  BY <1>1, <1>2 DEF LocalOK, Steps
<1>5. Frame(c)
  BY <1>1 DEF Frame
<1> QED BY <1>3, <1>4, <1>5

\* Steps that only move on, or end the call before its claim.
LEMMA EarlyTypes ==
    ASSUME TypeInv, NEW c \in Callers, Identify(c) \/ Read(c) \/ Verify(c)
    PROVE  StoreOK' /\ ThreadOK' /\ LocalOK(c)' /\ Frame(c)
<1>0. StoreOK /\ ThreadOK /\ LocalOK(c) /\ pc \in [Callers -> Steps] /\ req[c] \in Requests
  BY DEF TypeInv, ThreadOK
<1>1. StoreOK'
  <2>1. /\ UNCHANGED <<dbVars, permits, claims, checkpoint, results, runs, clockVars>>
        /\ held' = held
    BY DEF Identify, Read, Verify, End, Leave, OpenAndRead, authorityVars
  <2> QED BY <1>0, <2>1 DEF StoreOK, DBTypeOK, dbVars, clockVars, Claimed
<1>2. ASSUME End(c) PROVE ThreadOK' /\ LocalOK(c)' /\ Frame(c)
  <2>1. UNCHANGED authorityVars
    BY DEF Identify, Read, Verify
  <2> QED BY <1>0, <1>2, <2>1, EndTypes DEF Frame, authorityVars
<1>3. CASE Goto(c, "identify", "read") /\ UNCHANGED <<req, window, authorityVars>>
  <2>1. UNCHANGED <<req, window, permits, checkpoint>> /\ claims' = claims
    BY <1>3 DEF authorityVars
  <2>2. "identify" \in Steps \ {"idle"} /\ "read" \notin Acting
    BY DEF Steps, Before, Acting
  <2> QED BY <1>0, <1>1, <1>3, <2>1, <2>2, MoveTypes
<1>4. CASE OpenAndRead(c, "read", "version") /\ UNCHANGED authorityVars
  <2>1. file \in Instances /\ schemas[file].shape \in Shapes
    BY <1>0, <1>4 DEF OpenAndRead, StoreOK, DBTypeOK, Schemas
  <2>2. /\ req' \in [Callers -> Requests]
        /\ req'[c] = [req[c] EXCEPT !.instance = file, !.shape = schemas[file].shape]
    BY <1>0, <1>4, <2>1 DEF OpenAndRead, ThreadOK, Requests
  <2>3. pc[c] = "read" /\ pc' \in [Callers -> Steps] /\ pc'[c] = "version"
    BY <1>0, <1>4 DEF OpenAndRead, Goto, ThreadOK, Steps, Before
  <2>4. ThreadOK'
    BY <1>0, <1>4, <2>2, <2>3 DEF OpenAndRead, ThreadOK
  <2>5. /\ req'[c].permit = req[c].permit /\ req'[c].source = req[c].source
        /\ req'[c].checkpoint = req[c].checkpoint
        /\ req'[c].instance \in Instances /\ req'[c].shape \in Shapes
    BY <1>0, <2>1, <2>2 DEF Requests
  <2>7. permits' = permits
    BY <1>4 DEF authorityVars
  <2>8. LocalOK(c)'
    BY <1>0, <2>3, <2>5, <2>7 DEF LocalOK, Acting
  <2>6. Frame(c)
    BY <1>0, <1>4, <2>2 DEF OpenAndRead, Goto, ThreadOK, Frame, authorityVars
  <2> QED BY <1>1, <2>4, <2>6, <2>8
<1>5. CASE Goto(c, "version", "claim") /\ UNCHANGED <<req, window, authorityVars>>
  <2>1. UNCHANGED <<req, window, permits, checkpoint>> /\ claims' = claims
    BY <1>5 DEF authorityVars
  <2>2. "version" \in Steps \ {"idle"} /\ "claim" \notin Acting
    BY DEF Steps, Before, Acting
  <2> QED BY <1>0, <1>1, <1>5, <2>1, <2>2, MoveTypes
<1> QED BY <1>1, <1>2, <1>3, <1>4, <1>5 DEF Identify, Read, Verify

\* A call makes its claim and goes on, or makes it and cannot read the registry, or
\* makes none.
MakesClaim(c) ==
    LET p == req[c].permit
    IN /\ Claimable(p)
       /\ claims' = claims \union {[permit |-> p, nonce |-> permits[p].nonce]}
       /\ held' = [held EXCEPT ![p] = Sight]

LEMMA ClaimCases ==
    ASSUME NEW c \in Callers, ClaimPermit(c)
    PROVE  /\ pc[c] = "claim"
           /\ UNCHANGED <<dbVars, permits, checkpoint, results, expired, crashes, runs>>
           /\ \/ /\ MakesClaim(c) /\ Goto(c, "claim", "inspect")
                 /\ UNCHANGED <<req, window, failures>>
              \/ MakesClaim(c) /\ RootRaises /\ Leave(c)
              \/ End(c) /\ UNCHANGED <<claims, failures>>
  BY DEF ClaimPermit, MakesClaim

LEMMA ClaimTypes ==
    ASSUME TypeInv, NEW c \in Callers, ClaimPermit(c)
    PROVE  StoreOK' /\ ThreadOK' /\ LocalOK(c)' /\ Frame(c)
<1> DEFINE p == req[c].permit
           mine == [permit |-> p, nonce |-> permits[p].nonce]
<1>0. /\ StoreOK /\ ThreadOK /\ LocalOK(c) /\ pc[c] = "claim"
      /\ p \in PermitIds /\ permits[p] \in Permits
  BY DEF TypeInv, StoreOK, ThreadOK, LocalOK, ClaimPermit
<1>1. CASE End(c) /\ UNCHANGED <<claims, failures>>
  <2>1. UNCHANGED <<dbVars, permits, claims, checkpoint, results, runs, clockVars, held>>
    BY <1>1, ClaimCases DEF End, clockVars
  <2> QED BY <1>0, <1>1, <2>1, EndTypes
          DEF Frame, StoreOK, DBTypeOK, dbVars, clockVars, Claimed
<1>2. CASE /\ MakesClaim(c)
           /\ \/ Goto(c, "claim", "inspect") /\ UNCHANGED <<req, window, failures>>
              \/ RootRaises /\ Leave(c)
  <2>0. claims' = claims \union {mine} /\ held' = [held EXCEPT ![p] = Sight]
    BY <1>2 DEF MakesClaim
  <2>1. mine \in Claim
    BY <1>0 DEF Claim, Permits
  <2>2. claims' \subseteq Claim /\ \A r \in claims' : permits[r.permit] # None
    BY <1>0, <2>0, <2>1, RecordsAssumption DEF StoreOK
  <2>3. held' \in [PermitIds -> Sights]
    BY <1>0, <2>0, SightTypes DEF StoreOK
  <2>4. /\ UNCHANGED <<dbVars, permits, checkpoint, results, expired, crashes, runs>>
        /\ failures' \in 0..MaxFailures
    BY <1>0, <1>2, ClaimCases, MigrationAssumption DEF RootRaises, StoreOK
  <2>5. \A q \in PermitIds : Claimed(q) => Claimed(q)'
    BY <2>0 DEF Claimed
  <2>6. StoreOK'
    BY <1>0, <2>2, <2>3, <2>4, <2>5 DEF StoreOK, DBTypeOK, dbVars
  <2>7. CASE Goto(c, "claim", "inspect") /\ UNCHANGED <<req, window, failures>>
    <3>1. mine \in claims' /\ mine.permit = p /\ req' = req
      BY <2>0, <2>7
    <3>2. Claimed(p)'
      BY <3>1 DEF Claimed
    <3>3. "claim" \in Steps \ {"idle"}
      BY DEF Steps, Before
    <3>4. ThreadOK' /\ LocalOK(c)' /\ Frame(c)
      BY <1>0, <2>0, <2>4, <2>7, <3>2, <3>3, MoveTypes
    <3> QED BY <2>6, <3>4
  <2>8. CASE Leave(c)
    <3>1. /\ ThreadOK' /\ LocalOK(c)'
          /\ \A d \in Callers \ {c} :
                pc'[d] = pc[d] /\ req'[d] = req[d] /\ window'[d] = window[d]
      BY <1>0, <2>8, LeaveTypes
    <3> QED BY <2>0, <2>4, <2>5, <2>6, <3>1 DEF Frame
  <2> QED BY <1>2, <2>7, <2>8
<1> QED BY <1>1, <1>2, ClaimCases

\* A result is stored for a permit that is claimed, and the call is over.
LEMMA ReturnTypes ==
    ASSUME StoreOK, ThreadOK, NEW c \in Callers, LocalOK(c), pc[c] \in Acting,
           NEW state \in States, NEW status \in Statuses, Return(c, state, status)
    PROVE  /\ results' \in [PermitIds -> Results \union {None}]
           /\ \A p \in PermitIds : results'[p] # None => Claimed(p)
           /\ End(c)
<1>1. req[c].permit \in PermitIds /\ Claimed(req[c].permit)
  BY DEF LocalOK, Acting
<1>2. [state |-> state, status |-> status] \in Results
  BY DEF Results
<1>3. results' = [results EXCEPT ![req[c].permit] = [state |-> state, status |-> status]]
  BY DEF Return
<1> QED BY <1>1, <1>2, <1>3 DEF Return, StoreOK

\* Steps after the claim that leave the database alone.
LEMMA LateTypes ==
    ASSUME TypeInv, NEW c \in Callers, Inspect(c) \/ Reidentify(c) \/ Reread(c) \/ Conclude(c)
    PROVE  StoreOK' /\ ThreadOK' /\ LocalOK(c)' /\ Frame(c)
<1>0. /\ StoreOK /\ ThreadOK /\ LocalOK(c) /\ req[c] \in Requests
      /\ UNCHANGED <<dbVars, authorityVars, clockVars, runs>>
  BY DEF TypeInv, ThreadOK, Inspect, Reidentify, Reread, Conclude
<1>1. ASSUME NEW state \in States, NEW status \in Statuses, Return(c, state, status),
             pc[c] \in Acting
      PROVE  StoreOK' /\ ThreadOK' /\ LocalOK(c)' /\ Frame(c)
  <2>1. /\ results' \in [PermitIds -> Results \union {None}]
        /\ \A p \in PermitIds : results'[p] # None => Claimed(p)
        /\ End(c)
    BY <1>0, <1>1, ReturnTypes
  <2>2. held' = held
    BY <2>1 DEF End, Leave
  <2>3. StoreOK'
    BY <1>0, <2>1, <2>2 DEF StoreOK, DBTypeOK, dbVars, authorityVars, clockVars, Claimed
  <2> QED BY <1>0, <2>1, <2>3, EndTypes DEF Frame, authorityVars
<1>2. ASSUME AmbiguousResult(c), pc[c] \in Acting
      PROVE  StoreOK' /\ ThreadOK' /\ LocalOK(c)' /\ Frame(c)
  BY <1>1, <1>2 DEF AmbiguousResult, States, Statuses
<1>3. ASSUME UNCHANGED <<results, held>> PROVE StoreOK'
  BY <1>0, <1>3 DEF StoreOK, DBTypeOK, dbVars, authorityVars, clockVars, Claimed
<1>4. CASE Inspect(c)
  <2>1. CASE Goto(c, "inspect", "migrate") /\ UNCHANGED <<results, req, window, held>>
    BY <1>0, <1>3, <2>1
    DEF Goto, ThreadOK, LocalOK, Frame, Steps, Acting, authorityVars, Claimed
  <2> QED BY <1>2, <1>4, <2>1 DEF Inspect, Acting
<1>5. CASE Reidentify(c)
  <2>1. CASE Goto(c, "reidentify", "reread") /\ UNCHANGED <<results, req, window, held>>
    BY <1>0, <1>3, <2>1
    DEF Goto, ThreadOK, LocalOK, Frame, Steps, Acting, authorityVars, Claimed
  <2> QED BY <1>2, <1>5, <2>1 DEF Reidentify, Acting
<1>6. CASE Reread(c)
  <2>1. CASE OpenAndRead(c, "reread", "reversion")
    <3>1. file \in Instances /\ schemas[file].shape \in Shapes
      BY <1>0, <2>1 DEF OpenAndRead, StoreOK, DBTypeOK, Schemas
    <3>2. /\ req' \in [Callers -> Requests]
          /\ req'[c] = [req[c] EXCEPT !.instance = file, !.shape = schemas[file].shape]
      BY <1>0, <2>1, <3>1 DEF OpenAndRead, ThreadOK, Requests
    <3>3. pc[c] = "reread" /\ pc' \in [Callers -> Steps] /\ pc'[c] = "reversion"
      BY <1>0, <2>1 DEF OpenAndRead, Goto, Steps, Acting, ThreadOK
    <3>4. StoreOK'
      BY <1>3, <2>1 DEF OpenAndRead
    <3> QED BY <1>0, <2>1, <3>1, <3>2, <3>3, <3>4
            DEF OpenAndRead, Goto, ThreadOK, LocalOK, Frame, Requests, Acting,
                authorityVars, Claimed
  <2> QED BY <1>2, <1>6, <2>1 DEF Reread, Acting
<1>7. CASE Conclude(c)
  <2>1. pc[c] \in Acting /\ req[c].status \in Statuses
    BY <1>0, <1>7 DEF Conclude, LocalOK, Acting
  <2>2. AuthorityState(req[c].permit, Observed(c), req[c].status) \in States
    BY DEF AuthorityState, States
  <2> QED BY <1>1, <1>2, <1>7, <2>1, <2>2 DEF Conclude
<1> QED BY <1>4, <1>5, <1>6, <1>7

\* Whoever looks at the path sees what is there.
LEMMA LookTypes ==
    ASSUME StoreOK, ThreadOK, DBTypeOK', Look
    PROVE  held' \in [PermitIds -> Sights] /\ window' \in [Callers -> Sights]
<1>1. Sight' \in Sights
  BY SightTypes DEF DBTypeOK, Sight, Nothing, Sights, Schemas
<1>2. \A p \in PermitIds : Both(held[p], Sight') \in Sights
  BY <1>1, BothTypes DEF StoreOK
<1>3. \A c \in Callers : Both(window[c], Sight') \in Sights
  BY <1>1, BothTypes DEF ThreadOK
<1> QED BY <1>2, <1>3, NothingTypes DEF Look

\* The script leaves a database, and one more line in the history.
LEMMA ScriptTypes ==
    ASSUME StoreOK, ThreadOK, NEW c \in Callers, LocalOK(c), RunScript(c, req[c].permit),
           UNCHANGED <<authorityVars, clockVars>>
    PROVE  StoreOK' /\ ThreadOK' /\ LocalOK(c)' /\ Frame(c)
<1> DEFINE p == req[c].permit
           source == req[c].source
<1>0. /\ pc[c] = "migrate" /\ p \in PermitIds /\ permits[p] \in Permits /\ source \in Sources
      /\ req[c] \in Requests /\ file \in Instances /\ schemas[file] \in Schemas
  BY DEF RunScript, Goto, LocalOK, StoreOK, ThreadOK, DBTypeOK
<1>1. After(source, schemas[file], permits[p].target_version) \in Schemas
  BY <1>0, AfterTypes DEF Permits
<1>2. schemas' \in [Instances -> Schemas]
  BY <1>0, <1>1 DEF RunScript, StoreOK, DBTypeOK
<1>3. DBTypeOK'
  BY <1>2 DEF RunScript, StoreOK, DBTypeOK
<1>4. held' \in [PermitIds -> Sights] /\ window' \in [Callers -> Sights]
  BY <1>3, LookTypes DEF RunScript
<1>5. [source |-> source, changed |-> schemas' # schemas] \in Runs
  BY <1>0 DEF Runs
<1>6. runs' = [runs EXCEPT ![p] = Append(@, [source |-> source, changed |-> schemas' # schemas])]
  BY DEF RunScript
<1>7. runs' \in [PermitIds -> Seq(Runs)]
  BY <1>0, <1>5, <1>6 DEF StoreOK
<1>8. /\ UNCHANGED <<permits, claims, checkpoint, expired, crashes, failures>>
      /\ UNCHANGED results
  BY DEF RunScript, authorityVars, clockVars
<1>9. StoreOK'
  BY <1>3, <1>4, <1>7, <1>8 DEF StoreOK, Claimed
<1>10. PICK status \in Statuses : req' = [req EXCEPT ![c].status = status]
  BY DEF RunScript, Statuses
<1>11. /\ req' \in [Callers -> Requests] /\ req'[c] = [req[c] EXCEPT !.status = status]
       /\ \A d \in Callers \ {c} : req'[d] = req[d]
  BY <1>0, <1>10 DEF ThreadOK, Requests
<1>12. /\ pc' \in [Callers -> Steps] /\ pc'[c] = "reidentify"
       /\ \A d \in Callers \ {c} : pc'[d] = pc[d]
  BY DEF RunScript, Goto, ThreadOK, Steps, Acting
<1>13. ThreadOK'
  BY <1>4, <1>11, <1>12 DEF ThreadOK
<1>14. /\ req'[c].permit = p /\ req'[c].source = source
       /\ req'[c].checkpoint = req[c].checkpoint /\ req'[c].status \in Statuses
  BY <1>0, <1>11 DEF Requests
<1>15. LocalOK(c)'
  BY <1>0, <1>8, <1>12, <1>14 DEF LocalOK, Acting, Claimed
<1> QED BY <1>8, <1>9, <1>11, <1>12, <1>13, <1>15 DEF Frame

LEMMA MigrateTypes ==
    ASSUME TypeInv, NEW c \in Callers, Migrate(c)
    PROVE  StoreOK' /\ ThreadOK' /\ LocalOK(c)' /\ Frame(c)
<1>0. /\ StoreOK /\ ThreadOK /\ LocalOK(c) /\ pc[c] = "migrate" /\ req[c] \in Requests
      /\ UNCHANGED <<authorityVars, clockVars>>
  BY DEF TypeInv, ThreadOK, Migrate
<1>1. UNCHANGED <<permits, claims, checkpoint, expired, crashes, failures>>
  BY <1>0 DEF authorityVars, clockVars
<1>2. CASE RunScript(c, req[c].permit)
  BY <1>0, <1>2, ScriptTypes
<1>3. CASE ScriptLocked(c)
  <2>1. UNCHANGED <<dbVars, results, runs, window, held>>
    BY <1>3 DEF ScriptLocked
  <2>2. StoreOK'
    BY <1>0, <1>1, <2>1 DEF StoreOK, DBTypeOK, dbVars, Claimed
  <2>3. /\ req' \in [Callers -> Requests] /\ req'[c] = [req[c] EXCEPT !.status = "failed"]
        /\ \A d \in Callers \ {c} : req'[d] = req[d]
    BY <1>0, <1>3 DEF ScriptLocked, ThreadOK, Requests, Statuses
  <2>4. /\ pc' \in [Callers -> Steps] /\ pc'[c] = "reidentify"
        /\ \A d \in Callers \ {c} : pc'[d] = pc[d]
    BY <1>0, <1>3 DEF ScriptLocked, Goto, ThreadOK, Steps, Acting
  <2>5. /\ req'[c].permit = req[c].permit /\ req'[c].source = req[c].source
        /\ req'[c].checkpoint = req[c].checkpoint /\ req'[c].status \in Statuses
    BY <1>0, <2>3 DEF Requests, Statuses
  <2>6. LocalOK(c)'
    BY <1>0, <1>1, <2>4, <2>5 DEF LocalOK, Acting, Claimed
  <2> QED BY <1>0, <1>1, <2>1, <2>2, <2>3, <2>4, <2>6 DEF ThreadOK, Frame
<1>4. CASE AmbiguousResult(c) /\ UNCHANGED <<dbVars, runs>>
  <2>1. Return(c, "RECONCILIATION_FAILED", "unknown") /\ pc[c] \in Acting
    BY <1>0, <1>4 DEF AmbiguousResult, Acting
  <2>2. /\ results' \in [PermitIds -> Results \union {None}]
        /\ \A p \in PermitIds : results'[p] # None => Claimed(p)
        /\ End(c)
    BY <1>0, <2>1, ReturnTypes DEF States, Statuses
  <2>3. held' = held
    BY <2>2 DEF End, Leave
  <2>4. StoreOK'
    BY <1>0, <1>1, <1>4, <2>2, <2>3 DEF StoreOK, DBTypeOK, dbVars, Claimed
  <2> QED BY <1>0, <1>1, <2>2, <2>4, EndTypes DEF Frame
<1> QED BY <1>2, <1>3, <1>4 DEF Migrate

\* Steps of others, and the beginning and the end of a call.
LEMMA BeginTypes ==
    ASSUME TypeInv, NEW c \in Callers, NEW p \in PermitIds, NEW source \in Sources,
           Begin(c, p, source)
    PROVE  StoreOK' /\ ThreadOK' /\ LocalOK(c)' /\ Frame(c)
<1>0. /\ StoreOK /\ ThreadOK /\ permits[p] # None /\ checkpoint \in Checkpoints
      /\ UNCHANGED <<dbVars, authorityVars, results, clockVars, runs, held>>
  BY DEF TypeInv, Begin, StoreOK
<1>1. UNCHANGED <<permits, claims, checkpoint, expired, crashes, failures>>
  BY <1>0 DEF authorityVars, clockVars
<1>2. StoreOK'
  BY <1>0, <1>1 DEF StoreOK, DBTypeOK, dbVars, Claimed
<1>3. /\ req' \in [Callers -> Requests]
      /\ req'[c].permit = p /\ req'[c].source = source /\ req'[c].checkpoint = checkpoint
      /\ \A d \in Callers \ {c} : req'[d] = req[d]
  BY <1>0 DEF Begin, ThreadOK, Requests, Idle
<1>4. /\ pc' \in [Callers -> Steps] /\ pc'[c] = "identify"
      /\ \A d \in Callers \ {c} : pc'[d] = pc[d]
  BY <1>0 DEF Begin, Goto, ThreadOK, Steps, Before
<1>5. window' \in [Callers -> Sights]
  BY <1>0, SightTypes DEF Begin, ThreadOK, StoreOK
<1>6. ThreadOK'
  BY <1>3, <1>4, <1>5 DEF ThreadOK
<1>7. LocalOK(c)'
  BY <1>0, <1>1, <1>3, <1>4 DEF LocalOK, Acting
<1> QED BY <1>1, <1>2, <1>3, <1>4, <1>6, <1>7 DEF Frame

LEMMA CrashTypes ==
    ASSUME TypeInv, NEW c \in Callers, Crash(c)
    PROVE  StoreOK' /\ ThreadOK' /\ LocalOK(c)' /\ Frame(c)
<1>0. /\ StoreOK /\ ThreadOK /\ End(c)
      /\ UNCHANGED <<dbVars, authorityVars, results, expired, failures, runs>>
  BY DEF TypeInv, Crash
<1>1. UNCHANGED <<permits, claims, checkpoint>> /\ held' = held
  BY <1>0 DEF authorityVars, End, Leave
<1>2. crashes' \in 0..MaxCrashes
  BY <1>0, MigrationAssumption DEF Crash, StoreOK
<1>3. StoreOK'
  BY <1>0, <1>1, <1>2 DEF StoreOK, DBTypeOK, dbVars, Claimed
<1> QED BY <1>0, <1>1, <1>3, EndTypes DEF Frame

LEMMA MintTypes ==
    ASSUME TypeInv, NEW p \in PermitIds, NEW source \in Sources, NEW nonce \in Nonces,
           NEW trusted \in Trusted, Mint(p, source, nonce, trusted)
    PROVE  /\ StoreOK' /\ UNCHANGED <<pc, req, window>>
           /\ \A q \in PermitIds \ {p} : permits'[q] = permits[q]
           /\ permits[p] = None /\ permits'[p] # None
<1>0. /\ StoreOK /\ file \in Instances /\ schemas[file] \in Schemas /\ permits[p] = None
      /\ UNCHANGED <<dbVars, claims, checkpoint, callVars, results, clockVars, historyVars>>
  BY DEF TypeInv, Mint, StoreOK, DBTypeOK
<1>1. UNCHANGED <<pc, req, window, held, runs, expired, crashes, failures>>
  BY <1>0 DEF callVars, historyVars, clockVars
<1> DEFINE Trust == IF trusted THEN TrustConstraints(checkpoint) ELSE None
           Permit(target) == [database_instance |-> file, expected_schema |-> schemas[file],
                expected_result |-> After(source, schemas[file], target),
                source |-> source, target_version |-> target, nonce |-> nonce,
                trust |-> Trust]
<1>2. PICK target \in Versions : permits' = [permits EXCEPT ![p] = Permit(target)]
  BY DEF Mint
<1>3. Trust \in TrustRecords \union {None}
  BY <1>0, CheckpointTypes DEF StoreOK
<1>4. After(source, schemas[file], target) \in Schemas
  BY <1>0, AfterTypes
<1> HIDE DEF Trust
<1>5. Permit(target) \in Permits
  BY <1>0, <1>3, <1>4 DEF Permits
<1> HIDE DEF Permit
<1>6. /\ permits' \in [PermitIds -> Permits \union {None}]
      /\ \A q \in PermitIds \ {p} : permits'[q] = permits[q]
      /\ permits'[p] # None
  BY <1>0, <1>2, <1>5, RecordsAssumption DEF StoreOK
<1>7. \A row \in claims : permits'[row.permit] # None
  BY <1>0, <1>6 DEF StoreOK, Claim
<1>8. StoreOK'
  BY <1>0, <1>1, <1>6, <1>7 DEF StoreOK, DBTypeOK, dbVars, Claimed
<1> QED BY <1>0, <1>1, <1>6, <1>8

LEMMA OthersTypes ==
    ASSUME TypeInv, AdvanceCheckpoint \/ (\E p \in PermitIds : Expire(p)) \/ Others
    PROVE  StoreOK' /\ ThreadOK' /\ UNCHANGED <<permits, claims, pc, req>>
<1>0. StoreOK /\ ThreadOK
  BY DEF TypeInv
<1>1. CASE AdvanceCheckpoint
  <2>1. checkpoint' \in Checkpoints
    BY <1>0, <1>1, CheckpointTypes DEF AdvanceCheckpoint, StoreOK
  <2>2. UNCHANGED <<dbVars, permits, claims, pc, req, results, expired, crashes, failures, runs, window, held>>
    BY <1>1 DEF AdvanceCheckpoint, callVars, clockVars, historyVars
  <2>3. ThreadOK'
    BY <1>0, <2>2 DEF ThreadOK
  <2> QED BY <1>0, <2>1, <2>2, <2>3 DEF StoreOK, DBTypeOK, dbVars, Claimed
<1>2. CASE \E p \in PermitIds : Expire(p)
  <2>1. UNCHANGED <<dbVars, permits, claims, checkpoint, pc, req, results, crashes, failures, runs, window, held>>
    BY <1>2 DEF Expire, callVars, authorityVars, historyVars
  <2>2. expired' \subseteq PermitIds
    BY <1>0, <1>2 DEF Expire, StoreOK
  <2>3. ThreadOK'
    BY <1>0, <2>1 DEF ThreadOK
  <2> QED BY <1>0, <2>1, <2>2, <2>3 DEF StoreOK, DBTypeOK, dbVars, Claimed
<1>3. CASE Others
  <2>1. UNCHANGED <<permits, claims, checkpoint, pc, req, results, expired, crashes, failures, runs>>
    BY <1>3 DEF Others, callVars, authorityVars, clockVars
  <2>2. CASE WriteSchema
    <3>1. PICK schema \in Schemas : schemas' = [schemas EXCEPT ![file] = schema]
      BY <2>2 DEF WriteSchema
    <3>2. schemas' \in [Instances -> Schemas]
      BY <1>0, <3>1 DEF StoreOK, DBTypeOK
    <3>3. file' = file /\ replacements' = replacements /\ writes' \in 0..MaxWrites
      BY <1>0, <2>2, DatabaseAssumption DEF WriteSchema, StoreOK, DBTypeOK
    <3>4. DBTypeOK'
      BY <1>0, <3>2, <3>3 DEF StoreOK, DBTypeOK
    <3>5. held' \in [PermitIds -> Sights] /\ window' \in [Callers -> Sights]
      BY <1>0, <1>3, <3>4, LookTypes DEF Others
    <3> QED BY <1>0, <2>1, <3>4, <3>5 DEF StoreOK, ThreadOK, Claimed
  <2>3. CASE ReplaceFile
    <3>1. file' \in Instances \union {Unusable} /\ UNCHANGED <<schemas, writes>>
      BY <2>3 DEF ReplaceFile
    <3>2. replacements' \in 0..MaxReplacements
      BY <1>0, <2>3, DatabaseAssumption DEF ReplaceFile, StoreOK, DBTypeOK
    <3>4. DBTypeOK'
      BY <1>0, <3>1, <3>2 DEF StoreOK, DBTypeOK
    <3>5. held' \in [PermitIds -> Sights] /\ window' \in [Callers -> Sights]
      BY <1>0, <1>3, <3>4, LookTypes DEF Others
    <3> QED BY <1>0, <2>1, <3>4, <3>5 DEF StoreOK, ThreadOK, Claimed
  <2> QED BY <1>3, <2>2, <2>3 DEF Others, DBNext
<1> QED BY <1>1, <1>2, <1>3

\* Every step of a caller.
CallerStep(c) == Call(c) \/ Crash(c) \/ \E p \in PermitIds, source \in Sources : Begin(c, p, source)

LEMMA CallerTypes ==
    ASSUME TypeInv, NEW c \in Callers, CallerStep(c)
    PROVE  StoreOK' /\ ThreadOK' /\ LocalOK(c)' /\ Frame(c)
  BY BeginTypes, CrashTypes, EarlyTypes, ClaimTypes, LateTypes, MigrateTypes
  DEF CallerStep, Call

LEMMA NextCases ==
    ASSUME [Next]_vars
    PROVE  \/ \E c \in Callers : CallerStep(c)
           \/ \E p \in PermitIds, source \in Sources, nonce \in Nonces, trusted \in Trusted :
                 Mint(p, source, nonce, trusted)
           \/ AdvanceCheckpoint \/ (\E p \in PermitIds : Expire(p)) \/ Others
           \/ UNCHANGED vars
  BY DEF Next, CallerStep

LEMMA TypeStep == TypeInv /\ [Next]_vars => TypeInv'
<1> SUFFICES ASSUME TypeInv, [Next]_vars PROVE TypeInv'
  OBVIOUS
<1>1. ASSUME NEW c \in Callers, CallerStep(c) PROVE TypeInv'
  <2>1. StoreOK' /\ ThreadOK' /\ LocalOK(c)' /\ Frame(c)
    BY <1>1, CallerTypes
  <2>2. ASSUME NEW d \in Callers \ {c} PROVE LocalOK(d)'
    <3>1. /\ LocalOK(d) /\ pc'[d] = pc[d] /\ req'[d] = req[d] /\ permits' = permits
          /\ claims \subseteq claims'
      BY <2>1 DEF TypeInv, Frame
    <3> QED BY <3>1 DEF LocalOK, Claimed
  <2> QED BY <2>1, <2>2 DEF TypeInv
<1>2. ASSUME NEW p \in PermitIds, NEW source \in Sources, NEW nonce \in Nonces,
             NEW trusted \in Trusted, Mint(p, source, nonce, trusted)
      PROVE TypeInv'
  <2>1. /\ StoreOK' /\ UNCHANGED <<pc, req, window, claims>>
        /\ \A q \in PermitIds \ {p} : permits'[q] = permits[q]
        /\ permits'[p] # None
    <3>1. claims' = claims
      BY <1>2 DEF Mint
    <3> QED BY <1>2, <3>1, MintTypes
  <2>2. ThreadOK'
    BY <2>1 DEF TypeInv, ThreadOK
  <2>3. \A c \in Callers : LocalOK(c)'
    BY <2>1 DEF TypeInv, LocalOK, Claimed
  <2> QED BY <2>1, <2>2, <2>3 DEF TypeInv
<1>3. CASE AdvanceCheckpoint \/ (\E p \in PermitIds : Expire(p)) \/ Others
  <2>1. StoreOK' /\ ThreadOK' /\ UNCHANGED <<permits, claims, pc, req>>
    BY <1>3, OthersTypes
  <2>2. \A c \in Callers : LocalOK(c)'
    BY <2>1 DEF TypeInv, LocalOK, Claimed
  <2> QED BY <2>1, <2>2 DEF TypeInv
<1>4. CASE UNCHANGED vars
  BY <1>4 DEF vars, dbVars, authorityVars, callVars, clockVars, historyVars, TypeInv, StoreOK,
              DBTypeOK, ThreadOK, LocalOK, Claimed
<1> QED BY <1>1, <1>2, <1>3, <1>4, NextCases

LEMMA TypeAlways == Spec => []TypeInv
  BY TypeInit, TypeStep, PTL DEF Spec

\* Every permit, claim and result is of its type, and so is every call's locals: no
\* caller is between its steps without what the step needs.
THEOREM TypeCorrect == Spec => []TypeOK
<1>1. TypeInv => TypeOK
  BY MigrationAssumption DEF TypeInv, StoreOK, ThreadOK, TypeOK, LocalOK, Steps, Idle
<1> QED BY <1>1, TypeAlways, PTL
-----------------------------------------------------------------------------
(* A permit's script runs once *)

\* What a step of a caller means for the claim it works under: it is before the
\* claim or over, it makes the claim, or it goes on with it.
GoesOn(c) ==
    \/ pc'[c] \notin {"claim"} \union Acting
    \/ /\ pc[c] = "version" /\ pc'[c] = "claim" /\ req'[c] = req[c]
       /\ permits[req[c].permit].source = req[c].source
    \/ pc[c] = "claim" /\ pc'[c] = "inspect" /\ req'[c] = req[c] /\ ~Claimed(req[c].permit)
    \/ /\ pc[c] \in Acting /\ pc'[c] \in Acting
       /\ req'[c].permit = req[c].permit /\ req'[c].source = req[c].source
       /\ pc'[c] \in {"inspect", "migrate"} => pc[c] \in {"inspect", "migrate"}

\* Only the script writes the history of runs, ...
RunsWritten(c) ==
    \/ runs' = runs
    \/ pc[c] = "migrate" /\ pc'[c] = "reidentify" /\ RunScript(c, req[c].permit)

\* ... and only the end of a call that acts gives a result, its permit's.
ResultsWritten(c) ==
    \/ results' = results
    \/ /\ pc[c] \in Acting /\ pc'[c] = "idle"
       /\ \A q \in PermitIds \ {req[c].permit} : results'[q] = results[q]

LEMMA CallerEffects ==
    ASSUME TypeInv, NEW c \in Callers, CallerStep(c)
    PROVE  GoesOn(c) /\ RunsWritten(c) /\ ResultsWritten(c)
<1>0. /\ pc \in [Callers -> Steps] /\ req \in [Callers -> Requests] /\ req[c] \in Requests
      /\ results \in [PermitIds -> Results \union {None}]
  BY DEF TypeInv, ThreadOK, StoreOK
<1>1. End(c) => pc'[c] = "idle" /\ pc'[c] \notin {"claim"} \union Acting
  BY <1>0 DEF End, Leave, Acting
<1>2. ASSUME NEW state, NEW status, Return(c, state, status), pc[c] \in Acting
      PROVE  GoesOn(c) /\ ResultsWritten(c)
  BY <1>0, <1>1, <1>2 DEF Return, GoesOn, ResultsWritten
<1>3. AmbiguousResult(c) /\ pc[c] \in Acting => GoesOn(c) /\ ResultsWritten(c)
  BY <1>2 DEF AmbiguousResult
<1>4. CASE \E p \in PermitIds, source \in Sources : Begin(c, p, source)
  BY <1>0, <1>4 DEF Begin, Goto, GoesOn, RunsWritten, ResultsWritten, Acting
<1>5. CASE Crash(c)
  BY <1>1, <1>5 DEF Crash, GoesOn, RunsWritten, ResultsWritten
<1>6. CASE Identify(c) \/ Read(c)
  <2>1. runs' = runs /\ results' = results
    BY <1>6 DEF Identify, Read, OpenAndRead
  <2>2. End(c) \/ Goto(c, "identify", "read") \/ Goto(c, "read", "version")
    BY <1>6 DEF Identify, Read, OpenAndRead
  <2>3. pc'[c] \notin {"claim"} \union Acting
    BY <1>0, <1>1, <2>2 DEF Goto, Acting
  <2> QED BY <2>1, <2>3 DEF GoesOn, RunsWritten, ResultsWritten
<1>7. CASE Verify(c)
  BY <1>0, <1>1, <1>7 DEF Verify, PermitHolds, Goto, GoesOn, RunsWritten, ResultsWritten
<1>8. CASE ClaimPermit(c)
  <2>1. runs' = runs /\ results' = results
    BY <1>8, ClaimCases
  <2>2. CASE MakesClaim(c) /\ Goto(c, "claim", "inspect") /\ UNCHANGED req
    BY <1>0, <2>1, <2>2 DEF MakesClaim, Claimable, Claimed, Goto, GoesOn, RunsWritten, ResultsWritten
  <2>3. CASE Leave(c) \/ End(c)
    BY <1>0, <1>1, <2>1, <2>3 DEF Leave, GoesOn, RunsWritten, ResultsWritten, Acting
  <2> QED BY <1>8, <2>2, <2>3, ClaimCases
<1>9. CASE Inspect(c)
  <2>1. CASE Goto(c, "inspect", "migrate") /\ UNCHANGED <<results, req>>
    BY <1>0, <1>9, <2>1 DEF Inspect, Goto, GoesOn, RunsWritten, ResultsWritten, Acting
  <2> QED BY <1>3, <1>9, <2>1 DEF Inspect, Acting, RunsWritten
<1>10. CASE Migrate(c)
  <2>1. CASE RunScript(c, req[c].permit)
    <3>1. /\ pc[c] = "migrate" /\ pc'[c] = "reidentify" /\ results' = results
          /\ \E status : req' = [req EXCEPT ![c].status = status]
      BY <1>0, <2>1 DEF RunScript, Goto
    <3>2. req'[c].permit = req[c].permit /\ req'[c].source = req[c].source
      BY <1>0, <3>1 DEF Requests
    <3> QED BY <2>1, <3>1, <3>2 DEF GoesOn, RunsWritten, ResultsWritten, Acting
  <2>2. CASE ScriptLocked(c)
    <3>1. /\ pc[c] = "migrate" /\ pc'[c] = "reidentify" /\ results' = results /\ runs' = runs
          /\ req' = [req EXCEPT ![c].status = "failed"]
      BY <1>0, <2>2 DEF ScriptLocked, Goto
    <3>2. req'[c].permit = req[c].permit /\ req'[c].source = req[c].source
      BY <1>0, <3>1 DEF Requests
    <3> QED BY <3>1, <3>2 DEF GoesOn, RunsWritten, ResultsWritten, Acting
  <2> QED BY <1>3, <1>10, <2>1, <2>2 DEF Migrate, Acting, RunsWritten
<1>11. CASE Reidentify(c)
  <2>1. CASE Goto(c, "reidentify", "reread") /\ UNCHANGED <<results, req>>
    BY <1>0, <1>11, <2>1 DEF Reidentify, Goto, GoesOn, RunsWritten, ResultsWritten, Acting
  <2> QED BY <1>3, <1>11, <2>1 DEF Reidentify, Acting, RunsWritten
<1>12. CASE Reread(c)
  <2>1. CASE OpenAndRead(c, "reread", "reversion")
    <3>1. /\ pc[c] = "reread" /\ pc'[c] = "reversion" /\ results' = results
          /\ req' = [req EXCEPT ![c].instance = file, ![c].shape = schemas[file].shape]
      BY <1>0, <2>1 DEF OpenAndRead, Goto
    <3>2. req'[c].permit = req[c].permit /\ req'[c].source = req[c].source
      BY <1>0, <3>1 DEF Requests
    <3> QED BY <1>12, <3>1, <3>2 DEF Reread, GoesOn, RunsWritten, ResultsWritten, Acting
  <2> QED BY <1>3, <1>12, <2>1 DEF Reread, Acting, RunsWritten
<1>13. CASE Conclude(c)
  BY <1>2, <1>3, <1>13 DEF Conclude, Acting, RunsWritten
<1> QED BY <1>4, <1>5, <1>6, <1>7, <1>8, <1>9, <1>10, <1>11, <1>12, <1>13
        DEF CallerStep, Call

\* From its claim on a call is the only one with its permit, which has no result yet,
\* and before the script runs no history; the script it runs is the permit's.
OwnerOK(c) ==
    /\ pc[c] \in Acting => results[req[c].permit] = None
    /\ pc[c] \in {"inspect", "migrate"} => runs[req[c].permit] = <<>>
    /\ pc[c] \in {"claim"} \union Acting => req[c].source = permits[req[c].permit].source
Alone == \A c, d \in Callers :
    pc[c] \in Acting /\ pc[d] \in Acting /\ req[c].permit = req[d].permit => c = d
RunsOK(p) ==
    /\ Len(runs[p]) <= 1
    /\ runs[p] # <<>> => Claimed(p)
    /\ \A k \in DOMAIN runs[p] : runs[p][k].source = permits[p].source

UseInv == Alone /\ (\A c \in Callers : OwnerOK(c)) /\ (\A p \in PermitIds : RunsOK(p))

LEMMA UseInit == Init => UseInv
  BY DEF Init, UseInv, Alone, OwnerOK, RunsOK, Acting

LEMMA UseStepCaller ==
    ASSUME TypeInv, UseInv, NEW c \in Callers, CallerStep(c)
    PROVE  UseInv'
<1>0. /\ GoesOn(c) /\ RunsWritten(c) /\ ResultsWritten(c) /\ TypeInv' /\ Frame(c)
      /\ LocalOK(c) /\ OwnerOK(c) /\ permits' = permits
      /\ runs \in [PermitIds -> Seq(Runs)] /\ results \in [PermitIds -> Results \union {None}]
      /\ req[c] \in Requests
  <2>1. [Next]_vars
    BY DEF Next, CallerStep
  <2> QED BY <2>1, CallerEffects, CallerTypes, TypeStep
          DEF TypeInv, UseInv, Frame, StoreOK, ThreadOK
<1> DEFINE p == req[c].permit
<1>1. ASSUME NEW d \in Callers \ {c}
      PROVE  pc'[d] = pc[d] /\ req'[d] = req[d] /\ LocalOK(d) /\ OwnerOK(d)
  BY <1>0 DEF Frame, TypeInv, UseInv
<1>2. Alone'
  <2>1. ASSUME NEW d \in Callers \ {c}, pc'[c] \in Acting, pc[d] \in Acting
        PROVE  req'[c].permit # req[d].permit
    <3>1. Claimed(req[d].permit)
      BY <1>1, <2>1 DEF LocalOK
    <3>2. CASE pc[c] = "claim" /\ req'[c] = req[c] /\ ~Claimed(req[c].permit)
      BY <3>1, <3>2
    <3>3. CASE pc[c] \in Acting /\ req'[c].permit = req[c].permit
      BY <2>1, <3>3 DEF UseInv, Alone
    <3> QED BY <1>0, <2>1, <3>2, <3>3 DEF GoesOn, Acting
  <2> QED BY <1>1, <2>1 DEF UseInv, Alone
<1>3. ASSUME NEW d \in Callers \ {c} PROVE OwnerOK(d)'
  <2>1. CASE pc[d] \in {"claim"} \union Acting
    <3>1. req[d].permit \in PermitIds
      BY <1>1, <2>1 DEF LocalOK, Acting
    <3>2. pc[d] \in Acting /\ pc[c] \in Acting => req[d].permit # p
      BY DEF UseInv, Alone
    <3>3. pc[d] \in Acting => results'[req[d].permit] = results[req[d].permit]
      BY <1>0, <3>1, <3>2 DEF ResultsWritten
    <3>4. pc[d] \in Acting => runs'[req[d].permit] = runs[req[d].permit]
      <4>1. CASE runs' = runs
        BY <4>1
      <4>2. CASE pc[c] = "migrate" /\ RunScript(c, p)
        BY <1>0, <3>1, <3>2, <4>2 DEF RunScript, Acting
      <4> QED BY <1>0, <4>1, <4>2 DEF RunsWritten
    <3> QED BY <1>0, <1>1, <3>3, <3>4 DEF OwnerOK, Acting
  <2>2. CASE pc[d] \notin {"claim"} \union Acting
    BY <1>1, <2>2 DEF OwnerOK, Acting
  <2> QED BY <2>1, <2>2
<1>4. OwnerOK(c)'
  <2>1. CASE pc'[c] \notin {"claim"} \union Acting
    BY <2>1 DEF OwnerOK, Acting
  <2>2. CASE /\ pc[c] = "version" /\ pc'[c] = "claim" /\ req'[c] = req[c]
             /\ permits[req[c].permit].source = req[c].source
    BY <1>0, <2>2 DEF OwnerOK, Acting
  <2>3. CASE pc[c] = "claim" /\ pc'[c] = "inspect" /\ req'[c] = req[c] /\ ~Claimed(p)
    <3>1. p \in PermitIds
      BY <1>0, <2>3 DEF LocalOK
    <3>2. results[p] = None /\ runs[p] = <<>>
      BY <2>3, <3>1 DEF UseInv, RunsOK, TypeInv, StoreOK
    <3>3. results' = results /\ runs' = runs
      BY <1>0, <2>3 DEF ResultsWritten, RunsWritten, Acting
    <3> QED BY <1>0, <2>3, <3>2, <3>3 DEF OwnerOK, Acting
  <2>4. CASE /\ pc[c] \in Acting /\ pc'[c] \in Acting
             /\ req'[c].permit = req[c].permit /\ req'[c].source = req[c].source
             /\ pc'[c] \in {"inspect", "migrate"} => pc[c] \in {"inspect", "migrate"}
    <3>1. results' = results
      BY <1>0, <2>4 DEF ResultsWritten, Acting
    <3>2. pc'[c] \in {"inspect", "migrate"} => runs' = runs
      BY <1>0 DEF RunsWritten
    <3> QED BY <1>0, <2>4, <3>1, <3>2 DEF OwnerOK
  <2> QED BY <1>0, <2>1, <2>2, <2>3, <2>4 DEF GoesOn
<1>5. ASSUME NEW q \in PermitIds PROVE RunsOK(q)'
  <2>0. RunsOK(q) /\ runs[q] \in Seq(Runs) /\ (Claimed(q) => Claimed(q)')
    BY <1>0 DEF UseInv, Frame, Claimed
  <2>1. CASE runs'[q] = runs[q]
    BY <1>0, <2>0, <2>1 DEF RunsOK
  <2>2. CASE q = p /\ pc[c] = "migrate" /\ RunScript(c, p)
    <3>1. runs[p] = <<>> /\ req[c].source = permits[p].source /\ Claimed(p)
      BY <1>0, <2>2 DEF OwnerOK, LocalOK, Acting
    <3> DEFINE run == [source |-> req[c].source, changed |-> schemas' # schemas]
    <3>2. runs' = [runs EXCEPT ![p] = Append(@, run)] /\ run.source = req[c].source
      BY <2>2 DEF RunScript
    <3> HIDE DEF run
    <3>3. runs'[q] = Append(<<>>, run)
      BY <1>0, <2>2, <3>1, <3>2
    <3>4. Len(runs'[q]) = 1 /\ \A k \in DOMAIN runs'[q] : runs'[q][k] = run
      BY <3>3
    <3> QED BY <1>0, <2>0, <2>2, <3>1, <3>2, <3>4 DEF RunsOK
  <2>3. CASE q # p /\ RunScript(c, p)
    <3>1. runs'[q] = runs[q]
      BY <1>0, <2>3 DEF RunScript
    <3> QED BY <2>1, <3>1
  <2> QED BY <1>0, <2>1, <2>2, <2>3 DEF RunsWritten
<1> QED BY <1>2, <1>3, <1>4, <1>5 DEF UseInv

LEMMA UseStep == TypeInv /\ UseInv /\ [Next]_vars => UseInv'
<1> SUFFICES ASSUME TypeInv, UseInv, [Next]_vars PROVE UseInv'
  OBVIOUS
<1>1. ASSUME NEW c \in Callers, CallerStep(c) PROVE UseInv'
  BY <1>1, UseStepCaller
<1>2. ASSUME NEW p \in PermitIds, NEW source \in Sources, NEW nonce \in Nonces,
             NEW trusted \in Trusted, Mint(p, source, nonce, trusted)
      PROVE UseInv'
  <2>1. /\ UNCHANGED <<pc, req, claims, results, runs>> /\ permits[p] = None
        /\ \A q \in PermitIds \ {p} : permits'[q] = permits[q]
    BY <1>2, MintTypes DEF Mint, callVars, historyVars
  <2>2. ~Claimed(p) /\ runs[p] = <<>>
    BY <2>1 DEF UseInv, RunsOK, TypeInv, StoreOK, Claimed
  <2>3. Alone' /\ \A c \in Callers : OwnerOK(c)'
    BY <2>1 DEF UseInv, Alone, OwnerOK, TypeInv, LocalOK, Acting
  <2>4. \A q \in PermitIds : RunsOK(q)'
    BY <2>1, <2>2 DEF UseInv, RunsOK, Claimed
  <2> QED BY <2>3, <2>4 DEF UseInv
<1>3. CASE AdvanceCheckpoint \/ (\E p \in PermitIds : Expire(p)) \/ Others \/ UNCHANGED vars
  <2>1. UNCHANGED <<permits, pc, req, claims, results, runs>>
    BY <1>3 DEF AdvanceCheckpoint, Expire, Others, callVars, historyVars, authorityVars, vars
  <2> QED BY <2>1 DEF UseInv, Alone, OwnerOK, RunsOK, Claimed
<1> QED BY <1>1, <1>2, <1>3, NextCases

LEMMA UseAlways == Spec => []UseInv
<1>1. TypeInv /\ UseInv /\ [Next]_vars => UseInv'
  BY UseStep
<1> QED BY <1>1, UseInit, TypeAlways, PTL DEF Spec

\* However many callers try a permit, its script runs at most once, after the claim.
THEOREM PermitsMigrateOnce == Spec => []MigratesOnce
<1>1. TypeInv /\ UseInv => MigratesOnce
  BY DEF TypeInv, StoreOK, UseInv, RunsOK, MigratesOnce
<1> QED BY <1>1, UseAlways, TypeAlways, PTL

-----------------------------------------------------------------------------
(* A failure left nothing *)

Observing == {"reidentify", "reread", "reversion"}

\* How a call comes to observe what its script did.
Observes(c) == pc'[c] \in Observing =>
    /\ req'[c].permit = req[c].permit
    /\ \/ pc[c] \in Observing /\ req'[c].status = req[c].status /\ runs' = runs
       \/ pc[c] = "migrate" /\ runs' = runs
       \/ pc[c] = "migrate" /\ RunScript(c, req[c].permit)

\* A result other than a call that did not get to its end is made of what was observed.
Concludes(c) == \A q \in PermitIds :
    \/ results'[q] = results[q]
    \/ results'[q].state = "RECONCILIATION_FAILED"
    \/ /\ q = req[c].permit /\ pc[c] = "reversion"
       /\ results'[q].state = AuthorityState(q, Observed(c), req[c].status)

LEMMA ObservingEffects ==
    ASSUME TypeInv, NEW c \in Callers, CallerStep(c)
    PROVE  Observes(c) /\ Concludes(c)
<1>0. /\ pc \in [Callers -> Steps] /\ req \in [Callers -> Requests] /\ req[c] \in Requests
      /\ results \in [PermitIds -> Results \union {None}] /\ LocalOK(c)
  BY DEF TypeInv, ThreadOK, StoreOK
<1>1. End(c) => pc'[c] = "idle" /\ pc'[c] \notin Observing
  BY <1>0 DEF End, Leave, Observing
<1>2. ASSUME AmbiguousResult(c), pc[c] \in Acting PROVE Observes(c) /\ Concludes(c)
  <2>1. results' = [results EXCEPT ![req[c].permit] =
                       [state |-> "RECONCILIATION_FAILED", status |-> "unknown"]]
    BY <1>2 DEF AmbiguousResult, Return
  <2>2. End(c)
    BY <1>2 DEF AmbiguousResult, Return
  <2> QED BY <1>0, <1>1, <2>1, <2>2 DEF Observes, Concludes
<1>4. CASE \E p \in PermitIds, source \in Sources : Begin(c, p, source)
  BY <1>0, <1>4 DEF Begin, Goto, Observes, Concludes, Observing
<1>5. CASE Crash(c)
  BY <1>1, <1>5 DEF Crash, Observes, Concludes
<1>6. CASE Identify(c) \/ Read(c) \/ Verify(c) \/ ClaimPermit(c)
  <2>1. results' = results
    BY <1>6, ClaimCases DEF Identify, Read, OpenAndRead, Verify
  <2>2. \/ Leave(c) \/ Goto(c, "identify", "read") \/ Goto(c, "read", "version")
        \/ Goto(c, "version", "claim") \/ Goto(c, "claim", "inspect")
    BY <1>6, ClaimCases DEF Identify, Read, OpenAndRead, Verify, End
  <2>3. pc'[c] \notin Observing
    BY <1>0, <2>2 DEF Goto, Leave, Observing
  <2> QED BY <2>1, <2>3 DEF Observes, Concludes
<1>9. CASE Inspect(c)
  <2>1. CASE Goto(c, "inspect", "migrate") /\ UNCHANGED <<results, req>>
    BY <1>0, <1>9, <2>1 DEF Goto, Observes, Concludes, Observing
  <2> QED BY <1>2, <1>9, <2>1 DEF Inspect, Acting
<1>10. CASE Migrate(c)
  <2>1. CASE RunScript(c, req[c].permit)
    <3>1. /\ pc[c] = "migrate" /\ results' = results
          /\ \E status : req' = [req EXCEPT ![c].status = status]
      BY <2>1 DEF RunScript, Goto
    <3>2. req'[c].permit = req[c].permit
      BY <1>0, <3>1 DEF Requests
    <3> QED BY <2>1, <3>1, <3>2 DEF Observes, Concludes
  <2>2. CASE ScriptLocked(c)
    <3>1. /\ pc[c] = "migrate" /\ results' = results /\ runs' = runs
          /\ req' = [req EXCEPT ![c].status = "failed"]
      BY <1>0, <2>2 DEF ScriptLocked, Goto
    <3>2. req'[c].permit = req[c].permit
      BY <1>0, <3>1 DEF Requests
    <3> QED BY <3>1, <3>2 DEF Observes, Concludes
  <2> QED BY <1>2, <1>10, <2>1, <2>2 DEF Migrate, Acting
<1>11. CASE Reidentify(c)
  <2>1. CASE Goto(c, "reidentify", "reread") /\ UNCHANGED <<results, req>>
    BY <1>0, <1>11, <2>1 DEF Reidentify, Goto, Observes, Concludes, Observing
  <2> QED BY <1>2, <1>11, <2>1 DEF Reidentify, Acting
<1>12. CASE Reread(c)
  <2>1. CASE OpenAndRead(c, "reread", "reversion")
    <3>1. /\ pc[c] = "reread" /\ pc'[c] = "reversion" /\ results' = results
          /\ req' = [req EXCEPT ![c].instance = file, ![c].shape = schemas[file].shape]
      BY <1>0, <2>1 DEF OpenAndRead, Goto
    <3>2. req'[c].permit = req[c].permit /\ req'[c].status = req[c].status
      BY <1>0, <3>1 DEF Requests
    <3> QED BY <1>12, <3>1, <3>2 DEF Reread, Observes, Concludes, Observing
  <2> QED BY <1>2, <1>12, <2>1 DEF Reread, Acting
<1>13. CASE Conclude(c)
  <2>1. CASE Return(c, AuthorityState(req[c].permit, Observed(c), req[c].status), req[c].status)
    <3>1. pc[c] = "reversion" /\ End(c)
      BY <1>13, <2>1 DEF Conclude, Return
    <3>2. results' = [results EXCEPT ![req[c].permit] =
             [state |-> AuthorityState(req[c].permit, Observed(c), req[c].status),
              status |-> req[c].status]]
      BY <2>1 DEF Return
    <3> QED BY <1>0, <1>1, <3>1, <3>2 DEF Observes, Concludes
  <2> QED BY <1>2, <1>13, <2>1 DEF Conclude, Acting
<1> QED BY <1>4, <1>5, <1>6, <1>9, <1>10, <1>11, <1>12, <1>13 DEF CallerStep, Call

LeftNothing(p) == \A k \in DOMAIN runs[p] : ~runs[p][k].changed

\* A call whose receipt says failed left nothing, if its script is atomic.
FailedOK(c) ==
    /\ pc[c] \in Observing /\ req[c].status = "failed" /\ Atomic(permits[req[c].permit].source)
    => LeftNothing(req[c].permit)

FailedInv == FailedLeavesNothing /\ \A c \in Callers : FailedOK(c)

\* A failed atomic script leaves the database as it was.
LEMMA FailedScript ==
    ASSUME TypeInv, UseInv, NEW c \in Callers, RunScript(c, req[c].permit),
           req'[c].status = "failed", Atomic(permits[req[c].permit].source)
    PROVE  LeftNothing(req[c].permit)'
<1> DEFINE p == req[c].permit
           source == req[c].source
           run == [source |-> source, changed |-> schemas' # schemas]
<1>1. /\ pc[c] = "migrate" /\ p \in PermitIds /\ source \in Sources /\ runs[p] = <<>>
      /\ source = permits[p].source /\ req[c] \in Requests
      /\ file \in Instances /\ schemas \in [Instances -> Schemas] /\ schemas[file] \in Schemas
      /\ runs \in [PermitIds -> Seq(Runs)]
  BY DEF RunScript, Goto, TypeInv, LocalOK, UseInv, OwnerOK, StoreOK, ThreadOK, DBTypeOK, Acting
<1>2. ~Effect[source][schemas[file].shape].ok
  <2>1. req' = [req EXCEPT ![c].status =
                  IF Effect[source][schemas[file].shape].ok THEN "success" ELSE "failed"]
    BY DEF RunScript
  <2> QED BY <1>1, <2>1 DEF TypeInv, ThreadOK, Requests
<1>3. Effect[source][schemas[file].shape].shape = schemas[file].shape
  BY <1>1, <1>2 DEF Atomic, Schemas
<1>4. After(source, schemas[file], permits[p].target_version) = schemas[file]
  BY <1>1, <1>2, <1>3 DEF After, Schemas
<1>5. schemas' = schemas
  BY <1>1, <1>4 DEF RunScript
<1>6. runs' = [runs EXCEPT ![p] = Append(@, run)] /\ ~run.changed /\ req'[c].permit = p
  <2>1. \E status : req' = [req EXCEPT ![c].status = status]
    BY DEF RunScript
  <2>2. req'[c].permit = p
    BY <1>1, <2>1 DEF TypeInv, ThreadOK, Requests
  <2> QED BY <1>5, <2>2 DEF RunScript
<1> HIDE DEF run
<1>7. runs'[p] = Append(<<>>, run)
  BY <1>1, <1>6
<1>8. \A k \in DOMAIN runs'[p] : runs'[p][k] = run
  BY <1>7
<1> QED BY <1>6, <1>8 DEF LeftNothing

LEMMA FailedStepCaller ==
    ASSUME TypeInv, UseInv, FailedInv, NEW c \in Callers, CallerStep(c)
    PROVE  FailedInv'
<1>0. /\ Observes(c) /\ Concludes(c) /\ RunsWritten(c) /\ Frame(c) /\ permits' = permits
      /\ req[c].permit \in PermitIds \/ pc[c] = "idle"
      /\ runs \in [PermitIds -> Seq(Runs)] /\ results \in [PermitIds -> Results \union {None}]
  BY CallerEffects, ObservingEffects, CallerTypes DEF Frame, TypeInv, LocalOK, StoreOK
<1> DEFINE p == req[c].permit
<1>1. ASSUME NEW q \in PermitIds, q # p PROVE runs'[q] = runs[q]
  BY <1>0, <1>1 DEF RunsWritten, RunScript
<1>2. ASSUME NEW d \in Callers \ {c} PROVE FailedOK(d)'
  <2>1. pc'[d] = pc[d] /\ req'[d] = req[d] /\ FailedOK(d) /\ LocalOK(d)
    BY <1>0 DEF Frame, FailedInv, TypeInv
  <2>2. CASE pc[d] \in Observing
    <3>1. req[d].permit \in PermitIds /\ pc[d] \in Acting
      BY <2>1, <2>2 DEF LocalOK, Observing, Acting
    <3>2. runs'[req[d].permit] = runs[req[d].permit]
      <4>1. CASE runs' = runs
        BY <4>1
      <4>2. CASE pc[c] = "migrate"
        <5>1. req[d].permit # p
          BY <3>1, <4>2 DEF UseInv, Alone, Acting
        <5> QED BY <1>1, <3>1, <5>1
      <4> QED BY <1>0, <4>1, <4>2 DEF RunsWritten
    <3> QED BY <1>0, <2>1, <3>2 DEF FailedOK, LeftNothing
  <2> QED BY <2>1, <2>2 DEF FailedOK
<1>3. FailedOK(c)'
  <2> SUFFICES ASSUME pc'[c] \in Observing, req'[c].status = "failed",
                      Atomic(permits[p].source)
               PROVE  LeftNothing(p)'
    BY <1>0 DEF FailedOK, Observes
  <2>0. req'[c].permit = p
    BY <1>0 DEF Observes
  <2>1. CASE pc[c] \in Observing /\ req'[c].status = req[c].status /\ runs' = runs
    BY <2>0, <2>1 DEF FailedInv, FailedOK, LeftNothing
  <2>2. CASE pc[c] = "migrate" /\ runs' = runs
    <3>1. runs[p] = <<>>
      BY <2>2 DEF UseInv, OwnerOK
    <3> QED BY <2>0, <2>2, <3>1 DEF LeftNothing
  <2>3. CASE RunScript(c, p)
    BY <2>3, FailedScript
  <2> QED BY <1>0, <2>1, <2>2, <2>3 DEF Observes
<1>4. FailedLeavesNothing'
  <2> SUFFICES ASSUME NEW q \in PermitIds, results'[q] # None,
                      results'[q].state = "EXECUTION_FAILED", Atomic(permits[q].source)
               PROVE  \A k \in DOMAIN runs'[q] : ~runs'[q][k].changed
    BY <1>0 DEF FailedLeavesNothing
  <2>1. CASE results'[q] = results[q]
    <3>1. \A k \in DOMAIN runs[q] : ~runs[q][k].changed
      BY <2>1 DEF FailedInv, FailedLeavesNothing
    <3>2. runs'[q] = runs[q]
      <4>1. CASE pc[c] = "migrate" /\ q = p
        BY <2>1, <4>1 DEF UseInv, OwnerOK, Acting
      <4> QED BY <1>0, <1>1, <4>1 DEF RunsWritten
    <3> QED BY <3>1, <3>2
  <2>2. CASE /\ q = p /\ pc[c] = "reversion"
             /\ results'[q].state = AuthorityState(q, Observed(c), req[c].status)
    <3>1. req[c].status = "failed"
      BY <2>2 DEF AuthorityState
    <3>2. LeftNothing(p)
      BY <2>2, <3>1 DEF FailedInv, FailedOK, Observing
    <3>3. runs' = runs
      BY <1>0, <2>2 DEF RunsWritten
    <3> QED BY <2>2, <3>2, <3>3 DEF LeftNothing
  <2> QED BY <1>0, <2>1, <2>2 DEF Concludes
<1> QED BY <1>2, <1>3, <1>4 DEF FailedInv

LEMMA FailedInit == Init => FailedInv
  BY DEF Init, FailedInv, FailedLeavesNothing, FailedOK, Observing

LEMMA FailedStep == TypeInv /\ UseInv /\ FailedInv /\ [Next]_vars => FailedInv'
<1> SUFFICES ASSUME TypeInv, UseInv, FailedInv, [Next]_vars PROVE FailedInv'
  OBVIOUS
<1>1. ASSUME NEW c \in Callers, CallerStep(c) PROVE FailedInv'
  BY <1>1, FailedStepCaller
<1>2. ASSUME NEW p \in PermitIds, NEW source \in Sources, NEW nonce \in Nonces,
             NEW trusted \in Trusted, Mint(p, source, nonce, trusted)
      PROVE FailedInv'
  <2>1. /\ UNCHANGED <<pc, req, results, runs>> /\ permits[p] = None
        /\ \A q \in PermitIds \ {p} : permits'[q] = permits[q]
    BY <1>2, MintTypes DEF Mint, callVars, historyVars
  <2>2. ~Claimed(p) /\ results[p] = None
    BY <2>1 DEF TypeInv, StoreOK, Claimed
  <2>3. \A c \in Callers : FailedOK(c)'
    BY <2>1 DEF FailedInv, FailedOK, LeftNothing, TypeInv, LocalOK, Observing
  <2>4. FailedLeavesNothing'
    BY <2>1, <2>2 DEF FailedInv, FailedLeavesNothing
  <2> QED BY <2>3, <2>4 DEF FailedInv
<1>3. CASE AdvanceCheckpoint \/ (\E p \in PermitIds : Expire(p)) \/ Others \/ UNCHANGED vars
  <2>1. UNCHANGED <<permits, pc, req, results, runs>>
    BY <1>3 DEF AdvanceCheckpoint, Expire, Others, callVars, historyVars, authorityVars, vars
  <2> QED BY <2>1 DEF FailedInv, FailedLeavesNothing, FailedOK, LeftNothing
<1> QED BY <1>1, <1>2, <1>3, NextCases

\* A result EXECUTION_FAILED means that nothing was left, if the script is atomic.
THEOREM FailuresLeaveNothing == Spec => []FailedLeavesNothing
<1>1. TypeInv /\ UseInv /\ FailedInv /\ [Next]_vars => FailedInv'
  BY FailedStep
<1>2. FailedInv => FailedLeavesNothing
  BY DEF FailedInv
<1> QED BY <1>1, <1>2, FailedInit, UseAlways, TypeAlways, PTL DEF Spec

-----------------------------------------------------------------------------
(* What a call has read was there to be seen *)

SeenBy(sight, f, db) == f # Unusable =>
    f \in sight.files /\ db[f].shape \in sight.shapes /\ db[f].version \in sight.versions
Includes(more, less) ==
    /\ less.files \subseteq more.files /\ less.shapes \subseteq more.shapes
    /\ less.versions \subseteq more.versions

\* A call at work has seen what is there, and what its locals were read from: the
\* permit's file, the contents it read, the version it is about to read.
WindowOK(c) ==
    /\ pc[c] # "idle" => SeenBy(window[c], file, schemas)
    /\ pc[c] \in {"read", "version", "claim"} =>
          permits[req[c].permit].database_instance \in window[c].files
    /\ pc[c] = "version" =>
          /\ req[c].shape \in window[c].shapes
          /\ schemas[req[c].instance].version \in window[c].versions
    /\ pc[c] = "claim" =>
          /\ permits[req[c].permit].expected_schema.shape \in window[c].shapes
          /\ permits[req[c].permit].expected_schema.version \in window[c].versions
HeldOK(p) == Claimed(p) => SeenBy(held[p], file, schemas)
ObservedOK(c) == pc[c] = "reversion" =>
    /\ req[c].shape \in held[req[c].permit].shapes
    /\ schemas[req[c].instance].version \in held[req[c].permit].versions

SightInv ==
    /\ \A c \in Callers : WindowOK(c) /\ ObservedOK(c)
    /\ \A p \in PermitIds : HeldOK(p)
    /\ ReconciledWasHeld

LEMMA SightSees == DBTypeOK => SeenBy(Sight, file, schemas)
  BY DEF DBTypeOK, SeenBy, Sight

\* A step that leaves the database, or one that everybody at work looked at.
Quiet(c) ==
    /\ UNCHANGED <<file, schemas>>
    /\ \A d \in Callers \ {c} : window'[d] = window[d]
    /\ \A p \in PermitIds : Claimed(p) => held'[p] = held[p]
Watched == Look /\ \A i \in Instances : schemas'[i] = schemas[i] \/ i = file'

LEMMA WatchedWindows ==
    ASSUME TypeInv, DBTypeOK', Look, NEW c \in Callers, pc[c] # "idle"
    PROVE  Includes(window'[c], window[c]) /\ SeenBy(window'[c], file', schemas')
<1>1. Sight' \in Sights /\ window[c] \in Sights
  BY SightTypes DEF TypeInv, ThreadOK, DBTypeOK, Sight, Nothing, Sights, Schemas
<1>2. window'[c] = Both(window[c], Sight')
  BY DEF Look
<1>3. SeenBy(Sight', file', schemas')
  BY DEF DBTypeOK, SeenBy, Sight
<1> QED BY <1>1, <1>2, <1>3, BothTypes DEF Includes, SeenBy

LEMMA WatchedClaims ==
    ASSUME TypeInv, DBTypeOK', Look, NEW p \in PermitIds, Claimed(p)
    PROVE  Includes(held'[p], held[p]) /\ SeenBy(held'[p], file', schemas')
<1>1. Sight' \in Sights /\ held[p] \in Sights
  BY SightTypes DEF TypeInv, StoreOK, DBTypeOK, Sight, Nothing, Sights, Schemas
<1>2. held'[p] = Both(held[p], Sight')
  BY DEF Look
<1>3. SeenBy(Sight', file', schemas')
  BY DEF DBTypeOK, SeenBy, Sight
<1> QED BY <1>1, <1>2, <1>3, BothTypes DEF Includes, SeenBy

\* What the claims have seen only grows.
LEMMA ClaimsKeepSight ==
    ASSUME TypeInv, DBTypeOK', SightInv, NEW c, Quiet(c) \/ Watched,
           NEW p \in PermitIds, Claimed(p)
    PROVE  Includes(held'[p], held[p]) /\ SeenBy(held'[p], file', schemas')
<1>1. CASE Quiet(c)
  BY <1>1 DEF Quiet, SightInv, HeldOK, Includes
<1>2. CASE Watched
  BY <1>2, WatchedClaims DEF Watched
<1> QED BY <1>1, <1>2

\* A call that does not move keeps what it knows.
LEMMA OthersKeepSight ==
    ASSUME TypeInv, TypeInv', SightInv, NEW c, NEW d \in Callers, (Quiet(c) /\ d # c) \/ Watched,
           pc'[d] = pc[d], req'[d] = req[d],
           pc[d] # "idle" => permits'[req[d].permit] = permits[req[d].permit]
    PROVE  WindowOK(d)' /\ ObservedOK(d)'
<1>0. /\ WindowOK(d) /\ ObservedOK(d) /\ LocalOK(d) /\ DBTypeOK' /\ Unusable \notin Instances
      /\ \A i \in Instances : schemas'[i] = schemas[i] \/ (i = file' /\ file' # Unusable)
  BY DatabaseAssumption DEF SightInv, TypeInv, StoreOK, Quiet, Watched
<1>1. CASE pc[d] = "idle"
  BY <1>1 DEF WindowOK, ObservedOK
<1>2. CASE pc[d] # "idle"
  <2>1. Includes(window'[d], window[d]) /\ SeenBy(window'[d], file', schemas')
    <3>1. CASE Quiet(c) /\ d # c
      BY <1>0, <1>2, <3>1 DEF Quiet, WindowOK, Includes
    <3>2. CASE Watched
      BY <1>0, <1>2, <3>2, WatchedWindows DEF Watched
    <3> QED BY <3>1, <3>2
  <2>2. pc[d] \in {"version", "reversion"} => req[d].instance \in Instances
    BY <1>0 DEF LocalOK
  <2>3. pc[d] = "version" => schemas'[req[d].instance].version \in window'[d].versions
    BY <1>0, <2>1, <2>2 DEF WindowOK, Includes, SeenBy
  <2>4. WindowOK(d)'
    BY <1>0, <1>2, <2>1, <2>3 DEF WindowOK, Includes
  <2>5. pc[d] = "reversion" =>
           /\ Includes(held'[req[d].permit], held[req[d].permit])
           /\ SeenBy(held'[req[d].permit], file', schemas')
    BY <1>0, ClaimsKeepSight DEF LocalOK, Acting
  <2>6. ObservedOK(d)'
    BY <1>0, <2>2, <2>5 DEF ObservedOK, Includes, SeenBy
  <2> QED BY <2>4, <2>6
<1> QED BY <1>1, <1>2

\* Results and claims that others' steps leave keep what was held.
LEMMA HeldKept ==
    ASSUME TypeInv, TypeInv', SightInv, NEW c, Quiet(c) \/ Watched, NEW p \in PermitIds,
           permits[p] # None => permits'[p] = permits[p], results'[p] = results[p],
           results[p] # None, results[p].state = "RECONCILED"
    PROVE  /\ permits'[p].expected_result.shape \in held'[p].shapes
           /\ permits'[p].target_version \in held'[p].versions
<1>1. Claimed(p) /\ permits[p] # None /\ DBTypeOK'
  BY DEF TypeInv, StoreOK, Claimed
<1>2. Includes(held'[p], held[p])
  BY <1>1, ClaimsKeepSight
<1> QED BY <1>1, <1>2 DEF SightInv, ReconciledWasHeld, Includes

\* A step of a caller is quiet but for the claim it makes, or it runs the script.
LEMMA CallerWatch ==
    ASSUME TypeInv, NEW c \in Callers, CallerStep(c)
    PROVE  Quiet(c) \/ (Watched /\ pc'[c] = "reidentify")
<1>0. window \in [Callers -> Sights] /\ held \in [PermitIds -> Sights] /\ DBTypeOK
      /\ req \in [Callers -> Requests] /\ pc \in [Callers -> Steps]
  BY DEF TypeInv, ThreadOK, StoreOK
<1>1. CASE \E p \in PermitIds, source \in Sources : Begin(c, p, source)
  BY <1>0, <1>1 DEF Begin, dbVars, Quiet
<1>2. ASSUME End(c) \/ UNCHANGED <<window, held>>, UNCHANGED dbVars PROVE Quiet(c)
  BY <1>0, <1>2 DEF End, Leave, Quiet, dbVars
<1>3. CASE Crash(c) \/ Identify(c) \/ Read(c) \/ Verify(c)
  BY <1>2, <1>3 DEF Crash, Identify, Read, Verify, OpenAndRead
<1>4. CASE Inspect(c) \/ Reidentify(c) \/ Reread(c) \/ Conclude(c)
  BY <1>2, <1>4 DEF Inspect, Reidentify, Reread, Conclude, OpenAndRead, AmbiguousResult, Return
<1>5. CASE ClaimPermit(c)
  <2>1. CASE End(c)
    BY <1>2, <1>5, <2>1 DEF ClaimPermit
  <2>2. CASE MakesClaim(c) /\ (Leave(c) \/ UNCHANGED window)
    <3>1. /\ Claimable(req[c].permit) /\ UNCHANGED dbVars
          /\ held' = [held EXCEPT ![req[c].permit] = Sight]
      BY <1>5, <2>2, ClaimCases DEF MakesClaim
    <3>2. \A d \in Callers \ {c} : window'[d] = window[d]
      BY <1>0, <2>2 DEF Leave
    <3> QED BY <1>0, <3>1, <3>2 DEF Claimable, Claimed, Quiet, dbVars
  <2> QED BY <1>5, <2>1, <2>2, ClaimCases
<1>6. CASE Migrate(c)
  <2>1. CASE RunScript(c, req[c].permit)
    <3>1. Look /\ Goto(c, "migrate", "reidentify") /\ file' = file
          /\ schemas' = [schemas EXCEPT ![file] = After(req[c].source, @,
                             permits[req[c].permit].target_version)]
      BY <2>1 DEF RunScript
    <3> QED BY <1>0, <3>1 DEF Goto, Watched, DBTypeOK
  <2>2. CASE ScriptLocked(c)
    BY <1>2, <2>2 DEF ScriptLocked
  <2>3. CASE AmbiguousResult(c) /\ UNCHANGED dbVars
    BY <1>2, <2>3 DEF AmbiguousResult, Return
  <2> QED BY <1>6, <2>1, <2>2, <2>3 DEF Migrate
<1> QED BY <1>1, <1>3, <1>4, <1>5, <1>6 DEF CallerStep, Call

\* A call that moves before its claim knows what it read.
LEMMA MoverWindow ==
    ASSUME TypeInv, TypeInv', SightInv, NEW c \in Callers, CallerStep(c)
    PROVE  WindowOK(c)'
<1>0. /\ WindowOK(c) /\ LocalOK(c) /\ DBTypeOK /\ DBTypeOK' /\ Unusable \notin Instances
      /\ permits' = permits /\ req[c] \in Requests
      /\ pc \in [Callers -> Steps] /\ req \in [Callers -> Requests]
      /\ window \in [Callers -> Sights]
  BY CallerTypes, DatabaseAssumption DEF SightInv, TypeInv, ThreadOK, StoreOK, Frame
<1>1. CASE \E p \in PermitIds, source \in Sources : Begin(c, p, source)
  <2>1. /\ UNCHANGED <<file, schemas>> /\ window'[c] = Sight /\ pc'[c] = "identify"
    BY <1>0, <1>1 DEF Begin, Goto, dbVars
  <2> QED BY <1>0, <2>1, SightSees DEF WindowOK
<1>2. Leave(c) \/ End(c) => WindowOK(c)'
  BY <1>0 DEF End, Leave, WindowOK
<1>3. CASE Identify(c)
  <2>1. CASE /\ RequireInstance(req[c].permit) /\ Goto(c, "identify", "read")
             /\ UNCHANGED <<req, window, dbVars>>
    <3>1. /\ pc[c] = "identify" /\ pc'[c] = "read" /\ UNCHANGED <<req, window, file, schemas>>
          /\ file = permits[req[c].permit].database_instance
      BY <1>0, <2>1 DEF Goto, RequireInstance, dbVars
    <3>2. permits[req[c].permit].database_instance \in Instances
      BY <1>0, <3>1 DEF LocalOK, TypeInv, StoreOK, Permits
    <3> QED BY <1>0, <3>1, <3>2 DEF WindowOK, SeenBy
  <2> QED BY <1>2, <1>3, <2>1 DEF Identify
<1>4. CASE Read(c)
  <2>1. CASE OpenAndRead(c, "read", "version") /\ UNCHANGED dbVars
    <3>1. /\ pc[c] = "read" /\ pc'[c] = "version" /\ UNCHANGED <<window, file, schemas>>
          /\ file # Unusable
          /\ req' = [req EXCEPT ![c].instance = file, ![c].shape = schemas[file].shape]
      BY <1>0, <2>1 DEF OpenAndRead, Goto, dbVars
    <3>2. /\ req'[c].permit = req[c].permit /\ req'[c].instance = file
          /\ req'[c].shape = schemas[file].shape
      BY <1>0, <3>1 DEF Requests
    <3> QED BY <1>0, <3>1, <3>2 DEF WindowOK, SeenBy
  <2> QED BY <1>2, <1>4, <2>1 DEF Read
<1>5. CASE Verify(c)
  <2>1. CASE /\ PermitHolds(req[c].permit, req[c].source, Observed(c), req[c].checkpoint)
             /\ Goto(c, "version", "claim") /\ UNCHANGED <<req, window, dbVars>>
    <3>1. /\ pc[c] = "version" /\ pc'[c] = "claim" /\ UNCHANGED <<req, window, file, schemas>>
          /\ permits[req[c].permit].expected_schema = Observed(c)
      BY <1>0, <2>1 DEF Goto, PermitHolds, dbVars
    <3>2. /\ permits[req[c].permit].expected_schema.shape = req[c].shape
          /\ permits[req[c].permit].expected_schema.version = schemas[req[c].instance].version
      BY <3>1 DEF Observed
    <3> QED BY <1>0, <3>1, <3>2 DEF WindowOK
  <2> QED BY <1>2, <1>5, <2>1 DEF Verify
<1>6. CASE ~(\E p \in PermitIds, source \in Sources : Begin(c, p, source))
           /\ ~Identify(c) /\ ~Read(c) /\ ~Verify(c) /\ ~Leave(c) /\ ~End(c)
  <2>1. pc[c] \in {"claim"} \union Acting /\ pc'[c] \in Acting
    BY <1>0, <1>6 DEF CallerStep, Call, Crash, ClaimPermit, Inspect, Migrate, Reidentify,
       Reread, Conclude, Goto, RunScript, ScriptLocked, OpenAndRead, AmbiguousResult,
       Return, Acting
  <2>2. window'[c] = window[c] \/ Look
    BY <1>6 DEF CallerStep, Call, Crash, ClaimPermit, Inspect, Migrate, Reidentify,
       Reread, Conclude, RunScript, ScriptLocked, OpenAndRead, AmbiguousResult, Return
  <2>3. pc[c] # "idle" /\ pc'[c] \notin {"read", "version", "claim"}
    BY <2>1 DEF Acting
  <2>4. SeenBy(window'[c], file', schemas')
    <3>1. CASE Look
      BY <1>0, <2>3, <3>1, WatchedWindows
    <3>2. CASE window'[c] = window[c] /\ ~Look
      <4>1. UNCHANGED <<file, schemas>>
        BY <3>2, CallerWatch DEF Quiet, Watched
      <4> QED BY <1>0, <2>3, <3>2, <4>1 DEF WindowOK
    <3> QED BY <2>2, <3>1, <3>2
  <2> QED BY <2>3, <2>4 DEF WindowOK
<1> QED BY <1>1, <1>2, <1>3, <1>4, <1>5, <1>6

\* A call that has observed what its script did knows what it read.
LEMMA MoverObserved ==
    ASSUME TypeInv, SightInv, NEW c \in Callers, CallerStep(c)
    PROVE  ObservedOK(c)'
<1>0. /\ LocalOK(c) /\ req[c] \in Requests /\ pc \in [Callers -> Steps]
      /\ req \in [Callers -> Requests] /\ (pc[c] = "reread" => HeldOK(req[c].permit))
  BY DEF SightInv, TypeInv, ThreadOK, LocalOK
<1>1. CASE Reread(c) /\ OpenAndRead(c, "reread", "reversion")
  <2>1. /\ pc[c] = "reread" /\ UNCHANGED <<held, file, schemas>> /\ file # Unusable
        /\ req' = [req EXCEPT ![c].instance = file, ![c].shape = schemas[file].shape]
    BY <1>1 DEF Reread, OpenAndRead, Goto, dbVars
  <2>2. /\ req'[c].permit = req[c].permit /\ req'[c].instance = file
        /\ req'[c].shape = schemas[file].shape
    BY <1>0, <2>1 DEF Requests
  <2>3. Claimed(req[c].permit)
    BY <1>0, <2>1 DEF LocalOK, Acting
  <2> QED BY <1>0, <2>1, <2>2, <2>3 DEF ObservedOK, HeldOK, SeenBy
<1>2. CASE ~(Reread(c) /\ OpenAndRead(c, "reread", "reversion"))
  <2>0. \/ Goto(c, "identify", "read") \/ Goto(c, "read", "version") \/ Goto(c, "version", "claim")
        \/ Goto(c, "claim", "inspect") \/ Goto(c, "inspect", "migrate")
        \/ Goto(c, "migrate", "reidentify") \/ Goto(c, "reidentify", "reread") \/ End(c)
        \/ Goto(c, "idle", "identify") \/ Leave(c)
        => pc'[c] # "reversion"
    BY <1>0 DEF Goto, End, Leave
  <2>2. CASE Crash(c) \/ \E p \in PermitIds, source \in Sources : Begin(c, p, source)
    <3>1. End(c) \/ Goto(c, "idle", "identify")
      BY <2>2 DEF Crash, Begin
    <3> QED BY <2>0, <3>1 DEF ObservedOK
  <2>3. CASE Identify(c) \/ Read(c) \/ Verify(c) \/ ClaimPermit(c)
    BY <2>0, <2>3, ClaimCases DEF Identify, Read, OpenAndRead, Verify, ObservedOK
  <2>4. CASE Inspect(c) \/ Migrate(c) \/ Reidentify(c) \/ Reread(c) \/ Conclude(c)
    BY <1>2, <2>0, <2>4 DEF Inspect, Migrate, RunScript, ScriptLocked, Reidentify, Reread,
       Conclude, AmbiguousResult, Return, ObservedOK
  <2> QED BY <2>2, <2>3, <2>4 DEF CallerStep, Call
<1> QED BY <1>1, <1>2

\* Nothing but a claim changes the registry.
LEMMA ClaimsWritten ==
    ASSUME NEW c \in Callers, CallerStep(c), claims' # claims
    PROVE  ClaimPermit(c)
<1>1. CASE \E q \in PermitIds, source \in Sources : Begin(c, q, source)
  BY <1>1 DEF Begin, authorityVars
<1>2. CASE Crash(c)
  BY <1>2 DEF Crash, authorityVars
<1> QED BY <1>1, <1>2 DEF CallerStep, Call, Identify, Read, Verify, Inspect, Migrate,
           Reidentify, Reread, Conclude, authorityVars

\* A claim is made by a call at that step, and what was there is held with it.
LEMMA ClaimEffects ==
    ASSUME TypeInv, [Next]_vars, NEW p \in PermitIds, ~Claimed(p), Claimed(p)'
    PROVE  \E c \in Callers : /\ CallerStep(c) /\ pc[c] = "claim" /\ req[c].permit = p
                              /\ held'[p] = Sight /\ UNCHANGED <<file, schemas>>
<1>0. held \in [PermitIds -> Sights]
  BY DEF TypeInv, StoreOK
<1>1. claims' # claims
  BY DEF Claimed
<1>2. PICK c \in Callers : ClaimPermit(c)
  <2>1. ASSUME NEW c \in Callers, CallerStep(c) PROVE ClaimPermit(c)
    BY <1>1, <2>1, ClaimsWritten
  <2>2. \E c \in Callers : CallerStep(c)
    BY <1>1, NextCases DEF Mint, AdvanceCheckpoint, Expire, Others, authorityVars, vars
  <2> QED BY <2>1, <2>2
<1>3. /\ claims' = claims \union {[permit |-> req[c].permit, nonce |-> permits[req[c].permit].nonce]}
      /\ held' = [held EXCEPT ![req[c].permit] = Sight]
      /\ UNCHANGED dbVars /\ pc[c] = "claim"
  BY <1>1, <1>2 DEF ClaimPermit
<1>4. req[c].permit = p
  <2>1. PICK row \in claims' : row.permit = p
    BY DEF Claimed
  <2>2. row \notin claims
    BY <2>1 DEF Claimed
  <2> QED BY <1>3, <2>1, <2>2
<1> QED BY <1>0, <1>2, <1>3, <1>4 DEF CallerStep, Call, dbVars

LEMMA SightInit == Init => SightInv
  BY DEF Init, SightInv, WindowOK, ObservedOK, HeldOK, Claimed, ReconciledWasHeld

LEMMA SightStepCaller ==
    ASSUME TypeInv, TypeInv', SightInv, NEW c \in Callers, CallerStep(c)
    PROVE  SightInv'
<1>0. /\ Frame(c) /\ permits' = permits /\ Concludes(c) /\ DBTypeOK /\ DBTypeOK'
      /\ Quiet(c) \/ Watched
      /\ req[c].permit \in PermitIds \/ pc[c] = "idle"
  BY CallerTypes, CallerWatch, ObservingEffects DEF Frame, TypeInv, StoreOK, LocalOK
<1>1. ASSUME NEW d \in Callers PROVE WindowOK(d)' /\ ObservedOK(d)'
  <2>1. CASE d = c
    BY <2>1, MoverWindow, MoverObserved
  <2>2. CASE d # c
    BY <1>0, <2>2, OthersKeepSight DEF Frame
  <2> QED BY <2>1, <2>2
<1>2. ASSUME NEW p \in PermitIds PROVE HeldOK(p)'
  <2>1. CASE Claimed(p)
    BY <1>0, <2>1, ClaimsKeepSight DEF HeldOK
  <2>2. CASE ~Claimed(p) /\ Claimed(p)'
    <3>1. [Next]_vars
      BY DEF CallerStep, Next
    <3>2. held'[p] = Sight /\ UNCHANGED <<file, schemas>>
      BY <2>2, <3>1, ClaimEffects
    <3> QED BY <1>0, <3>2, SightSees DEF HeldOK
  <2> QED BY <2>1, <2>2 DEF HeldOK
<1>3. ReconciledWasHeld'
  <2> SUFFICES ASSUME NEW p \in PermitIds, results'[p] # None, results'[p].state = "RECONCILED"
               PROVE  /\ permits[p].expected_result.shape \in held'[p].shapes
                      /\ permits[p].target_version \in held'[p].versions
    BY <1>0 DEF ReconciledWasHeld
  <2>1. CASE results'[p] = results[p]
    BY <1>0, <2>1, HeldKept
  <2>2. CASE /\ p = req[c].permit /\ pc[c] = "reversion"
             /\ results'[p].state = AuthorityState(p, Observed(c), req[c].status)
    <3>1. Observed(c) = permits[p].expected_result /\ Observed(c).version = permits[p].target_version
      BY <2>2 DEF AuthorityState
    <3>2. /\ req[c].shape = permits[p].expected_result.shape
          /\ schemas[req[c].instance].version = permits[p].target_version
      BY <3>1 DEF Observed
    <3>3. ObservedOK(c) /\ LocalOK(c)
      BY DEF SightInv, TypeInv
    <3>4. Claimed(p)
      BY <2>2, <3>3 DEF LocalOK, Acting
    <3>5. Includes(held'[p], held[p])
      BY <1>0, <3>4, ClaimsKeepSight
    <3> QED BY <2>2, <3>2, <3>3, <3>5 DEF ObservedOK, Includes
  <2> QED BY <1>0, <2>1, <2>2 DEF Concludes
<1> QED BY <1>1, <1>2, <1>3 DEF SightInv

LEMMA SightStep == TypeInv /\ SightInv /\ [Next]_vars => SightInv'
<1> SUFFICES ASSUME TypeInv, SightInv, [Next]_vars PROVE SightInv'
  OBVIOUS
<1>0. TypeInv'
  BY TypeStep
<1>1. ASSUME NEW c \in Callers, CallerStep(c) PROVE SightInv'
  BY <1>0, <1>1, SightStepCaller
<1>2. ASSUME NEW p \in PermitIds, NEW source \in Sources, NEW nonce \in Nonces,
             NEW trusted \in Trusted, Mint(p, source, nonce, trusted)
      PROVE SightInv'
  <2>1. /\ UNCHANGED <<file, schemas, pc, req, results, claims, window, held>> /\ permits[p] = None
        /\ \A q \in PermitIds \ {p} : permits'[q] = permits[q]
    BY <1>2, MintTypes DEF Mint, dbVars, callVars, historyVars
  <2>2. results[p] = None
    BY <2>1 DEF TypeInv, StoreOK, Claimed
  <2>3. \A c \in Callers : WindowOK(c)' /\ ObservedOK(c)'
    BY <2>1 DEF SightInv, WindowOK, ObservedOK, TypeInv, LocalOK
  <2>4. \A q \in PermitIds : HeldOK(q)'
    BY <2>1 DEF SightInv, HeldOK, Claimed
  <2>5. ReconciledWasHeld'
    BY <2>1, <2>2 DEF SightInv, ReconciledWasHeld
  <2> QED BY <2>3, <2>4, <2>5 DEF SightInv
<1>3. CASE Others
  <2>1. UNCHANGED <<permits, claims, pc, req, results>> /\ DBTypeOK'
    BY <1>0, <1>3 DEF Others, authorityVars, callVars, TypeInv, StoreOK
  <2>2. Watched
    <3>1. CASE WriteSchema
      BY <1>3, <3>1 DEF Others, WriteSchema, Watched, TypeInv, StoreOK, DBTypeOK
    <3>2. CASE ReplaceFile
      BY <1>3, <3>2 DEF Others, ReplaceFile, Watched
    <3> QED BY <1>3, <3>1, <3>2 DEF Others, DBNext
  <2>3. \A c \in Callers : WindowOK(c)' /\ ObservedOK(c)'
    BY <1>0, <2>1, <2>2, OthersKeepSight
  <2>4. \A p \in PermitIds : HeldOK(p)'
    BY <2>1, <2>2, ClaimsKeepSight DEF HeldOK, Claimed
  <2>5. ReconciledWasHeld'
    BY <1>0, <2>1, <2>2, HeldKept DEF ReconciledWasHeld
  <2> QED BY <2>3, <2>4, <2>5 DEF SightInv
<1>4. CASE AdvanceCheckpoint \/ (\E p \in PermitIds : Expire(p)) \/ UNCHANGED vars
  <2>1. UNCHANGED <<file, schemas, permits, claims, pc, req, results, window, held>>
    BY <1>4 DEF AdvanceCheckpoint, Expire, dbVars, callVars, historyVars, authorityVars, vars
  <2> QED BY <2>1 DEF SightInv, WindowOK, ObservedOK, HeldOK, Claimed, ReconciledWasHeld
<1> QED BY <1>1, <1>2, <1>3, <1>4, NextCases

LEMMA SightAlways == Spec => []SightInv
<1>1. TypeInv /\ SightInv /\ [Next]_vars => SightInv'
  BY SightStep
<1> QED BY <1>1, SightInit, TypeAlways, PTL DEF Spec

\* RECONCILED is said only of contents and a version that were there after the claim.
THEOREM ReconciledMeansHeld == Spec => []ReconciledWasHeld
<1>1. SightInv => ReconciledWasHeld
  BY DEF SightInv
<1> QED BY <1>1, SightAlways, PTL

\* A claim rests on what was there to be seen since its call began.
THEOREM ClaimsAreObserved == Spec => ClaimsRestOnObservation
<1> DEFINE Supported(p) ==
      \E c \in Callers :
         /\ req[c].permit = p
         /\ permits[p].database_instance \in window[c].files
         /\ permits[p].expected_schema.shape \in window[c].shapes
         /\ permits[p].expected_schema.version \in window[c].versions
    ClaimOK == \A p \in PermitIds : Claimed(p)' /\ ~Claimed(p) => Supported(p)
<1>1. TypeInv /\ SightInv /\ [Next]_vars => [ClaimOK]_vars
  <2> SUFFICES ASSUME TypeInv, SightInv, [Next]_vars, NEW p \in PermitIds,
                      Claimed(p)', ~Claimed(p)
               PROVE  Supported(p)
    OBVIOUS
  <2>1. PICK c \in Callers : pc[c] = "claim" /\ req[c].permit = p
    BY ClaimEffects
  <2> QED BY <2>1 DEF SightInv, WindowOK
<1> QED BY <1>1, SightAlways, TypeAlways, PTL DEF Spec, ClaimsRestOnObservation

-----------------------------------------------------------------------------
(* A claim that nobody attends to costs a crash, or a registry that cannot be read *)

Attended == {req[c].permit : c \in {d \in Callers : pc[d] \in Acting}}
Lost == {p \in PermitIds : Claimed(p) /\ results[p] = None /\ p \notin Attended}
AttendInv == IsFiniteSet(Lost) /\ Cardinality(Lost) <= crashes + failures

\* A call ends after its claim, and leaves no result.
Faults(c) == Crash(c) \/ (ClaimPermit(c) /\ RootRaises)

\* A call that acts stays with its permit or gives it a result, and a claim that is
\* made is attended to by the call that makes it; unless the call is cut off.
Attends(c) ==
    /\ pc[c] \in Acting => \/ pc'[c] \in Acting /\ req'[c].permit = req[c].permit
                           \/ results'[req[c].permit] # None
    /\ \A p \in PermitIds : Claimed(p)' =>
          Claimed(p) \/ (pc'[c] \in Acting /\ req'[c].permit = p)

LEMMA CallerAttends ==
    ASSUME TypeInv, NEW c \in Callers, CallerStep(c), ~Faults(c)
    PROVE  Attends(c) /\ crashes' = crashes /\ failures' = failures
<1>0. /\ pc \in [Callers -> Steps] /\ GoesOn(c) /\ LocalOK(c)
      /\ results \in [PermitIds -> Results \union {None}]
  BY CallerEffects DEF TypeInv, ThreadOK, StoreOK
<1>1. crashes' = crashes /\ failures' = failures
  <2>1. CASE \E p \in PermitIds, source \in Sources : Begin(c, p, source)
    BY <2>1 DEF Begin, clockVars
  <2>2. CASE ClaimPermit(c)
    BY <2>2, ClaimCases DEF Faults
  <2> QED BY <2>1, <2>2 DEF CallerStep, Call, Faults, Identify, Read, Verify, Inspect, Migrate,
             Reidentify, Reread, Conclude, clockVars
<1>2. CASE ClaimPermit(c)
  <2>1. CASE claims' = claims
    <3>1. pc[c] \notin Acting
      BY <1>2, ClaimCases DEF Acting
    <3>2. \A p \in PermitIds : Claimed(p)' => Claimed(p)
      BY <2>1 DEF Claimed
    <3> QED BY <1>1, <3>1, <3>2 DEF Attends
  <2>2. CASE /\ Goto(c, "claim", "inspect") /\ req' = req
             /\ claims' = claims \union
                   {[permit |-> req[c].permit, nonce |-> permits[req[c].permit].nonce]}
    <3>1. pc'[c] \in Acting /\ pc[c] \notin Acting
      BY <1>0, <2>2 DEF Goto, Acting
    <3>2. \A row \in claims' : row \in claims \/ row.permit = req[c].permit
      BY <2>2
    <3>3. \A p \in PermitIds : Claimed(p)' => Claimed(p) \/ req[c].permit = p
      BY <3>2 DEF Claimed
    <3> QED BY <1>1, <2>2, <3>1, <3>3 DEF Attends
  <2> QED BY <1>2, <2>1, <2>2, ClaimCases DEF Faults, MakesClaim
<1>3. CASE ~ClaimPermit(c)
  <2>1. claims' = claims
    <3>1. CASE \E p \in PermitIds, source \in Sources : Begin(c, p, source)
      BY <3>1 DEF Begin, authorityVars
    <3> QED BY <1>3, <3>1 DEF CallerStep, Call, Faults, Identify, Read, Verify, Inspect, Migrate,
               Reidentify, Reread, Conclude, authorityVars
  <2>2. ASSUME pc[c] \in Acting, pc'[c] \notin Acting
        PROVE  \E state \in States, status \in Statuses : Return(c, state, status)
    <3>1. Inspect(c) \/ Migrate(c) \/ Reidentify(c) \/ Reread(c) \/ Conclude(c)
      <4>1. CASE \E p \in PermitIds, source \in Sources : Begin(c, p, source)
        BY <2>2, <4>1 DEF Begin, Goto, Acting
      <4> QED BY <1>3, <2>2, <4>1 DEF CallerStep, Call, Faults, Identify, Read, Verify, Acting
    <3>2. AmbiguousResult(c) => \E state \in States, status \in Statuses : Return(c, state, status)
      BY DEF AmbiguousResult, States, Statuses
    <3>3. CASE Inspect(c) \/ Reidentify(c) \/ Reread(c)
      BY <1>0, <2>2, <3>2, <3>3 DEF Inspect, Reidentify, Reread, OpenAndRead, Goto, Acting
    <3>4. CASE Migrate(c)
      BY <1>0, <2>2, <3>2, <3>4 DEF Migrate, RunScript, ScriptLocked, Goto, Acting
    <3>5. CASE Conclude(c)
      <4>1. AuthorityState(req[c].permit, Observed(c), req[c].status) \in States
        BY DEF AuthorityState, States
      <4>2. req[c].status \in Statuses
        BY <1>0, <3>5 DEF Conclude, LocalOK
      <4> QED BY <3>2, <3>5, <4>1, <4>2 DEF Conclude
    <3> QED BY <3>1, <3>3, <3>4, <3>5
  <2>3. ASSUME pc[c] \in Acting, pc'[c] \notin Acting PROVE results'[req[c].permit] # None
    <3>1. PICK state \in States, status \in Statuses : Return(c, state, status)
      BY <2>2, <2>3
    <3>2. results'[req[c].permit] = [state |-> state, status |-> status]
      BY <1>0, <2>3, <3>1 DEF Return, LocalOK, Acting
    <3>3. [state |-> state, status |-> status] # None
      BY RecordsAssumption DEF Results
    <3> QED BY <3>2, <3>3
  <2>4. \A p \in PermitIds : Claimed(p)' => Claimed(p)
    BY <2>1 DEF Claimed
  <2>5. pc[c] \in Acting /\ pc'[c] \in Acting => req'[c].permit = req[c].permit
    BY <1>0 DEF GoesOn, Acting
  <2> QED BY <1>1, <2>3, <2>4, <2>5 DEF Attends
<1> QED BY <1>1, <1>2, <1>3

\* Then what is lost was lost before, ...
LEMMA NothingNewIsLost ==
    ASSUME TypeInv, UseInv, NEW c \in Callers, CallerStep(c), ~Faults(c)
    PROVE  Lost' \subseteq Lost
<1>0. /\ Attends(c) /\ Frame(c) /\ ResultsWritten(c) /\ LocalOK(c)
      /\ results \in [PermitIds -> Results \union {None}]
  BY CallerAttends, CallerTypes, CallerEffects DEF TypeInv, StoreOK
<1> SUFFICES ASSUME NEW p \in Lost' PROVE p \in Lost
  OBVIOUS
<1>1. /\ p \in PermitIds /\ Claimed(p)' /\ results'[p] = None
      /\ \A d \in Callers : pc'[d] \in Acting => req'[d].permit # p
  BY DEF Lost, Attended
<1>2. Claimed(p)
  BY <1>0, <1>1 DEF Attends
<1>3. ~(pc[c] \in Acting /\ req[c].permit = p)
  BY <1>0, <1>1 DEF Attends
<1>4. \A d \in Callers : pc[d] \in Acting => req[d].permit # p
  BY <1>0, <1>1, <1>3 DEF Frame
<1>5. results[p] = None
  BY <1>0, <1>1, <1>3 DEF ResultsWritten
<1> QED BY <1>1, <1>2, <1>4, <1>5 DEF Lost, Attended

\* ... and a call that is cut off loses no claim but its own.
LEMMA FaultLosesOne ==
    ASSUME TypeInv, NEW c \in Callers, Faults(c)
    PROVE  /\ Lost' \subseteq Lost \union {req[c].permit}
           /\ \/ crashes' = crashes + 1 /\ failures' = failures
              \/ crashes' = crashes /\ failures' = failures + 1
<1>0. Frame(c)
  BY CallerTypes DEF CallerStep, Call, Faults
<1>5. \/ crashes' = crashes + 1 /\ failures' = failures
      \/ crashes' = crashes /\ failures' = failures + 1
  BY ClaimCases DEF Faults, Crash, RootRaises
<1> SUFFICES ASSUME NEW p \in Lost', p # req[c].permit PROVE p \in Lost
  BY <1>5
<1>1. /\ results' = results
      /\ \A row \in claims' : row \in claims \/ row.permit = req[c].permit
  <2>1. CASE Crash(c)
    BY <2>1 DEF Crash, authorityVars
  <2>2. CASE ClaimPermit(c)
    BY <2>2, ClaimCases DEF MakesClaim
  <2> QED BY <2>1, <2>2 DEF Faults
<1>2. /\ p \in PermitIds /\ Claimed(p)' /\ results'[p] = None
      /\ \A d \in Callers : pc'[d] \in Acting => req'[d].permit # p
  BY DEF Lost, Attended
<1>3. \A d \in Callers : pc[d] \in Acting => req[d].permit # p
  BY <1>0, <1>2 DEF Frame
<1>4. Claimed(p)
  BY <1>1, <1>2 DEF Claimed
<1> QED BY <1>1, <1>2, <1>3, <1>4 DEF Lost, Attended

LEMMA AttendInit == Init => AttendInv
<1> SUFFICES ASSUME Init PROVE AttendInv
  OBVIOUS
<1>1. Lost = {} /\ crashes = 0 /\ failures = 0
  BY DEF Init, Lost, Claimed
<1> QED BY <1>1, FS_EmptySet DEF AttendInv

LEMMA AttendStep == TypeInv /\ UseInv /\ AttendInv /\ [Next]_vars => AttendInv'
<1> SUFFICES ASSUME TypeInv, UseInv, AttendInv, [Next]_vars PROVE AttendInv'
  OBVIOUS
<1>0. IsFiniteSet(Lost) /\ Cardinality(Lost) <= crashes + failures
      /\ crashes \in Nat /\ failures \in Nat /\ Cardinality(Lost) \in Nat
  BY FS_CardinalityType, MigrationAssumption DEF AttendInv, TypeInv, StoreOK
<1>1. CASE Lost' \subseteq Lost /\ crashes' = crashes /\ failures' = failures
  <2>1. IsFiniteSet(Lost') /\ Cardinality(Lost') <= Cardinality(Lost)
    BY <1>0, <1>1, FS_Subset
  <2>2. Cardinality(Lost') \in Nat
    BY <2>1, FS_CardinalityType
  <2> QED BY <1>0, <1>1, <2>1, <2>2 DEF AttendInv
<1>2. ASSUME NEW c \in Callers, CallerStep(c) PROVE AttendInv'
  <2>1. CASE ~Faults(c)
    BY <1>1, <1>2, <2>1, CallerAttends, NothingNewIsLost
  <2>2. CASE Faults(c)
    <3> DEFINE Wider == Lost \union {req[c].permit}
    <3>1. IsFiniteSet(Wider) /\ Cardinality(Wider) <= Cardinality(Lost) + 1
      BY <1>0, FS_AddElement
    <3>2. /\ Lost' \subseteq Wider
          /\ \/ crashes' = crashes + 1 /\ failures' = failures
             \/ crashes' = crashes /\ failures' = failures + 1
      BY <2>2, FaultLosesOne
    <3> HIDE DEF Wider
    <3>3. IsFiniteSet(Lost') /\ Cardinality(Lost') <= Cardinality(Wider)
      BY <3>1, <3>2, FS_Subset
    <3>4. Cardinality(Lost') \in Nat /\ Cardinality(Wider) \in Nat
      BY <3>1, <3>3, FS_CardinalityType
    <3> QED BY <1>0, <3>1, <3>2, <3>3, <3>4 DEF AttendInv
  <2> QED BY <2>1, <2>2
<1>3. CASE \/ \E p \in PermitIds, source \in Sources, nonce \in Nonces, trusted \in Trusted :
                 Mint(p, source, nonce, trusted)
           \/ AdvanceCheckpoint \/ (\E p \in PermitIds : Expire(p)) \/ Others
           \/ UNCHANGED vars
  <2>1. UNCHANGED <<pc, req, claims, results, crashes, failures>>
    BY <1>3 DEF Mint, AdvanceCheckpoint, Expire, Others, callVars, authorityVars, clockVars, vars
  <2>2. Lost' = Lost
    BY <2>1 DEF Lost, Attended, Claimed
  <2> QED BY <1>1, <2>1, <2>2
<1> QED BY <1>2, <1>3, NextCases

\* Whatever the adapter raises, a claim has its result or a call that is about to give
\* it one: of the claims that have neither there is no more than one for each crash and
\* for each read of the registry that raised after a claim.
THEOREM ClaimsAttended == Spec => []ClaimsAreAttended
<1>1. AttendInv => ClaimsAreAttended
  BY DEF AttendInv, ClaimsAreAttended, Lost, Attended
<1>2. TypeInv /\ UseInv /\ AttendInv /\ [Next]_vars => AttendInv'
  BY AttendStep
<1> QED BY <1>1, <1>2, AttendInit, TypeAlways, UseAlways, PTL DEF Spec

-----------------------------------------------------------------------------
(* The claim comes first *)

\* What a caller's step is to the abstract authority: a claim consumes, the run of
\* the script is the effect, a return concludes, and nothing else is seen.
LEMMA ConsumptionStepCaller ==
    ASSUME TypeInv, UseInv, NEW c \in Callers, CallerStep(c)
    PROVE  [Consumption!Next]_(Consumption!consumptionVars)
<1> DEFINE Consumed == {q \in PermitIds : Claimed(q)}
           Run == [q \in PermitIds |-> Len(runs[q])]
<1>0. /\ GoesOn(c) /\ RunsWritten(c) /\ ResultsWritten(c) /\ LocalOK(c) /\ OwnerOK(c)
      /\ runs \in [PermitIds -> Seq(Runs)]
      /\ results \in [PermitIds -> Results \union {None}]
      /\ results' \in [PermitIds -> Results \union {None}]
      /\ pc[c] # "idle" => req[c].permit \in PermitIds
      /\ claims' # claims => ClaimPermit(c)
  BY CallerEffects, CallerTypes, ClaimsWritten DEF TypeInv, UseInv, StoreOK, LocalOK
<1>1. PICK p : p = req[c].permit
  OBVIOUS
<1>2. CASE claims' # claims
  <2>1. /\ pc[c] = "claim" /\ UNCHANGED <<runs, results>> /\ Claimable(p)
        /\ claims' = claims \union {[permit |-> p, nonce |-> permits[p].nonce]}
    BY <1>0, <1>1, <1>2 DEF ClaimPermit
  <2>2. p \in PermitIds /\ p \notin Consumed
    BY <1>0, <1>1, <2>1 DEF Claimable, Claimed
  <2>3. Consumed' = Consumed \union {p}
    <3>1. PICK row : row.permit = p /\ claims' = claims \union {row}
      BY <2>1
    <3>2. \A q \in PermitIds : Claimed(q)' <=> Claimed(q) \/ q = p
      BY <3>1 DEF Claimed
    <3> QED BY <2>2, <3>2
  <2>4. Consumption!Consume(p)
    BY <2>1, <2>2, <2>3 DEF Consumption!Consume
  <2> QED BY <2>2, <2>4 DEF Consumption!Next
<1>3. CASE claims' = claims /\ runs' # runs
  <2>1. pc[c] = "migrate" /\ pc'[c] = "reidentify" /\ RunScript(c, p)
    BY <1>0, <1>1, <1>3 DEF RunsWritten
  <2>2. /\ p \in PermitIds /\ Claimed(p) /\ runs[p] = <<>> /\ results[p] = None
    BY <1>0, <1>1, <2>1 DEF LocalOK, OwnerOK, Acting
  <2>3. PICK run : runs' = [runs EXCEPT ![p] = Append(@, run)]
    BY <2>1 DEF RunScript
  <2>4. runs'[p] = <<run>> /\ \A q \in PermitIds \ {p} : runs'[q] = runs[q]
    BY <1>0, <2>2, <2>3
  <2>5. Run[p] = 0 /\ Run'[p] = 1 /\ \A q \in PermitIds \ {p} : Run'[q] = Run[q]
    BY <2>2, <2>4
  <2>6. Run' = [Run EXCEPT ![p] = 1]
    BY <2>2, <2>5
  <2>7. results' = results /\ Consumed' = Consumed /\ p \in Consumed
    BY <1>3, <2>1, <2>2 DEF RunScript, Claimed
  <2>8. Consumption!Affect(p)
    BY <2>2, <2>5, <2>6, <2>7 DEF Consumption!Affect
  <2> QED BY <2>2, <2>8 DEF Consumption!Next
<1>4. CASE claims' = claims /\ runs' = runs /\ results' # results
  <2>1. /\ pc[c] \in Acting
        /\ \A q \in PermitIds \ {p} : results'[q] = results[q]
    BY <1>0, <1>1, <1>4 DEF ResultsWritten
  <2>2. p \in PermitIds /\ Claimed(p) /\ results[p] = None
    BY <1>0, <1>1, <2>1 DEF LocalOK, OwnerOK, Acting
  <2>3. results'[p] # results[p]
    BY <1>0, <1>4, <2>1
  <2>4. results'[p] \in Results
    BY <1>0, <2>2, <2>3
  <2>5. results' = [results EXCEPT ![p] = results'[p]]
    BY <1>0, <2>1, <2>2
  <2>6. Consumed' = Consumed /\ p \in Consumed /\ Run' = Run
    BY <1>4, <2>2 DEF Claimed
  <2>7. Consumption!Conclude(p)
    BY <2>2, <2>4, <2>5, <2>6 DEF Consumption!Conclude
  <2> QED BY <2>2, <2>7 DEF Consumption!Next
<1>5. CASE UNCHANGED <<claims, runs, results>>
  BY <1>5 DEF Consumption!consumptionVars, Claimed
<1> QED BY <1>2, <1>3, <1>4, <1>5

\* Whatever callers, scripts, others at the database and crashes do, the migration
\* consumes a permit before its script runs, runs it once, and gives one result.
THEOREM MigrationConsumesFirst == Spec => ConsumesFirst
<1>1. Init => Consumption!Init
  BY DEF Init, Consumption!Init, Claimed
<1>2. TypeInv /\ UseInv /\ [Next]_vars => [Consumption!Next]_(Consumption!consumptionVars)
  <2> SUFFICES ASSUME TypeInv, UseInv, [Next]_vars
               PROVE  [Consumption!Next]_(Consumption!consumptionVars)
    OBVIOUS
  <2>1. ASSUME NEW c \in Callers, CallerStep(c)
        PROVE  [Consumption!Next]_(Consumption!consumptionVars)
    BY <2>1, ConsumptionStepCaller
  <2>2. ASSUME UNCHANGED <<claims, runs, results>>
        PROVE  UNCHANGED Consumption!consumptionVars
    BY <2>2 DEF Consumption!consumptionVars, Claimed
  <2>3. ASSUME NEW p \in PermitIds, NEW source \in Sources, NEW nonce \in Nonces,
               NEW trusted \in Trusted, Mint(p, source, nonce, trusted)
        PROVE  UNCHANGED <<claims, runs, results>>
    BY <2>3 DEF Mint, historyVars
  <2>4. CASE AdvanceCheckpoint \/ (\E p \in PermitIds : Expire(p)) \/ Others \/ UNCHANGED vars
    BY <2>2, <2>4 DEF AdvanceCheckpoint, Expire, Others, authorityVars, historyVars, vars
  <2> QED BY <2>1, <2>2, <2>3, <2>4, NextCases
<1> QED BY <1>1, <1>2, TypeAlways, UseAlways, PTL DEF Spec, ConsumesFirst, Consumption!Spec

-----------------------------------------------------------------------------
(* How far the promise about replay states holds that the code does not keep *)

OneCaller == \A c, d \in Callers : c = d

\* The claims that a permit bound to a checkpoint was minted against.
Trusting(p) == permits[p].trust # None
Past(p) == permits[p].trust.replay_root.claims

\* Claims under trusted permits were each made when exactly the permit's past was
\* claimed, and the claim that is to be made next will be.
ReplayInv ==
    /\ \A row \in claims : Trusting(row.permit) => row \notin Past(row.permit)
    /\ \A a, b \in claims : Trusting(a.permit) /\ Trusting(b.permit)
                           /\ Past(a.permit) = Past(b.permit) => a = b
    /\ \A c \in Callers : pc[c] = "claim" /\ Trusting(req[c].permit) =>
          Past(req[c].permit) = claims

\* The permit that a call takes to its claim is bound to the registry as it is.
LEMMA VerifiedPast ==
    ASSUME TypeInv, NEW c \in Callers, CallerStep(c), pc'[c] = "claim", Trusting(req[c].permit)
    PROVE  Past(req[c].permit) = claims /\ req'[c] = req[c] /\ UNCHANGED <<claims, permits>>
<1>1. pc[c] = "version" /\ req'[c] = req[c]
  BY CallerEffects DEF GoesOn, Acting
<1>2. pc'[c] # "idle"
  OBVIOUS
<1>3. Verify(c)
  BY <1>1, <1>2 DEF CallerStep, Begin, Crash, End, Leave, TypeInv, ThreadOK, Call, Identify, Read,
     OpenAndRead, ClaimPermit, Inspect, Migrate, RunScript, ScriptLocked, AmbiguousResult, Return,
     Reidentify, Reread, Conclude, Goto
<1>4. TrustValid(req[c].permit, req[c].checkpoint) /\ UNCHANGED <<claims, permits>>
  BY <1>2, <1>3 DEF Verify, PermitHolds, End, Leave, TypeInv, ThreadOK, authorityVars
<1>5. permits[req[c].permit].trust.replay_root = ReplayRegistryRoot(claims)
  BY <1>4 DEF TrustValid, Trusting, VerifyTrustCheckpoint, TrustHolds
<1> QED BY <1>1, <1>4, <1>5 DEF Past, ReplayRegistryRoot

LEMMA ReplayStepCaller ==
    ASSUME OneCaller, TypeInv, ReplayInv, NEW c \in Callers, CallerStep(c)
    PROVE  ReplayInv'
<1>1. permits' = permits /\ \A d \in Callers : d = c
  BY CallerTypes DEF Frame, OneCaller
<1>2. \A p : (Trusting(p)' <=> Trusting(p)) /\ Past(p)' = Past(p)
  BY <1>1 DEF Trusting, Past
<1>3. pc'[c] = "claim" => claims' = claims /\ (Trusting(req'[c].permit) => Past(req'[c].permit) = claims)
  <2>1. SUFFICES ASSUME pc'[c] = "claim"
                 PROVE  /\ claims' = claims
                        /\ Trusting(req'[c].permit) => Past(req'[c].permit) = claims
    OBVIOUS
  <2>2. pc[c] = "version" /\ req'[c] = req[c]
    BY <2>1, CallerEffects DEF GoesOn, Acting
  <2>3. claims' = claims
    BY <2>2, ClaimsWritten DEF ClaimPermit
  <2> QED BY <2>1, <2>2, <2>3, VerifiedPast
<1>4. CASE claims' = claims
  BY <1>1, <1>2, <1>3, <1>4 DEF ReplayInv, Trusting, Past
<1>5. CASE claims' # claims
  <2>1. PICK row : /\ claims' = claims \union {row} /\ row \notin claims
                   /\ Trusting(row.permit) => Past(row.permit) = claims
    <3>1. ClaimPermit(c)
      BY <1>5, ClaimsWritten
    <3>2. PICK p : p = req[c].permit
      OBVIOUS
    <3>3. PICK row : row = [permit |-> p, nonce |-> permits[p].nonce]
      OBVIOUS
    <3>4. /\ claims' = claims \union {row} /\ pc[c] = "claim"
          /\ row.permit = req[c].permit /\ row \notin claims
      BY <1>5, <3>1, <3>2, <3>3 DEF ClaimPermit
    <3> QED BY <3>4 DEF ReplayInv
  <2>2. \A d \in Callers : pc'[d] # "claim"
    BY <1>1, <1>3, <1>5
  <2>3. \A a \in claims : Trusting(a.permit) => Past(a.permit) # claims
    BY DEF ReplayInv
  <2>4. \A a \in claims' : Trusting(a.permit) => a \notin Past(a.permit)
    BY <2>1 DEF ReplayInv
  <2>5. \A a, b \in claims' : Trusting(a.permit) /\ Trusting(b.permit)
                            /\ Past(a.permit) = Past(b.permit) => a = b
    BY <2>1, <2>3 DEF ReplayInv
  <2> QED BY <1>1, <2>2, <2>4, <2>5 DEF ReplayInv, Trusting, Past
<1> QED BY <1>4, <1>5

LEMMA ReplayStep ==
    ASSUME OneCaller
    PROVE  TypeInv /\ ReplayInv /\ [Next]_vars => ReplayInv'
<1> SUFFICES ASSUME TypeInv, ReplayInv, [Next]_vars PROVE ReplayInv'
  OBVIOUS
<1>1. ASSUME NEW c \in Callers, CallerStep(c) PROVE ReplayInv'
  BY <1>1, ReplayStepCaller
<1>2. ASSUME NEW p \in PermitIds, NEW source \in Sources, NEW nonce \in Nonces,
             NEW trusted \in Trusted, Mint(p, source, nonce, trusted)
      PROVE ReplayInv'
  <2>1. /\ UNCHANGED <<pc, req, claims>> /\ permits[p] = None
        /\ \A q \in PermitIds \ {p} : permits'[q] = permits[q]
    BY <1>2, MintTypes DEF Mint, callVars
  <2>2. \A row \in claims : row.permit \in PermitIds \ {p}
    BY <2>1 DEF TypeInv, StoreOK, Claim
  <2>3. \A c \in Callers : pc[c] = "claim" => req[c].permit \in PermitIds \ {p}
    BY <2>1 DEF TypeInv, LocalOK
  <2> QED BY <2>1, <2>2, <2>3 DEF ReplayInv, Trusting, Past
<1>3. CASE AdvanceCheckpoint \/ (\E p \in PermitIds : Expire(p)) \/ Others \/ UNCHANGED vars
  <2>1. UNCHANGED <<permits, pc, req, claims>>
    BY <1>3 DEF AdvanceCheckpoint, Expire, Others, callVars, authorityVars, vars
  <2> QED BY <2>1 DEF ReplayInv, Trusting, Past
<1> QED BY <1>1, <1>2, <1>3, NextCases

LEMMA ReplayAlways ==
    ASSUME OneCaller
    PROVE  Spec => []ReplayInv
<1>1. Init => ReplayInv
  BY DEF Init, ReplayInv
<1> QED BY <1>1, ReplayStep, TypeAlways, PTL DEF Spec

\* It is the race alone that claims twice from one registry state, as the run that
\* refutes the promise shows it: while one call at a time is made, whoever moves the
\* checkpoint on or fails to, dies or comes back, each trusted claim has its own.
THEOREM OneCallerOneClaim ==
    ASSUME OneCaller
    PROVE  Spec => []OneClaimPerReplayState
<1>1. ReplayInv => OneClaimPerReplayState
  BY DEF ReplayInv, OneClaimPerReplayState, Trusting, Past
<1> QED BY <1>1, ReplayAlways, PTL

-----------------------------------------------------------------------------
(* While one call is made at a time, the migration is the single-use authority *)

\* The mapped state.  A permit is bound to the permits its checkpoint knew as claimed.
BoundTo(p) == IF permits[p] = None THEN None ELSE {row.permit : row \in Past(p)}
Bound == [p \in PermitIds |-> BoundTo(p)]
Spent == {p \in PermitIds : Claimed(p)}
Said == [p \in PermitIds |-> IF results[p] = None THEN {} ELSE {results[p]}]
Authority == INSTANCE SingleUseAuthority WITH
    Outcomes <- Results,
    bound <- Bound,
    spent <- Spent,
    acts <- [p \in PermitIds |-> Len(runs[p])],
    said <- Said
ImplementsAuthority == Authority!Spec

\* Every permit is minted with a checkpoint.
AllTrusting == Trusted \subseteq {TRUE}

\* A checkpoint commits only claims that were made.
PastInv ==
    /\ Roots(checkpoint).replay.claims \subseteq claims
    /\ \A p \in PermitIds : permits[p] # None => Trusting(p)

\* What minting binds a permit to.
LEMMA MintBinds ==
    ASSUME TypeInv, NEW p \in PermitIds, NEW source \in Sources, NEW nonce \in Nonces,
           NEW trusted \in Trusted, Mint(p, source, nonce, trusted), AllTrusting
    PROVE  /\ permits[p] = None /\ permits'[p] # None /\ Trusting(p)'
           /\ permits'[p].trust = TrustConstraints(checkpoint)
           /\ \A q \in PermitIds \ {p} : permits'[q] = permits[q]
           /\ UNCHANGED <<claims, checkpoint, runs, results>>
<1>1. /\ permits[p] = None /\ permits'[p] # None
      /\ \A q \in PermitIds \ {p} : permits'[q] = permits[q]
      /\ StoreOK'
  BY MintTypes
<1>2. permits'[p].trust = TrustConstraints(checkpoint)
  <2>1. trusted = TRUE /\ permits \in [PermitIds -> Permits \union {None}]
    BY DEF AllTrusting, TypeInv, StoreOK
  <2>2. PICK permit : permits' = [permits EXCEPT ![p] = permit]
                      /\ permit.trust = TrustConstraints(checkpoint)
    <3>1. PICK target \in Versions :
             permits' = [permits EXCEPT ![p] =
               [database_instance |-> file, expected_schema |-> schemas[file],
                expected_result |-> After(source, schemas[file], target),
                source |-> source, target_version |-> target, nonce |-> nonce,
                trust |-> IF trusted THEN TrustConstraints(checkpoint) ELSE None]]
      BY DEF Mint
    <3>2. PICK permit :
             permit = [database_instance |-> file, expected_schema |-> schemas[file],
                       expected_result |-> After(source, schemas[file], target),
                       source |-> source, target_version |-> target, nonce |-> nonce,
                       trust |-> IF trusted THEN TrustConstraints(checkpoint) ELSE None]
      OBVIOUS
    <3>3. permit.trust = TrustConstraints(checkpoint)
      BY <2>1, <3>2
    <3> QED BY <3>1, <3>2, <3>3
  <2> QED BY <2>1, <2>2
<1>3. permits'[p].trust # None
  <2>1. TrustConstraints(checkpoint) \in TrustRecords
    BY CheckpointTypes DEF TypeInv, StoreOK
  <2> QED BY <1>2, <2>1, RecordsAssumption
<1>4. UNCHANGED <<claims, checkpoint, runs, results>>
  BY DEF Mint, historyVars
<1> QED BY <1>1, <1>2, <1>3, <1>4 DEF Trusting

LEMMA PastAlways ==
    ASSUME AllTrusting
    PROVE  Spec => []PastInv
<1>1. Init => PastInv
  BY DEF Init, PastInv, GenesisCheckpoint, Roots, ReplayRegistryRoot
<1>2. TypeInv /\ PastInv /\ [Next]_vars => PastInv'
  <2> SUFFICES ASSUME TypeInv, PastInv, [Next]_vars PROVE PastInv'
    OBVIOUS
  <2>1. ASSUME NEW c \in Callers, CallerStep(c) PROVE PastInv'
    <3>1. UNCHANGED <<permits, checkpoint>> /\ claims \subseteq claims'
      BY <2>1, CallerTypes DEF Frame
    <3> QED BY <3>1 DEF PastInv, Trusting
  <2>2. ASSUME NEW p \in PermitIds, NEW source \in Sources, NEW nonce \in Nonces,
               NEW trusted \in Trusted, Mint(p, source, nonce, trusted)
        PROVE PastInv'
    BY <2>2, MintBinds DEF PastInv, Trusting
  <2>3. CASE AdvanceCheckpoint
    <3>1. checkpoint \in Checkpoints /\ UNCHANGED <<claims, permits>>
          /\ checkpoint' = NextTrustCheckpoint(checkpoint, claims, EmptyRoot)
      BY <2>3 DEF AdvanceCheckpoint, TypeInv, StoreOK
    <3>2. Roots(checkpoint').replay.claims = claims
      BY <3>1 DEF NextTrustCheckpoint, Roots, ReplayRegistryRoot, Checkpoints
    <3> QED BY <3>1, <3>2 DEF PastInv, Trusting
  <2>4. CASE (\E p \in PermitIds : Expire(p)) \/ Others \/ UNCHANGED vars
    BY <2>4 DEF Expire, Others, authorityVars, vars, PastInv, Trusting
  <2> QED BY <2>1, <2>2, <2>3, <2>4, NextCases
<1> QED BY <1>1, <1>2, TypeAlways, PTL DEF Spec

\* Minting is granting, against a registry of the past.
LEMMA MintGrants ==
    ASSUME TypeInv, PastInv, NEW p \in PermitIds, NEW source \in Sources,
           NEW nonce \in Nonces, NEW trusted \in Trusted, Mint(p, source, nonce, trusted),
           AllTrusting
    PROVE  Authority!Grant(p)
<1>1. /\ permits[p] = None /\ permits'[p] # None
      /\ permits'[p].trust = TrustConstraints(checkpoint)
      /\ \A q \in PermitIds \ {p} : permits'[q] = permits[q]
      /\ UNCHANGED <<claims, runs, results>>
  BY MintBinds
<1>2. PICK past : past = {row.permit : row \in Roots(checkpoint).replay.claims}
  OBVIOUS
<1>3. past \in SUBSET Spent
  BY <1>2 DEF PastInv, TypeInv, StoreOK, Claim, Spent, Claimed
<1>4. BoundTo(p) = None /\ BoundTo(p)' = past
  <2>1. TrustConstraints(checkpoint).replay_root = Roots(checkpoint).replay
    BY DEF TrustConstraints
  <2>2. Past(p)' = Roots(checkpoint).replay.claims
    BY <1>1, <2>1 DEF Past
  <2> QED BY <1>1, <1>2, <2>2 DEF BoundTo
<1>7. \A q \in PermitIds \ {p} : BoundTo(q)' = BoundTo(q)
  BY <1>1 DEF BoundTo, Past
<1>5. Bound[p] = None /\ Bound' = [Bound EXCEPT ![p] = past]
  BY <1>4, <1>7 DEF Bound
<1>6. UNCHANGED <<Spent, Said, [q \in PermitIds |-> Len(runs[q])]>>
  BY <1>1 DEF Spent, Said, Claimed
<1> QED BY <1>3, <1>5, <1>6 DEF Authority!Grant

\* A caller's step that consumes a permit spends it: the permit is bound to exactly
\* the permits that are spent.
LEMMA ConsumeSpends ==
    ASSUME TypeInv, ReplayInv, PastInv, NEW c \in Callers, CallerStep(c),
           NEW p \in PermitIds, Consumption!Consume(p)
    PROVE  Authority!Spend(p)
<1>1. ~Claimed(p) /\ Claimed(p)' /\ Spent' = Spent \union {p}
  BY DEF Consumption!Consume, Spent
<1>2. ClaimPermit(c) /\ claims' # claims
  BY <1>1, ClaimsWritten DEF Claimed
<1>3. pc[c] = "claim" /\ req[c].permit = p
  BY <1>1, <1>2 DEF ClaimPermit, Claimed
<1>4. permits[p] # None /\ Past(p) = claims
  BY <1>3 DEF TypeInv, LocalOK, PastInv, ReplayInv
<1>5. BoundTo(p) = Spent
  BY <1>4 DEF BoundTo, Spent, Claimed, TypeInv, StoreOK, Claim
<1>6. UNCHANGED <<permits, runs, results>>
  BY <1>2 DEF ClaimPermit, End, Leave
<1>7. Bound' = Bound
  BY <1>6 DEF Bound, BoundTo, Past
<1> QED BY <1>1, <1>5, <1>6, <1>7 DEF Authority!Spend, Bound, Said, Spent

LEMMA AuthorityStepCaller ==
    ASSUME TypeInv, UseInv, ReplayInv, PastInv, NEW c \in Callers, CallerStep(c)
    PROVE  [Authority!Next]_(Authority!authorityVars)
<1>0. Bound' = Bound
  BY CallerTypes DEF Frame, Bound, BoundTo, Past
<1>1. [Consumption!Next]_(Consumption!consumptionVars)
  BY ConsumptionStepCaller
<1>2. CASE UNCHANGED Consumption!consumptionVars
  BY <1>0, <1>2 DEF Consumption!consumptionVars, Authority!authorityVars, Spent, Said
<1>3. ASSUME NEW p \in PermitIds, Consumption!Consume(p)
      PROVE  Authority!Next
  BY <1>3, ConsumeSpends DEF Authority!Next
<1>4. ASSUME NEW p \in PermitIds, Consumption!Affect(p)
      PROVE  Authority!Next
  <2>1. Said[p] = {} /\ Said' = Said /\ p \in Spent /\ Spent' = Spent
    BY <1>4 DEF Consumption!Affect, Said, Spent
  <2>2. Authority!Act(p)
    BY <1>0, <1>4, <2>1 DEF Consumption!Affect, Authority!Act
  <2> QED BY <2>2 DEF Authority!Next
<1>5. ASSUME NEW p \in PermitIds, Consumption!Conclude(p)
      PROVE  Authority!Next
  <2>1. PICK result \in Results : results' = [results EXCEPT ![p] = result]
    BY <1>5 DEF Consumption!Conclude
  <2>2. results[p] = None /\ result # None /\ results \in [PermitIds -> Results \union {None}]
    BY <1>5, RecordsAssumption DEF Consumption!Conclude, TypeInv, StoreOK
  <2>3. Said[p] = {} /\ Said'[p] = {result} /\ Said' = [Said EXCEPT ![p] = {result}]
    BY <2>1, <2>2 DEF Said
  <2>4. p \in Spent /\ Spent' = Spent
    BY <1>5 DEF Consumption!Conclude, Spent
  <2>5. Authority!Conclude(p)
    BY <1>0, <1>5, <2>1, <2>3, <2>4 DEF Consumption!Conclude, Authority!Conclude
  <2> QED BY <2>5 DEF Authority!Next
<1> QED BY <1>1, <1>2, <1>3, <1>4, <1>5 DEF Consumption!Next

\* What the pilot is in spite of any race, the migration is without one: with one call
\* at a time and every permit minted with a checkpoint, whatever happens to file,
\* database, checkpoint and calls, it behaves as the single-use authority.
THEOREM MigrationImplementsAuthority ==
    ASSUME OneCaller, AllTrusting
    PROVE  Spec => ImplementsAuthority
<1>1. Init => Authority!Init
  BY DEF Init, Authority!Init, Bound, BoundTo, Spent, Said, Claimed
<1>2. TypeInv /\ UseInv /\ ReplayInv /\ PastInv /\ [Next]_vars
         => [Authority!Next]_(Authority!authorityVars)
  <2> SUFFICES ASSUME TypeInv, UseInv, ReplayInv, PastInv, [Next]_vars
               PROVE  [Authority!Next]_(Authority!authorityVars)
    OBVIOUS
  <2>1. ASSUME NEW c \in Callers, CallerStep(c)
        PROVE  [Authority!Next]_(Authority!authorityVars)
    BY <2>1, AuthorityStepCaller
  <2>2. ASSUME NEW p \in PermitIds, NEW source \in Sources, NEW nonce \in Nonces,
               NEW trusted \in Trusted, Mint(p, source, nonce, trusted)
        PROVE  [Authority!Next]_(Authority!authorityVars)
    BY <2>2, MintGrants DEF Authority!Next
  <2>3. CASE AdvanceCheckpoint \/ (\E p \in PermitIds : Expire(p)) \/ Others \/ UNCHANGED vars
    <3>1. UNCHANGED <<permits, claims, runs, results>>
      BY <2>3 DEF AdvanceCheckpoint, Expire, Others, authorityVars, historyVars, vars
    <3> QED BY <3>1 DEF Authority!authorityVars, Bound, BoundTo, Past, Spent, Said, Claimed
  <2> QED BY <2>1, <2>2, <2>3, NextCases
<1> QED
  BY <1>1, <1>2, TypeAlways, UseAlways, ReplayAlways, PastAlways, PTL
     DEF Spec, ImplementsAuthority, Authority!Spec
=============================================================================
