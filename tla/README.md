# ProofRail in TLA+

A verification project for ProofRail (working title Grantifold): signed permits
that bind an agent to one exact effect, are spent once before the effect, and
are reconciled with what the provider shows afterwards. The modules here are
translated from the Python source; TLC checks them on small instances, and
TLAPS proves the theorems for every value of the constants. Paths below are
relative to the root of the repository.

## 1. The system

### Components

| component | source | state it keeps | operations |
|---|---|---|---|
| pilot control plane | `src/proofrail/server.py` | `pilot_objects` (intents, evidence, evaluations, permits, executions, reconciliations), the trust lock, the checkpoint file | POST /intents, /evidence, /evaluate, /permits, /execute/github-merge, /reconcile/github-merge; reads |
| execution permit | `permit.py` | the replay registry: `permit_claims`, `permit_events` | `mint_permit`, `verify_permit`, `consume_permit`, `execute_github_merge` |
| trust checkpoint | `trust.py` | the checkpoint file | `create_`, `next_`, `verify_`, `write_`, `read_trust_checkpoint`, `replay_registry_root` |
| authority control plane | `control_plane.py`, `rbac.py` | roles, policy versions, the active policy | `grant_role`, `publish_policy`, `activate_policy`, `activate_policy_with_quorum`, `authorize` |
| attestation quorum | `quorum.py` | none | `sign_attestation`, `verify_quorum` |
| GitHub adapter | `integrations/openclaw/github_adapter.py` | none; GitHub has it | `execute` (GET, PUT, GET), `observe` |
| migration authority | `migration.py`, `integrations/openclaw/database_adapter.py` | the same registry; the SQLite database | `mint_`, `verify_database_migration_permit`, `execute_database_migration`, adapter `observe`, `execute` |
| OpenClaw bridge | `integrations/openclaw/bridge.py` | `executions` rows | `run`, `export_audit` |
| action gate and ledger | `core.py` | the ledger file | `evaluate_action`, `Ledger.append`, `Ledger.verify` |
| audit trail of the pilot | `server.py` (`_audit`), `audit_export.py`, `integrations/siem.py` | `pilot_audit_events`, the tenant's ledger file | `_audit`, `permit_lifecycle_report`, exports |
| ledger checkpoint and anchor | `checkpoint.py`, `anchor.py` | none; read the ledger file | `verify_ledger`, `create_checkpoint`, `verify_checkpoint`, `export_ledger`, `create_anchor`, `verify_anchor` |
| envelopes and signatures | `envelope.py`, `crypto.py` | none | canonical JSON, hashing, signing |
| command line and tools | `cli.py`, `demo.py`, `reproduce.py`, `github_pr_compare.py`, scripts, adversarial suites | files | sequential drivers of the library |

### How they interact

A request reaches a `ThreadingHTTPServer`, one thread each. `/evaluate` reads
the active policy and the identity root in two transactions and stores both in
an evaluation. `/permits` reads the checkpoint file, without a lock, and signs a
permit bound to it. `/execute/github-merge` takes the process-wide trust lock,
reads role, policy, identity and checkpoint, verifies the permit, claims it in
one transaction of the registry, calls the adapter, writes the next checkpoint,
leaves the lock, and stores the execution record and its event.
`/reconcile/github-merge` observes the provider without the lock, through one
adapter or through several signing observers whose attestations have to make a
quorum, stores the result, audits it, and, if a quorum was met, takes the lock to
move the checkpoint on. Every event goes to a line of the tenant's ledger file,
under a second lock of the process, and then, outside that lock, to a row of the
database; checkpoints, anchors and exports are computed from the file, the
life-cycle report from the rows.
Governors change policies and roles at any time; GitHub decides a PUT at any
time after it was sent, other people push and merge. Several server processes
share the databases, the checkpoint file and the ledger files, but neither lock. The
migration library follows the same chain against a SQLite file, with no lock;
the bridge is an older path with its own idempotency table and ledger.

### What is hard

* *Interleaving and staleness*: every read before a claim can be out of date at
  the claim: checkpoint, registry, policy, identity, role, database schema, the
  file behind a path.
* *Several processes*: only SQLite's write lock and `flock` are between them.
* *Failure between two steps*: after the claim and before the effect, after the
  effect and before the record, between registry and checkpoint file, between
  the ledger and the completion.
* *A provider that answers late or not at all*: a PUT without an answer may
  still be carried out; a 500 says nothing; a look-up may come too early.
* *Two stores of one trail*: a line without its row, a torn line that stops
  every later event, an anchor made of two readings of the file.
* *Observers that lie or raise*, while what they observe changes between them.
* *Long sequences*: repeated reconciliations, old rollback approvals,
  checkpoints that outdate permits.

`PROJECT.json` lists each hazard at its line with the properties that cover it,
or why none does.

### What makes each part correct

* pilot, permit, registry: a permit is spent once and backs one PUT after the
  spending; no replay state is spent twice; nothing is claimed on authority that
  was gone; a recorded success is the approved merge; every claim gets a record
  unless its handler is ended by a crash or a store.
* checkpoint: the file moves to direct successors; claims extend exactly what it
  commits; recorded executions stay covered.
* control plane: versions never change; the active one goes back only with a
  rollback quorum.
* migration: a script runs once, after its claim; a result is what was observed.
* bridge and ledger: an adapter is called once; the ledger is one chain; success
  and failure have a receipt; every claim gets an outcome.
* audit trail: events are one chain without gap; rows are copies of lines; what a
  client was told succeeded has its event, in both stores; the report keeps the
  order that clients saw and says RECONCILED only of the approved merge.
* quorum: what is agreed was stated by an observer that is not faulty.
* commitments: a checkpoint or anchor verifies against one ledger only; what is
  exported verifies.
* gate: nothing is permitted for more risk that is not for less; documents that
  were refused do not become good by waiting.

## 2. Modules

| module | models | state and actions against the code |
|---|---|---|
| `Rbac` | `rbac.py` | the permission tables and `Can` |
| `ControlPlane` | `control_plane.py`, `verify_quorum` | `roles`, `policies` (version -> digest), `active`, `approvals`, `pending`: an operation lies in `pending` between its check and its write, which are two transactions of the code. `Authorize*`/`ApproveActivate` are the checks, `Commit*` the transactions |
| `TrustCheckpoint` | `trust.py` | operators only. A record hash commits to everything before it, so a checkpoint is modelled as its whole history |
| `GitHubPull` | GitHub (external) | the head, the merge, the PUTs on their way; other people's pushes and merges |
| `GitHubAdapter` | `github_adapter.py` | what the adapter makes of each answer; `Faults` names what the network and GitHub may do wrong |
| `PilotExecution` | `server.py`, `permit.py` | one program counter per thread, one action per access to something shared; `req` holds a handler's locals; `lock` is the trust lock of each process |
| `SingleUseAuthority` | the promise | abstract: permits granted against a past, spent once while exactly that past is spent, acting at most once after it, and concluded at most once, after which they do not act. `PilotExecution` implements it with the registry's rows, the PUTs and the execution records; it implements `ConsumedFirst` in turn |
| `ConsumedFirst` | the promise of every path to an effect | abstract: a key is consumed once, has at most one effect after that, and one outcome, after which it has no effect. `PilotExecution` implements it with permits, as above, `Migration` with the registry's rows, the runs of the script and the results, `Bridge` with the rows of the idempotency table, the calls of the adapter and the status of a row |
| `SchemaDatabase` | SQLite and its file (external) | which instance the path leads to, each instance's schema and `user_version`, writes and replacements by others |
| `Migration` | `migration.py`, `database_adapter.py` | callers step through `observe`, `_trust_values` and verification, `_claim_permit`, `execute`, `observe`; the rows of `sqlite_master` and `user_version` are two reads, as in the code |
| `Ledger` | `Ledger` of `core.py` | the records of the file, whether its last line is JSON (`torn`) and has its newline (`ended`), who holds the `flock` |
| `Bridge` | `bridge.py` | `run` from the claim on; `Raise` is its `except` branch, entered from wherever the code can raise |
| `Gate` | `evaluate_action`, `_verify_approval` of `core.py` | operators only: the set of reasons against an action; empty means permitted |
| `LedgerCommitments` | `checkpoint.py`, `anchor.py` | operators only, over files as sequences of lines: reading, the chain, the Merkle root, checkpoint, anchor, export |
| `AuditTrail` | `_audit`, `permit_lifecycle_report` | `lines` and `ended` are the ledger file with what failed writes left in it, `rows` the table, `ledgerLock` the lock of each process, `clock` what `_timestamp` gave last |
| `AttestationQuorum` | `verify_quorum` | operators only, over sequences of attestations |
| `Reconciliation` | `_reconcile_github_merge`, `QuorumObservationAdapter`, `_mint_permit`, the end of `_execute_github_merge` and of a refusal | `objects` are the stored permits, executions and reconciliations, `moved` those that moved the checkpoint on, `acknowledged` what a client was told; one step per observer, store, lock, write, insert, advance |
| `MCControlPlane`, `MCPilot`, `MCMigration`, `MCBridge`, `MCReconciliation` | | the small instances |
| `ControlPlane_proofs`, `PilotExecution_proofs`, `Reconciliation_proofs`, `Migration_proofs`, `Bridge_proofs`, `Gate_proofs`, `LedgerCommitments_proofs`, `SingleUseAuthority_proofs` | | the theorems |

`PilotExecution` extends `ControlPlane`, `GitHubAdapter` (and with it
`GitHubPull`) and `TrustCheckpoint`; `Migration` extends `SchemaDatabase` and
`TrustCheckpoint`; `Bridge` extends `Ledger`; `AuditTrail` extends
`LedgerCommitments`; `Reconciliation` extends `GitHubPull`, `AttestationQuorum`
and `AuditTrail`, and looks closely at what `PilotExecution` keeps as one step
each: the observation and the event. `MCBridge` puts the gate before the bridge.

In `PilotExecution` a handler is: evaluate `evalReadable`, `evalPolicy`,
`evalIdentity`, `evalPut`; mint `mintRead`, `mintPut`; execute `admit` (waits
for the lock), `authorize`, `readable`, `policy`, `identity`, `checkpoint`,
`verify`, `claim`, `preflight`, `merge`, `await`, `lookup`, `advance`, `store`,
`record`; reconcile `observe`, `conclude`, `audit`, `readmit`,
`rereadCheckpoint`, `readvance`, `restore`; all of them `audit`. An exception
leaves through `Deny` (authorization and permit errors, which leave an event) or
`End` (every other one), and both give the lock back, as the `with` block does.
`Fail` is the exception of a store: the database, the registry, the checkpoint file
or the ledger may raise at every step that reads or writes one (`Storing`), before
the claim and after it.

History variables never guard an action: `dispatched` counts PUTs, `window` holds
what was true since the lock was taken (pilot) or the call began (migration),
`runs` and `held` what ran and what was in the database since the claim,
`answers` what an adapter said, `interrupted` the permits whose handler a crash or a
store has ended after the claim, and `after`, a field of each object of
`Reconciliation`, what had been acknowledged when it was stored.

Operators introduced by a comment "Slip:" are mistakes the code does not make.
No action uses them; each shows, put in place of the definition that follows it,
that a property notices that mistake (`mutants` in `PROJECT.json`).

### What is abstracted

* A digest or record hash is the value it commits to; a signature verifies,
  because every record met was signed by the program and read from its store.
* Evidence, state and approval roots come from one stored evaluation both at
  minting and at execution, so they always agree; the migration library takes
  them as arguments. Both are left out.
* Time: a permit expires at some moment (`Expire`). The order "time sampled, then
  write lock waited for" is kept.
* The ledger-checkpoint root: no caller passes one (`KNOWN_LIMITATIONS.md` 13).
* In `PilotExecution` the audit trail is a set of events and an observation one
  step; `Reconciliation` has both in detail, and in exchange has minting up to the
  record, and execution up to the end of the trust lock, as one step each: the
  permit was spent, its PUT was sent, the receipt is any. A principal without any
  role is refused without trace.
* One tenant: the tenants of a server share its database, its checkpoint file
  and its locks, but a permit, a policy and an event belong to one of them. A
  second tenant's claims move the registry on as a second principal's do.
  `_tenant_ledger` maps characters that do not suit a file name to one, so two
  tenants may even share a ledger file; their ids are taken to differ there.
* Observers: `require_observation_quorum` is on. Attestations are sent and signed
  by the adapter; that somebody else replays them is in `AttestationQuorum`, not
  in the run.
* A policy that denies ends `/evaluate` with a stored denial from which nothing
  can be minted: only permitting evaluations are kept.
* A store of the pilot that raises does so without having written anything; what a
  failed write leaves in the ledger file is in `Reconciliation`.
* The clock does not go back. It matters only when it is read, so it moves on with
  the events that are dated (`Timestamp`). `SecondTicks` of its times are one
  second: `_timestamp` leaves the fraction out on a whole second (`Printed`).
* The ledger of the pilot is synced before the row is inserted, so a crash takes
  nothing from the file but the line being written.
* Gate: documents have the fields the code requires (one that lacks a field
  raises); an action stands for its digest.
* The ledger's `flock` is taken to exist (POSIX); opening the file may fail like
  writing it. Two stats of a path and the opening between them are one step.

## 3. Runs

Deadlock is checked in all of them but Reconciliation: requests are bounded
there, and when all are done nothing is left to do. That nobody is stuck before
is the property `NobodyWaitsForNobody`. Every bound is a constant with `Max` in
its name or the size of a set.

| run | instance | shows |
|---|---|---|
| ControlPlane | 2 principals, 3 governors with threshold 2, 2 documents, 2 pending operations | `CPTypeOK`, `RollbackNeedsQuorum`, `PoliciesImmutable` while two operations lie between check and write |
| TwoServers | 2 threads in processes of their own, 2 permits, 2 nonces, timeouts and undecodable answers, 1 crash | `SingleUse`, `OneClaimPerReplayState`, `ImplementsAuthority` with nothing but the registry's write lock in common |
| Checkpoint | 2 threads of 1 process, 2 permits, 2 nonces, quorum reconciliations, timeouts, 1 crash | `TypeOK`, `ClaimExtendsCheckpoint`, `CheckpointAdvances`, `RecordedClaimsCheckpointed` |
| Outside | 1 thread; a governor, 2 policies, rollback approvals, a principal re-granted; 2 heads, a push and merges by others, every way to lose an answer; 1 expiry; plain adapter | `FreshAuthority`, `ReconciledIsTrue` |
| Progress | 2 fair threads of 1 process, 2 permits of which 1 is followed, the faults the adapter answers for, stores that raise, 1 crash | `ClaimsGetRecorded`, `LockReleased` |
| Migration | 2 callers of 1 permit bound to trust, 1 script; 2 files, 1 write and 1 replacement by others, locked database, a second checkpoint, 1 expiry, 1 crash, 1 registry read that raises after a claim | `TypeOK`, `MigratesOnce`, `ClaimsRestOnObservation`, `ReconciledWasHeld`, `FailedLeavesNothing`, `ClaimsAreAttended`, `ConsumesFirst` |
| BridgeRaces | 2 fair callers, 3 actions (one without adapter), all write failures, a database timeout or a crash (`MaxFaults` = 1); the gate on the example policy, actions on 2 claims, up to 2 items of evidence, times at and beside every limit | `TypeOK`, `ExecutesOnce`, `LedgerChained`, `CompletedHasReceipt`, `ConsumesFirst`, `ClaimsComplete`; `GateStricterWithRisk`, `GateStaysDenied` |
| Reconciliation | 2 threads of 1 process, 3 observers with threshold 2, the last of them faulty (`Lies`: it may claim the approved merge or deny it, or send an attestation that does not verify), sources that raise; 1 permit, 2 heads, a push and merges by others; any receipt; 3 requests; a clock of 3 times, 2 to a second; 1 fault: a write that fails in any way, an insert, or a crash; ledgers of up to 4 records in every format | `TypeOK`, `LedgerVerifies`, `StoresAgree`, `AcknowledgedIsAudited`, `ReportedReconciledIsTrue`, `ReportFollowsAnswers`, `NobodyWaitsForNobody`, `QuorumsAreWitnessed`; `CommitmentsPinLedgers`, `ExportsVerify`, `AnchorsPinOneReading` |

`GateStricterWithRisk`, `GateStaysDenied`, `CommitmentsPinLedgers`,
`ExportsVerify` and `AnchorsPinOneReading` are about pure computations: they say
something of every member of a set of small inputs. They do not depend on the
state, so they have the form `Init => ...` and are evaluated once, in the initial
states of the run whose components use the computation.

Why the bounds are enough to mean something: a race needs two actors and two
requests, and both are there wherever a property is about a race; a stale read
needs one change by somebody else, a lost update two writers; a crash may come at
every step of every handler; two nonces let a nonce be reused or not; two heads
and one push tell the approved head from another; three observers are the fewest
of whom one may lie and two agree; three and four records are the shortest ledgers
that can share a Merkle root; three requests are one chain of mint, execution and
reconciliation, or a shorter one beside a refusal: what two reconciliations at once
would do to the trail is in the theorems, which have no bound. So is
what a faulty observer attests to: the theorems let it state anything. Two times to a
second and three in all are a whole second, one that is not, and a later whole one. The pilot's
runs with stores that raise let each of them raise at any step, as often as it
likes; only `ClaimsGetRecorded` needs to know which permits met that, and follows one
of them (`Followed`), either of two alike. A second crash or a third thread adds repetitions of cases that are
met. Callers, threads, files, permits and nonces are interchangeable where a cfg
says SYMMETRY; no run with symmetry checks liveness. Where a theorem exists the
question does not arise.

### Disagreements with the documents

Four runs check what a document says and end in a counterexample:

| run | property | what the code does |
|---|---|---|
| LostRecord | `ConsumedCanBeReconciled` | the GET before the merge raises after the claim: the permit is spent and there is no execution record to reconcile (`THREAT_MODEL.md:43`) |
| FalseFailure | `FailedMeansNoEffect` | a 500 answer to the PUT is recorded as EXECUTION_FAILED although GitHub merged (`STATE_MACHINE.md:40`) |
| MigrationTwoClaims | `OneClaimPerReplayState` | two callers claim two permits of one registry state: `_claim_permit` lacks the recheck `consume_permit` has (`src/proofrail/permit.py:302`) |
| BridgeUnrecorded | `SuccessesAreRecorded` | one torn ledger line makes every later append raise, so later successes are unknown and unrecorded (`PROOFRAIL.md:143`) |

How far each of these promises holds all the same is proved (section 4): a claim of
the pilot keeps its record or its attempt as long as the GET does not raise, unless a
crash or a store that raised ended its handler (`ClaimsStayReconcilable`); EXECUTION_FAILED is true as long as no server
error answers a PUT (`FailuresAreTrue`); a migration's replay states are spent once as
long as one call is made at a time (`OneCallerOneClaim`); a success is in the bridge's
ledger as long as no write fails and nobody dies (`SuccessesRecorded`).

More were met while modelling; the models contain the behaviour, but no run asks
for it:

* A second reconciliation may turn RECONCILIATION_FAILED into RECONCILED
  (`Conclude` of `PilotExecution` looks at no earlier one), and
  `STATE_MACHINE.md:84` has no transition from a terminal state. It may as well
  turn RECONCILED into RECONCILIATION_FAILED, and the life-cycle report then
  gives that as the terminal state.
* An observer that raises ends the round although the others would agree, and
  nothing is recorded (`Observe` of `Reconciliation`); `STATE_MACHINE.md:98` has
  RECONCILIATION_FAILED recorded when reconciliation is unavailable.
* `create_anchor` reads the ledger twice. An event appended in between makes an
  anchor of neither state, which verifies against nothing
  (`AnchorsPinOneReading`); `docs/ANCHORING_MODEL.md:4` says an anchor commits
  one exact ledger state.
* The schema may change between observation and claim of a migration and the
  permit is consumed all the same; `docs/SECOND_EXECUTION_DOMAIN.md:21-22` says
  any drift invalidates it before. `ClaimsRestOnObservation` is what holds.
* The database file may be replaced after `_require_instance`, and the script
  runs on the replacement (`:32` says it is rejected); `RunScript` works on
  whatever file the path leads to.
* RECONCILED of a migration may rest on the contents of such a replacement, and
  not of the file the permit names (`ReconciledWasHeld` is about what was under the
  path).
* The read of the registry that ends `_claim_permit` (`migration.py:437`) comes after
  COMMIT and before the `try` of line 294: when it raises, the permit is spent, the
  script does not run, and no result is returned (`RootRaises`);
  `docs/SECOND_EXECUTION_DOMAIN.md:33` says that exceptions after consumption return
  RECONCILIATION_FAILED. `ClaimsAreAttended` counts these calls.
* The life-cycle report may begin with another state than PERMITTED, or lack
  CONSUMED: a permit, and an execution, is in the store before its event is written,
  can be used from then on, and the event may never be (`StorePermit`,
  `StoreExecution`, `BeginReconcile`). `tests/test_audit_export.py:88-91` has
  the full sequence. What holds is `ReportFollowsAnswers`.
* An event dated on a whole second is reported behind the later ones of that second:
  `isoformat` leaves the fraction out (`server.py:990-991`), the report sorts strings
  (`audit_export.py:82-88`), and "05Z" is behind "05.9Z". `Printed` does the same.
* A script that commits by itself and then fails leaves its change under
  EXECUTION_FAILED (`:27`). `Effect` can express such a script;
  `FailedLeavesNothing` is stated for `Atomic` ones.

Things met on the way that no document denies, and so no run claims: a torn line
in the ledger file makes every later `_audit` raise, after the effect and the
stored record (`Lock` of `Reconciliation`; in the bridge's ledger this is the run
BridgeUnrecorded); an entry of the bridge's ledger that lost its newline is read by
the next append, which puts its own on the same line (`core.py:244`, `259-260`): that
receipt is in the file, its row says success, and no reader gets at it (`Put` of `Ledger`;
`CompletedHasReceipt` says no more than that it was written whole); two server processes number two events alike and break the
chain, which is why `LedgerVerifies` is stated for one process; the
migration adapter reads `sqlite_master` and `user_version` outside a transaction,
so an observation may be of a pair the database never had at one moment
(`ReconciledWasHeld` is stated for the parts); and with several processes the
checkpoint file may be overwritten by one of the same epoch, which is why
`CheckpointAdvances` is stated for one process. `KNOWN_LIMITATIONS.md` 14 and 18
restrict the pilot to that: execution is serialised, the local lock is no
multi-process fence.

### Fairness

Liveness assumes that what was begun goes on, and nothing else: weak fairness of
each thread's (caller's) next step once its pc is not idle. That is what a thread
scheduler and bounded network time-outs give. Nobody has to send a request,
GitHub has to decide nothing, governors do nothing, locks are not fair (a thread
that waits for the trust lock may wait for ever; none of the properties says it
gets in). Strong fairness is nowhere needed. `ClaimsGetRecorded` is checked without
the exceptions that leave the adapter, because the code then really writes no record
(run LostRecord), and excepts the permits in `interrupted`, whose handler a crash or a
store has ended: `Fail` is a step a thread may take, so without that exception fairness
would promise nothing; `ClaimsComplete` is about behaviours in
which no process dies and no statement times out, for the same reason.
`LockReleased` is checked in the same run as `ClaimsGetRecorded`: the hazard there
is a handler that stays inside the lock. That every exit leaves it is a matter of
the `with` block, which `End` and `Deny` stand for.

`Migration` and `Reconciliation` have no liveness property but its safety part,
which needs no fairness and goes with symmetry: a claim without a result has a
call that is about to give it one, unless that call died or could not read the
registry after its claim (`ClaimsAreAttended`),
and as long as a request is not done some request of its process can go on
(`NobodyWaitsForNobody`). From there both programs run straight to their end: the
one step that comes back to its place is the round of observers, which asks each
of finitely many sources once.

## 4. Proofs

The theorems hold for any number of threads, processes, callers, permits, scripts,
files, principals and documents, every choice of `Faults` and `DiskFailures`, and
any bound.

Assumptions: the pilot's theorems use `ControlPlaneAssumption`, `PullAssumption` and
`PilotAssumption`; those of the migration
`DatabaseAssumption`, `MigrationAssumption` and `RecordsAssumption`; those of the
bridge `LedgerAssumption`, `BridgeAssumption` and `RowsAssumption`; those of the
quorum, the audit trail and the reconciliation `QuorumAssumption`, `PullAssumption`,
`AuditAssumption`, `ReconciliationAssumption` and the `RecordsAssumption` there.
Each is in the module that declares the constants, and
they say that the constants have their types, that threads and signers are
finitely many, and that the markers (`None`, `NoMerge`, `Foreign`) are no ordinary
values. `SamplesAssumption` of `MCBridge` (no approval is what stands for none) and
`BodiesAssumption` of `MCReconciliation` (a wrapped record is no sample body) say the
same of the documents that the instances build.

Some theorems have a hypothesis in their statement:

* `OneServer`: all threads are of one process. Without it the three theorems about
  the checkpoint file, `LedgerAlwaysVerifies` and `StoresAlwaysAgree` are false: the
  second process overwrites a checkpoint, or numbers an event like the first one did,
  and such an event gets no row.
* `FewFaulty`: fewer faulty observers than the threshold, which is what a threshold
  is for.
* `MarkersApart`: part of a record is no record, and no record is without a hash. It
  cannot be an `ASSUME`, because hashes are nested and no set holds all records; that
  it does not ask too much is the lemma `MarkersCanBeApart`.
* `~GetRaises`, for `ClaimsStayReconcilable`; no `"server_error"`
  in `Faults`, for `FailuresAreTrue`; `OneCaller`, for `OneCallerOneClaim` and
  `MigrationImplementsAuthority`; `Undisturbed` (a disk that writes and no crash), for
  `SuccessesRecorded`. Each is what the run that refutes the property without it needs
  to do so; every other fault, race and interference is still there.
* `AllTrusting`, for `MigrationImplementsAuthority`: every migration permit is minted
  with a checkpoint, which the code leaves to the caller. One without is bound to
  nothing.
* `None \notin SUBSET PermitIds`, for `AuthorityIsOneLine`: the marker is no past.
* `Graded`: a policy that asks no less for more risk. The code takes any policy, and
  one that asked for less would be obeyed.

`ControlPlane_proofs`:

* `CPTypeCorrect`. `CPTypeOK` is inductive by itself.
* `PoliciesAreImmutable`. Needs `DigestsUnique`: no digest has two versions.
  A publication commits without relying on its check, so the argument is about
  the one transaction.
* `RollbackQuorum`. Needs `RollbacksBacked`: whatever rollback waits in `pending`
  had a quorum of signers when it was allowed, and signatures are not unmade.
  The rest is that the comparison with the active version is inside the write.

`PilotExecution_proofs`:

* `TypeCorrect`: `TypeInv` is `TypeOK` with `Locals`, which says which locals of
  a handler are set at which step; without it a step that uses one has no type.
* `PermitsAreSingleUse`: `UseInv`. A thread that has yet to send the PUT holds a
  claimed permit that nobody sent one for, and no two threads hold the same.
  `EntersSending` shows that the only way there is a claim of a new row.
* `ClaimsAreInOneLine` and from it `ReplayStatesAreSpentOnce`: `ReplayInv`. Every
  claimed permit's replay root is a part of today's registry and lacks the permit
  itself; a new claim's is the whole registry. So of two claims exactly one was there
  when the permit of the other was bound, and no two have the same past.
* `PilotImplementsAuthority`: the refinement of `SingleUseAuthority`. `PastInv`
  says that checkpoints (the file's, and those in the hands of threads) commit
  only claims that were made, so a permit is granted against a past that existed;
  `AttemptInv` that from its claim to its record a thread alone owns its permit, which
  has no record yet. `AuthorityStep` maps minting, claiming, the PUT and the record to
  `Grant`, `Spend`, `Act`, `Conclude` and all other steps to stuttering.
* `PilotConsumesFirst`: hence the refinement of `ConsumedFirst`, the promise that
  migration and bridge keep too.
* `RecordsAreCheckpointed`, `CheckpointFileAdvances`,
  `ClaimsExtendTheCheckpoint` (`OneServer`): `LockInv` (a thread in the locked
  part has the lock) and `CheckpointInv` (a checkpoint that a thread inside the
  lock has read is the one in the file, and the one it is about to write is its
  successor).
* `ClaimsAreFresh`: `FreshInv` ties each local read inside the lock to the
  history of policies and role tables since the lock was taken.
* `ReconciliationsAreTrue`: `TruthInv`: a receipt or observation that speaks of a
  merge tells the truth about a merge that can never be undone.
* `ClaimsStayReconcilable` (no GET that raises, because GitHub cannot be reached or its
  answer cannot be decoded): `RecordedUnlessInterrupted`, that each claim of a permit
  that is followed is reconcilable or was interrupted. By `AttemptInv` the thread that
  claimed is the one that records, and `LeavesAttempt` shows that the only other ways
  out of an attempt are the GET, a crash and a store that raises, which both note
  the permit in `interrupted` (`Accounted`). Whatever GitHub answers to the PUT, the
  thread goes on to the record.
* `FailuresAreTrue` (no server error): `FailureInv`. A receipt that says failed is of an
  attempt whose PUT was not sent (`PutIsFirst`), or was refused by an answer that tells,
  or of which the lookup found the pull request merged at a head other than the approved
  one, hence by somebody else; and a PUT that was refused is never carried out later.

`Migration_proofs`:

* `TypeCorrect`: `TypeInv` is `TypeOK` with what is set at which step.
* `PermitsMigrateOnce`: `UseInv`. From its claim on, a call alone owns its permit:
  it has a claim, no run yet, and no other call holds it. That the claim is an
  insert under a primary key is what makes two calls with one permit part.
* `FailuresLeaveNothing`: `FailedInv` follows the answer of the transaction from
  the run to the stored result: a call that is about to report a failure has no
  effect in the database, for `Atomic` scripts.
* `ReconciledMeansHeld` and `ClaimsAreObserved`: `SightInv`. What a call read
  before its claim lies in the history of path, schema and version since the call
  began (`window`), and what it read after it in that since the claim (`held`).
  Both only grow, so what was read stays in them whatever others do to the file.
* `ClaimsAttended`: `AttendInv`. A call that acts stays with its
  permit or gives it a result, and a claim is made by a call that goes on to act, so
  the claims that nobody attends to (`Lost`) grow by a crash or by a claim whose
  registry read raises only, and by one.
* `MigrationConsumesFirst`: the refinement of `ConsumedFirst`, by `UseInv`. The insert
  maps to `Consume`, the script to `Affect`, a return to `Conclude`, and every other
  step, of a caller or of anybody else, to stuttering. That a call which acts has no
  result and, before its script, no run is what makes these steps possible there.
* `OneCallerOneClaim` (`OneCaller`): `ReplayInv`. Between verification and claim nobody
  else claims, so the registry that was compared is the one that is extended
  (`VerifiedPast`), and a new claim's past is all claims before it.
* `MigrationImplementsAuthority` (`OneCaller`, `AllTrusting`): the refinement of
  `SingleUseAuthority`: that of `ConsumedFirst`, with `ReplayInv` for the past that a
  claim extends and `PastInv` for the one a permit is minted against. With two callers
  it is false, as the run MigrationTwoClaims shows.

`Bridge_proofs`:

* `TypeCorrect`: `TypeInv` also says who has the file: at most one caller, and it
  is between locking and unlocking it.
* `ActionsExecuteOnce`: `UseInv`, the same argument as for migrations, on the row
  "started" of the idempotency table.
* `LedgerIsChained`: `LedgerInv`. Whoever has the lock and has read the file is
  about to write the entry that follows its last one: nobody else can append
  before the lock is given back, and a torn line stops the reading.
* `CompletionsHaveReceipts`: `ReceiptInv`. Between the append and the update of
  the row a caller carries an outcome whose receipt was written whole to the file;
  entries are never removed, though a line may come to hold more than one.
* `BridgeConsumesFirst`: the refinement of `ConsumedFirst`, by `UseInv`: the insert of
  the row is `Consume`, the call of the adapter `Affect`, the completion `Conclude`. A
  row without outcome stays so when a caller dies: consumed, never concluded.
* `SuccessesRecorded` (`Undisturbed`): `SuccessInv`. A success that the adapter reported
  is in the ledger, or its caller is between taking the answer and writing it; a whole
  file and a disk that writes let nothing turn it back (`PendingStep`). Time-outs of
  the database may still leave the row without it, or add an entry that says unknown.

`SingleUseAuthority_proofs`, about the promise itself:

* `AuthorityConsumesFirst`: it implements `ConsumedFirst` when the past is forgotten.
* `AuthorityIsOneLine`: `PastInv`. A permit is spent only when exactly its past is, so
  of two spent permits one was granted against the other.

`Reconciliation_proofs`. `NextMoves` sorts the steps by what they do to the requests
and to the file (`Denies`, `Keeps`, `Numbers`, `Appends`, `Copies`, `Leaves`), and the
invariants are shown by these cases instead of by the actions:

* `TypeCorrect`: `TypeInv` is `TypeOK` with the locals of each request and with who has
  the ledger lock. Events contain their predecessors, so they have a shape
  (`IsEvent`) rather than a type, and the file is a sequence over some set.
* `AcknowledgedAudited`: `TrailInv` (rows are copies of lines, and lines describe
  objects that are stored) and `OnceInv` (an object has one event, with the request
  that drafted it or in the file, and nothing is acknowledged before its row). It
  holds for any number of processes: the file is shared, but a stored object is
  drafted by one request.
* `ReportsFollowAnswers` (`MarkersApart`): `OrderInv`. An object that was acknowledged
  when another was stored has its row by then, so the event of the other is dated no
  earlier (`Precedes`, `OrderDrafts`) and, written behind it in the same file, numbered
  higher, although processes number events without knowing of each other. It holds
  for any number of processes.
* `ReconciledIsTrue`: `TruthInv`. An attestation of an observer that is not faulty is of
  a merge that is final; with `QuorumsWitnessed` a quorum has such an attestation.
* `LedgerAlwaysVerifies` (`OneServer`): `ChainInv`. The event that a request is about to
  write is the next link of the file, because the lock is held from the reading on.
* `StoresAlwaysAgree` (`OneServer`): `LossInv`. Events that are neither copied nor about
  to be are lost by a failure only, one for each request it ends.
* `QuorumsWitnessed` and with it `RoundsAreWitnessed`, what the run checks as
  `QuorumsAreWitnessed`, for any signers, statements and threshold and for
  attestations of any number: a group of `Threshold` signers has one that is not
  faulty, and a signer is in a group only by stating that statement and no other.

`Gate_proofs`, for documents of any content:

* `RefusalsStay`. Every reason other than a claim from the future is one for ever: what
  is stale or expired stays so, and the others do not look at the time.
* `StricterRiskIsStricter`, for `Graded` policies: a reason at the lower risk comes with
  one at the higher, be it another (a claim with too few references is not looked at
  for invalid ones), and the approval names the action at either.
* `ExampleStaysDenied` and `ExampleIsStricterWithRisk`: the documents of the run are
  such documents and the example policy is `Graded`, so the properties the run checks
  follow.

`LedgerCommitments_proofs`, for ledgers of any length and in any format. The levels
of the Merkle tree are one recursive function (`Tower`); the induction over its levels
is an argument by the least level at which something fails (`LeastOf`), which needs no
theorem with an operator as a parameter:

* `LedgersArePinned`: trees of two ledgers of the same length have levels of the same
  width (`LevelsAlign`), and parents tell their children apart although an odd level
  repeats its last node (`ParentsInjective`), so one root is of one list (`RootsPin`).
  The entry count is needed: the root alone does not tell an odd number of records
  from the same ones with the last repeated.
* `ExportsArePinned`: exports verify, and an export that is a wrapped ledger gives the
  ledger back. The exception it states is real: what a plain ledger is wrapped into is
  a valid ledger and its own export.
* `AnchorsAreOfOneReading`: of a ledger without repeated records and its first part,
  either the shorter tree is lower, and then its top would have to be a leaf and a node
  at once (`HeightsPart`), or the trees part at the end of some level and stay parted
  up to the top (`PartingGoesUp`, `LevelsPart`); so the roots differ (`RootsPart`).
* `CommitmentsPin`, `ExportsAlwaysVerify`, `AnchorsPin`: the properties the run checks,
  for the ledgers it enumerates, follow.

Each invariant is shown by one step lemma per group of actions, and frame lemmas
(`Enters...`, `StepEffects`) say which steps can reach the situation at all.

Only model-checked: `LockReleased`, `ClaimsGetRecorded` and `ClaimsComplete`
(liveness under fairness is out of the prover's reach), `NobodyWaitsForNobody`
(ENABLED is too; its safety part, that whoever has the ledger lock is a request
between the two steps of the ledger, is in `TypeCorrect` of `Reconciliation`).

## 5. Plan

In the order of what is at stake.

1. `ControlPlane`, `TrustCheckpoint`, `GitHubAdapter`, `PilotExecution`: the
   authority path of the pilot. Modelled, checked and proved.
2. `Migration`, `Bridge`, `Ledger`: the two other paths to an effect. Modelled,
   checked and proved.
3. `AuditTrail`, `AttestationQuorum`, `Reconciliation`: the two stores of the
   events, the observers, and what happens when one step fails. Modelled,
   checked and proved.
4. `Gate`, `LedgerCommitments`: the computations beside them. Modelled, checked and
   proved.

Left:

* a run of two server processes in `Reconciliation`, for the properties that do not
  need the ledger lock. `AcknowledgedAudited` and `ReportsFollowAnswers` are proved
  for any number of them.

## 6. Not modelled

Canonical JSON, hashing and signing (cryptography); the schemas (shapes of
records); the command line, the demonstration, comparison and reproduction tools
and the scripts (sequential input and output around the library; `compare_prs` and
`reproduce_artifact` compute a verdict from what they read and change nothing);
exports and the SIEM forwarder (read-only); POST /intents and /evidence (data that
is stored and read back unchanged); `create_tenant` (a row that nothing changes
afterwards). A second tenant is left out for the reason given under "What is
abstracted".
