-------------------------- MODULE TrustCheckpoint --------------------------
(***************************************************************************)
(* proofrail/trust.py without its files: what a signed trust checkpoint    *)
(* commits, how the next one is derived, and how a permit is bound to one. *)
(*                                                                         *)
(* A record hash commits to everything it covers and, through              *)
(* previous_checkpoint_hash, to all its predecessors.  A checkpoint is     *)
(* therefore the sequence of root pairs from the genesis checkpoint to     *)
(* itself: two checkpoints have the same hash exactly when the whole       *)
(* sequences are equal.  The epoch starts at 1, the counter at 0.          *)
(* The ledger-checkpoint root is left out: no caller ever passes one, so   *)
(* it keeps the value of the genesis checkpoint.                           *)
(***************************************************************************)
EXTENDS Integers, Sequences

\* EMPTY_ROOT, the observation root before any observation was recorded.
EmptyRoot == [observed |-> {}]

\* replay_registry_root: the digest of all claim rows.
ReplayRegistryRoot(rows) == [claims |-> rows]

\* create_trust_checkpoint as _ensure_trust_checkpoint calls it.
GenesisCheckpoint(rows) ==
    <<[replay |-> ReplayRegistryRoot(rows), observation |-> EmptyRoot]>>

Roots(checkpoint) == checkpoint[Len(checkpoint)]
Epoch(checkpoint) == Len(checkpoint)
MonotonicCounter(checkpoint) == Len(checkpoint) - 1
RecordHash(checkpoint) == checkpoint

\* Slip: the registry root is carried over like the observation root.
NextTrustCheckpointStale(checkpoint, rows, observation) ==
    Append(checkpoint, [replay |-> Roots(checkpoint).replay, observation |-> observation])

\* next_trust_checkpoint: one epoch on, linked to its predecessor, over the
\* registry as it is now.
NextTrustCheckpoint(checkpoint, rows, observation) ==
    Append(checkpoint, [replay |-> ReplayRegistryRoot(rows),
                        observation |-> observation])

\* verify_trust_checkpoint: the registry is the one the checkpoint committed.
VerifyTrustCheckpoint(checkpoint, rows) ==
    Roots(checkpoint).replay = ReplayRegistryRoot(rows)

\* The "trust" object _mint_permit puts in a permit.
TrustConstraints(checkpoint) ==
    [replay_root |-> Roots(checkpoint).replay,
     checkpoint_root |-> RecordHash(checkpoint),
     observation_root |-> Roots(checkpoint).observation,
     minimum_checkpoint_epoch |-> Epoch(checkpoint),
     monotonic_counter |-> MonotonicCounter(checkpoint)]

\* Slip: only the minimum epoch is compared.
TrustHoldsAtLeast(trust, checkpoint) ==
    Epoch(checkpoint) >= trust.minimum_checkpoint_epoch

\* The trust comparisons of verify_permit, given the checkpoint consume_permit holds.
TrustHolds(trust, checkpoint) ==
    /\ Epoch(checkpoint) >= trust.minimum_checkpoint_epoch
    /\ MonotonicCounter(checkpoint) = trust.monotonic_counter
    /\ trust.replay_root = Roots(checkpoint).replay
    /\ trust.checkpoint_root = RecordHash(checkpoint)
    /\ trust.observation_root = Roots(checkpoint).observation

=============================================================================
