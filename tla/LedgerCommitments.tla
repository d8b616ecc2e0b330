-------------------------- MODULE LedgerCommitments --------------------------
(***************************************************************************)
(* proofrail/checkpoint.py and proofrail/anchor.py: what is computed from  *)
(* a ledger file, and what a signed commitment to it is compared with.     *)
(*                                                                         *)
(* A file is a sequence of lines, a line the sequence of what was written  *)
(* on it: one record as a rule, two when the newline between them is lost, *)
(* or part of one (Torn).  A record is in the format of ledger entries, in *)
(* that of signed records, or plain, without a hash.  A hash is modelled   *)
(* as the value it covers, a node of the Merkle tree as its children.      *)
(* Commitments are signed by the program and kept outside it: their        *)
(* signatures verify.                                                      *)
(***************************************************************************)
EXTENDS Integers, SequencesExt

CONSTANTS None,      \* no value (null)
          Absent,    \* a key the record does not have
          Genesis,   \* "GENESIS"
          Torn       \* the first part of a record

\* What a record's hash covers, and a record with the hash that fits.
Digest(r) == [body |-> r.body, sequence |-> r.sequence, previous |-> r.previous]
Hashed(format, sequence, body, previous) ==
    [format |-> format, sequence |-> sequence, body |-> body, previous |-> previous,
     hash |-> [body |-> body, sequence |-> sequence, previous |-> previous]]

\* Part of a record is no record, and no record is without a hash.  Hashes are
\* nested, so there is no set of all records that an assumption on the constants
\* could name: what needs this says so.
MarkersApart ==
    \A sequence, body, previous :
        LET record == Hashed("entry", sequence, body, previous)
        IN record # Torn /\ record.hash # None

-----------------------------------------------------------------------------
(* Reading *)

\* read_ledger raises if a line is not one JSON object.
Readable(file) == \A i \in DOMAIN file : Len(file[i]) = 1 /\ file[i][1] # Torn
Records(file) == [i \in DOMAIN file |-> file[i][1]]

\* The hash that a record after the first n should name: of the last one that
\* claims any, or the given value if none does.
PreviousHash(records, n, start) ==
    LET hashed == {j \in 1..n : records[j].hash # None}
    IN IF hashed = {} THEN start ELSE records[Max(hashed)].hash

\* The loop of verify_ledger, for one record.
LinkHolds(records, i) ==
    LET r == records[i]
    IN CASE r.format = "entry" ->
               r.hash = Digest(r) /\ r.previous = PreviousHash(records, i - 1, Genesis)
         [] r.format = "record" ->
               r.hash = Digest(r)
               /\ r.previous \in {Absent, PreviousHash(records, i - 1, None)}
         [] OTHER -> FALSE

-----------------------------------------------------------------------------
(* merkle_root *)

Leaf(record) == <<"leaf", record>>
Node(left, right) == <<"node", left, right>>

\* One level up: an odd level first gets its last node twice.
Parents(level) ==
    LET even == IF Len(level) % 2 = 1 THEN Append(level, Last(level)) ELSE level
    IN [i \in 1..(Len(even) \div 2) |-> Node(even[2 * i - 1], even[2 * i])]

MerkleRoot(records) ==
    LET level[k \in 0..Len(records)] ==
            IF k = 0 THEN [i \in DOMAIN records |-> Leaf(records[i])]
            ELSE IF Len(level[k - 1]) = 1 THEN level[k - 1]
            ELSE Parents(level[k - 1])
    IN IF records = <<>> THEN <<>> ELSE level[Len(records)][1]

-----------------------------------------------------------------------------
(* verify_ledger, create_checkpoint, verify_checkpoint *)

HashAt(records, i) == IF records = <<>> THEN None ELSE records[i].hash

VerifyLedger(file) ==
    IF Readable(file)
    THEN LET records == Records(file)
         IN [valid |-> \A i \in DOMAIN records : LinkHolds(records, i),
             entry_count |-> Len(records),
             first_hash |-> HashAt(records, 1), last_hash |-> HashAt(records, Len(records)),
             merkle_root |-> MerkleRoot(records)]
    ELSE [valid |-> FALSE, entry_count |-> 0, first_hash |-> None, last_hash |-> None,
          merkle_root |-> None]

\* Slip: the number of entries is not part of the commitment.
CommitmentUncounted(verification) ==
    [first_hash |-> verification.first_hash, last_hash |-> verification.last_hash,
     merkle_root |-> verification.merkle_root]

\* What a checkpoint holds of a verification, and what it is compared with.
Commitment(verification) ==
    [entry_count |-> verification.entry_count,
     first_hash |-> verification.first_hash, last_hash |-> verification.last_hash,
     merkle_root |-> verification.merkle_root]

VerifyCheckpoint(checkpoint, file) ==
    LET verification == VerifyLedger(file)
    IN verification.valid /\ checkpoint = Commitment(verification)

-----------------------------------------------------------------------------
(* create_anchor, verify_anchor *)

\* sequence_range, of the records that have an integer sequence.
SequenceRange(records) ==
    LET numbers == {records[i].sequence : i \in DOMAIN records} \ {None}
    IN [start |-> IF numbers # {} THEN Min(numbers) ELSE IF records = <<>> THEN 0 ELSE 1,
        end |-> IF numbers # {} THEN Max(numbers) ELSE Len(records),
        entry_count |-> Len(records)]

\* Slip: the range is not part of the anchor.
AnchorRangeless(verification, records) ==
    [merkle_root |-> verification.merkle_root,
     first_hash |-> verification.first_hash, last_hash |-> verification.last_hash]

\* An anchor is made of a verification and of a second reading of the file.
Anchor(verification, records) ==
    [merkle_root |-> verification.merkle_root,
     first_hash |-> verification.first_hash, last_hash |-> verification.last_hash,
     sequence_range |-> SequenceRange(records)]

VerifyAnchor(anchor, file) ==
    LET verification == VerifyLedger(file)
    IN verification.valid /\ anchor = Anchor(verification, Records(file))

-----------------------------------------------------------------------------
(* export_ledger *)

\* Slip: every wrapped record is chained to the start.
LegacyEnvelopesUnchained(records) ==
    [i \in DOMAIN records |-> <<Hashed("entry", i, [payload |-> records[i]], Genesis)>>]

\* _write_legacy_envelopes: every record wrapped, the wrappers chained.
LegacyEnvelopes(records) ==
    LET envelope[i \in DOMAIN records] ==
            Hashed("entry", i, [payload |-> records[i]],
                   IF i = 1 THEN Genesis ELSE envelope[i - 1].hash)
    IN [i \in DOMAIN records |-> <<envelope[i]>>]

\* The file export_ledger leaves, or None if it refuses.
ExportLedger(file) ==
    LET legacy == /\ Readable(file) /\ file # <<>>
                  /\ \A i \in DOMAIN file : file[i][1].hash = None
    IN IF legacy THEN LegacyEnvelopes(Records(file))
       ELSE IF VerifyLedger(file).valid THEN file
       ELSE None

-----------------------------------------------------------------------------
(* Properties of the computations, over a set of files *)

\* Of pairs of a ledger and a commitment: no two ledgers have the same one.
TellApart(pairs) == \A a, b \in pairs : a[2] = b[2] => a[1] = b[1]

\* No two valid ledgers have one commitment, although the Merkle tree repeats the
\* last node of an odd level: neither a checkpoint nor an anchor of one verifies
\* against another.
PinsEachOf(files) ==
    LET valid == {f \in files : VerifyLedger(f).valid}
    IN /\ TellApart({<<f, Commitment(VerifyLedger(f))>> : f \in valid})
       /\ TellApart({<<f, Anchor(VerifyLedger(f), Records(f))>> : f \in valid})

\* Whatever export_ledger leaves verifies, and no two ledgers are exported with one
\* commitment, the wrapped ones included.
ExportsEachOf(files) ==
    LET exported == {f \in files : ExportLedger(f) # None}
    IN /\ \A f \in exported : VerifyLedger(ExportLedger(f)).valid
       /\ TellApart({<<f, Commitment(VerifyLedger(ExportLedger(f)))>> : f \in exported})

\* create_anchor reads the file twice, and lines may be appended in between: where
\* no record is repeated, the anchor verifies against one of the two ledgers only
\* if they are the same, so that a mixed one is never taken for either.
AnchorsEachOf(files) ==
    \A later \in {f \in files : VerifyLedger(f).valid /\ Cardinality(Range(f)) = Len(f)} :
        \A n \in 0..Len(later) :
            LET earlier == SubSeq(later, 1, n)
                anchor == Anchor(VerifyLedger(earlier), Records(later))
            IN \A f \in {earlier, later} : VerifyAnchor(anchor, f) <=> n = Len(later)
=============================================================================
