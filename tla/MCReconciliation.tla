-------------------------- MODULE MCReconciliation --------------------------
(***************************************************************************)
(* One server with two threads, three observers of whom the last may deny  *)
(* or claim the approved merge whatever it sees, or not sign what it does, *)
(* and one pull request with an approved and another head.                 *)
(***************************************************************************)
EXTENDS Reconciliation

CONSTANTS t1, t2, server, o1, o2, o3, p1, h1, h2, x, y

TwoThreads == {t1, t2}
OneServer == {server}
SameHost == [t \in TwoThreads |-> server]
ThreeSigners == {o1, o2, o3}
InOrder == <<o1, o2, o3>>
OneFaulty == {o3}
OnePermit == {p1}
TwoHeads == {h1, h2}
Approved == [p \in OnePermit |-> h1]
AllFailures == {"nothing", "torn", "cut", "fsync"}
Stateable == AllStatements
ClaimedOrDenied == {[merged |-> TRUE, head |-> h1, sha |-> p1],
                    [merged |-> FALSE, head |-> h1, sha |-> None]}

(***************************************************************************)
(* Short ledgers in every format: two signed records that are not chained, *)
(* two that are, two chained entries, and two plain records.  What is      *)
(* computed of them does not depend on the state: the initial one serves.  *)
(***************************************************************************)
Loose(body) == Hashed("record", None, body, Absent)
FirstRecord == Hashed("record", None, x, None)
NextRecord == Hashed("record", None, y, FirstRecord.hash)
FirstEntry == Hashed("entry", 1, x, Genesis)
SecondEntry == Hashed("entry", 2, y, FirstEntry.hash)
Plain(body) == [format |-> "plain", sequence |-> None, body |-> body, previous |-> Absent,
                hash |-> None]
SampleRecords == {Loose(x), Loose(y), FirstRecord, NextRecord, FirstEntry, SecondEntry,
                  Plain(x), Plain(y)}
ASSUME BodiesAssumption == \A r \in SampleRecords : [payload |-> r] \notin {x, y}
SampleFiles == UNION {[1..n -> {<<r>> : r \in SampleRecords}] : n \in 0..4}

\* No two valid ledgers share a commitment (see PinsEachOf).
CommitmentsPinLedgers == Init => PinsEachOf(SampleFiles)

\* Whatever is exported verifies and is told apart (see ExportsEachOf).
ExportsVerify == Init => ExportsEachOf(SampleFiles)

\* An anchor of two readings with an append between them verifies against nothing.
AnchorsPinOneReading == Init => AnchorsEachOf(SampleFiles)

Symmetry == Permutations(TwoThreads)
=============================================================================
