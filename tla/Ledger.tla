------------------------------- MODULE Ledger -------------------------------
(***************************************************************************)
(* Ledger of proofrail/core.py: an append-only file of hash-chained        *)
(* entries, one JSON object a line, that all callers append to under an    *)
(* exclusive flock.  An entry hash covers the entry and, through           *)
(* previous_hash, all entries before it: it is modelled as the entry with  *)
(* its predecessor nested in it.                                           *)
(***************************************************************************)
EXTENDS Integers, Sequences

CONSTANTS Callers,
          None,          \* no value
          DiskFailures   \* how a write may fail: a subset of AllDiskFailures

AllDiskFailures == {"nothing",  \* the write raises and no byte gets to the file
                    "torn",     \* part of the record
                    "cut",      \* all of it but the newline
                    "fsync"}    \* the line is written, and fsync raises

ASSUME LedgerAssumption == DiskFailures \subseteq AllDiskFailures /\ None \notin Callers

VARIABLES entries,   \* the records that were written whole, in the order of the file
          torn,      \* the last line is not JSON: part of a record, or more than one
          ended,     \* every record in the file has its newline
          flock      \* who holds the lock of the file

fileVars == <<entries, torn, ended>>
ledgerVars == <<fileVars, flock>>

Genesis == "GENESIS"

LedgerInit == entries = <<>> /\ torn = FALSE /\ ended = TRUE /\ flock = None

\* The entry append makes from the lines it has read.
NextEntry(lines, action, outcome) ==
    [sequence |-> Len(lines) + 1, action |-> action, outcome |-> outcome,
     previous |-> IF lines = <<>> THEN Genesis ELSE lines[Len(lines)]]

\* Slip: the file stays open.
CloseFileKept(c) == UNCHANGED flock

\* Closing the file gives its lock back.
CloseFile(c) == flock' = IF flock = c THEN None ELSE flock

\* Slip: the file is not locked.
LockFileShared(c) == UNCHANGED ledgerVars

\* flock(LOCK_EX): waits until nobody holds it.
LockFile(c) == flock = None /\ flock' = c /\ UNCHANGED fileVars

\* A whole record gets to the file: on the last line, if that has no newline.
Put(entry, newline) ==
    /\ entries' = Append(entries, entry)
    /\ torn' = (torn \/ ~ended)
    /\ ended' = (ended /\ newline)

\* Part of a record gets to the file.
PutPart == torn' = TRUE /\ ended' = FALSE /\ UNCHANGED entries

\* The line is in the file and synced.
WriteLine(c, entry) == Put(entry, TRUE) /\ CloseFile(c)

\* Writing raises; the with block closes the file.
WriteFails(c, entry) ==
    /\ \/ "nothing" \in DiskFailures /\ UNCHANGED fileVars
       \/ "torn" \in DiskFailures /\ PutPart
       \/ "cut" \in DiskFailures /\ Put(entry, FALSE)
       \/ "fsync" \in DiskFailures /\ Put(entry, TRUE)
    /\ CloseFile(c)

\* verify, and the numbering it does not look at: every entry follows its predecessor.
Chained(lines) ==
    \A i \in DOMAIN lines :
        /\ lines[i].sequence = i
        /\ lines[i].previous = IF i = 1 THEN Genesis ELSE lines[i - 1]
=============================================================================
