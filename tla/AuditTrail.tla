----------------------------- MODULE AuditTrail -----------------------------
(***************************************************************************)
(* The audit trail of proofrail/server.py: _audit puts an event on a line  *)
(* of the tenant's ledger file, under a lock of the process, and then in a *)
(* row of pilot_audit_events, without it.  proofrail/audit_export.py makes *)
(* the permit life-cycle report of the rows.                               *)
(*                                                                         *)
(* The file keeps what a failed write left.  fsync comes before the row,   *)
(* so a crash takes nothing from the file but the line being written.      *)
(***************************************************************************)
EXTENDS LedgerCommitments

CONSTANTS Threads,        \* request threads
          Processes,      \* server processes
          Host,           \* the process each thread belongs to
          DiskFailures,   \* how a write may fail: a subset of AllDiskFailures
          DatabaseFails,  \* BOOLEAN: an insert may raise
          SecondTicks,    \* how many times of the clock are in a second
          MaxClock        \* bound: the last time of the clock

AllDiskFailures == {"nothing",  \* no byte gets to the file
                    "torn",     \* part of the record
                    "cut",      \* all of it but the newline
                    "fsync"}    \* the line is written, and fsync raises

ASSUME AuditAssumption ==
    /\ IsFiniteSet(Threads) /\ Host \in [Threads -> Processes]
    /\ DiskFailures \subseteq AllDiskFailures /\ DatabaseFails \in BOOLEAN
    /\ SecondTicks \in Nat \ {0} /\ MaxClock \in Nat /\ None \notin Threads

VARIABLES lines,       \* the ledger file
          ended,       \* its last line has a newline
          rows,        \* pilot_audit_events
          ledgerLock,  \* per process, the thread that has _ledger_lock
          clock        \* the last time that _timestamp gave

auditVars == <<lines, ended, rows, ledgerLock, clock>>

AuditInit ==
    /\ lines = <<>> /\ ended = TRUE /\ rows = {}
    /\ ledgerLock = [h \in Processes |-> None]
    /\ clock = 0

\* _timestamp: the clock has gone on since it was read last, or not visibly so.
Timestamp == clock' \in clock..MaxClock

-----------------------------------------------------------------------------
(* _audit *)

\* What an event says, sampled before the lock is waited for.
Draft(object, permit, state, time) ==
    [object |-> object, permit |-> permit, state |-> state, observed_at |-> time]

\* The event, numbered and chained by the records that are there.
NextEvent(records, draft) ==
    Hashed("entry", Len(records) + 1, draft,
           IF records = <<>> THEN Genesis ELSE Last(records).hash)

\* Slip: the lock is not taken.
AcquireNothing(t) == UNCHANGED ledgerLock

Acquire(t) ==
    /\ ledgerLock[Host[t]] = None
    /\ ledgerLock' = [ledgerLock EXCEPT ![Host[t]] = t]

\* Slip: a write that raises keeps the lock.
ReleaseWritten(t) ==
    ledgerLock' = [ledgerLock EXCEPT ![Host[t]] =
                       IF @ = t /\ Readable(lines') THEN None ELSE @]

\* Leaving the with block, in whatever way, gives the lock back.
Release(t) ==
    ledgerLock' = [ledgerLock EXCEPT ![Host[t]] = IF @ = t THEN None ELSE @]

\* Characters appended to the file: on the last line, if that was not ended.
Put(chunk, newline) ==
    /\ lines' = IF ended THEN Append(lines, <<chunk>>)
                ELSE [lines EXCEPT ![Len(lines)] = Append(@, chunk)]
    /\ ended' = newline

WriteLine(event) == Put(event, TRUE)

\* The write raises, or the process dies in it.
WriteFails(event) ==
    \/ "nothing" \in DiskFailures /\ UNCHANGED <<lines, ended>>
    \/ "torn" \in DiskFailures /\ Put(Torn, FALSE)
    \/ "cut" \in DiskFailures /\ Put(event, FALSE)
    \/ "fsync" \in DiskFailures /\ Put(event, TRUE)

\* The row: (tenant_id, sequence) is unique, a second one raises.
Insertable(event) == \A row \in rows : row.sequence # event.sequence
InsertRow(event) == Insertable(event) /\ rows' = rows \union {event}

-----------------------------------------------------------------------------
(* permit_lifecycle_report *)

\* Times are sorted as they are printed.  isoformat leaves the fraction out on a whole
\* second, and "05Z" sorts behind "05.9Z": after all other times of its second.
Whole(time) == time % SecondTicks = 0
Printed(time) == IF Whole(time) THEN time + SecondTicks ELSE time

\* Slip: by time alone.
EarlierByTime(a, b) == Printed(a.body.observed_at) < Printed(b.body.observed_at)

\* By time, and by sequence where the time is equal.
Earlier(a, b) ==
    \/ Printed(a.body.observed_at) < Printed(b.body.observed_at)
    \/ /\ Printed(a.body.observed_at) = Printed(b.body.observed_at)
       /\ a.sequence < b.sequence

\* The states of a permit, in the order of the report.
ReportedStates(p) ==
    LET events == {row \in rows : row.body.permit = p /\ row.body.state # None}
        Place(event) == Cardinality({e \in events : Earlier(e, event)}) + 1
    IN [i \in 1..Cardinality(events) |->
           (CHOOSE event \in events : Place(event) = i).body.state]

-----------------------------------------------------------------------------

\* All events that were written whole, whatever became of the ends of lines.
Written == (UNION {Range(lines[i]) : i \in DOMAIN lines}) \ {Torn}
=============================================================================
