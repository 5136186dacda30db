--------------------------- MODULE UsageRecorder ----------------------------
(***************************************************************************)
(* apps/api/src/accounts/usage.rs: every API process counts the requests it *)
(* admits per (key, hour) in memory and, once a minute, adds what it has    *)
(* drained to usage_hourly in one statement, then marks the keys as used in *)
(* a second one.  A statement locks its rows one by one, in the order in    *)
(* which the drained map yields them, so the flushes of two processes (a    *)
(* rollout runs two) can wait for each other until PostgreSQL or the lock   *)
(* timeout ends one.                                                        *)
(***************************************************************************)
EXTENDS Integers, FiniteSets, Functions

CONSTANTS
    Processes,   \* the API processes
    Rows,        \* (api_key_id, hour) pairs
    Nobody,      \* the holder of a row that is not locked
    MaxRecords,  \* bound: requests recorded
    MaxFaults    \* bound: failed statements, lost answers and crashes

ASSUME UsageConstants ==
    /\ IsFiniteSet(Processes) /\ IsFiniteSet(Rows)
    /\ Nobody \notin Processes
    /\ MaxRecords \in Nat /\ MaxFaults \in Nat

VARIABLES
    pending,   \* UsageRecorder.pending of each process; a row that is absent counts 0
    flush,     \* the flush under way in each process
    table,     \* usage_hourly.requests
    used,      \* the rows whose key has last_used_at set
    holder,    \* the process whose statement has locked the row
    recorded,  \* history: requests recorded per row
    dropped,   \* history: requests of batches the recorder has given up on
    lost,      \* history: requests that were in the memory of a process that stopped
    faults

usageVars == <<pending, flush, table, used, holder, recorded, dropped, lost, faults>>

Idle == [phase |-> "idle"]

Zero == [row \in Rows |-> 0]

NonZero(counts) == {row \in Rows : counts[row] # 0}

Plus(a, b) == [row \in Rows |-> a[row] + b[row]]

Total(counts) == SumFunction(counts)

Release(p) == holder' = [row \in Rows |-> IF holder[row] = p THEN Nobody ELSE holder[row]]

\* What a flush has drained and not yet added to the table.
Unflushed(p) == IF flush[p].phase = "upsert" THEN flush[p].batch ELSE Zero

UsageInit ==
    /\ pending = [p \in Processes |-> Zero]
    /\ flush = [p \in Processes |-> Idle]
    /\ table = Zero
    /\ used = {}
    /\ holder = [row \in Rows |-> Nobody]
    /\ recorded = Zero
    /\ dropped = Zero
    /\ lost = Zero
    /\ faults = 0

\* A request is admitted: record, under the mutex.
Record(p, row) ==
    /\ Total(recorded) < MaxRecords
    /\ pending' = [pending EXCEPT ![p][row] = @ + 1]
    /\ recorded' = [recorded EXCEPT ![row] = @ + 1]
    /\ UNCHANGED <<flush, table, used, holder, dropped, lost, faults>>

\* The flusher's tick: drain, under the mutex; an empty batch sends nothing.
DrainPending(p) ==
    /\ flush[p] = Idle
    /\ pending[p] # Zero
    /\ flush' = [flush EXCEPT ![p] =
          [phase |-> "upsert", batch |-> pending[p], todo |-> NonZero(pending[p])]]
    /\ pending' = [pending EXCEPT ![p] = Zero]
    /\ UNCHANGED <<table, used, holder, recorded, dropped, lost, faults>>

\* A statement locks one more of its rows.
LockRow(p) ==
    /\ flush[p] # Idle
    /\ \E row \in flush[p].todo :
          /\ holder[row] = Nobody
          /\ holder' = [holder EXCEPT ![row] = p]
          /\ flush' = [flush EXCEPT ![p].todo = @ \ {row}]
    /\ UNCHANGED <<pending, table, used, recorded, dropped, lost, faults>>

\* The counts are added and committed, and the second statement is sent.
CommitCounts(p) ==
    /\ flush[p].phase = "upsert" /\ flush[p].todo = {}
    /\ table' = Plus(table, flush[p].batch)
    /\ Release(p)
    /\ flush' = [flush EXCEPT ![p] = [phase |-> "touch", todo |-> NonZero(flush[p].batch),
                                      rows |-> NonZero(flush[p].batch)]]
    /\ UNCHANGED <<pending, used, recorded, dropped, lost, faults>>

\* Mutant: a batch whose flush returned an error is flushed again.
RetryUnanswered(p) ==
    /\ faults < MaxFaults
    /\ flush[p].phase = "upsert" /\ flush[p].todo = {}
    /\ table' = Plus(table, flush[p].batch)
    /\ pending' = [pending EXCEPT ![p] = Plus(@, flush[p].batch)]
    /\ Release(p)
    /\ flush' = [flush EXCEPT ![p] = Idle]
    /\ faults' = faults + 1
    /\ UNCHANGED <<used, recorded, dropped, lost>>

\* The counts are committed and the answer is lost: flush returns the error.
CommitUnanswered(p) ==
    /\ faults < MaxFaults
    /\ flush[p].phase = "upsert" /\ flush[p].todo = {}
    /\ table' = Plus(table, flush[p].batch)
    /\ Release(p)
    /\ flush' = [flush EXCEPT ![p] = Idle]
    /\ faults' = faults + 1
    /\ UNCHANGED <<pending, used, recorded, dropped, lost>>

\* last_used_at is set, and the flusher waits for its next tick.
CommitTouch(p) ==
    /\ flush[p].phase = "touch" /\ flush[p].todo = {}
    /\ used' = used \cup flush[p].rows
    /\ Release(p)
    /\ flush' = [flush EXCEPT ![p] = Idle]
    /\ UNCHANGED <<pending, table, recorded, dropped, lost, faults>>

\* A statement is rolled back: the flusher prints the error and drops the batch.
RollBack(p) ==
    /\ dropped' = Plus(dropped, Unflushed(p))
    /\ Release(p)
    /\ flush' = [flush EXCEPT ![p] = Idle]
    /\ UNCHANGED <<pending, table, used, recorded, lost>>

\* Mutant: a statement waits for as long as it takes.
WaitsForEver(p) == flush[p] # Idle /\ FALSE

\* The statement waits for a row another process holds, for the lock timeout or until
\* PostgreSQL finds the deadlock.
LockTimeout(p) ==
    /\ flush[p] # Idle
    /\ \E row \in flush[p].todo : holder[row] \notin {Nobody, p}
    /\ RollBack(p)
    /\ UNCHANGED faults

\* No connection in time, a statement timeout, a database that went away.
StatementFails(p) ==
    /\ faults < MaxFaults
    /\ flush[p] # Idle
    /\ RollBack(p)
    /\ faults' = faults + 1

\* The process stops, gracefully or not: serve returns without a flush, and a statement
\* on its way is rolled back.  Another one starts in its place.
StopProcess(p) ==
    /\ faults < MaxFaults
    /\ pending' = [pending EXCEPT ![p] = Zero]
    /\ lost' = Plus(lost, Plus(pending[p], Unflushed(p)))
    /\ Release(p)
    /\ flush' = [flush EXCEPT ![p] = Idle]
    /\ faults' = faults + 1
    /\ UNCHANGED <<table, used, recorded, dropped>>

Flusher(p) ==
    DrainPending(p) \/ LockRow(p) \/ CommitCounts(p) \/ CommitTouch(p) \/ LockTimeout(p)

UsageNext ==
    \E p \in Processes :
        \/ \E row \in Rows : Record(p, row)
        \/ Flusher(p)
        \/ CommitUnanswered(p) \/ StatementFails(p) \/ StopProcess(p)

UsageSpec == UsageInit /\ [][UsageNext]_usageVars

-----------------------------------------------------------------------------
(* Properties.                                                             *)

Counts == [Rows -> 0..MaxRecords]

Flush ==
    {Idle} \cup [phase : {"upsert"}, batch : Counts, todo : SUBSET Rows]
           \cup [phase : {"touch"}, todo : SUBSET Rows, rows : SUBSET Rows]

UsageTypeOK ==
    /\ pending \in [Processes -> Counts]
    /\ flush \in [Processes -> Flush]
    /\ table \in Counts /\ recorded \in Counts /\ dropped \in Counts /\ lost \in Counts
    /\ used \in SUBSET Rows
    /\ holder \in [Rows -> Processes \cup {Nobody}]
    /\ faults \in 0..MaxFaults

InMemory(row) == Total([p \in Processes |-> pending[p][row] + Unflushed(p)[row]])

\* Every recorded request is in exactly one place: in the memory of a process, in
\* usage_hourly, or given up with a batch or a process.  Nothing is counted twice, not
\* even when a commit's answer is lost, and what two processes add to one row adds up.
EveryRequestCountsOnce ==
    \A row \in Rows :
        recorded[row] = table[row] + InMemory(row) + dropped[row] + lost[row]

\* A row is locked by the one statement that has asked for it, and by nobody when that
\* statement is over: a failed flush leaves no row behind it that blocks the next.
LocksBelongToStatements ==
    \A row \in Rows :
        holder[row] # Nobody =>
            LET f == flush[holder[row]] IN
            /\ f # Idle
            /\ row \notin f.todo
            /\ f.phase = "upsert" => f.batch[row] # 0
            /\ f.phase = "touch" => row \in f.rows

\* Both: every count has its place, and every lock its statement.
RecorderIsAccountable == EveryRequestCountsOnce /\ LocksBelongToStatements

\* Processes that flush the same rows in different orders do not wait for each other
\* for ever, and what is pending leaves memory (usage lags by a minute, not for good:
\* docs/exceptions.md, "Key revocation, plan changes, and usage are eventually consistent").
PendingIsFlushed ==
    \A p \in Processes : /\ flush[p] # Idle ~> flush[p] = Idle
                         /\ pending[p] # Zero ~> pending[p] = Zero

=============================================================================
