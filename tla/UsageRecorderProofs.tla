------------------------- MODULE UsageRecorderProofs -------------------------
(***************************************************************************)
(* Theorems about UsageRecorder, for every number of processes, rows and   *)
(* requests, and every interleaving of their statements, failures and ends.*)
(***************************************************************************)
EXTENDS UsageRecorder, DataLemmas

NatCounts == [Rows -> Nat]

NatFlush ==
    {Idle} \cup [phase : {"upsert"}, batch : NatCounts, todo : SUBSET Rows]
           \cup [phase : {"touch"}, todo : SUBSET Rows, rows : SUBSET Rows]

\* The types, without the bounds that follow from the invariant.
UsageTyped ==
    /\ pending \in [Processes -> NatCounts]
    /\ flush \in [Processes -> NatFlush]
    /\ table \in NatCounts /\ recorded \in NatCounts
    /\ dropped \in NatCounts /\ lost \in NatCounts
    /\ used \in SUBSET Rows
    /\ holder \in [Rows -> Processes \cup {Nobody}]
    /\ faults \in 0..MaxFaults

\* A statement only asks for rows it has something to do with.
TodoIsOwn ==
    \A p \in Processes :
        /\ flush[p].phase = "upsert" => flush[p].todo \subseteq NonZero(flush[p].batch)
        /\ flush[p].phase = "touch" => flush[p].todo \subseteq flush[p].rows

UsageInv ==
    UsageTyped /\ TodoIsOwn /\ LocksBelongToStatements /\ EveryRequestCountsOnce
        /\ Total(recorded) <= MaxRecords

-----------------------------------------------------------------------------
(* Sums over the processes and the rows.                                   *)

\* What a process holds of a row.
Held(p, row) == pending[p][row] + Unflushed(p)[row]

LEMMA ZeroType == Zero \in NatCounts /\ \A row \in Rows : Zero[row] = 0
BY DEF Zero, NatCounts

LEMMA PlusType ==
    ASSUME NEW a \in NatCounts, NEW b \in NatCounts
    PROVE  Plus(a, b) \in NatCounts /\ \A row \in Rows : Plus(a, b)[row] = a[row] + b[row]
BY DEF Plus, NatCounts

LEMMA UnflushedType ==
    ASSUME UsageTyped, NEW p \in Processes
    PROVE  /\ Unflushed(p) \in NatCounts
           /\ \A row \in Rows : Held(p, row) \in Nat
<1>1. flush[p] \in NatFlush /\ pending[p] \in NatCounts
  BY DEF UsageTyped
<1>2. Unflushed(p) \in NatCounts
  BY <1>1, ZeroType DEF Unflushed, NatFlush, Idle
<1>3. QED
  BY <1>1, <1>2 DEF Held, NatCounts

\* A step of one process changes what is in memory by what that process holds.
LEMMA InMemoryChanges ==
    ASSUME UsageTyped, UsageTyped', NEW p \in Processes, NEW row \in Rows,
           \A q \in Processes \ {p} : pending'[q] = pending[q] /\ flush'[q] = flush[q]
    PROVE  /\ InMemory(row)' = InMemory(row) - Held(p, row) + Held(p, row)'
           /\ InMemory(row) \in Nat /\ InMemory(row)' \in Nat
<1> DEFINE before == [q \in Processes |-> Held(q, row)]
           after  == [q \in Processes |-> Held(q, row)']
<1>1. InMemory(row) = SumFunctionOnSet(before, Processes)
  BY DEF InMemory, Total, SumFunction, Held
<1>2. InMemory(row)' = SumFunctionOnSet(after, Processes)
  BY DEF InMemory, Total, SumFunction, Held
<1>3. \A q \in Processes : Held(q, row) \in Nat
  BY UnflushedType
<1>4. \A q \in Processes : Held(q, row)' \in Nat
  <2>1. \A q \in Processes : flush'[q] \in NatFlush /\ pending'[q] \in NatCounts
    BY DEF UsageTyped
  <2>2. \A q \in Processes : (Unflushed(q))' \in NatCounts
    BY <2>1, ZeroType DEF Unflushed, NatFlush, Idle, Zero
  <2>3. QED
    BY <2>1, <2>2 DEF Held, NatCounts
<1>5. \A q \in Processes \ {p} : Held(q, row)' = Held(q, row)
  BY DEF Held, Unflushed, Zero
<1>6. /\ \A q \in Processes : before[q] \in Nat
      /\ \A q \in Processes : after[q] \in Nat
      /\ \A q \in Processes \ {p} : after[q] = before[q]
      /\ before[p] = Held(p, row) /\ after[p] = Held(p, row)'
  BY <1>3, <1>4, <1>5
<1>7. IsFiniteSet(Processes)
  BY UsageConstants
<1> HIDE DEF before, after
<1>8. SumFunctionOnSet(after, Processes)
        = SumFunctionOnSet(before, Processes) - before[p] + after[p]
  BY <1>6, <1>7, SumOfOneChanged
<1>9. SumFunctionOnSet(after, Processes) \in Nat /\ SumFunctionOnSet(before, Processes) \in Nat
  BY <1>6, <1>7, SumWithout
<1>10. QED
  BY <1>1, <1>2, <1>6, <1>8, <1>9

LEMMA Balance ==
    ASSUME NEW r \in Nat, NEW t \in Nat, NEW m \in Nat, NEW h \in Nat, NEW d \in Nat,
           NEW l \in Nat, NEW r2 \in Nat, NEW t2 \in Nat, NEW m2 \in Nat, NEW h2 \in Nat,
           NEW d2 \in Nat, NEW l2 \in Nat,
           r = t + m + d + l,
           m2 = m - h + h2,
           r2 - r = (t2 - t) + (h2 - h) + (d2 - d) + (l2 - l)
    PROVE  r2 = t2 + m2 + d2 + l2
OBVIOUS

\* A step of one process keeps the accounts if what the process holds, the table and what
\* is given up change by as much as is recorded.
LEMMA AccountsKeep ==
    ASSUME UsageInv, UsageTyped', NEW p \in Processes,
           \A q \in Processes \ {p} : pending'[q] = pending[q] /\ flush'[q] = flush[q],
           \A row \in Rows :
              recorded'[row] - recorded[row]
                = (table'[row] - table[row]) + (Held(p, row)' - Held(p, row))
                    + (dropped'[row] - dropped[row]) + (lost'[row] - lost[row])
    PROVE  EveryRequestCountsOnce'
<1>1. SUFFICES ASSUME NEW row \in Rows
               PROVE  recorded'[row] = table'[row] + InMemory(row)' + dropped'[row] + lost'[row]
  BY DEF EveryRequestCountsOnce
<1>2. recorded[row] = table[row] + InMemory(row) + dropped[row] + lost[row]
  BY DEF UsageInv, EveryRequestCountsOnce
<1>3. UsageTyped
  BY DEF UsageInv
<1>4. /\ recorded[row] \in Nat /\ table[row] \in Nat /\ dropped[row] \in Nat /\ lost[row] \in Nat
      /\ recorded'[row] \in Nat /\ table'[row] \in Nat
      /\ dropped'[row] \in Nat /\ lost'[row] \in Nat
  BY <1>3 DEF UsageTyped, NatCounts
<1>5. Held(p, row) \in Nat
  BY <1>3, UnflushedType
<1>6. Held(p, row)' \in Nat
  <2>1. flush'[p] \in NatFlush /\ pending'[p] \in NatCounts
    BY DEF UsageTyped
  <2>2. (Unflushed(p))' \in NatCounts
    BY <2>1, ZeroType DEF Unflushed, NatFlush, Idle, Zero
  <2>3. QED
    BY <2>1, <2>2 DEF Held, NatCounts
<1>7. /\ InMemory(row)' = InMemory(row) - Held(p, row) + Held(p, row)'
      /\ InMemory(row) \in Nat /\ InMemory(row)' \in Nat
  BY <1>3, InMemoryChanges
<1>8. recorded'[row] - recorded[row]
        = (table'[row] - table[row]) + (Held(p, row)' - Held(p, row))
            + (dropped'[row] - dropped[row]) + (lost'[row] - lost[row])
  OBVIOUS
<1>9. QED
  BY <1>2, <1>4, <1>5, <1>6, <1>7, <1>8, Balance

\* Releasing the rows of a process whose statement is over.
LEMMA ReleaseKeeps ==
    ASSUME UsageInv, NEW p \in Processes, Release(p),
           \A q \in Processes \ {p} : flush'[q] = flush[q]
    PROVE  /\ holder' \in [Rows -> Processes \cup {Nobody}]
           /\ LocksBelongToStatements'
<1>1. /\ holder \in [Rows -> Processes \cup {Nobody}]
      /\ holder' = [row \in Rows |-> IF holder[row] = p THEN Nobody ELSE holder[row]]
  BY DEF UsageInv, UsageTyped, Release
<1>2. holder' \in [Rows -> Processes \cup {Nobody}]
  BY <1>1
<1>3. ASSUME NEW row \in Rows, holder'[row] # Nobody
      PROVE  /\ holder'[row] = holder[row] /\ holder[row] \in Processes
             /\ flush'[holder[row]] = flush[holder[row]]
  BY <1>1, <1>3
<1>4. LocksBelongToStatements'
  BY <1>3 DEF UsageInv, LocksBelongToStatements
<1>5. QED
  BY <1>2, <1>4

-----------------------------------------------------------------------------
(* One step.                                                               *)

LEMMA UsageInitHolds == UsageInit => UsageInv
<1> SUFFICES ASSUME UsageInit PROVE UsageInv
  OBVIOUS
<1> USE UsageConstants
<1>1. UsageTyped
  BY ZeroType DEF UsageInit, UsageTyped, NatFlush
<1>2. TodoIsOwn /\ LocksBelongToStatements
  BY DEF UsageInit, TodoIsOwn, Idle, LocksBelongToStatements
<1>3. ASSUME NEW row \in Rows PROVE InMemory(row) = 0
  <2> DEFINE held == [p \in Processes |-> pending[p][row] + Unflushed(p)[row]]
  <2>1. \A p \in Processes : held[p] = 0
    BY ZeroType DEF UsageInit, Unflushed, Idle
  <2>2. InMemory(row) = SumFunctionOnSet(held, Processes)
    BY DEF InMemory, Total, SumFunction
  <2> HIDE DEF held
  <2>3. QED
    BY <2>1, <2>2, SumOfZeros
<1>4. EveryRequestCountsOnce
  BY <1>3, ZeroType DEF UsageInit, EveryRequestCountsOnce
<1>5. Total(recorded) = 0
  <2>1. Total(recorded) = SumFunctionOnSet(Zero, Rows)
    BY DEF UsageInit, Total, SumFunction, Zero
  <2>2. QED
    BY <2>1, ZeroType, SumOfZeros
<1>6. QED
  BY <1>1, <1>2, <1>4, <1>5 DEF UsageInv

LEMMA RecordKeeps ==
    ASSUME UsageInv, NEW p \in Processes, NEW row \in Rows, Record(p, row)
    PROVE  UsageInv'
<1> USE UsageConstants
<1>1. UsageTyped /\ \A q \in Processes : pending[q] \in NatCounts
  BY DEF UsageInv, UsageTyped
<1>2. UsageTyped'
  <2>1. [pending[p] EXCEPT ![row] = @ + 1] \in NatCounts
    BY <1>1 DEF NatCounts
  <2>2. pending' \in [Processes -> NatCounts]
    BY <1>1, <2>1 DEF Record, UsageTyped
  <2>3. recorded' \in NatCounts
    BY <1>1 DEF Record, UsageTyped, NatCounts
  <2>4. QED
    BY <1>1, <2>2, <2>3 DEF Record, UsageTyped
<1>3. TodoIsOwn' /\ LocksBelongToStatements'
  BY DEF Record, UsageInv, TodoIsOwn, LocksBelongToStatements
<1>4. \A q \in Processes \ {p} : pending'[q] = pending[q] /\ flush'[q] = flush[q]
  BY <1>1 DEF Record, UsageTyped
<1>5. EveryRequestCountsOnce'
  <2>1. ASSUME NEW r \in Rows
        PROVE  /\ Held(p, r)' = Held(p, r) + (IF r = row THEN 1 ELSE 0)
               /\ recorded'[r] = recorded[r] + (IF r = row THEN 1 ELSE 0)
               /\ Held(p, r) \in Nat /\ recorded[r] \in Nat
    <3>1. recorded'[r] = recorded[r] + (IF r = row THEN 1 ELSE 0) /\ recorded[r] \in Nat
      BY <1>1 DEF Record, UsageTyped, NatCounts
    <3>2. (Unflushed(p))' = Unflushed(p)
      BY DEF Record, Unflushed, Zero
    <3>3. pending'[p][r] = pending[p][r] + (IF r = row THEN 1 ELSE 0) /\ pending[p][r] \in Nat
      BY <1>1 DEF Record, UsageTyped, NatCounts
    <3>4. Unflushed(p)[r] \in Nat /\ Held(p, r) \in Nat
      BY <1>1, UnflushedType DEF NatCounts
    <3>5. QED
      BY <3>1, <3>2, <3>3, <3>4 DEF Held
  <2>2. \A r \in Rows : table'[r] - table[r] = 0 /\ dropped'[r] - dropped[r] = 0
                          /\ lost'[r] - lost[r] = 0
    BY <1>1 DEF Record, UsageTyped, NatCounts
  <2>3. \A r \in Rows :
          recorded'[r] - recorded[r]
            = (table'[r] - table[r]) + (Held(p, r)' - Held(p, r))
                + (dropped'[r] - dropped[r]) + (lost'[r] - lost[r])
    BY <2>1, <2>2
  <2>4. QED
    BY <1>2, <1>4, <2>3, AccountsKeep
<1>6. Total(recorded)' <= MaxRecords
  <2>1. \A r \in Rows : recorded[r] \in Nat
    BY <1>1 DEF UsageTyped, NatCounts
  <2>2. recorded' = [recorded EXCEPT ![row] = @ + 1]
    BY DEF Record
  <2>3. /\ \A r \in Rows : recorded'[r] \in Nat
        /\ \A r \in Rows \ {row} : recorded'[r] = recorded[r]
        /\ recorded'[row] = recorded[row] + 1
    BY <1>1, <2>1, <2>2 DEF UsageTyped, NatCounts
  <2>4. SumFunctionOnSet(recorded', Rows)
          = SumFunctionOnSet(recorded, Rows) - recorded[row] + recorded'[row]
    BY <2>1, <2>3, SumOfOneChanged
  <2>5. SumFunctionOnSet(recorded, Rows) \in Nat
    BY <2>1, SumWithout
  <2>6. Total(recorded) = SumFunctionOnSet(recorded, Rows)
    BY <1>1 DEF Total, SumFunction, UsageTyped, NatCounts
  <2>7. Total(recorded)' = SumFunctionOnSet(recorded', Rows)
    BY <1>2 DEF Total, SumFunction, UsageTyped, NatCounts
  <2>8. Total(recorded) < MaxRecords
    BY DEF Record
  <2>9. QED
    BY <2>1, <2>3, <2>4, <2>5, <2>6, <2>7, <2>8
<1>7. QED
  BY <1>2, <1>3, <1>5, <1>6 DEF UsageInv

\* A step of a statement records nothing: what it takes from the process is in the table or
\* given up.
LEMMA StatementKeeps ==
    ASSUME UsageInv, NEW p \in Processes, UsageTyped', TodoIsOwn', LocksBelongToStatements',
           recorded' = recorded,
           \A q \in Processes \ {p} : pending'[q] = pending[q] /\ flush'[q] = flush[q],
           \A row \in Rows :
              0 = (table'[row] - table[row]) + (Held(p, row)' - Held(p, row))
                    + (dropped'[row] - dropped[row]) + (lost'[row] - lost[row])
    PROVE  UsageInv'
<1>1. \A row \in Rows : recorded'[row] - recorded[row] = 0
  BY DEF UsageInv, UsageTyped, NatCounts
<1>2. \A row \in Rows :
        recorded'[row] - recorded[row]
          = (table'[row] - table[row]) + (Held(p, row)' - Held(p, row))
              + (dropped'[row] - dropped[row]) + (lost'[row] - lost[row])
  BY <1>1
<1>3. EveryRequestCountsOnce'
  BY <1>2, AccountsKeep
<1>4. Total(recorded)' <= MaxRecords
  BY DEF UsageInv, Total
<1>5. QED
  BY <1>3, <1>4 DEF UsageInv

\* What the typing says of one process.
LEMMA OneProcess ==
    ASSUME UsageTyped, NEW p \in Processes
    PROVE  /\ pending[p] \in NatCounts
           /\ flush[p] \in NatFlush
           /\ \/ flush[p] = Idle
              \/ /\ flush[p].phase = "upsert"
                 /\ flush[p].batch \in NatCounts /\ flush[p].todo \in SUBSET Rows
              \/ /\ flush[p].phase = "touch"
                 /\ flush[p].rows \in SUBSET Rows /\ flush[p].todo \in SUBSET Rows
           /\ Idle.phase = "idle"
BY DEF UsageTyped, NatFlush, Idle

LEMMA DrainKeeps ==
    ASSUME UsageInv, NEW p \in Processes, DrainPending(p)
    PROVE  UsageInv'
<1> DEFINE f == [phase |-> "upsert", batch |-> pending[p], todo |-> NonZero(pending[p])]
<1>1. UsageTyped /\ pending[p] \in NatCounts /\ flush[p] = Idle
  BY OneProcess DEF UsageInv, DrainPending
<1>2. /\ flush' = [flush EXCEPT ![p] = f] /\ pending' = [pending EXCEPT ![p] = Zero]
      /\ UNCHANGED <<table, used, holder, recorded, dropped, lost, faults>>
  BY DEF DrainPending
<1>3. f \in NatFlush /\ f.phase = "upsert" /\ f.batch = pending[p]
        /\ f.todo = NonZero(pending[p])
  BY <1>1 DEF NatFlush, NonZero
<1> HIDE DEF f
<1>4. /\ flush' \in [Processes -> NatFlush] /\ pending' \in [Processes -> NatCounts]
      /\ flush'[p] = f /\ pending'[p] = Zero
      /\ \A q \in Processes \ {p} : pending'[q] = pending[q] /\ flush'[q] = flush[q]
  BY <1>1, <1>2, <1>3, ZeroType DEF UsageTyped
<1>5. UsageTyped'
  BY <1>1, <1>2, <1>4 DEF UsageTyped
<1>6. TodoIsOwn'
  BY <1>3, <1>4 DEF UsageInv, TodoIsOwn, NonZero
<1>7. LocksBelongToStatements'
  <2>1. \A row \in Rows : holder[row] # Nobody => holder[row] # p
    BY <1>1 DEF UsageInv, LocksBelongToStatements
  <2>2. \A row \in Rows : holder[row] # Nobody => holder[row] \in Processes \ {p}
    BY <1>1, <2>1 DEF UsageTyped
  <2>3. QED
    BY <1>2, <1>4, <2>2 DEF UsageInv, LocksBelongToStatements
<1>8. ASSUME NEW row \in Rows
      PROVE  /\ Held(p, row)' - Held(p, row) = 0
             /\ table'[row] - table[row] = 0 /\ dropped'[row] - dropped[row] = 0
             /\ lost'[row] - lost[row] = 0
  <2>1. Held(p, row) = pending[p][row] + 0
    BY <1>1, ZeroType DEF Held, Unflushed, Idle
  <2>2. Held(p, row)' = 0 + pending[p][row]
    BY <1>3, <1>4, ZeroType DEF Held, Unflushed
  <2>3. pending[p][row] \in Nat
    BY <1>1 DEF NatCounts
  <2>4. table'[row] - table[row] = 0 /\ dropped'[row] - dropped[row] = 0
          /\ lost'[row] - lost[row] = 0
    BY <1>1, <1>2 DEF UsageTyped, NatCounts
  <2>5. QED
    BY <2>1, <2>2, <2>3, <2>4
<1>9. \A row \in Rows :
        0 = (table'[row] - table[row]) + (Held(p, row)' - Held(p, row))
              + (dropped'[row] - dropped[row]) + (lost'[row] - lost[row])
  BY <1>8
<1>10. QED
  BY <1>2, <1>4, <1>5, <1>6, <1>7, <1>9, StatementKeeps

LEMMA LockRowKeeps ==
    ASSUME UsageInv, NEW p \in Processes, LockRow(p)
    PROVE  UsageInv'
<1>1. UsageTyped /\ flush[p] # Idle
  BY DEF UsageInv, LockRow
<1>2. PICK row \in flush[p].todo :
        /\ holder[row] = Nobody
        /\ holder' = [holder EXCEPT ![row] = p]
        /\ flush' = [flush EXCEPT ![p].todo = @ \ {row}]
  BY DEF LockRow
<1>3. UNCHANGED <<pending, table, used, recorded, dropped, lost, faults>>
  BY DEF LockRow
<1>4. row \in Rows
  BY <1>1, <1>2, OneProcess
<1>5. /\ flush'[p] = [flush[p] EXCEPT !.todo = @ \ {row}]
      /\ \A q \in Processes \ {p} : flush'[q] = flush[q]
      /\ \A q \in Processes \ {p} : pending'[q] = pending[q] /\ flush'[q] = flush[q]
  BY <1>1, <1>2, <1>3 DEF UsageTyped
<1>6. /\ flush'[p] \in NatFlush
      /\ flush'[p] # Idle
      /\ flush'[p].phase = flush[p].phase
      /\ flush'[p].todo = flush[p].todo \ {row}
      /\ flush[p].phase = "upsert" => flush'[p].batch = flush[p].batch
      /\ flush[p].phase = "touch" => flush'[p].rows = flush[p].rows
  <2>1. CASE flush[p] \in [phase : {"upsert"}, batch : NatCounts, todo : SUBSET Rows]
    BY <1>1, <1>5, <2>1 DEF NatFlush, Idle
  <2>2. CASE flush[p] \in [phase : {"touch"}, todo : SUBSET Rows, rows : SUBSET Rows]
    BY <1>1, <1>5, <2>2 DEF NatFlush, Idle
  <2>3. QED
    BY <1>1, <2>1, <2>2 DEF UsageTyped, NatFlush
<1>7. UsageTyped'
  <2>1. flush' \in [Processes -> NatFlush]
    BY <1>1, <1>2, <1>5, <1>6 DEF UsageTyped
  <2>2. holder' \in [Rows -> Processes \cup {Nobody}]
    BY <1>1, <1>2 DEF UsageTyped
  <2>3. QED
    BY <1>1, <1>3, <2>1, <2>2 DEF UsageTyped
<1>8. TodoIsOwn'
  BY <1>5, <1>6 DEF UsageInv, TodoIsOwn
<1>9. LocksBelongToStatements'
  <2>1. SUFFICES ASSUME NEW r \in Rows, holder'[r] # Nobody
                 PROVE  /\ flush'[holder'[r]] # Idle
                        /\ r \notin flush'[holder'[r]].todo
                        /\ flush'[holder'[r]].phase = "upsert"
                             => flush'[holder'[r]].batch[r] # 0
                        /\ flush'[holder'[r]].phase = "touch"
                             => r \in flush'[holder'[r]].rows
    BY DEF LocksBelongToStatements
  <2>2. CASE r = row
    <3>1. holder'[r] = p
      BY <1>1, <1>2, <1>4, <2>2 DEF UsageTyped
    <3>2. flush[p].phase = "upsert" => flush[p].batch[row] # 0
      BY <1>2 DEF UsageInv, TodoIsOwn, NonZero
    <3>3. flush[p].phase = "touch" => row \in flush[p].rows
      BY <1>2 DEF UsageInv, TodoIsOwn
    <3>4. QED
      BY <1>6, <2>2, <3>1, <3>2, <3>3
  <2>3. CASE r # row /\ holder[r] = p
    <3>1. holder'[r] = p
      BY <1>1, <1>2, <2>3 DEF UsageTyped
    <3>2. p # Nobody
      BY UsageConstants
    <3>3. /\ r \notin flush[p].todo
          /\ flush[p].phase = "upsert" => flush[p].batch[r] # 0
          /\ flush[p].phase = "touch" => r \in flush[p].rows
      BY <2>3, <3>2 DEF UsageInv, LocksBelongToStatements
    <3>4. QED
      BY <1>6, <3>1, <3>3
  <2>4. CASE r # row /\ holder[r] # p
    <3>1. holder'[r] = holder[r] /\ holder[r] \in Processes \ {p}
      BY <1>1, <1>2, <2>1, <2>4 DEF UsageTyped
    <3>2. flush'[holder'[r]] = flush[holder[r]]
      BY <1>5, <3>1
    <3>3. QED
      BY <2>1, <3>1, <3>2 DEF UsageInv, LocksBelongToStatements
  <2>5. QED
    BY <2>2, <2>3, <2>4
<1>10. ASSUME NEW r \in Rows
       PROVE  /\ Held(p, r)' - Held(p, r) = 0
              /\ table'[r] - table[r] = 0 /\ dropped'[r] - dropped[r] = 0
              /\ lost'[r] - lost[r] = 0
  <2>1. Held(p, r)' = Held(p, r)
    BY <1>3, <1>6 DEF Held, Unflushed, Zero
  <2>2. Held(p, r) \in Nat
    BY <1>1, UnflushedType
  <2>3. table'[r] - table[r] = 0 /\ dropped'[r] - dropped[r] = 0 /\ lost'[r] - lost[r] = 0
    BY <1>1, <1>3 DEF UsageTyped, NatCounts
  <2>4. QED
    BY <2>1, <2>2, <2>3
<1>11. \A r \in Rows :
        0 = (table'[r] - table[r]) + (Held(p, r)' - Held(p, r))
              + (dropped'[r] - dropped[r]) + (lost'[r] - lost[r])
  BY <1>10
<1>12. QED
  BY <1>3, <1>5, <1>7, <1>8, <1>9, <1>11, StatementKeeps

\* A statement is over, one way or another: its rows are free, and what it held of a row is
\* in the table, given up or gone with the process.
LEMMA FlushOver ==
    ASSUME UsageInv, NEW p \in Processes, NEW f \in NatFlush,
           f.phase # "upsert", f.phase = "touch" => f.todo \subseteq f.rows,
           flush' = [flush EXCEPT ![p] = f],
           Release(p), recorded' = recorded,
           pending' \in [Processes -> NatCounts],
           \A q \in Processes \ {p} : pending'[q] = pending[q],
           table' \in NatCounts, dropped' \in NatCounts, lost' \in NatCounts,
           used' \in SUBSET Rows, faults' \in 0..MaxFaults,
           \A row \in Rows :
              table'[row] + pending'[p][row] + dropped'[row] + lost'[row]
                = table[row] + pending[p][row] + Unflushed(p)[row] + dropped[row] + lost[row]
    PROVE  UsageInv'
<1>1. UsageTyped
  BY DEF UsageInv
<1>2. /\ flush' \in [Processes -> NatFlush] /\ flush'[p] = f
      /\ \A q \in Processes \ {p} : flush'[q] = flush[q]
      /\ \A q \in Processes \ {p} : pending'[q] = pending[q] /\ flush'[q] = flush[q]
  BY <1>1 DEF UsageTyped
<1>3. holder' \in [Rows -> Processes \cup {Nobody}] /\ LocksBelongToStatements'
  BY <1>2, ReleaseKeeps
<1>4. UsageTyped'
  BY <1>1, <1>2, <1>3 DEF UsageTyped
<1>5. TodoIsOwn'
  BY <1>2 DEF UsageInv, TodoIsOwn
<1>6. ASSUME NEW row \in Rows
      PROVE  0 = (table'[row] - table[row]) + (Held(p, row)' - Held(p, row))
                    + (dropped'[row] - dropped[row]) + (lost'[row] - lost[row])
  <2>1. /\ table[row] \in Nat /\ dropped[row] \in Nat /\ lost[row] \in Nat
        /\ table'[row] \in Nat /\ dropped'[row] \in Nat /\ lost'[row] \in Nat
        /\ pending[p][row] \in Nat /\ pending'[p][row] \in Nat
    BY <1>1 DEF UsageTyped, NatCounts
  <2>2. Unflushed(p)[row] \in Nat
    BY <1>1, UnflushedType DEF NatCounts
  <2>3. Held(p, row) = pending[p][row] + Unflushed(p)[row]
    BY DEF Held
  <2>4. Held(p, row)' = pending'[p][row] + 0
    BY <1>2, ZeroType DEF Held, Unflushed
  <2>5. table'[row] + pending'[p][row] + dropped'[row] + lost'[row]
          = table[row] + pending[p][row] + Unflushed(p)[row] + dropped[row] + lost[row]
    OBVIOUS
  <2>6. QED
    BY <2>1, <2>2, <2>3, <2>4, <2>5
<1>7. \A row \in Rows :
        0 = (table'[row] - table[row]) + (Held(p, row)' - Held(p, row))
              + (dropped'[row] - dropped[row]) + (lost'[row] - lost[row])
  BY <1>6
<1>8. QED
  BY <1>2, <1>3, <1>4, <1>5, <1>7, StatementKeeps

LEMMA IdleIsOver ==
    /\ Idle \in NatFlush /\ Idle.phase # "upsert"
    /\ Idle.phase = "touch" => Idle.todo \subseteq Idle.rows
BY DEF NatFlush, Idle

\* The three ends of a statement that commits.
LEMMA CommitKeeps ==
    ASSUME UsageInv, NEW p \in Processes,
           CommitCounts(p) \/ CommitUnanswered(p) \/ CommitTouch(p)
    PROVE  UsageInv'
<1> USE UsageConstants
<1>1. /\ UsageTyped /\ Release(p) /\ recorded' = recorded /\ pending' = pending
      /\ dropped' = dropped /\ lost' = lost
  BY DEF UsageInv, CommitCounts, CommitUnanswered, CommitTouch
<1>2. faults' \in 0..MaxFaults
  BY <1>1 DEF UsageTyped, CommitCounts, CommitUnanswered, CommitTouch
<1>3. /\ pending' \in [Processes -> NatCounts]
      /\ \A q \in Processes \ {p} : pending'[q] = pending[q]
      /\ dropped' \in NatCounts /\ lost' \in NatCounts
  BY <1>1 DEF UsageTyped
<1>4. ASSUME NEW row \in Rows
      PROVE  /\ table[row] \in Nat /\ dropped[row] \in Nat /\ lost[row] \in Nat
             /\ pending[p][row] \in Nat
  BY <1>1 DEF UsageTyped, NatCounts
<1>5. CASE CommitTouch(p)
  <2>1. flush' = [flush EXCEPT ![p] = Idle] /\ table' = table
          /\ used' = used \cup flush[p].rows /\ flush[p].phase = "touch"
    BY <1>5 DEF CommitTouch
  <2>2. used' \in SUBSET Rows /\ table' \in NatCounts
    BY <1>1, <2>1, OneProcess DEF UsageTyped
  <2>3. ASSUME NEW row \in Rows
        PROVE  table'[row] + pending'[p][row] + dropped'[row] + lost'[row]
                 = table[row] + pending[p][row] + Unflushed(p)[row] + dropped[row] + lost[row]
    <3>1. Unflushed(p)[row] = 0
      BY <2>1, ZeroType DEF Unflushed
    <3>2. QED
      BY <1>1, <1>4, <2>1, <3>1
  <2>4. QED
    BY <1>1, <1>2, <1>3, <2>1, <2>2, <2>3, IdleIsOver, FlushOver
<1>6. CASE CommitCounts(p) \/ CommitUnanswered(p)
  <2>1. flush[p].phase = "upsert" /\ table' = Plus(table, flush[p].batch) /\ used' = used
    BY <1>6 DEF CommitCounts, CommitUnanswered
  <2>2. flush[p].batch \in NatCounts /\ Unflushed(p) = flush[p].batch
    BY <1>1, <2>1, OneProcess DEF Unflushed
  <2>3. used' \in SUBSET Rows /\ table' \in NatCounts
    BY <1>1, <2>1, <2>2, PlusType DEF UsageTyped
  <2>4. ASSUME NEW row \in Rows
        PROVE  table'[row] + pending'[p][row] + dropped'[row] + lost'[row]
                 = table[row] + pending[p][row] + Unflushed(p)[row] + dropped[row] + lost[row]
    <3>1. table'[row] = table[row] + Unflushed(p)[row] /\ Unflushed(p)[row] \in Nat
      BY <1>1, <2>1, <2>2, PlusType DEF UsageTyped, NatCounts
    <3>2. QED
      BY <1>1, <1>4, <3>1
  <2>5. CASE CommitUnanswered(p)
    <3>1. flush' = [flush EXCEPT ![p] = Idle]
      BY <2>5 DEF CommitUnanswered
    <3>2. QED
      BY <1>1, <1>2, <1>3, <2>3, <2>4, <3>1, IdleIsOver, FlushOver
  <2>6. CASE CommitCounts(p)
    <3> DEFINE f == [phase |-> "touch", todo |-> NonZero(flush[p].batch),
                     rows |-> NonZero(flush[p].batch)]
    <3>1. flush' = [flush EXCEPT ![p] = f]
      BY <2>6 DEF CommitCounts
    <3>2. f \in NatFlush /\ f.phase # "upsert" /\ f.todo \subseteq f.rows
      BY DEF NatFlush, NonZero
    <3> HIDE DEF f
    <3>3. QED
      BY <1>1, <1>2, <1>3, <2>3, <2>4, <3>1, <3>2, FlushOver
  <2>7. QED
    BY <1>6, <2>5, <2>6
<1>7. QED
  BY <1>5, <1>6

\* A statement that fails, and a process that stops.
LEMMA FailureKeeps ==
    ASSUME UsageInv, NEW p \in Processes,
           LockTimeout(p) \/ StatementFails(p) \/ StopProcess(p)
    PROVE  UsageInv'
<1> USE UsageConstants
<1>1. /\ UsageTyped /\ Release(p) /\ recorded' = recorded /\ table' = table /\ used' = used
      /\ flush' = [flush EXCEPT ![p] = Idle]
  BY DEF UsageInv, LockTimeout, StatementFails, RollBack, StopProcess
<1>2. faults' \in 0..MaxFaults
  BY <1>1 DEF UsageTyped, LockTimeout, StatementFails, StopProcess
<1>3. table' \in NatCounts /\ used' \in SUBSET Rows
  BY <1>1 DEF UsageTyped
<1>4. /\ Unflushed(p) \in NatCounts /\ pending[p] \in NatCounts
      /\ dropped \in NatCounts /\ lost \in NatCounts
  BY <1>1, UnflushedType, OneProcess DEF UsageTyped
<1>5. ASSUME NEW row \in Rows
      PROVE  /\ table[row] \in Nat /\ dropped[row] \in Nat /\ lost[row] \in Nat
             /\ pending[p][row] \in Nat /\ Unflushed(p)[row] \in Nat
  BY <1>1, <1>4 DEF UsageTyped, NatCounts
<1>6. CASE LockTimeout(p) \/ StatementFails(p)
  <2>1. dropped' = Plus(dropped, Unflushed(p)) /\ lost' = lost /\ pending' = pending
    BY <1>6 DEF LockTimeout, StatementFails, RollBack
  <2>2. /\ dropped' \in NatCounts /\ lost' \in NatCounts
        /\ pending' \in [Processes -> NatCounts]
        /\ \A q \in Processes \ {p} : pending'[q] = pending[q]
    BY <1>1, <1>4, <2>1, PlusType DEF UsageTyped
  <2>3. ASSUME NEW row \in Rows
        PROVE  table'[row] + pending'[p][row] + dropped'[row] + lost'[row]
                 = table[row] + pending[p][row] + Unflushed(p)[row] + dropped[row] + lost[row]
    <3>1. dropped'[row] = dropped[row] + Unflushed(p)[row]
      BY <1>4, <2>1, PlusType
    <3>2. QED
      BY <1>1, <1>5, <2>1, <3>1
  <2>4. QED
    BY <1>1, <1>2, <1>3, <2>2, <2>3, IdleIsOver, FlushOver
<1>7. CASE StopProcess(p)
  <2> DEFINE gone == Plus(pending[p], Unflushed(p))
  <2>1. dropped' = dropped /\ lost' = Plus(lost, gone) /\ pending' = [pending EXCEPT ![p] = Zero]
    BY <1>7 DEF StopProcess
  <2>2. gone \in NatCounts
          /\ \A row \in Rows : gone[row] = pending[p][row] + Unflushed(p)[row]
    BY <1>4, PlusType
  <2> HIDE DEF gone
  <2>3. /\ dropped' \in NatCounts /\ lost' \in NatCounts
        /\ pending' \in [Processes -> NatCounts] /\ pending'[p] = Zero
        /\ \A q \in Processes \ {p} : pending'[q] = pending[q]
    BY <1>1, <1>4, <2>1, <2>2, PlusType, ZeroType DEF UsageTyped
  <2>4. ASSUME NEW row \in Rows
        PROVE  table'[row] + pending'[p][row] + dropped'[row] + lost'[row]
                 = table[row] + pending[p][row] + Unflushed(p)[row] + dropped[row] + lost[row]
    <3>1. lost'[row] = lost[row] + (pending[p][row] + Unflushed(p)[row])
      BY <1>4, <2>1, <2>2, PlusType
    <3>2. pending'[p][row] = 0
      BY <2>3, ZeroType
    <3>3. QED
      BY <1>1, <1>5, <2>1, <3>1, <3>2
  <2>5. QED
    BY <1>1, <1>2, <1>3, <2>3, <2>4, IdleIsOver, FlushOver
<1>8. QED
  BY <1>6, <1>7

LEMMA UsageStep == UsageInv /\ [UsageNext]_usageVars => UsageInv'
<1> SUFFICES ASSUME UsageInv, [UsageNext]_usageVars PROVE UsageInv'
  OBVIOUS
<1>1. ASSUME NEW p \in Processes, NEW row \in Rows, Record(p, row) PROVE UsageInv'
  BY <1>1, RecordKeeps
<1>2. ASSUME NEW p \in Processes, Flusher(p) PROVE UsageInv'
  BY <1>2, DrainKeeps, LockRowKeeps, CommitKeeps, FailureKeeps DEF Flusher
<1>3. ASSUME NEW p \in Processes,
             CommitUnanswered(p) \/ StatementFails(p) \/ StopProcess(p)
      PROVE  UsageInv'
  BY <1>3, CommitKeeps, FailureKeeps
<1>4. ASSUME UNCHANGED usageVars PROVE UsageInv'
  <2>1. UsageTyped' /\ TodoIsOwn' /\ LocksBelongToStatements'
    BY <1>4 DEF UsageInv, UsageTyped, TodoIsOwn, LocksBelongToStatements, usageVars
  <2>2. \A row \in Rows : InMemory(row)' = InMemory(row)
    BY <1>4 DEF InMemory, Unflushed, usageVars, Zero, Total
  <2>3. EveryRequestCountsOnce' /\ Total(recorded)' <= MaxRecords
    BY <1>4, <2>2 DEF UsageInv, EveryRequestCountsOnce, usageVars, Total
  <2>4. QED
    BY <2>1, <2>3 DEF UsageInv
<1>5. QED
  BY <1>1, <1>2, <1>3, <1>4 DEF UsageNext

\* One count of a sum is at most the sum.
LEMMA CountWithinTotal ==
    ASSUME NEW S, IsFiniteSet(S), NEW f \in [S -> Nat], NEW x \in S
    PROVE  f[x] <= Total(f) /\ Total(f) \in Nat
<1>1. Total(f) = SumFunctionOnSet(f, S)
  BY DEF Total, SumFunction
<1>2. /\ SumFunctionOnSet(f, S) \in Nat
      /\ SumFunctionOnSet(f, S) = f[x] + SumFunctionOnSet(f, S \ {x})
  BY SumWithout
<1>3. IsFiniteSet(S \ {x}) /\ \A y \in S \ {x} : f[y] \in Nat
  BY FS_Subset
<1>4. SumFunctionOnSet(f, S \ {x}) \in Nat
  BY <1>3, SumWithout
<1>5. QED
  BY <1>1, <1>2, <1>4

\* No count exceeds what has been recorded, wherever it is.
LEMMA CountsAreBounded ==
    ASSUME UsageInv
    PROVE  UsageTypeOK
<1> USE UsageConstants
<1>1. UsageTyped
  BY DEF UsageInv
<1>2. ASSUME NEW row \in Rows
      PROVE  /\ recorded[row] \in 0..MaxRecords /\ table[row] \in 0..MaxRecords
             /\ dropped[row] \in 0..MaxRecords /\ lost[row] \in 0..MaxRecords
             /\ \A p \in Processes : /\ pending[p][row] \in 0..MaxRecords
                                     /\ Unflushed(p)[row] \in 0..MaxRecords
  <2> DEFINE held == [p \in Processes |-> pending[p][row] + Unflushed(p)[row]]
  <2>1. held \in [Processes -> Nat]
    BY <1>1, UnflushedType DEF Held
  <2>2. InMemory(row) = Total(held)
    BY DEF InMemory
  <2>3. \A p \in Processes : held[p] = pending[p][row] + Unflushed(p)[row]
    OBVIOUS
  <2> HIDE DEF held
  <2>4. recorded \in [Rows -> Nat] /\ Total(recorded) <= MaxRecords
    BY <1>1 DEF UsageInv, UsageTyped, NatCounts
  <2>5. recorded[row] <= Total(recorded) /\ Total(recorded) \in Nat
    BY <2>4, CountWithinTotal
  <2>6. recorded[row] \in Nat /\ recorded[row] <= MaxRecords
    BY <2>4, <2>5
  <2>7. /\ recorded[row] = table[row] + InMemory(row) + dropped[row] + lost[row]
        /\ table[row] \in Nat /\ dropped[row] \in Nat /\ lost[row] \in Nat
    BY <1>1 DEF UsageInv, EveryRequestCountsOnce, UsageTyped, NatCounts
  <2>8. Total(held) \in Nat
    <3>1. CASE Processes = {}
      <4>1. Total(held) = SumFunctionOnSet(held, Processes)
        BY <2>1 DEF Total, SumFunction
      <4>2. \A p \in Processes : held[p] \in Nat
        BY <2>1
      <4>3. QED
        BY <4>1, <4>2, SumWithout
    <3>2. CASE Processes # {}
      <4>1. PICK p \in Processes : TRUE
        BY <3>2
      <4>2. QED
        BY <2>1, <4>1, CountWithinTotal
    <3>3. QED
      BY <3>1, <3>2
  <2>9. /\ table[row] <= MaxRecords /\ dropped[row] <= MaxRecords /\ lost[row] <= MaxRecords
        /\ Total(held) <= MaxRecords
    BY <2>2, <2>6, <2>7, <2>8
  <2>10. ASSUME NEW p \in Processes
         PROVE  pending[p][row] \in 0..MaxRecords /\ Unflushed(p)[row] \in 0..MaxRecords
    <3>1. held[p] <= Total(held)
      BY <2>1, CountWithinTotal
    <3>2. pending[p][row] \in Nat /\ Unflushed(p)[row] \in Nat
      BY <1>1, UnflushedType, OneProcess DEF NatCounts
    <3>3. QED
      BY <2>3, <2>8, <2>9, <3>1, <3>2
  <2>11. QED
    BY <2>6, <2>7, <2>9, <2>10
<1>3. table \in Counts /\ recorded \in Counts /\ dropped \in Counts /\ lost \in Counts
  BY <1>1, <1>2 DEF UsageTyped, NatCounts, Counts
<1>4. ASSUME NEW p \in Processes
      PROVE  pending[p] \in Counts /\ flush[p] \in Flush
  <2>1. pending[p] \in Counts
    BY <1>1, <1>2, OneProcess DEF NatCounts, Counts
  <2>2. CASE flush[p] \in [phase : {"upsert"}, batch : NatCounts, todo : SUBSET Rows]
    <3>1. flush[p].batch \in NatCounts /\ Unflushed(p) = flush[p].batch
      BY <2>2 DEF Unflushed
    <3>2. flush[p].batch \in Counts
      BY <1>2, <3>1 DEF NatCounts, Counts
    <3>3. QED
      BY <2>1, <2>2, <3>2 DEF Flush
  <2>3. CASE flush[p] \notin [phase : {"upsert"}, batch : NatCounts, todo : SUBSET Rows]
    BY <1>1, <2>1, <2>3 DEF UsageTyped, NatFlush, Flush
  <2>4. QED
    BY <2>2, <2>3
<1>5. QED
  BY <1>1, <1>3, <1>4 DEF UsageTyped, UsageTypeOK

-----------------------------------------------------------------------------
(* Theorems.                                                               *)

\* Every request an API process has admitted is counted in exactly one place, and every
\* locked row of usage_hourly belongs to the statement that asked for it, whatever the
\* order in which the flushes of any number of processes lock, commit, fail or die.
THEOREM RecorderAccountable == UsageSpec => []RecorderIsAccountable
<1>1. UsageInv => RecorderIsAccountable
  BY DEF UsageInv, RecorderIsAccountable
<1>2. QED
  BY UsageInitHolds, UsageStep, <1>1, PTL DEF UsageSpec

\* The types, with the bound: no count, in memory or in the table, ever exceeds the number
\* of requests recorded.
THEOREM RecorderTypes == UsageSpec => []UsageTypeOK
<1>1. UsageInv => UsageTypeOK
  BY CountsAreBounded
<1>2. QED
  BY UsageInitHolds, UsageStep, <1>1, PTL DEF UsageSpec

=============================================================================
