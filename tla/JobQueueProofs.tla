--------------------------- MODULE JobQueueProofs ---------------------------
(* Theorems about JobQueue, for every value of its constants.              *)
EXTENDS JobQueue, TLAPS

\* The inductive invariant: types, what a worker's copy of a job says of the
\* row, what a row's count of tries says of its past, and who owns a row.
IInv == TypeOK /\ WorkerCoherent /\ RowCoherent /\ HolderOwnsRow

\* What RetryJob writes into run_after is a number of ticks, whatever the
\* doubling comes to.
LEMMA RetryDelaysAreTicks ==
  ASSUME NEW n, NEW d \in RetryDelays(n)
  PROVE  d \in 0 .. Horizon
BY QueueAssumption DEF RetryDelays

\* A worker in the middle of a job carries the id of a row.
LEMMA BusyWorkerCarriesJob ==
  ASSUME IInv, NEW w \in Workers, at[w] # "idle"
  PROVE  holds[w] \in JobIds
BY DEF IInv, TypeOK, WorkerCoherent

\* Every step keeps the types.
LEMMA TypeStep ==
  ASSUME IInv, [Next]_vars
  PROVE  TypeOK'
<1> USE QueueAssumption DEF IInv
<1>1. ASSUME NEW k \in Kinds, NEW dk \in Keys \cup {NoKey}, NEW d \in Delays, Enqueue(k, dk, d)
      PROVE  TypeOK'
  BY <1>1 DEF Enqueue, Fresh, pool, past, TypeOK, WorkerCoherent, Statuses, WorkerStates
<1>2. ASSUME NEW w \in Workers, Claim(w)
      PROVE  TypeOK'
  BY <1>2 DEF Claim, Runnable, past, TypeOK, WorkerCoherent, Statuses, WorkerStates
<1>3. ASSUME NEW w \in Workers, NEW o \in {"succeeded", "erred"}, HandlerReturns(w, o)
      PROVE  TypeOK'
  BY <1>3 DEF HandlerReturns, rows, TypeOK, WorkerCoherent, Statuses, WorkerStates
<1>4. ASSUME NEW w \in Workers, RecordDone(w)
      PROVE  TypeOK'
  <2>1. holds[w] \in JobIds
    BY <1>4, BusyWorkerCarriesJob DEF RecordDone
  <2>2. CASE Settle(holds[w], "done")
    BY <1>4, <2>1, <2>2 DEF RecordDone, Settle, Unlock, Release, past, TypeOK, Statuses, WorkerStates
  <2>3. CASE UNCHANGED rows
    BY <1>4, <2>1, <2>3 DEF RecordDone, Release, rows, past, TypeOK, Statuses, WorkerStates
  <2>4. QED
    BY <1>4, <2>2, <2>3 DEF RecordDone
<1>5. ASSUME NEW w \in Workers, RecordUnhandled(w)
      PROVE  TypeOK'
  <2>1. holds[w] \in JobIds
    BY <1>5, BusyWorkerCarriesJob DEF RecordUnhandled
  <2>2. CASE Settle(holds[w], "failed")
    BY <1>5, <2>1, <2>2 DEF RecordUnhandled, Settle, Unlock, Release, past, TypeOK, Statuses, WorkerStates
  <2>3. CASE UNCHANGED rows
    BY <1>5, <2>1, <2>3 DEF RecordUnhandled, Release, rows, past, TypeOK, Statuses, WorkerStates
  <2>4. QED
    BY <1>5, <2>2, <2>3 DEF RecordUnhandled
<1>6. ASSUME NEW w \in Workers, RecordRetry(w)
      PROVE  TypeOK'
  BY <1>6, RetryDelaysAreTicks DEF RecordRetry, TriesLeft, Retry, Unlock, Release, past, TypeOK, WorkerCoherent, Statuses, WorkerStates
<1>7. ASSUME NEW w \in Workers, RecordGivingUp(w)
      PROVE  TypeOK'
  <2>1. holds[w] \in JobIds
    BY <1>7, BusyWorkerCarriesJob DEF RecordGivingUp
  <2>2. /\ Release(w)
        /\ dead' \subseteq JobIds
        /\ UNCHANGED <<proc, worked, returned, stolen, crashes>>
    BY <1>7, <2>1 DEF RecordGivingUp, DeadLetter, TypeOK
  <2>3. CASE Settle(holds[w], "failed")
    BY <2>1, <2>2, <2>3 DEF Settle, Unlock, Release, TypeOK, Statuses, WorkerStates
  <2>4. CASE UNCHANGED rows
    BY <2>1, <2>2, <2>4 DEF Release, rows, TypeOK, Statuses, WorkerStates
  <2>5. QED
    BY <1>7, <2>3, <2>4 DEF RecordGivingUp
<1>8. ASSUME Sweep
      PROVE  TypeOK'
  <2>1. Reclaimed \subseteq JobIds
    BY DEF Reclaimed, Stale
  <2>2. /\ ReclaimStaleJobs
        /\ stolen' \subseteq JobIds
        /\ UNCHANGED <<proc, pool, worked, dead, crashes>>
    BY <1>8, <2>1 DEF Sweep, TypeOK
  <2>3. QED
    BY <2>1, <2>2 DEF ReclaimStaleJobs, pool, TypeOK, Statuses, WorkerStates
<1>9. ASSUME Shutdown
      PROVE  TypeOK'
  BY <1>9 DEF Shutdown, rows, pool, past, TypeOK, WorkerCoherent, Statuses, WorkerStates
<1>10. ASSUME Die
      PROVE  TypeOK'
  BY <1>10 DEF Die, rows, past, TypeOK, WorkerCoherent, Statuses, WorkerStates
<1>11. ASSUME Start
      PROVE  TypeOK'
  <2>1. Reclaimed \subseteq JobIds
    BY DEF Reclaimed, Stale
  <2>2. QED
    BY <1>11, <2>1 DEF Start, ReclaimStaleJobs, pool, TypeOK, Statuses, WorkerStates
<1>12. ASSUME Tick
      PROVE  TypeOK'
  BY <1>12 DEF Tick, pool, past, TypeOK, WorkerCoherent, Statuses, WorkerStates
<1>13. CASE UNCHANGED vars
  BY <1>13 DEF vars, rows, pool, past, TypeOK, WorkerCoherent, Statuses, WorkerStates
<1>14. QED
  BY <1>1, <1>2, <1>3, <1>4, <1>5, <1>6, <1>7, <1>8, <1>9, <1>10, <1>11, <1>12, <1>13 DEF Next

\* Every step keeps workers and rows in agreement.
LEMMA WorkerStep ==
  ASSUME IInv, [Next]_vars
  PROVE  WorkerCoherent'
<1> USE QueueAssumption DEF IInv
<1>1. ASSUME NEW k \in Kinds, NEW dk \in Keys \cup {NoKey}, NEW d \in Delays, Enqueue(k, dk, d)
      PROVE  WorkerCoherent'
  BY <1>1 DEF Enqueue, Fresh, pool, past, TypeOK, WorkerCoherent, RowCoherent, HolderOwnsRow, Statuses, WorkerStates
<1>2. ASSUME NEW w \in Workers, Claim(w)
      PROVE  WorkerCoherent'
  BY <1>2 DEF Claim, Runnable, past, TypeOK, WorkerCoherent, RowCoherent, HolderOwnsRow, Statuses, WorkerStates
<1>3. ASSUME NEW w \in Workers, NEW o \in {"succeeded", "erred"}, HandlerReturns(w, o)
      PROVE  WorkerCoherent'
  BY <1>3 DEF HandlerReturns, rows, TypeOK, WorkerCoherent, RowCoherent, HolderOwnsRow, Statuses, WorkerStates
<1>4. ASSUME NEW w \in Workers, RecordDone(w)
      PROVE  WorkerCoherent'
  <2>1. holds[w] \in JobIds
    BY <1>4, BusyWorkerCarriesJob DEF RecordDone
  <2>2. CASE Settle(holds[w], "done")
    BY <1>4, <2>1, <2>2 DEF RecordDone, Settle, Unlock, Release, past, TypeOK, WorkerCoherent, RowCoherent, HolderOwnsRow, Statuses, WorkerStates
  <2>3. CASE UNCHANGED rows
    BY <1>4, <2>1, <2>3 DEF RecordDone, Release, rows, past, TypeOK, WorkerCoherent, RowCoherent, HolderOwnsRow, Statuses, WorkerStates
  <2>4. QED
    BY <1>4, <2>2, <2>3 DEF RecordDone
<1>5. ASSUME NEW w \in Workers, RecordUnhandled(w)
      PROVE  WorkerCoherent'
  <2>1. holds[w] \in JobIds
    BY <1>5, BusyWorkerCarriesJob DEF RecordUnhandled
  <2>2. CASE Settle(holds[w], "failed")
    BY <1>5, <2>1, <2>2 DEF RecordUnhandled, Settle, Unlock, Release, past, TypeOK, WorkerCoherent, RowCoherent, HolderOwnsRow, Statuses, WorkerStates
  <2>3. CASE UNCHANGED rows
    BY <1>5, <2>1, <2>3 DEF RecordUnhandled, Release, rows, past, TypeOK, WorkerCoherent, RowCoherent, HolderOwnsRow, Statuses, WorkerStates
  <2>4. QED
    BY <1>5, <2>2, <2>3 DEF RecordUnhandled
<1>6. ASSUME NEW w \in Workers, RecordRetry(w)
      PROVE  WorkerCoherent'
  BY <1>6 DEF RecordRetry, TriesLeft, Retry, Unlock, Release, past, TypeOK, WorkerCoherent, RowCoherent, HolderOwnsRow, Statuses, WorkerStates
<1>7. ASSUME NEW w \in Workers, RecordGivingUp(w)
      PROVE  WorkerCoherent'
  <2>1. holds[w] \in JobIds
    BY <1>7, BusyWorkerCarriesJob DEF RecordGivingUp
  <2>2. /\ Release(w)
        /\ dead' \subseteq JobIds
        /\ UNCHANGED <<proc, worked, returned, stolen, crashes>>
    BY <1>7, <2>1 DEF RecordGivingUp, DeadLetter, TypeOK
  <2>3. CASE Settle(holds[w], "failed")
    BY <2>1, <2>2, <2>3 DEF Settle, Unlock, Release, TypeOK, WorkerCoherent, RowCoherent, HolderOwnsRow, Statuses, WorkerStates
  <2>4. CASE UNCHANGED rows
    BY <2>1, <2>2, <2>4 DEF Release, rows, TypeOK, WorkerCoherent, RowCoherent, HolderOwnsRow, Statuses, WorkerStates
  <2>5. QED
    BY <1>7, <2>3, <2>4 DEF RecordGivingUp
<1>8. ASSUME Sweep
      PROVE  WorkerCoherent'
  BY <1>8 DEF Sweep, ReclaimStaleJobs, Reclaimed, Stale, pool, TypeOK, WorkerCoherent, RowCoherent, HolderOwnsRow, Statuses, WorkerStates
<1>9. ASSUME Shutdown
      PROVE  WorkerCoherent'
  BY <1>9 DEF Shutdown, rows, pool, past, TypeOK, WorkerCoherent, RowCoherent, HolderOwnsRow, Statuses, WorkerStates
<1>10. ASSUME Die
      PROVE  WorkerCoherent'
  BY <1>10 DEF Die, rows, past, TypeOK, WorkerCoherent, RowCoherent, HolderOwnsRow, Statuses, WorkerStates
<1>11. ASSUME Start
      PROVE  WorkerCoherent'
  BY <1>11 DEF Start, ReclaimStaleJobs, Reclaimed, Stale, pool, TypeOK, WorkerCoherent, RowCoherent, HolderOwnsRow, Statuses, WorkerStates
<1>12. ASSUME Tick
      PROVE  WorkerCoherent'
  BY <1>12 DEF Tick, pool, past, TypeOK, WorkerCoherent, RowCoherent, HolderOwnsRow, Statuses, WorkerStates
<1>13. CASE UNCHANGED vars
  BY <1>13 DEF vars, rows, pool, past, TypeOK, WorkerCoherent, RowCoherent, HolderOwnsRow, Statuses, WorkerStates
<1>14. QED
  BY <1>1, <1>2, <1>3, <1>4, <1>5, <1>6, <1>7, <1>8, <1>9, <1>10, <1>11, <1>12, <1>13 DEF Next

\* Every step keeps a row's count of tries accounted for.
LEMMA RowStep ==
  ASSUME IInv, [Next]_vars
  PROVE  RowCoherent'
<1> USE QueueAssumption DEF IInv
<1>1. ASSUME NEW k \in Kinds, NEW dk \in Keys \cup {NoKey}, NEW d \in Delays, Enqueue(k, dk, d)
      PROVE  RowCoherent'
  <2>1. PICK j \in Fresh : /\ status' = [status EXCEPT ![j] = "pending"]
                           /\ UNCHANGED <<attempts, past>>
    BY <1>1 DEF Enqueue
  <2>2. j \in JobIds /\ status[j] = "absent"
    BY DEF Fresh
  <2>3. QED
    BY <2>1, <2>2 DEF past, TypeOK, RowCoherent
<1>2. ASSUME NEW w \in Workers, Claim(w)
      PROVE  RowCoherent'
  <2>1. PICK j \in Runnable : /\ status' = [status EXCEPT ![j] = "running"]
                              /\ attempts' = [attempts EXCEPT ![j] = attempts'[j]]
                              /\ UNCHANGED past
    BY <1>2 DEF Claim, Runnable, TypeOK
  <2>2. j \in JobIds /\ status[j] = "pending"
    BY DEF Runnable
  <2>3. QED
    BY <2>1, <2>2 DEF past, TypeOK, RowCoherent
<1>3. ASSUME NEW w \in Workers, NEW o \in {"succeeded", "erred"}, HandlerReturns(w, o)
      PROVE  RowCoherent'
  BY <1>3 DEF HandlerReturns, rows, TypeOK, WorkerCoherent, RowCoherent, HolderOwnsRow, Statuses, WorkerStates
<1>4. ASSUME NEW w \in Workers, RecordDone(w)
      PROVE  RowCoherent'
  <2>1. holds[w] \in JobIds
    BY <1>4, BusyWorkerCarriesJob DEF RecordDone
  <2>2. CASE Settle(holds[w], "done")
    BY <1>4, <2>1, <2>2 DEF RecordDone, Settle, Unlock, Release, past, TypeOK, WorkerCoherent, RowCoherent, HolderOwnsRow, Statuses, WorkerStates
  <2>3. CASE UNCHANGED rows
    BY <1>4, <2>1, <2>3 DEF RecordDone, Release, rows, past, TypeOK, WorkerCoherent, RowCoherent, HolderOwnsRow, Statuses, WorkerStates
  <2>4. QED
    BY <1>4, <2>2, <2>3 DEF RecordDone
<1>5. ASSUME NEW w \in Workers, RecordUnhandled(w)
      PROVE  RowCoherent'
  <2>1. holds[w] \in JobIds
    BY <1>5, BusyWorkerCarriesJob DEF RecordUnhandled
  <2>2. CASE Settle(holds[w], "failed")
    BY <1>5, <2>1, <2>2 DEF RecordUnhandled, Settle, Unlock, Release, past, TypeOK, WorkerCoherent, RowCoherent, HolderOwnsRow, Statuses, WorkerStates
  <2>3. CASE UNCHANGED rows
    BY <1>5, <2>1, <2>3 DEF RecordUnhandled, Release, rows, past, TypeOK, WorkerCoherent, RowCoherent, HolderOwnsRow, Statuses, WorkerStates
  <2>4. QED
    BY <1>5, <2>2, <2>3 DEF RecordUnhandled
<1>6. ASSUME NEW w \in Workers, RecordRetry(w)
      PROVE  RowCoherent'
  BY <1>6 DEF RecordRetry, TriesLeft, Retry, Unlock, Release, past, TypeOK, WorkerCoherent, RowCoherent, HolderOwnsRow, Statuses, WorkerStates
<1>7. ASSUME NEW w \in Workers, RecordGivingUp(w)
      PROVE  RowCoherent'
  <2>1. holds[w] \in JobIds
    BY <1>7, BusyWorkerCarriesJob DEF RecordGivingUp
  <2>2. /\ Release(w)
        /\ dead' \subseteq JobIds
        /\ UNCHANGED <<proc, worked, returned, stolen, crashes>>
    BY <1>7, <2>1 DEF RecordGivingUp, DeadLetter, TypeOK
  <2>3. CASE Settle(holds[w], "failed")
    BY <2>1, <2>2, <2>3 DEF Settle, Unlock, Release, TypeOK, WorkerCoherent, RowCoherent, HolderOwnsRow, Statuses, WorkerStates
  <2>4. CASE UNCHANGED rows
    BY <2>1, <2>2, <2>4 DEF Release, rows, TypeOK, WorkerCoherent, RowCoherent, HolderOwnsRow, Statuses, WorkerStates
  <2>5. QED
    BY <1>7, <2>3, <2>4 DEF RecordGivingUp
<1>8. ASSUME Sweep
      PROVE  RowCoherent'
  BY <1>8 DEF Sweep, ReclaimStaleJobs, Reclaimed, Stale, pool, TypeOK, WorkerCoherent, RowCoherent, HolderOwnsRow, Statuses, WorkerStates
<1>9. ASSUME Shutdown
      PROVE  RowCoherent'
  BY <1>9 DEF Shutdown, rows, pool, past, TypeOK, WorkerCoherent, RowCoherent, HolderOwnsRow, Statuses, WorkerStates
<1>10. ASSUME Die
      PROVE  RowCoherent'
  BY <1>10 DEF Die, rows, past, TypeOK, WorkerCoherent, RowCoherent, HolderOwnsRow, Statuses, WorkerStates
<1>11. ASSUME Start
      PROVE  RowCoherent'
  BY <1>11 DEF Start, ReclaimStaleJobs, Reclaimed, Stale, pool, TypeOK, WorkerCoherent, RowCoherent, HolderOwnsRow, Statuses, WorkerStates
<1>12. ASSUME Tick
      PROVE  RowCoherent'
  BY <1>12 DEF Tick, pool, past, TypeOK, WorkerCoherent, RowCoherent, HolderOwnsRow, Statuses, WorkerStates
<1>13. CASE UNCHANGED vars
  BY <1>13 DEF vars, rows, pool, past, TypeOK, WorkerCoherent, RowCoherent, HolderOwnsRow, Statuses, WorkerStates
<1>14. QED
  BY <1>1, <1>2, <1>3, <1>4, <1>5, <1>6, <1>7, <1>8, <1>9, <1>10, <1>11, <1>12, <1>13 DEF Next

\* Every step leaves a worker not robbed of its job the owner of the row.
LEMMA HolderStep ==
  ASSUME IInv, [Next]_vars
  PROVE  HolderOwnsRow'
<1> USE QueueAssumption DEF IInv
<1>1. ASSUME NEW k \in Kinds, NEW dk \in Keys \cup {NoKey}, NEW d \in Delays, Enqueue(k, dk, d)
      PROVE  HolderOwnsRow'
  BY <1>1 DEF Enqueue, Fresh, pool, past, TypeOK, WorkerCoherent, RowCoherent, HolderOwnsRow, Statuses, WorkerStates
<1>2. ASSUME NEW w \in Workers, Claim(w)
      PROVE  HolderOwnsRow'
  BY <1>2 DEF Claim, Runnable, past, TypeOK, WorkerCoherent, RowCoherent, HolderOwnsRow, Statuses, WorkerStates
<1>3. ASSUME NEW w \in Workers, NEW o \in {"succeeded", "erred"}, HandlerReturns(w, o)
      PROVE  HolderOwnsRow'
  BY <1>3 DEF HandlerReturns, rows, TypeOK, WorkerCoherent, RowCoherent, HolderOwnsRow, Statuses, WorkerStates
<1>4. ASSUME NEW w \in Workers, RecordDone(w)
      PROVE  HolderOwnsRow'
  <2>1. holds[w] \in JobIds
    BY <1>4, BusyWorkerCarriesJob DEF RecordDone
  <2>2. CASE Settle(holds[w], "done")
    BY <1>4, <2>1, <2>2 DEF RecordDone, Settle, Unlock, Release, past, TypeOK, WorkerCoherent, RowCoherent, HolderOwnsRow, Statuses, WorkerStates
  <2>3. CASE UNCHANGED rows
    BY <1>4, <2>1, <2>3 DEF RecordDone, Release, rows, past, TypeOK, WorkerCoherent, RowCoherent, HolderOwnsRow, Statuses, WorkerStates
  <2>4. QED
    BY <1>4, <2>2, <2>3 DEF RecordDone
<1>5. ASSUME NEW w \in Workers, RecordUnhandled(w)
      PROVE  HolderOwnsRow'
  <2>1. holds[w] \in JobIds
    BY <1>5, BusyWorkerCarriesJob DEF RecordUnhandled
  <2>2. CASE Settle(holds[w], "failed")
    BY <1>5, <2>1, <2>2 DEF RecordUnhandled, Settle, Unlock, Release, past, TypeOK, WorkerCoherent, RowCoherent, HolderOwnsRow, Statuses, WorkerStates
  <2>3. CASE UNCHANGED rows
    BY <1>5, <2>1, <2>3 DEF RecordUnhandled, Release, rows, past, TypeOK, WorkerCoherent, RowCoherent, HolderOwnsRow, Statuses, WorkerStates
  <2>4. QED
    BY <1>5, <2>2, <2>3 DEF RecordUnhandled
<1>6. ASSUME NEW w \in Workers, RecordRetry(w)
      PROVE  HolderOwnsRow'
  BY <1>6 DEF RecordRetry, TriesLeft, Retry, Unlock, Release, past, TypeOK, WorkerCoherent, RowCoherent, HolderOwnsRow, Statuses, WorkerStates
<1>7. ASSUME NEW w \in Workers, RecordGivingUp(w)
      PROVE  HolderOwnsRow'
  <2>1. holds[w] \in JobIds
    BY <1>7, BusyWorkerCarriesJob DEF RecordGivingUp
  <2>2. /\ Release(w)
        /\ dead' \subseteq JobIds
        /\ UNCHANGED <<proc, worked, returned, stolen, crashes>>
    BY <1>7, <2>1 DEF RecordGivingUp, DeadLetter, TypeOK
  <2>3. CASE Settle(holds[w], "failed")
    BY <2>1, <2>2, <2>3 DEF Settle, Unlock, Release, TypeOK, WorkerCoherent, RowCoherent, HolderOwnsRow, Statuses, WorkerStates
  <2>4. CASE UNCHANGED rows
    BY <2>1, <2>2, <2>4 DEF Release, rows, TypeOK, WorkerCoherent, RowCoherent, HolderOwnsRow, Statuses, WorkerStates
  <2>5. QED
    BY <1>7, <2>3, <2>4 DEF RecordGivingUp
<1>8. ASSUME Sweep
      PROVE  HolderOwnsRow'
  BY <1>8 DEF Sweep, ReclaimStaleJobs, Reclaimed, Stale, pool, TypeOK, WorkerCoherent, RowCoherent, HolderOwnsRow, Statuses, WorkerStates
<1>9. ASSUME Shutdown
      PROVE  HolderOwnsRow'
  BY <1>9 DEF Shutdown, rows, pool, past, TypeOK, WorkerCoherent, RowCoherent, HolderOwnsRow, Statuses, WorkerStates
<1>10. ASSUME Die
      PROVE  HolderOwnsRow'
  BY <1>10 DEF Die, rows, past, TypeOK, WorkerCoherent, RowCoherent, HolderOwnsRow, Statuses, WorkerStates
<1>11. ASSUME Start
      PROVE  HolderOwnsRow'
  BY <1>11 DEF Start, ReclaimStaleJobs, Reclaimed, Stale, pool, TypeOK, WorkerCoherent, RowCoherent, HolderOwnsRow, Statuses, WorkerStates
<1>12. ASSUME Tick
      PROVE  HolderOwnsRow'
  BY <1>12 DEF Tick, pool, past, TypeOK, WorkerCoherent, RowCoherent, HolderOwnsRow, Statuses, WorkerStates
<1>13. CASE UNCHANGED vars
  BY <1>13 DEF vars, rows, pool, past, TypeOK, WorkerCoherent, RowCoherent, HolderOwnsRow, Statuses, WorkerStates
<1>14. QED
  BY <1>1, <1>2, <1>3, <1>4, <1>5, <1>6, <1>7, <1>8, <1>9, <1>10, <1>11, <1>12, <1>13 DEF Next

THEOREM InductiveInvariant == Spec => []IInv
<1>1. Init => IInv
  BY QueueAssumption DEF Init, IInv, TypeOK, WorkerCoherent, RowCoherent,
     HolderOwnsRow, Statuses, WorkerStates
<1>2. IInv /\ [Next]_vars => IInv'
  BY TypeStep, WorkerStep, RowStep, HolderStep DEF IInv
<1>3. QED
  BY <1>1, <1>2, PTL DEF Spec

\* Every column, worker and history variable keeps its type.
THEOREM TypeCorrect == Spec => []TypeOK
BY InductiveInvariant, PTL DEF IInv

\* A worker that was not robbed of its job owns the row it is about to write.
THEOREM Ownership == Spec => []HolderOwnsRow
BY InductiveInvariant, PTL DEF IInv

\* Two workers run one job only after a reclaim took it from one of them.
THEOREM NoDoubleRun == Spec => []DoubledOnlyByOverrun
<1>1. IInv => DoubledOnlyByOverrun
  BY QueueAssumption DEF IInv, TypeOK, HolderOwnsRow, DoubledOnlyByOverrun
<1>2. QED
  BY <1>1, InductiveInvariant, PTL

-----------------------------------------------------------------------------
(* The dedupe index.                                                       *)

\* The steps that make a row pending are the ones that ask the index first.
\* One statement that returns every stale row, or none of them.
LEMMA ReclaimKeepsIndex ==
  ASSUME TypeOK, OnePendingPerKey, ReclaimStaleJobs
  PROVE  OnePendingPerKey'
<1>1. CASE ReclaimFits
  BY <1>1 DEF ReclaimStaleJobs, Reclaimed, ReclaimFits, IndexAllows, Stale,
     OnePendingPerKey, TypeOK
<1>2. CASE ~ReclaimFits
  BY <1>2 DEF ReclaimStaleJobs, Reclaimed, OnePendingPerKey, TypeOK
<1>3. QED
  BY <1>1, <1>2

\* Enqueueing, retrying and reclaiming each leave at most one pending row per key.
LEMMA DedupeStep ==
  ASSUME IInv, OnePendingPerKey, [Next]_vars
  PROVE  OnePendingPerKey'
<1> USE QueueAssumption DEF IInv
<1>1. ASSUME NEW k \in Kinds, NEW dk \in Keys \cup {NoKey}, NEW d \in Delays, Enqueue(k, dk, d)
      PROVE  OnePendingPerKey'
  <2>1. PICK j \in Fresh : /\ status' = [status EXCEPT ![j] = "pending"]
                           /\ key' = [key EXCEPT ![j] = dk]
    BY <1>1 DEF Enqueue
  <2>2. j \in JobIds /\ IndexAllows(dk, JobIds)
    BY <1>1 DEF Fresh, Enqueue
  <2>3. QED
    BY <2>1, <2>2 DEF IndexAllows, TypeOK, OnePendingPerKey
<1>2. ASSUME NEW w \in Workers, Claim(w)
      PROVE  OnePendingPerKey'
  <2>1. PICK j \in Runnable : /\ status' = [status EXCEPT ![j] = "running"]
                              /\ key' = key
    BY <1>2 DEF Claim
  <2>2. QED
    BY <2>1 DEF TypeOK, OnePendingPerKey
<1>3. ASSUME NEW w \in Workers, NEW o \in {"succeeded", "erred"}, HandlerReturns(w, o)
      PROVE  OnePendingPerKey'
  BY <1>3 DEF HandlerReturns, rows, TypeOK, OnePendingPerKey, WorkerCoherent, Statuses, WorkerStates
<1>4. ASSUME NEW w \in Workers, RecordDone(w)
      PROVE  OnePendingPerKey'
  <2>1. holds[w] \in JobIds
    BY <1>4, BusyWorkerCarriesJob DEF RecordDone
  <2>2. CASE Settle(holds[w], "done")
    BY <1>4, <2>1, <2>2 DEF RecordDone, Settle, Unlock, Release, past, TypeOK, OnePendingPerKey
  <2>3. CASE UNCHANGED rows
    BY <1>4, <2>1, <2>3 DEF RecordDone, Release, rows, past, TypeOK, OnePendingPerKey
  <2>4. QED
    BY <1>4, <2>2, <2>3 DEF RecordDone
<1>5. ASSUME NEW w \in Workers, RecordUnhandled(w)
      PROVE  OnePendingPerKey'
  <2>1. holds[w] \in JobIds
    BY <1>5, BusyWorkerCarriesJob DEF RecordUnhandled
  <2>2. CASE Settle(holds[w], "failed")
    BY <1>5, <2>1, <2>2 DEF RecordUnhandled, Settle, Unlock, Release, past, TypeOK, OnePendingPerKey
  <2>3. CASE UNCHANGED rows
    BY <1>5, <2>1, <2>3 DEF RecordUnhandled, Release, rows, past, TypeOK, OnePendingPerKey
  <2>4. QED
    BY <1>5, <2>2, <2>3 DEF RecordUnhandled
<1>6. ASSUME NEW w \in Workers, RecordRetry(w)
      PROVE  OnePendingPerKey'
  <2>1. holds[w] \in JobIds
    BY <1>6, BusyWorkerCarriesJob DEF RecordRetry
  <2>2. QED
    BY <1>6, <2>1 DEF RecordRetry, Retry, CanRetry, IndexAllows, TypeOK, OnePendingPerKey
<1>7. ASSUME NEW w \in Workers, RecordGivingUp(w)
      PROVE  OnePendingPerKey'
  <2>1. holds[w] \in JobIds
    BY <1>7, BusyWorkerCarriesJob DEF RecordGivingUp
  <2>2. /\ Release(w)
        /\ dead' \subseteq JobIds
        /\ UNCHANGED <<proc, worked, returned, stolen, crashes>>
    BY <1>7, <2>1 DEF RecordGivingUp, DeadLetter, TypeOK
  <2>3. CASE Settle(holds[w], "failed")
    BY <2>1, <2>2, <2>3 DEF Settle, Unlock, Release, TypeOK, OnePendingPerKey
  <2>4. CASE UNCHANGED rows
    BY <2>1, <2>2, <2>4 DEF Release, rows, TypeOK, OnePendingPerKey
  <2>5. QED
    BY <1>7, <2>3, <2>4 DEF RecordGivingUp
<1>8. ASSUME Sweep
      PROVE  OnePendingPerKey'
  BY <1>8, ReclaimKeepsIndex DEF Sweep
<1>9. ASSUME Shutdown
      PROVE  OnePendingPerKey'
  BY <1>9 DEF Shutdown, rows, pool, past, TypeOK, OnePendingPerKey, WorkerCoherent, Statuses, WorkerStates
<1>10. ASSUME Die
      PROVE  OnePendingPerKey'
  BY <1>10 DEF Die, rows, past, TypeOK, OnePendingPerKey, WorkerCoherent, Statuses, WorkerStates
<1>11. ASSUME Start
      PROVE  OnePendingPerKey'
  BY <1>11, ReclaimKeepsIndex DEF Start
<1>12. ASSUME Tick
      PROVE  OnePendingPerKey'
  BY <1>12 DEF Tick, pool, past, TypeOK, OnePendingPerKey, WorkerCoherent, Statuses, WorkerStates
<1>13. CASE UNCHANGED vars
  BY <1>13 DEF vars, rows, pool, past, TypeOK, OnePendingPerKey, WorkerCoherent, Statuses, WorkerStates
<1>14. QED
  BY <1>1, <1>2, <1>3, <1>4, <1>5, <1>6, <1>7, <1>8, <1>9, <1>10, <1>11, <1>12, <1>13 DEF Next

\* Thirty webhook deliveries make one pending sync, whatever else happens.
THEOREM Deduplication == Spec => []OnePendingPerKey
<1>1. Init => OnePendingPerKey
  BY DEF Init, OnePendingPerKey
<1>2. IInv /\ OnePendingPerKey /\ [Next]_vars => OnePendingPerKey'
  BY DedupeStep
<1>3. QED
  BY <1>1, <1>2, InductiveInvariant, PTL DEF Spec

-----------------------------------------------------------------------------
(* Verdicts.                                                               *)

\* No step marks a row done whose handler has not succeeded.
LEMMA DoneStep ==
  ASSUME IInv, DoneMeansWorked, [Next]_vars
  PROVE  DoneMeansWorked'
<1> USE QueueAssumption DEF IInv
<1>1. ASSUME NEW k \in Kinds, NEW dk \in Keys \cup {NoKey}, NEW d \in Delays, Enqueue(k, dk, d)
      PROVE  DoneMeansWorked'
  <2>1. PICK j \in Fresh : status' = [status EXCEPT ![j] = "pending"] /\ worked' = worked
    BY <1>1 DEF Enqueue, past
  <2>2. QED
    BY <2>1 DEF TypeOK, DoneMeansWorked
<1>2. ASSUME NEW w \in Workers, Claim(w)
      PROVE  DoneMeansWorked'
  <2>1. PICK j \in Runnable : status' = [status EXCEPT ![j] = "running"] /\ worked' = worked
    BY <1>2 DEF Claim, past
  <2>2. QED
    BY <2>1 DEF TypeOK, DoneMeansWorked
<1>3. ASSUME NEW w \in Workers, NEW o \in {"succeeded", "erred"}, HandlerReturns(w, o)
      PROVE  DoneMeansWorked'
  BY <1>3 DEF HandlerReturns, rows, TypeOK, WorkerCoherent, DoneMeansWorked, Statuses, WorkerStates
<1>4. ASSUME NEW w \in Workers, RecordDone(w)
      PROVE  DoneMeansWorked'
  <2>1. holds[w] \in JobIds
    BY <1>4, BusyWorkerCarriesJob DEF RecordDone
  <2>2. CASE Settle(holds[w], "done")
    BY <1>4, <2>1, <2>2 DEF RecordDone, Settle, Unlock, Release, past, TypeOK, WorkerCoherent, DoneMeansWorked, Statuses, WorkerStates
  <2>3. CASE UNCHANGED rows
    BY <1>4, <2>1, <2>3 DEF RecordDone, Release, rows, past, TypeOK, WorkerCoherent, DoneMeansWorked, Statuses, WorkerStates
  <2>4. QED
    BY <1>4, <2>2, <2>3 DEF RecordDone
<1>5. ASSUME NEW w \in Workers, RecordUnhandled(w)
      PROVE  DoneMeansWorked'
  <2>1. holds[w] \in JobIds
    BY <1>5, BusyWorkerCarriesJob DEF RecordUnhandled
  <2>2. CASE Settle(holds[w], "failed")
    BY <1>5, <2>1, <2>2 DEF RecordUnhandled, Settle, Unlock, Release, past, TypeOK, WorkerCoherent, DoneMeansWorked, Statuses, WorkerStates
  <2>3. CASE UNCHANGED rows
    BY <1>5, <2>1, <2>3 DEF RecordUnhandled, Release, rows, past, TypeOK, WorkerCoherent, DoneMeansWorked, Statuses, WorkerStates
  <2>4. QED
    BY <1>5, <2>2, <2>3 DEF RecordUnhandled
<1>6. ASSUME NEW w \in Workers, RecordRetry(w)
      PROVE  DoneMeansWorked'
  BY <1>6 DEF RecordRetry, TriesLeft, Retry, Unlock, Release, past, TypeOK, WorkerCoherent, DoneMeansWorked, Statuses, WorkerStates
<1>7. ASSUME NEW w \in Workers, RecordGivingUp(w)
      PROVE  DoneMeansWorked'
  <2>1. holds[w] \in JobIds
    BY <1>7, BusyWorkerCarriesJob DEF RecordGivingUp
  <2>2. /\ Release(w)
        /\ dead' \subseteq JobIds
        /\ UNCHANGED <<proc, worked, returned, stolen, crashes>>
    BY <1>7, <2>1 DEF RecordGivingUp, DeadLetter, TypeOK
  <2>3. CASE Settle(holds[w], "failed")
    BY <2>1, <2>2, <2>3 DEF Settle, Unlock, Release, TypeOK, WorkerCoherent, DoneMeansWorked, Statuses, WorkerStates
  <2>4. CASE UNCHANGED rows
    BY <2>1, <2>2, <2>4 DEF Release, rows, TypeOK, WorkerCoherent, DoneMeansWorked, Statuses, WorkerStates
  <2>5. QED
    BY <1>7, <2>3, <2>4 DEF RecordGivingUp
<1>8. ASSUME Sweep
      PROVE  DoneMeansWorked'
  BY <1>8 DEF Sweep, ReclaimStaleJobs, Reclaimed, Stale, pool, TypeOK, WorkerCoherent, DoneMeansWorked, Statuses, WorkerStates
<1>9. ASSUME Shutdown
      PROVE  DoneMeansWorked'
  BY <1>9 DEF Shutdown, rows, pool, past, TypeOK, WorkerCoherent, DoneMeansWorked, Statuses, WorkerStates
<1>10. ASSUME Die
      PROVE  DoneMeansWorked'
  BY <1>10 DEF Die, rows, past, TypeOK, WorkerCoherent, DoneMeansWorked, Statuses, WorkerStates
<1>11. ASSUME Start
      PROVE  DoneMeansWorked'
  BY <1>11 DEF Start, ReclaimStaleJobs, Reclaimed, Stale, pool, TypeOK, WorkerCoherent, DoneMeansWorked, Statuses, WorkerStates
<1>12. ASSUME Tick
      PROVE  DoneMeansWorked'
  BY <1>12 DEF Tick, pool, past, TypeOK, WorkerCoherent, DoneMeansWorked, Statuses, WorkerStates
<1>13. CASE UNCHANGED vars
  BY <1>13 DEF vars, rows, pool, past, TypeOK, WorkerCoherent, DoneMeansWorked, Statuses, WorkerStates
<1>14. QED
  BY <1>1, <1>2, <1>3, <1>4, <1>5, <1>6, <1>7, <1>8, <1>9, <1>10, <1>11, <1>12, <1>13 DEF Next

\* A job reads done only if a run of it succeeded.
THEOREM HonestSuccess == Spec => []DoneMeansWorked
<1>1. Init => DoneMeansWorked
  BY DEF Init, DoneMeansWorked
<1>2. IInv /\ DoneMeansWorked /\ [Next]_vars => DoneMeansWorked'
  BY DoneStep
<1>3. QED
  BY <1>1, <1>2, InductiveInvariant, PTL DEF Spec

\* Only a claim of a reclaimed row can go past the limit.
LEMMA OverspendStep ==
  ASSUME IInv, OverspentOnlyByReclaim, [Next]_vars
  PROVE  OverspentOnlyByReclaim'
<1> USE QueueAssumption DEF IInv
<1>1. ASSUME NEW k \in Kinds, NEW dk \in Keys \cup {NoKey}, NEW d \in Delays, Enqueue(k, dk, d)
      PROVE  OverspentOnlyByReclaim'
  BY <1>1 DEF Enqueue, Fresh, pool, past, TypeOK, RowCoherent, OverspentOnlyByReclaim
<1>2. ASSUME NEW w \in Workers, Claim(w)
      PROVE  OverspentOnlyByReclaim'
  <2>1. PICK j \in Runnable :
          /\ attempts' = [attempts EXCEPT ![j] =
               IF attempts[j] > MaxAttempts THEN attempts[j] ELSE attempts[j] + 1]
          /\ UNCHANGED past
    BY <1>2 DEF Claim
  <2>2. j \in JobIds /\ status[j] = "pending"
    BY DEF Runnable
  <2>3. QED
    BY <2>1, <2>2 DEF past, TypeOK, RowCoherent, OverspentOnlyByReclaim
<1>3. ASSUME NEW w \in Workers, NEW o \in {"succeeded", "erred"}, HandlerReturns(w, o)
      PROVE  OverspentOnlyByReclaim'
  BY <1>3 DEF HandlerReturns, rows, TypeOK, RowCoherent, OverspentOnlyByReclaim
<1>4. ASSUME NEW w \in Workers, RecordDone(w)
      PROVE  OverspentOnlyByReclaim'
  <2>1. holds[w] \in JobIds
    BY <1>4, BusyWorkerCarriesJob DEF RecordDone
  <2>2. CASE Settle(holds[w], "done")
    BY <1>4, <2>1, <2>2 DEF RecordDone, Settle, Unlock, Release, past, TypeOK, RowCoherent, OverspentOnlyByReclaim
  <2>3. CASE UNCHANGED rows
    BY <1>4, <2>1, <2>3 DEF RecordDone, Release, rows, past, TypeOK, RowCoherent, OverspentOnlyByReclaim
  <2>4. QED
    BY <1>4, <2>2, <2>3 DEF RecordDone
<1>5. ASSUME NEW w \in Workers, RecordUnhandled(w)
      PROVE  OverspentOnlyByReclaim'
  <2>1. holds[w] \in JobIds
    BY <1>5, BusyWorkerCarriesJob DEF RecordUnhandled
  <2>2. CASE Settle(holds[w], "failed")
    BY <1>5, <2>1, <2>2 DEF RecordUnhandled, Settle, Unlock, Release, past, TypeOK, RowCoherent, OverspentOnlyByReclaim
  <2>3. CASE UNCHANGED rows
    BY <1>5, <2>1, <2>3 DEF RecordUnhandled, Release, rows, past, TypeOK, RowCoherent, OverspentOnlyByReclaim
  <2>4. QED
    BY <1>5, <2>2, <2>3 DEF RecordUnhandled
<1>6. ASSUME NEW w \in Workers, RecordRetry(w)
      PROVE  OverspentOnlyByReclaim'
  BY <1>6 DEF RecordRetry, TriesLeft, Retry, Unlock, Release, past, TypeOK, RowCoherent, OverspentOnlyByReclaim
<1>7. ASSUME NEW w \in Workers, RecordGivingUp(w)
      PROVE  OverspentOnlyByReclaim'
  <2>1. holds[w] \in JobIds
    BY <1>7, BusyWorkerCarriesJob DEF RecordGivingUp
  <2>2. /\ Release(w)
        /\ dead' \subseteq JobIds
        /\ UNCHANGED <<proc, worked, returned, stolen, crashes>>
    BY <1>7, <2>1 DEF RecordGivingUp, DeadLetter, TypeOK
  <2>3. CASE Settle(holds[w], "failed")
    BY <2>1, <2>2, <2>3 DEF Settle, Unlock, Release, TypeOK, RowCoherent, OverspentOnlyByReclaim
  <2>4. CASE UNCHANGED rows
    BY <2>1, <2>2, <2>4 DEF Release, rows, TypeOK, RowCoherent, OverspentOnlyByReclaim
  <2>5. QED
    BY <1>7, <2>3, <2>4 DEF RecordGivingUp
<1>8. ASSUME Sweep
      PROVE  OverspentOnlyByReclaim'
  BY <1>8 DEF Sweep, ReclaimStaleJobs, Reclaimed, Stale, pool, TypeOK, RowCoherent, OverspentOnlyByReclaim
<1>9. ASSUME Shutdown
      PROVE  OverspentOnlyByReclaim'
  BY <1>9 DEF Shutdown, rows, pool, past, TypeOK, RowCoherent, OverspentOnlyByReclaim
<1>10. ASSUME Die
      PROVE  OverspentOnlyByReclaim'
  BY <1>10 DEF Die, rows, past, TypeOK, RowCoherent, OverspentOnlyByReclaim
<1>11. ASSUME Start
      PROVE  OverspentOnlyByReclaim'
  BY <1>11 DEF Start, ReclaimStaleJobs, Reclaimed, Stale, pool, TypeOK, RowCoherent, OverspentOnlyByReclaim
<1>12. ASSUME Tick
      PROVE  OverspentOnlyByReclaim'
  BY <1>12 DEF Tick, pool, past, TypeOK, RowCoherent, OverspentOnlyByReclaim
<1>13. CASE UNCHANGED vars
  BY <1>13 DEF vars, rows, pool, past, TypeOK, RowCoherent, OverspentOnlyByReclaim
<1>14. QED
  BY <1>1, <1>2, <1>3, <1>4, <1>5, <1>6, <1>7, <1>8, <1>9, <1>10, <1>11, <1>12, <1>13 DEF Next

\* Error retries alone never start a job more often than max_attempts.
THEOREM RetriesAreBounded == Spec => []OverspentOnlyByReclaim
<1>1. Init => OverspentOnlyByReclaim
  BY QueueAssumption DEF Init, OverspentOnlyByReclaim
<1>2. IInv /\ OverspentOnlyByReclaim /\ [Next]_vars => OverspentOnlyByReclaim'
  BY OverspendStep
<1>3. QED
  BY <1>1, <1>2, InductiveInvariant, PTL DEF Spec


-----------------------------------------------------------------------------
(* The queue implements AtLeastOnce.                                       *)

\* A reclaim moves rows from running to pending, both of which are owed.
LEMMA ReclaimKeepsVerdicts ==
  ASSUME TypeOK, ReclaimStaleJobs
  PROVE  \A i \in JobIds : Verdict(status'[i]) = Verdict(status[i])
BY DEF ReclaimStaleJobs, Reclaimed, Stale, Verdict, TypeOK

\* Every step of the queue is a step of its promise, or none.
LEMMA PromiseStep ==
  ASSUME IInv, [Next]_vars
  PROVE  [Promise!Next]_(Promise!vars)
<1> USE QueueAssumption DEF IInv
<1>1. ASSUME NEW k \in Kinds, NEW dk \in Keys \cup {NoKey}, NEW d \in Delays, Enqueue(k, dk, d)
      PROVE  [Promise!Next]_(Promise!vars)
  <2>1. PICK j \in Fresh : /\ status' = [status EXCEPT ![j] = "pending"]
                           /\ UNCHANGED past
    BY <1>1 DEF Enqueue
  <2>2. j \in JobIds /\ status[j] = "absent"
    BY DEF Fresh
  <2>3. Promise!Accept(j)
    BY <2>1, <2>2 DEF Promise!Accept, Verdict, TypeOK, past
  <2>4. QED
    BY <2>2, <2>3 DEF Promise!Next
<1>2. ASSUME NEW w \in Workers, Claim(w)
      PROVE  [Promise!Next]_(Promise!vars)
  <2>1. PICK j \in Runnable : /\ status' = [status EXCEPT ![j] = "running"]
                              /\ UNCHANGED past
    BY <1>2 DEF Claim
  <2>2. \A i \in JobIds : Verdict(status'[i]) = Verdict(status[i])
    BY <2>1 DEF Runnable, TypeOK, Verdict
  <2>3. QED
    BY <2>1, <2>2 DEF Promise!vars, past
<1>3. ASSUME NEW w \in Workers, NEW o \in {"succeeded", "erred"}, HandlerReturns(w, o)
      PROVE  [Promise!Next]_(Promise!vars)
  <2>1. holds[w] \in JobIds
    BY <1>3, BusyWorkerCarriesJob DEF HandlerReturns
  <2>2. CASE o = "succeeded"
    <3>1. Promise!Work(holds[w])
      BY <1>3, <2>1, <2>2, QueueAssumption
         DEF HandlerReturns, rows, Promise!Work, Verdict, TypeOK, HolderOwnsRow
    <3>2. QED
      BY <2>1, <3>1 DEF Promise!Next
  <2>3. CASE o = "erred"
    BY <1>3, <2>3 DEF HandlerReturns, rows, Promise!vars
  <2>4. QED
    BY <2>2, <2>3
<1>4. ASSUME NEW w \in Workers, RecordDone(w)
      PROVE  [Promise!Next]_(Promise!vars)
  <2>1. holds[w] \in JobIds
    BY <1>4, BusyWorkerCarriesJob DEF RecordDone
  <2>2. UNCHANGED <<worked, returned, stolen>>
    BY <1>4 DEF RecordDone, past
  <2>3. CASE Settle(holds[w], "done")
    <3>1. Promise!Decide(holds[w], "done")
      BY <1>4, <2>1, <2>2, <2>3, QueueAssumption
         DEF RecordDone, Settle, Promise!Decide, Verdict, TypeOK, WorkerCoherent, HolderOwnsRow
    <3>2. QED
      BY <2>1, <3>1 DEF Promise!Next
  <2>4. CASE UNCHANGED rows
    BY <2>2, <2>4 DEF rows, Promise!vars
  <2>5. QED
    BY <1>4, <2>3, <2>4 DEF RecordDone
<1>5. ASSUME NEW w \in Workers, RecordUnhandled(w)
      PROVE  [Promise!Next]_(Promise!vars)
  <2>1. holds[w] \in JobIds
    BY <1>5, BusyWorkerCarriesJob DEF RecordUnhandled
  <2>2. UNCHANGED <<worked, returned, stolen>>
    BY <1>5 DEF RecordUnhandled, past
  <2>3. CASE Settle(holds[w], "failed")
    <3>1. Promise!Decide(holds[w], "dead")
      BY <1>5, <2>1, <2>2, <2>3, QueueAssumption
         DEF RecordUnhandled, Settle, Promise!Decide, Verdict, TypeOK, WorkerCoherent, HolderOwnsRow
    <3>2. QED
      BY <2>1, <3>1 DEF Promise!Next
  <2>4. CASE UNCHANGED rows
    BY <2>2, <2>4 DEF rows, Promise!vars
  <2>5. QED
    BY <1>5, <2>3, <2>4 DEF RecordUnhandled
<1>6. ASSUME NEW w \in Workers, RecordRetry(w)
      PROVE  [Promise!Next]_(Promise!vars)
  <2>1. holds[w] \in JobIds
    BY <1>6, BusyWorkerCarriesJob DEF RecordRetry
  <2>2. /\ status' = [status EXCEPT ![holds[w]] = "pending"]
        /\ UNCHANGED past
    BY <1>6 DEF RecordRetry, Retry
  <2>3. CASE holds[w] \in stolen
    <3>1. Promise!Reopen(holds[w])
      BY <2>1, <2>2, <2>3 DEF Promise!Reopen, Verdict, TypeOK, past
    <3>2. QED
      BY <2>1, <3>1 DEF Promise!Next
  <2>4. CASE holds[w] \notin stolen
    <3>1. status[holds[w]] = "running"
      BY <2>1, <2>4, QueueAssumption DEF HolderOwnsRow
    <3>2. \A i \in JobIds : Verdict(status'[i]) = Verdict(status[i])
      BY <2>1, <2>2, <3>1 DEF TypeOK, Verdict
    <3>3. QED
      BY <2>2, <3>2 DEF Promise!vars, past
  <2>5. QED
    BY <2>3, <2>4
<1>7. ASSUME NEW w \in Workers, RecordGivingUp(w)
      PROVE  [Promise!Next]_(Promise!vars)
  <2>1. holds[w] \in JobIds
    BY <1>7, BusyWorkerCarriesJob DEF RecordGivingUp
  <2>2. UNCHANGED <<worked, returned, stolen>>
    BY <1>7 DEF RecordGivingUp, past
  <2>3. CASE Settle(holds[w], "failed")
    <3>1. Promise!Decide(holds[w], "dead")
      BY <1>7, <2>1, <2>2, <2>3, QueueAssumption
         DEF RecordGivingUp, Settle, Promise!Decide, Verdict, TypeOK, WorkerCoherent, HolderOwnsRow
    <3>2. QED
      BY <2>1, <3>1 DEF Promise!Next
  <2>4. CASE UNCHANGED rows
    BY <2>2, <2>4 DEF rows, Promise!vars
  <2>5. QED
    BY <1>7, <2>3, <2>4 DEF RecordGivingUp
<1>8. ASSUME Sweep
      PROVE  [Promise!Next]_(Promise!vars)
  <2> DEFINE Robbed == {j \in Reclaimed : \E w \in Workers : holds[w] = j}
  <2>1. stolen' = stolen \cup Robbed /\ worked' = worked
    BY <1>8 DEF Sweep
  <2>2. \A i \in JobIds : Verdict(status'[i]) = Verdict(status[i])
    BY <1>8, ReclaimKeepsVerdicts DEF Sweep
  <2>3. Robbed \subseteq JobIds /\ \A j \in Robbed : Verdict(status[j]) = "owed"
    BY DEF Reclaimed, Stale, Verdict
  <2>4. Promise!Overrun(Robbed)
    BY <2>1, <2>2, <2>3 DEF Promise!Overrun
  <2>5. QED
    BY <2>3, <2>4 DEF Promise!Next
<1>9. ASSUME Shutdown
      PROVE  [Promise!Next]_(Promise!vars)
  BY <1>9 DEF Shutdown, rows, pool, past, Promise!vars
<1>10. ASSUME Die
      PROVE  [Promise!Next]_(Promise!vars)
  BY <1>10 DEF Die, rows, past, Promise!vars
<1>11. ASSUME Start
      PROVE  [Promise!Next]_(Promise!vars)
  <2>1. UNCHANGED <<worked, stolen>>
    BY <1>11 DEF Start
  <2>2. \A i \in JobIds : Verdict(status'[i]) = Verdict(status[i])
    BY <1>11, ReclaimKeepsVerdicts DEF Start
  <2>3. QED
    BY <2>1, <2>2 DEF Promise!vars
<1>12. ASSUME Tick
      PROVE  [Promise!Next]_(Promise!vars)
  BY <1>12 DEF Tick, pool, past, Promise!vars
<1>13. CASE UNCHANGED vars
  BY <1>13 DEF vars, rows, pool, past, Promise!vars
<1>14. QED
  BY <1>1, <1>2, <1>3, <1>4, <1>5, <1>6, <1>7, <1>8, <1>9, <1>10, <1>11, <1>12, <1>13 DEF Next

\* The queue keeps its promise: nothing accepted is dropped, nothing is called
\* done that did not succeed, and no verdict is revised without an overrun.
THEOREM Implements == Spec => KeepsPromise
<1>1. Init => Promise!Init
  BY DEF Init, Promise!Init, Verdict
<1>2. IInv /\ [Next]_vars => [Promise!Next]_(Promise!vars)
  BY PromiseStep
<1>3. QED
  BY <1>1, <1>2, InductiveInvariant, PTL DEF Spec, KeepsPromise, Promise!Spec

-----------------------------------------------------------------------------
(* Giving up.                                                              *)

\* The one step that fails a job this build can run.
LEMMA GivingUpStep ==
  ASSUME IInv, [Next]_vars
  PROVE  SpentWhenGivenUp /\ HeardWhenGivenUp
<1> USE QueueAssumption DEF IInv
<1>1. ASSUME NEW k \in Kinds, NEW dk \in Keys \cup {NoKey}, NEW d \in Delays, Enqueue(k, dk, d)
      PROVE  SpentWhenGivenUp /\ HeardWhenGivenUp
  <2>1. PICK j \in Fresh : status' = [status EXCEPT ![j] = "pending"]
    BY <1>1 DEF Enqueue
  <2>2. QED
    BY <2>1 DEF SpentWhenGivenUp, HeardWhenGivenUp, GivesUp, TypeOK
<1>2. ASSUME NEW w \in Workers, Claim(w)
      PROVE  SpentWhenGivenUp /\ HeardWhenGivenUp
  <2>1. PICK j \in Runnable : status' = [status EXCEPT ![j] = "running"]
    BY <1>2 DEF Claim
  <2>2. QED
    BY <2>1 DEF SpentWhenGivenUp, HeardWhenGivenUp, GivesUp, TypeOK
<1>3. ASSUME NEW w \in Workers, NEW o \in {"succeeded", "erred"}, HandlerReturns(w, o)
      PROVE  SpentWhenGivenUp /\ HeardWhenGivenUp
  BY <1>3 DEF HandlerReturns, rows, SpentWhenGivenUp, HeardWhenGivenUp, GivesUp, TypeOK
<1>4. ASSUME NEW w \in Workers, RecordDone(w)
      PROVE  SpentWhenGivenUp /\ HeardWhenGivenUp
  BY <1>4 DEF RecordDone, Settle, Unlock, Release, rows, past, SpentWhenGivenUp, HeardWhenGivenUp, GivesUp, TypeOK
<1>5. ASSUME NEW w \in Workers, RecordUnhandled(w)
      PROVE  SpentWhenGivenUp /\ HeardWhenGivenUp
  <2>1. holds[w] \in JobIds /\ kind[holds[w]] \notin Handled
    BY <1>5, BusyWorkerCarriesJob DEF RecordUnhandled, WorkerCoherent, TypeOK
  <2>2. CASE Settle(holds[w], "failed")
    BY <2>1, <2>2 DEF Settle, SpentWhenGivenUp, HeardWhenGivenUp, GivesUp, TypeOK
  <2>3. CASE UNCHANGED rows
    BY <2>3 DEF rows, SpentWhenGivenUp, HeardWhenGivenUp, GivesUp
  <2>4. QED
    BY <1>5, <2>2, <2>3 DEF RecordUnhandled
<1>6. ASSUME NEW w \in Workers, RecordRetry(w)
      PROVE  SpentWhenGivenUp /\ HeardWhenGivenUp
  BY <1>6 DEF RecordRetry, TriesLeft, Retry, Unlock, Release, past, SpentWhenGivenUp, HeardWhenGivenUp, GivesUp, TypeOK
<1>7. ASSUME NEW w \in Workers, RecordGivingUp(w)
      PROVE  SpentWhenGivenUp /\ HeardWhenGivenUp
  <2>1. holds[w] \in JobIds /\ try[w] <= attempts[holds[w]]
    BY <1>7, BusyWorkerCarriesJob, QueueAssumption
       DEF RecordGivingUp, WorkerCoherent
  <2>2. CASE ~TriesLeft(w) /\ Settle(holds[w], "failed")
    <3>0. /\ try[w] \in 0 .. MaxAttempts + 1
          /\ attempts[holds[w]] \in 0 .. MaxAttempts + 1
          /\ MaxAttempts \in Nat
      BY <2>1, QueueAssumption, Zenon DEF TypeOK
    <3>1. attempts[holds[w]] >= MaxAttempts
      BY <2>1, <2>2, <3>0 DEF TriesLeft
    <3>2. holds[w] \in dead'
      BY <1>7 DEF RecordGivingUp, DeadLetter
    <3>3. QED
      BY <2>1, <2>2, <3>1, <3>2
         DEF Settle, SpentWhenGivenUp, HeardWhenGivenUp, GivesUp, TypeOK
  <2>3. CASE UNCHANGED rows
    BY <2>3 DEF rows, SpentWhenGivenUp, HeardWhenGivenUp, GivesUp
  <2>4. QED
    BY <1>7, <2>2, <2>3 DEF RecordGivingUp
<1>8. ASSUME Sweep
      PROVE  SpentWhenGivenUp /\ HeardWhenGivenUp
  BY <1>8 DEF Sweep, ReclaimStaleJobs, Reclaimed, Stale, pool, SpentWhenGivenUp, HeardWhenGivenUp, GivesUp, TypeOK
<1>9. ASSUME Shutdown
      PROVE  SpentWhenGivenUp /\ HeardWhenGivenUp
  BY <1>9 DEF Shutdown, rows, pool, past, SpentWhenGivenUp, HeardWhenGivenUp, GivesUp, TypeOK
<1>10. ASSUME Die
      PROVE  SpentWhenGivenUp /\ HeardWhenGivenUp
  BY <1>10 DEF Die, rows, past, SpentWhenGivenUp, HeardWhenGivenUp, GivesUp, TypeOK
<1>11. ASSUME Start
      PROVE  SpentWhenGivenUp /\ HeardWhenGivenUp
  BY <1>11 DEF Start, ReclaimStaleJobs, Reclaimed, Stale, pool, SpentWhenGivenUp, HeardWhenGivenUp, GivesUp, TypeOK
<1>12. ASSUME Tick
      PROVE  SpentWhenGivenUp /\ HeardWhenGivenUp
  BY <1>12 DEF Tick, pool, past, SpentWhenGivenUp, HeardWhenGivenUp, GivesUp, TypeOK
<1>13. CASE UNCHANGED vars
  BY <1>13 DEF vars, rows, pool, past, SpentWhenGivenUp, HeardWhenGivenUp, GivesUp, TypeOK
<1>14. QED
  BY <1>1, <1>2, <1>3, <1>4, <1>5, <1>6, <1>7, <1>8, <1>9, <1>10, <1>11, <1>12, <1>13 DEF Next

\* No job is failed with tries left.
THEOREM NoEarlyFailure == Spec => GivesUpOnlySpent
<1>1. IInv /\ [Next]_vars => [SpentWhenGivenUp]_vars
  BY GivingUpStep
<1>2. QED
  BY <1>1, InductiveInvariant, PTL DEF Spec, GivesUpOnlySpent

\* No job fails without its dead letter.
THEOREM NoSilentFailure == Spec => DeadLettersAreHeard
<1>1. IInv /\ [Next]_vars => [HeardWhenGivenUp]_vars
  BY GivingUpStep
<1>2. QED
  BY <1>1, InductiveInvariant, PTL DEF Spec, DeadLettersAreHeard
=============================================================================
