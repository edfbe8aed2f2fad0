------------------------ MODULE IngestPipelineProofs ------------------------
(* Theorems about IngestPipeline, for every value of its constants.        *)
EXTENDS IngestPipeline, TLAPS

\* The inductive invariant: types, what a worker carries, what a row not yet
\* written holds, the books, and who decided what a message reads.
IInv ==
  /\ TypeOK /\ WorkerCoherent /\ RowCoherent
  /\ LedgerMatchesVerdicts /\ StandingHasVerdict

-----------------------------------------------------------------------------
(* How a job's end changes queue and pool.                                 *)

\* A worker that is done is idle, others are where they were, and no lock is
\* lost but to a worker that outlived its own.
LEMMA DoneTypes ==
  ASSUME PoolTypes, QueueTypes, NEW w \in Workers, NEW X \in SUBSET Props, JobDone(w, X)
  PROVE  PoolTypes' /\ toClassify' \subseteq Msgs /\ toExtract' \subseteq Props
BY DEF JobDone, Release, PoolTypes, QueueTypes, Stages

\* A worker whose job failed is idle, and the job is pending again or not.
LEMMA FailedTypes ==
  ASSUME PoolTypes, QueueTypes, WorkerCoherent, NEW w \in Workers, at[w] # "idle", JobFails(w)
  PROVE  PoolTypes' /\ toClassify' \subseteq Msgs /\ toExtract' \subseteq Props
<1>1. PoolTypes'
  BY DEF JobFails, Release, PoolTypes, Stages
<1>2. /\ does[w] = "classify" => onMsg[w] \in Msgs
      /\ does[w] = "extract" => onProp[w] \in Props
  BY DEF PoolTypes, Stages, WorkerCoherent, Coherent
<1>3. QED
  BY <1>1, <1>2 DEF JobFails, QueueTypes

\* What a worker that is done leaves behind is coherent.
LEMMA DoneCoherent ==
  ASSUME PoolTypes, WorkerCoherent, NEW w \in Workers, NEW X, JobDone(w, X),
         UNCHANGED <<of, overran>>, at[w] # "idle"
  PROVE  WorkerCoherent'
<1> SUFFICES ASSUME NEW v \in Workers
             PROVE  Coherent(v)'
  BY DEF WorkerCoherent
<1>1. CASE v = w
  BY <1>1, PipelineAssumption DEF JobDone, Release, PoolTypes, Coherent
<1>2. CASE v # w
  <2>1. /\ at'[v] = at[v] /\ does'[v] = does[v]
        /\ onMsg'[v] = onMsg[v] /\ onProp'[v] = onProp[v]
    BY <1>2 DEF JobDone, Release, PoolTypes
  <2>2. Coherent(v) /\ Coherent(w)
    BY DEF WorkerCoherent
  <2>3. late'[v] => late[v] \/ (late[w] /\ SameJob(v, w))
    BY <1>2 DEF JobDone, PoolTypes
  <2>4. SameJob(v, w) => at[v] # "idle" /\ onMsg[v] = onMsg[w]
    BY <2>2 DEF SameJob, Coherent, PoolTypes, Stages
  <2>5. QED
    BY <2>1, <2>2, <2>3, <2>4 DEF Coherent
<1>3. QED
  BY <1>1, <1>2

\* What a worker whose job failed leaves behind is coherent.
LEMMA FailedCoherent ==
  ASSUME PoolTypes, WorkerCoherent, NEW w \in Workers, JobFails(w),
         UNCHANGED <<of, overran>>
  PROVE  WorkerCoherent'
<1> SUFFICES ASSUME NEW v \in Workers
             PROVE  Coherent(v)'
  BY DEF WorkerCoherent
<1>1. QED
  BY PipelineAssumption DEF JobFails, Release, PoolTypes, WorkerCoherent, Coherent

\* A record is filed from a row that has a kind to file and a property.
LEMMA ApplyTypes ==
  ASSUME RowTypes, BookTypes, NEW p \in Props, NEW how, Apply(p, how)
  PROVE  BookTypes'
<1> DEFINE entry == [kind |-> kind[p], payload |-> payload[p], place |-> place[p]]
<1>1. kind[p] \in Kinds /\ payload[p] \in Payloads /\ place[p] \in Places
  BY PipelineAssumption DEF Apply, Fileable, RowTypes
<1>2. entry \in Filings
  BY <1>1 DEF Filings
<1>3. /\ filed' = [filed EXCEPT ![p] = entry]
      /\ entries' = [entries EXCEPT ![p] = @ + 1]
  BY DEF Apply
<1> HIDE DEF entry
<1>4. QED
  BY <1>2, <1>3 DEF BookTypes

-----------------------------------------------------------------------------
(* Types.                                                                  *)

\* Every step keeps the types of the two tables.
LEMMA RowTypeStep ==
  ASSUME RowTypes, PoolTypes, QueueTypes, WorkerCoherent, [Next]_vars
  PROVE  RowTypes'
<1> USE PipelineAssumption
<1>1. ASSUME NEW m \in Msgs, Arrive(m)
      PROVE  RowTypes'
  BY <1>1
     DEF Arrive, SetMessage, proposals, books, pool, past, RowTypes, MsgStates,
         Payloads, Verdicts, PoolTypes, QueueTypes, WorkerCoherent, Coherent,
         Undecided
<1>2. ASSUME NEW m \in Msgs, SweepQueues(m)
      PROVE  RowTypes'
  BY <1>2
     DEF SweepQueues, proposals, books, pool, past, RowTypes, MsgStates, Payloads,
         Verdicts, PoolTypes, QueueTypes, WorkerCoherent, Coherent, Undecided
<1>3. ASSUME SweepLists
      PROVE  RowTypes'
  BY <1>3
     DEF SweepLists, Awaiting, proposals, books, pool, past, RowTypes, MsgStates,
         Payloads, Verdicts, PoolTypes, QueueTypes, WorkerCoherent, Coherent,
         Undecided
<1>4. ASSUME NEW w \in Workers, NEW m \in Msgs, ClassifyReads(w, m)
      PROVE  RowTypes'
  BY <1>4
     DEF ClassifyReads, proposals, books, RowTypes, MsgStates, Payloads, Verdicts,
         PoolTypes, QueueTypes, WorkerCoherent, Coherent, Undecided
<1>5. ASSUME NEW w \in Workers, ClassifyMarks(w)
      PROVE  RowTypes'
  BY <1>5
     DEF ClassifyMarks, SetMessage, proposals, books, queue, past, RowTypes,
         MsgStates, Payloads, Verdicts, PoolTypes, QueueTypes, WorkerCoherent,
         Coherent, Undecided
<1>6. ASSUME NEW w \in Workers, ClassifyFails(w)
      PROVE  RowTypes'
  BY <1>6
     DEF ClassifyFails, SetMessage, JobFails, JobDone, Release, proposals, books,
         past, RowTypes, MsgStates, Payloads, Verdicts, PoolTypes, QueueTypes,
         WorkerCoherent, Coherent, Undecided
<1>7. ASSUME NEW w \in Workers, ClassifyProposes(w)
      PROVE  RowTypes'
  <2>1. PICK p \in Fresh, k \in Kinds, pl \in Places \cup {NoPlace} :
          /\ \A q \in Fresh : p <= q
          /\ of'    = [of EXCEPT ![p] = onMsg[w]]
          /\ kind'  = [kind EXCEPT ![p] = k]
          /\ place' = [place EXCEPT ![p] = pl]
          /\ onProp' = [onProp EXCEPT ![w] = p]
          /\ at' = [at EXCEPT ![w] = IF k \in Extractable THEN "queueing"
                                                          ELSE "routing"]
    BY <1>7 DEF ClassifyProposes
  <2>2. p \in Props /\ onMsg[w] \in Msgs
    BY <1>7 DEF Fresh, ClassifyProposes, WorkerCoherent, Coherent
  <2>3. /\ msg' = msg /\ payload' = payload /\ verdict' = verdict
    BY <1>7 DEF ClassifyProposes
  <2>4. QED
    BY <2>1, <2>2, <2>3 DEF RowTypes
<1>8. ASSUME NEW w \in Workers, ClassifyQueues(w)
      PROVE  RowTypes'
  BY <1>8
     DEF ClassifyQueues, JobDone, Release, proposals, books, past, RowTypes,
         MsgStates, Payloads, Verdicts, PoolTypes, QueueTypes, WorkerCoherent,
         Coherent, Undecided
<1>9. ASSUME NEW w \in Workers, ClassifyCannotQueue(w)
      PROVE  RowTypes'
  BY <1>9
     DEF ClassifyCannotQueue, JobFails, Release, proposals, books, past, RowTypes,
         MsgStates, Payloads, Verdicts, PoolTypes, QueueTypes, WorkerCoherent,
         Coherent, Undecided
<1>10. ASSUME NEW w \in Workers, NEW p \in Props, ExtractReads(w, p)
      PROVE  RowTypes'
  BY <1>10
     DEF ExtractReads, proposals, books, past, RowTypes, MsgStates, Payloads,
         Verdicts, PoolTypes, QueueTypes, WorkerCoherent, Coherent, Undecided
<1>11. ASSUME NEW w \in Workers, ExtractFails(w)
      PROVE  RowTypes'
  BY <1>11
     DEF ExtractFails, JobFails, JobDone, Release, proposals, books, past, RowTypes,
         MsgStates, Payloads, Verdicts, PoolTypes, QueueTypes, WorkerCoherent,
         Coherent, Undecided
<1>12. ASSUME NEW w \in Workers, ExtractRecords(w)
      PROVE  RowTypes'
  <2>1. onProp[w] \in Props /\ seen[w] \in Places \cup {NoPlace}
    BY <1>12 DEF ExtractRecords, WorkerCoherent, Coherent, PoolTypes
  <2>2. PICK pl \in Places \cup {NoPlace} :
          /\ payload' = [payload EXCEPT ![onProp[w]] = "read"]
          /\ place'   = [place EXCEPT ![onProp[w]] = pl]
    BY <1>12, <2>1, Zenon DEF ExtractRecords
  <2>3. QED
    BY <1>12, <2>1, <2>2 DEF ExtractRecords, RowTypes, Payloads
<1>13. ASSUME NEW w \in Workers, ExtractApplies(w)
      PROVE  RowTypes'
  BY <1>13
     DEF ExtractApplies, Apply, Fileable, SetMessage, JobDone, Release, past,
         RowTypes, MsgStates, Payloads, Verdicts, PoolTypes, QueueTypes,
         WorkerCoherent, Coherent, Undecided
<1>14. ASSUME NEW w \in Workers, ExtractIsRefused(w)
      PROVE  RowTypes'
  BY <1>14
     DEF ExtractIsRefused, proposals, books, queue, past, RowTypes, MsgStates,
         Payloads, Verdicts, PoolTypes, QueueTypes, WorkerCoherent, Coherent,
         Undecided
<1>15. ASSUME NEW w \in Workers, RouteToReview(w)
      PROVE  RowTypes'
  BY <1>15
     DEF RouteToReview, SetMessage, JobDone, Release, proposals, books, past,
         RowTypes, MsgStates, Payloads, Verdicts, PoolTypes, QueueTypes,
         WorkerCoherent, Coherent, Undecided
<1>16. ASSUME NEW w \in Workers, LeaseEnds(w)
      PROVE  RowTypes'
  BY <1>16
     DEF LeaseEnds, proposals, books, RowTypes, MsgStates, Payloads, Verdicts,
         PoolTypes, QueueTypes, WorkerCoherent, Coherent, Undecided
<1>17. ASSUME NEW p \in Props, Correct(p)
      PROVE  RowTypes'
  <2>1. PICK k \in Kinds, said \in {payload[p], "edited", "{}"},
             pl \in Places \cup {NoPlace} :
          /\ kind'    = [kind EXCEPT ![p] = k]
          /\ payload' = [payload EXCEPT ![p] = said]
          /\ place'   = [place EXCEPT ![p] = pl]
    BY <1>17 DEF Correct
  <2>2. said \in Payloads
    BY DEF RowTypes, Payloads
  <2>3. QED
    BY <1>17, <2>1, <2>2 DEF Correct, RowTypes
<1>18. ASSUME NEW p \in Props, Approve(p)
      PROVE  RowTypes'
  BY <1>18
     DEF Approve, Apply, Fileable, SetMessage, queue, pool, past, RowTypes,
         MsgStates, Payloads, Verdicts, PoolTypes, QueueTypes, WorkerCoherent,
         Coherent, Undecided
<1>19. ASSUME NEW p \in Props, Reject(p)
      PROVE  RowTypes'
  BY <1>19
     DEF Reject, SetMessage, books, queue, pool, past, RowTypes, MsgStates, Payloads,
         Verdicts, PoolTypes, QueueTypes, WorkerCoherent, Coherent, Undecided
<1>20. ASSUME Crash
      PROVE  RowTypes'
  BY <1>20
     DEF Crash, proposals, books, RowTypes, MsgStates, Payloads, Verdicts, PoolTypes,
         QueueTypes, WorkerCoherent, Coherent, Undecided
<1>21. ASSUME BudgetTurns
      PROVE  RowTypes'
  BY <1>21
     DEF BudgetTurns, proposals, books, queue, pool, past, RowTypes, MsgStates,
         Payloads, Verdicts, PoolTypes, QueueTypes, WorkerCoherent, Coherent,
         Undecided
<1>22. CASE UNCHANGED vars
  BY <1>22
     DEF vars, proposals, books, queue, pool, past, RowTypes, MsgStates, Payloads,
         Verdicts, PoolTypes, QueueTypes, WorkerCoherent, Coherent, Undecided
<1>23. QED
  BY <1>1, <1>2, <1>3, <1>4, <1>5, <1>6, <1>7, <1>8, <1>9, <1>10, <1>11, <1>12, <1>13, <1>14, <1>15, <1>16, <1>17, <1>18, <1>19, <1>20, <1>21, <1>22
     DEF Next, Work

\* Every step keeps the types of the books: what is filed has a kind that
\* can be and a property to stand against.
LEMMA BookTypeStep ==
  ASSUME RowTypes, BookTypes, PoolTypes, WorkerCoherent, [Next]_vars
  PROVE  BookTypes'
<1> USE PipelineAssumption
<1>1. ASSUME NEW m \in Msgs, Arrive(m)
      PROVE  BookTypes'
  BY <1>1
     DEF Arrive, SetMessage, proposals, books, pool, past, BookTypes, RowTypes,
         Filings, Undecided, PoolTypes, WorkerCoherent, Coherent
<1>2. ASSUME NEW m \in Msgs, SweepQueues(m)
      PROVE  BookTypes'
  BY <1>2
     DEF SweepQueues, proposals, books, pool, past, BookTypes, RowTypes, Filings,
         Undecided, PoolTypes, WorkerCoherent, Coherent
<1>3. ASSUME SweepLists
      PROVE  BookTypes'
  BY <1>3
     DEF SweepLists, Awaiting, proposals, books, pool, past, BookTypes, RowTypes,
         Filings, Undecided, PoolTypes, WorkerCoherent, Coherent
<1>4. ASSUME NEW w \in Workers, NEW m \in Msgs, ClassifyReads(w, m)
      PROVE  BookTypes'
  BY <1>4
     DEF ClassifyReads, proposals, books, BookTypes, RowTypes, Filings, Undecided,
         PoolTypes, WorkerCoherent, Coherent
<1>5. ASSUME NEW w \in Workers, ClassifyMarks(w)
      PROVE  BookTypes'
  BY <1>5
     DEF ClassifyMarks, SetMessage, proposals, books, queue, past, BookTypes,
         RowTypes, Filings, Undecided, PoolTypes, WorkerCoherent, Coherent
<1>6. ASSUME NEW w \in Workers, ClassifyFails(w)
      PROVE  BookTypes'
  BY <1>6
     DEF ClassifyFails, SetMessage, JobFails, JobDone, Release, proposals, books,
         past, BookTypes, RowTypes, Filings, Undecided, PoolTypes, WorkerCoherent,
         Coherent
<1>7. ASSUME NEW w \in Workers, ClassifyProposes(w)
      PROVE  BookTypes'
  BY <1>7
     DEF ClassifyProposes, Fresh, books, queue, past, BookTypes, RowTypes, Filings,
         Undecided, PoolTypes, WorkerCoherent, Coherent
<1>8. ASSUME NEW w \in Workers, ClassifyQueues(w)
      PROVE  BookTypes'
  BY <1>8
     DEF ClassifyQueues, JobDone, Release, proposals, books, past, BookTypes,
         RowTypes, Filings, Undecided, PoolTypes, WorkerCoherent, Coherent
<1>9. ASSUME NEW w \in Workers, ClassifyCannotQueue(w)
      PROVE  BookTypes'
  BY <1>9
     DEF ClassifyCannotQueue, JobFails, Release, proposals, books, past, BookTypes,
         RowTypes, Filings, Undecided, PoolTypes, WorkerCoherent, Coherent
<1>10. ASSUME NEW w \in Workers, NEW p \in Props, ExtractReads(w, p)
      PROVE  BookTypes'
  BY <1>10
     DEF ExtractReads, proposals, books, past, BookTypes, RowTypes, Filings,
         Undecided, PoolTypes, WorkerCoherent, Coherent
<1>11. ASSUME NEW w \in Workers, ExtractFails(w)
      PROVE  BookTypes'
  BY <1>11
     DEF ExtractFails, JobFails, JobDone, Release, proposals, books, past, BookTypes,
         RowTypes, Filings, Undecided, PoolTypes, WorkerCoherent, Coherent
<1>12. ASSUME NEW w \in Workers, ExtractRecords(w)
      PROVE  BookTypes'
  BY <1>12
     DEF ExtractRecords, books, queue, past, BookTypes, RowTypes, Filings, Undecided,
         PoolTypes, WorkerCoherent, Coherent
<1>13. ASSUME NEW w \in Workers, ExtractApplies(w)
      PROVE  BookTypes'
  <2>1. Apply(onProp[w], "auto_applied") /\ onProp[w] \in Props
    BY <1>13 DEF ExtractApplies, WorkerCoherent, Coherent
  <2>2. QED
    BY <2>1, ApplyTypes
<1>14. ASSUME NEW w \in Workers, ExtractIsRefused(w)
      PROVE  BookTypes'
  BY <1>14
     DEF ExtractIsRefused, proposals, books, queue, past, BookTypes, RowTypes,
         Filings, Undecided, PoolTypes, WorkerCoherent, Coherent
<1>15. ASSUME NEW w \in Workers, RouteToReview(w)
      PROVE  BookTypes'
  BY <1>15
     DEF RouteToReview, SetMessage, JobDone, Release, proposals, books, past,
         BookTypes, RowTypes, Filings, Undecided, PoolTypes, WorkerCoherent,
         Coherent
<1>16. ASSUME NEW w \in Workers, LeaseEnds(w)
      PROVE  BookTypes'
  BY <1>16
     DEF LeaseEnds, proposals, books, BookTypes, RowTypes, Filings, Undecided,
         PoolTypes, WorkerCoherent, Coherent
<1>17. ASSUME NEW p \in Props, Correct(p)
      PROVE  BookTypes'
  BY <1>17
     DEF Correct, books, queue, pool, past, BookTypes, RowTypes, Filings, Undecided,
         PoolTypes, WorkerCoherent, Coherent
<1>18. ASSUME NEW p \in Props, Approve(p)
      PROVE  BookTypes'
  <2>1. Apply(p, "approved") /\ p \in Props
    BY <1>18 DEF Approve, WorkerCoherent, Coherent
  <2>2. QED
    BY <2>1, ApplyTypes
<1>19. ASSUME NEW p \in Props, Reject(p)
      PROVE  BookTypes'
  BY <1>19
     DEF Reject, SetMessage, books, queue, pool, past, BookTypes, RowTypes, Filings,
         Undecided, PoolTypes, WorkerCoherent, Coherent
<1>20. ASSUME Crash
      PROVE  BookTypes'
  BY <1>20
     DEF Crash, proposals, books, BookTypes, RowTypes, Filings, Undecided, PoolTypes,
         WorkerCoherent, Coherent
<1>21. ASSUME BudgetTurns
      PROVE  BookTypes'
  BY <1>21
     DEF BudgetTurns, proposals, books, queue, pool, past, BookTypes, RowTypes,
         Filings, Undecided, PoolTypes, WorkerCoherent, Coherent
<1>22. CASE UNCHANGED vars
  BY <1>22
     DEF vars, proposals, books, queue, pool, past, BookTypes, RowTypes, Filings,
         Undecided, PoolTypes, WorkerCoherent, Coherent
<1>23. QED
  BY <1>1, <1>2, <1>3, <1>4, <1>5, <1>6, <1>7, <1>8, <1>9, <1>10, <1>11, <1>12, <1>13, <1>14, <1>15, <1>16, <1>17, <1>18, <1>19, <1>20, <1>21, <1>22
     DEF Next, Work

\* Every step keeps the types of the queue.
LEMMA QueueTypeStep ==
  ASSUME RowTypes, QueueTypes, PoolTypes, WorkerCoherent, [Next]_vars
  PROVE  QueueTypes'
<1> USE PipelineAssumption
<1>1. ASSUME NEW m \in Msgs, Arrive(m)
      PROVE  QueueTypes'
  BY <1>1
     DEF Arrive, SetMessage, proposals, books, pool, past, QueueTypes, PoolTypes,
         WorkerCoherent, Coherent, Stages
<1>2. ASSUME NEW m \in Msgs, SweepQueues(m)
      PROVE  QueueTypes'
  BY <1>2
     DEF SweepQueues, proposals, books, pool, past, QueueTypes, PoolTypes,
         WorkerCoherent, Coherent, Stages
<1>3. ASSUME SweepLists
      PROVE  QueueTypes'
  BY <1>3
     DEF SweepLists, Awaiting, proposals, books, pool, past, QueueTypes, PoolTypes,
         WorkerCoherent, Coherent, Stages
<1>4. ASSUME NEW w \in Workers, NEW m \in Msgs, ClassifyReads(w, m)
      PROVE  QueueTypes'
  BY <1>4
     DEF ClassifyReads, proposals, books, QueueTypes, PoolTypes, WorkerCoherent,
         Coherent, Stages
<1>5. ASSUME NEW w \in Workers, ClassifyMarks(w)
      PROVE  QueueTypes'
  BY <1>5
     DEF ClassifyMarks, SetMessage, proposals, books, queue, past, QueueTypes,
         PoolTypes, WorkerCoherent, Coherent, Stages
<1>6. ASSUME NEW w \in Workers, ClassifyFails(w)
      PROVE  QueueTypes'
  <2>1. at[w] # "idle"
    BY <1>6 DEF ClassifyFails
  <2>2. QED
    BY <1>6, <2>1, DoneTypes, FailedTypes
       DEF ClassifyFails, QueueTypes, WorkerCoherent, Coherent
<1>7. ASSUME NEW w \in Workers, ClassifyProposes(w)
      PROVE  QueueTypes'
  BY <1>7
     DEF ClassifyProposes, Fresh, books, queue, past, QueueTypes, PoolTypes,
         WorkerCoherent, Coherent, Stages
<1>8. ASSUME NEW w \in Workers, ClassifyQueues(w)
      PROVE  QueueTypes'
  <2>1. {onProp[w]} \subseteq Props
    BY <1>8 DEF ClassifyQueues, WorkerCoherent, Coherent
  <2>2. QED
    BY <1>8, <2>1, DoneTypes DEF ClassifyQueues, QueueTypes
<1>9. ASSUME NEW w \in Workers, ClassifyCannotQueue(w)
      PROVE  QueueTypes'
  <2>1. at[w] # "idle"
    BY <1>9 DEF ClassifyCannotQueue
  <2>2. QED
    BY <1>9, <2>1, DoneTypes, FailedTypes
       DEF ClassifyCannotQueue, QueueTypes, WorkerCoherent, Coherent
<1>10. ASSUME NEW w \in Workers, NEW p \in Props, ExtractReads(w, p)
      PROVE  QueueTypes'
  BY <1>10
     DEF ExtractReads, proposals, books, past, QueueTypes, PoolTypes, WorkerCoherent,
         Coherent, Stages
<1>11. ASSUME NEW w \in Workers, ExtractFails(w)
      PROVE  QueueTypes'
  <2>1. at[w] # "idle"
    BY <1>11 DEF ExtractFails
  <2>2. QED
    BY <1>11, <2>1, DoneTypes, FailedTypes
       DEF ExtractFails, QueueTypes, WorkerCoherent, Coherent
<1>12. ASSUME NEW w \in Workers, ExtractRecords(w)
      PROVE  QueueTypes'
  BY <1>12
     DEF ExtractRecords, books, queue, past, QueueTypes, PoolTypes, WorkerCoherent,
         Coherent, Stages
<1>13. ASSUME NEW w \in Workers, ExtractApplies(w)
      PROVE  QueueTypes'
  BY <1>13, DoneTypes DEF ExtractApplies, QueueTypes, PoolTypes
<1>14. ASSUME NEW w \in Workers, ExtractIsRefused(w)
      PROVE  QueueTypes'
  BY <1>14
     DEF ExtractIsRefused, proposals, books, queue, past, QueueTypes, PoolTypes,
         WorkerCoherent, Coherent, Stages
<1>15. ASSUME NEW w \in Workers, RouteToReview(w)
      PROVE  QueueTypes'
  BY <1>15, DoneTypes DEF RouteToReview, books, QueueTypes, PoolTypes
<1>16. ASSUME NEW w \in Workers, LeaseEnds(w)
      PROVE  QueueTypes'
  BY <1>16
     DEF LeaseEnds, proposals, books, QueueTypes, PoolTypes, WorkerCoherent,
         Coherent, Stages
<1>17. ASSUME NEW p \in Props, Correct(p)
      PROVE  QueueTypes'
  BY <1>17
     DEF Correct, books, queue, pool, past, QueueTypes, PoolTypes, WorkerCoherent,
         Coherent, Stages
<1>18. ASSUME NEW p \in Props, Approve(p)
      PROVE  QueueTypes'
  BY <1>18
     DEF Approve, Apply, Fileable, SetMessage, queue, pool, past, QueueTypes,
         PoolTypes, WorkerCoherent, Coherent, Stages
<1>19. ASSUME NEW p \in Props, Reject(p)
      PROVE  QueueTypes'
  BY <1>19
     DEF Reject, SetMessage, books, queue, pool, past, QueueTypes, PoolTypes,
         WorkerCoherent, Coherent, Stages
<1>20. ASSUME Crash
      PROVE  QueueTypes'
  BY <1>20
     DEF Crash, proposals, books, QueueTypes, PoolTypes, WorkerCoherent, Coherent,
         Stages
<1>21. ASSUME BudgetTurns
      PROVE  QueueTypes'
  BY <1>21
     DEF BudgetTurns, proposals, books, queue, pool, past, QueueTypes, PoolTypes,
         WorkerCoherent, Coherent, Stages
<1>22. CASE UNCHANGED vars
  BY <1>22
     DEF vars, proposals, books, queue, pool, past, QueueTypes, PoolTypes,
         WorkerCoherent, Coherent, Stages
<1>23. QED
  BY <1>1, <1>2, <1>3, <1>4, <1>5, <1>6, <1>7, <1>8, <1>9, <1>10, <1>11, <1>12, <1>13, <1>14, <1>15, <1>16, <1>17, <1>18, <1>19, <1>20, <1>21, <1>22
     DEF Next, Work

\* Every step keeps the types of the pool.
LEMMA PoolTypeStep ==
  ASSUME RowTypes, QueueTypes, PoolTypes, WorkerCoherent, [Next]_vars
  PROVE  PoolTypes'
<1> USE PipelineAssumption
<1>1. ASSUME NEW m \in Msgs, Arrive(m)
      PROVE  PoolTypes'
  BY <1>1
     DEF Arrive, SetMessage, proposals, books, pool, past, QueueTypes, PoolTypes,
         RowTypes, WorkerCoherent, Coherent, Stages
<1>2. ASSUME NEW m \in Msgs, SweepQueues(m)
      PROVE  PoolTypes'
  BY <1>2
     DEF SweepQueues, proposals, books, pool, past, QueueTypes, PoolTypes, RowTypes,
         WorkerCoherent, Coherent, Stages
<1>3. ASSUME SweepLists
      PROVE  PoolTypes'
  BY <1>3
     DEF SweepLists, Awaiting, proposals, books, pool, past, QueueTypes, PoolTypes,
         RowTypes, WorkerCoherent, Coherent, Stages
<1>4. ASSUME NEW w \in Workers, NEW m \in Msgs, ClassifyReads(w, m)
      PROVE  PoolTypes'
  BY <1>4
     DEF ClassifyReads, proposals, books, QueueTypes, PoolTypes, RowTypes,
         WorkerCoherent, Coherent, Stages
<1>5. ASSUME NEW w \in Workers, ClassifyMarks(w)
      PROVE  PoolTypes'
  BY <1>5
     DEF ClassifyMarks, SetMessage, proposals, books, queue, past, QueueTypes,
         PoolTypes, RowTypes, WorkerCoherent, Coherent, Stages
<1>6. ASSUME NEW w \in Workers, ClassifyFails(w)
      PROVE  PoolTypes'
  <2>1. at[w] # "idle"
    BY <1>6 DEF ClassifyFails
  <2>2. QED
    BY <1>6, <2>1, DoneTypes, FailedTypes
       DEF ClassifyFails, QueueTypes, WorkerCoherent, Coherent
<1>7. ASSUME NEW w \in Workers, ClassifyProposes(w)
      PROVE  PoolTypes'
  BY <1>7
     DEF ClassifyProposes, Fresh, books, queue, past, QueueTypes, PoolTypes,
         RowTypes, WorkerCoherent, Coherent, Stages
<1>8. ASSUME NEW w \in Workers, ClassifyQueues(w)
      PROVE  PoolTypes'
  <2>1. {onProp[w]} \subseteq Props
    BY <1>8 DEF ClassifyQueues, WorkerCoherent, Coherent
  <2>2. QED
    BY <1>8, <2>1, DoneTypes DEF ClassifyQueues, QueueTypes
<1>9. ASSUME NEW w \in Workers, ClassifyCannotQueue(w)
      PROVE  PoolTypes'
  <2>1. at[w] # "idle"
    BY <1>9 DEF ClassifyCannotQueue
  <2>2. QED
    BY <1>9, <2>1, DoneTypes, FailedTypes
       DEF ClassifyCannotQueue, QueueTypes, WorkerCoherent, Coherent
<1>10. ASSUME NEW w \in Workers, NEW p \in Props, ExtractReads(w, p)
      PROVE  PoolTypes'
  <2>1. CASE Unextracted(p)
    <3>1. p \in Props /\ of[p] \in Msgs /\ place[p] \in Places \cup {NoPlace}
      BY <2>1 DEF Unextracted, Undecided, RowTypes
    <3>2. PICK s \in {"extracting", "routing"} : at' = [at EXCEPT ![w] = s]
      BY <1>10, <2>1 DEF ExtractReads
    <3>3. /\ does'   = [does EXCEPT ![w] = "extract"]
          /\ onMsg'  = [onMsg EXCEPT ![w] = of[p]]
          /\ onProp' = [onProp EXCEPT ![w] = p]
          /\ seen'   = [seen EXCEPT ![w] = place[p]]
          /\ UNCHANGED <<of, late, overran>>
          /\ at[w] = "idle"
      BY <1>10, <2>1 DEF ExtractReads, proposals, past
    <3>4. QED
      BY <3>1, <3>2, <3>3 DEF PoolTypes, Stages
  <2>2. CASE ~Unextracted(p)
    BY <1>10, <2>2 DEF ExtractReads, proposals, past, PoolTypes
  <2>3. QED
    BY <2>1, <2>2
<1>11. ASSUME NEW w \in Workers, ExtractFails(w)
      PROVE  PoolTypes'
  <2>1. at[w] # "idle"
    BY <1>11 DEF ExtractFails
  <2>2. QED
    BY <1>11, <2>1, DoneTypes, FailedTypes
       DEF ExtractFails, QueueTypes, WorkerCoherent, Coherent
<1>12. ASSUME NEW w \in Workers, ExtractRecords(w)
      PROVE  PoolTypes'
  BY <1>12
     DEF ExtractRecords, books, queue, past, QueueTypes, PoolTypes, RowTypes,
         WorkerCoherent, Coherent, Stages
<1>13. ASSUME NEW w \in Workers, ExtractApplies(w)
      PROVE  PoolTypes'
  BY <1>13, DoneTypes DEF ExtractApplies, QueueTypes, PoolTypes
<1>14. ASSUME NEW w \in Workers, ExtractIsRefused(w)
      PROVE  PoolTypes'
  BY <1>14
     DEF ExtractIsRefused, proposals, books, queue, past, QueueTypes, PoolTypes,
         RowTypes, WorkerCoherent, Coherent, Stages
<1>15. ASSUME NEW w \in Workers, RouteToReview(w)
      PROVE  PoolTypes'
  BY <1>15, DoneTypes DEF RouteToReview, books, QueueTypes, PoolTypes
<1>16. ASSUME NEW w \in Workers, LeaseEnds(w)
      PROVE  PoolTypes'
  BY <1>16
     DEF LeaseEnds, proposals, books, QueueTypes, PoolTypes, RowTypes,
         WorkerCoherent, Coherent, Stages
<1>17. ASSUME NEW p \in Props, Correct(p)
      PROVE  PoolTypes'
  BY <1>17
     DEF Correct, books, queue, pool, past, QueueTypes, PoolTypes, RowTypes,
         WorkerCoherent, Coherent, Stages
<1>18. ASSUME NEW p \in Props, Approve(p)
      PROVE  PoolTypes'
  BY <1>18
     DEF Approve, Apply, Fileable, SetMessage, queue, pool, past, QueueTypes,
         PoolTypes, RowTypes, WorkerCoherent, Coherent, Stages
<1>19. ASSUME NEW p \in Props, Reject(p)
      PROVE  PoolTypes'
  BY <1>19
     DEF Reject, SetMessage, books, queue, pool, past, QueueTypes, PoolTypes,
         RowTypes, WorkerCoherent, Coherent, Stages
<1>20. ASSUME Crash
      PROVE  PoolTypes'
  BY <1>20
     DEF Crash, proposals, books, QueueTypes, PoolTypes, RowTypes, WorkerCoherent,
         Coherent, Stages
<1>21. ASSUME BudgetTurns
      PROVE  PoolTypes'
  BY <1>21
     DEF BudgetTurns, proposals, books, queue, pool, past, QueueTypes, PoolTypes,
         RowTypes, WorkerCoherent, Coherent, Stages
<1>22. CASE UNCHANGED vars
  BY <1>22
     DEF vars, proposals, books, queue, pool, past, QueueTypes, PoolTypes, RowTypes,
         WorkerCoherent, Coherent, Stages
<1>23. QED
  BY <1>1, <1>2, <1>3, <1>4, <1>5, <1>6, <1>7, <1>8, <1>9, <1>10, <1>11, <1>12, <1>13, <1>14, <1>15, <1>16, <1>17, <1>18, <1>19, <1>20, <1>21, <1>22
     DEF Next, Work

\* Every step keeps the types of the histories.
LEMMA PastTypeStep ==
  ASSUME PoolTypes, PastTypes, WorkerCoherent, [Next]_vars
  PROVE  PastTypes'
<1> USE PipelineAssumption
<1>1. ASSUME NEW m \in Msgs, Arrive(m)
      PROVE  PastTypes'
  BY <1>1
     DEF Arrive, SetMessage, proposals, books, pool, past, PoolTypes, PastTypes,
         WorkerCoherent, Coherent, Stages
<1>2. ASSUME NEW m \in Msgs, SweepQueues(m)
      PROVE  PastTypes'
  BY <1>2
     DEF SweepQueues, proposals, books, pool, past, PoolTypes, PastTypes,
         WorkerCoherent, Coherent, Stages
<1>3. ASSUME SweepLists
      PROVE  PastTypes'
  BY <1>3
     DEF SweepLists, Awaiting, proposals, books, pool, past, PoolTypes, PastTypes,
         WorkerCoherent, Coherent, Stages
<1>4. ASSUME NEW w \in Workers, NEW m \in Msgs, ClassifyReads(w, m)
      PROVE  PastTypes'
  BY <1>4
     DEF ClassifyReads, proposals, books, PoolTypes, PastTypes, WorkerCoherent,
         Coherent, Stages
<1>5. ASSUME NEW w \in Workers, ClassifyMarks(w)
      PROVE  PastTypes'
  BY <1>5
     DEF ClassifyMarks, SetMessage, proposals, books, queue, past, PoolTypes,
         PastTypes, WorkerCoherent, Coherent, Stages
<1>6. ASSUME NEW w \in Workers, ClassifyFails(w)
      PROVE  PastTypes'
  BY <1>6
     DEF ClassifyFails, SetMessage, JobFails, JobDone, Release, proposals, books,
         past, PoolTypes, PastTypes, WorkerCoherent, Coherent, Stages
<1>7. ASSUME NEW w \in Workers, ClassifyProposes(w)
      PROVE  PastTypes'
  BY <1>7
     DEF ClassifyProposes, Fresh, books, queue, past, PoolTypes, PastTypes,
         WorkerCoherent, Coherent, Stages
<1>8. ASSUME NEW w \in Workers, ClassifyQueues(w)
      PROVE  PastTypes'
  BY <1>8
     DEF ClassifyQueues, JobDone, Release, proposals, books, past, PoolTypes,
         PastTypes, WorkerCoherent, Coherent, Stages
<1>9. ASSUME NEW w \in Workers, ClassifyCannotQueue(w)
      PROVE  PastTypes'
  BY <1>9
     DEF ClassifyCannotQueue, JobFails, Release, proposals, books, past, PoolTypes,
         PastTypes, WorkerCoherent, Coherent, Stages
<1>10. ASSUME NEW w \in Workers, NEW p \in Props, ExtractReads(w, p)
      PROVE  PastTypes'
  BY <1>10
     DEF ExtractReads, proposals, books, past, PoolTypes, PastTypes, WorkerCoherent,
         Coherent, Stages
<1>11. ASSUME NEW w \in Workers, ExtractFails(w)
      PROVE  PastTypes'
  BY <1>11
     DEF ExtractFails, JobFails, JobDone, Release, proposals, books, past, PoolTypes,
         PastTypes, WorkerCoherent, Coherent, Stages
<1>12. ASSUME NEW w \in Workers, ExtractRecords(w)
      PROVE  PastTypes'
  BY <1>12
     DEF ExtractRecords, books, queue, past, PoolTypes, PastTypes, WorkerCoherent,
         Coherent, Stages
<1>13. ASSUME NEW w \in Workers, ExtractApplies(w)
      PROVE  PastTypes'
  BY <1>13
     DEF ExtractApplies, Apply, Fileable, SetMessage, JobDone, Release, past,
         PoolTypes, PastTypes, WorkerCoherent, Coherent, Stages
<1>14. ASSUME NEW w \in Workers, ExtractIsRefused(w)
      PROVE  PastTypes'
  BY <1>14
     DEF ExtractIsRefused, proposals, books, queue, past, PoolTypes, PastTypes,
         WorkerCoherent, Coherent, Stages
<1>15. ASSUME NEW w \in Workers, RouteToReview(w)
      PROVE  PastTypes'
  BY <1>15
     DEF RouteToReview, SetMessage, JobDone, Release, proposals, books, past,
         PoolTypes, PastTypes, WorkerCoherent, Coherent, Stages
<1>16. ASSUME NEW w \in Workers, LeaseEnds(w)
      PROVE  PastTypes'
  BY <1>16
     DEF LeaseEnds, proposals, books, PoolTypes, PastTypes, WorkerCoherent, Coherent,
         Stages
<1>17. ASSUME NEW p \in Props, Correct(p)
      PROVE  PastTypes'
  BY <1>17
     DEF Correct, books, queue, pool, past, PoolTypes, PastTypes, WorkerCoherent,
         Coherent, Stages
<1>18. ASSUME NEW p \in Props, Approve(p)
      PROVE  PastTypes'
  BY <1>18
     DEF Approve, Apply, Fileable, SetMessage, queue, pool, past, PoolTypes,
         PastTypes, WorkerCoherent, Coherent, Stages
<1>19. ASSUME NEW p \in Props, Reject(p)
      PROVE  PastTypes'
  BY <1>19
     DEF Reject, SetMessage, books, queue, pool, past, PoolTypes, PastTypes,
         WorkerCoherent, Coherent, Stages
<1>20. ASSUME Crash
      PROVE  PastTypes'
  BY <1>20
     DEF Crash, proposals, books, PoolTypes, PastTypes, WorkerCoherent, Coherent,
         Stages
<1>21. ASSUME BudgetTurns
      PROVE  PastTypes'
  BY <1>21
     DEF BudgetTurns, proposals, books, queue, pool, past, PoolTypes, PastTypes,
         WorkerCoherent, Coherent, Stages
<1>22. CASE UNCHANGED vars
  BY <1>22
     DEF vars, proposals, books, queue, pool, past, PoolTypes, PastTypes,
         WorkerCoherent, Coherent, Stages
<1>23. QED
  BY <1>1, <1>2, <1>3, <1>4, <1>5, <1>6, <1>7, <1>8, <1>9, <1>10, <1>11, <1>12, <1>13, <1>14, <1>15, <1>16, <1>17, <1>18, <1>19, <1>20, <1>21, <1>22
     DEF Next, Work

\* Every step keeps what a worker carries in agreement with its stage.
LEMMA WorkerStep ==
  ASSUME RowTypes, PoolTypes, QueueTypes, WorkerCoherent, [Next]_vars
  PROVE  WorkerCoherent'
<1> USE PipelineAssumption
<1>1. ASSUME NEW m \in Msgs, Arrive(m)
      PROVE  WorkerCoherent'
  BY <1>1
     DEF Arrive, SetMessage, proposals, books, pool, past, RowTypes, PoolTypes,
         QueueTypes, WorkerCoherent, Coherent
<1>2. ASSUME NEW m \in Msgs, SweepQueues(m)
      PROVE  WorkerCoherent'
  BY <1>2
     DEF SweepQueues, proposals, books, pool, past, RowTypes, PoolTypes, QueueTypes,
         WorkerCoherent, Coherent
<1>3. ASSUME SweepLists
      PROVE  WorkerCoherent'
  BY <1>3
     DEF SweepLists, Awaiting, proposals, books, pool, past, RowTypes, PoolTypes,
         QueueTypes, WorkerCoherent, Coherent
<1>4. ASSUME NEW w \in Workers, NEW m \in Msgs, ClassifyReads(w, m)
      PROVE  WorkerCoherent'
  BY <1>4
     DEF ClassifyReads, proposals, books, RowTypes, PoolTypes, QueueTypes,
         WorkerCoherent, Coherent
<1>5. ASSUME NEW w \in Workers, ClassifyMarks(w)
      PROVE  WorkerCoherent'
  BY <1>5
     DEF ClassifyMarks, SetMessage, proposals, books, queue, past, RowTypes,
         PoolTypes, QueueTypes, WorkerCoherent, Coherent
<1>6. ASSUME NEW w \in Workers, ClassifyFails(w)
      PROVE  WorkerCoherent'
  <2>1. UNCHANGED <<of, overran>> /\ at[w] # "idle"
    BY <1>6 DEF ClassifyFails, proposals, past
  <2>2. QED
    BY <1>6, <2>1, DoneCoherent, FailedCoherent DEF ClassifyFails
<1>7. ASSUME NEW w \in Workers, ClassifyProposes(w)
      PROVE  WorkerCoherent'
  BY <1>7
     DEF ClassifyProposes, Fresh, books, queue, past, RowTypes, PoolTypes,
         QueueTypes, WorkerCoherent, Coherent
<1>8. ASSUME NEW w \in Workers, ClassifyQueues(w)
      PROVE  WorkerCoherent'
  <2>1. UNCHANGED <<of, overran>> /\ at[w] # "idle"
    BY <1>8 DEF ClassifyQueues, proposals, past
  <2>2. QED
    BY <1>8, <2>1, DoneCoherent, FailedCoherent DEF ClassifyQueues
<1>9. ASSUME NEW w \in Workers, ClassifyCannotQueue(w)
      PROVE  WorkerCoherent'
  <2>1. UNCHANGED <<of, overran>> /\ at[w] # "idle"
    BY <1>9 DEF ClassifyCannotQueue, proposals, past
  <2>2. QED
    BY <1>9, <2>1, DoneCoherent, FailedCoherent DEF ClassifyCannotQueue
<1>10. ASSUME NEW w \in Workers, NEW p \in Props, ExtractReads(w, p)
      PROVE  WorkerCoherent'
  <2>1. CASE Unextracted(p)
    <3>1. p \in Props /\ of[p] \in Msgs /\ place[p] \in Places \cup {NoPlace}
      BY <2>1 DEF Unextracted, Undecided, RowTypes
    <3>2. PICK s \in {"extracting", "routing"} : at' = [at EXCEPT ![w] = s]
      BY <1>10, <2>1 DEF ExtractReads
    <3>3. /\ does'   = [does EXCEPT ![w] = "extract"]
          /\ onMsg'  = [onMsg EXCEPT ![w] = of[p]]
          /\ onProp' = [onProp EXCEPT ![w] = p]
          /\ seen'   = [seen EXCEPT ![w] = place[p]]
          /\ UNCHANGED <<of, late, overran>>
          /\ at[w] = "idle"
      BY <1>10, <2>1 DEF ExtractReads, proposals, past
    <3>4. QED
      BY <3>1, <3>2, <3>3 DEF PoolTypes, Stages, WorkerCoherent, Coherent
  <2>2. CASE ~Unextracted(p)
    BY <1>10, <2>2
       DEF ExtractReads, proposals, past, PoolTypes, WorkerCoherent, Coherent
  <2>3. QED
    BY <2>1, <2>2
<1>11. ASSUME NEW w \in Workers, ExtractFails(w)
      PROVE  WorkerCoherent'
  <2>1. UNCHANGED <<of, overran>> /\ at[w] # "idle"
    BY <1>11 DEF ExtractFails, proposals, past
  <2>2. QED
    BY <1>11, <2>1, DoneCoherent, FailedCoherent DEF ExtractFails
<1>12. ASSUME NEW w \in Workers, ExtractRecords(w)
      PROVE  WorkerCoherent'
  BY <1>12
     DEF ExtractRecords, books, queue, past, RowTypes, PoolTypes, QueueTypes,
         WorkerCoherent, Coherent
<1>13. ASSUME NEW w \in Workers, ExtractApplies(w)
      PROVE  WorkerCoherent'
  <2>1. UNCHANGED <<of, overran>> /\ at[w] # "idle"
    BY <1>13 DEF ExtractApplies, past, Apply
  <2>2. QED
    BY <1>13, <2>1, DoneCoherent, FailedCoherent DEF ExtractApplies
<1>14. ASSUME NEW w \in Workers, ExtractIsRefused(w)
      PROVE  WorkerCoherent'
  BY <1>14
     DEF ExtractIsRefused, proposals, books, queue, past, RowTypes, PoolTypes,
         QueueTypes, WorkerCoherent, Coherent
<1>15. ASSUME NEW w \in Workers, RouteToReview(w)
      PROVE  WorkerCoherent'
  <2>1. UNCHANGED <<of, overran>> /\ at[w] # "idle"
    BY <1>15 DEF RouteToReview, proposals, past
  <2>2. QED
    BY <1>15, <2>1, DoneCoherent, FailedCoherent DEF RouteToReview
<1>16. ASSUME NEW w \in Workers, LeaseEnds(w)
      PROVE  WorkerCoherent'
  BY <1>16
     DEF LeaseEnds, proposals, books, RowTypes, PoolTypes, QueueTypes,
         WorkerCoherent, Coherent
<1>17. ASSUME NEW p \in Props, Correct(p)
      PROVE  WorkerCoherent'
  BY <1>17
     DEF Correct, books, queue, pool, past, RowTypes, PoolTypes, QueueTypes,
         WorkerCoherent, Coherent
<1>18. ASSUME NEW p \in Props, Approve(p)
      PROVE  WorkerCoherent'
  BY <1>18
     DEF Approve, Apply, Fileable, SetMessage, queue, pool, past, RowTypes,
         PoolTypes, QueueTypes, WorkerCoherent, Coherent
<1>19. ASSUME NEW p \in Props, Reject(p)
      PROVE  WorkerCoherent'
  BY <1>19
     DEF Reject, SetMessage, books, queue, pool, past, RowTypes, PoolTypes,
         QueueTypes, WorkerCoherent, Coherent
<1>20. ASSUME Crash
      PROVE  WorkerCoherent'
  BY <1>20
     DEF Crash, proposals, books, RowTypes, PoolTypes, QueueTypes, WorkerCoherent,
         Coherent
<1>21. ASSUME BudgetTurns
      PROVE  WorkerCoherent'
  BY <1>21
     DEF BudgetTurns, proposals, books, queue, pool, past, RowTypes, PoolTypes,
         QueueTypes, WorkerCoherent, Coherent
<1>22. CASE UNCHANGED vars
  BY <1>22
     DEF vars, proposals, books, queue, pool, past, RowTypes, PoolTypes, QueueTypes,
         WorkerCoherent, Coherent
<1>23. QED
  BY <1>1, <1>2, <1>3, <1>4, <1>5, <1>6, <1>7, <1>8, <1>9, <1>10, <1>11, <1>12, <1>13, <1>14, <1>15, <1>16, <1>17, <1>18, <1>19, <1>20, <1>21, <1>22
     DEF Next, Work

-----------------------------------------------------------------------------
(* The gate.                                                               *)

\* What a step can do to the columns the gate is about: nothing, or write a
\* new row, or file, or reject.
GateRests ==
  /\ UNCHANGED <<of, verdict, entries>>
  /\ \A m \in Msgs : msg'[m] \in {"applied", "rejected"} => msg'[m] = msg[m]

GateMoves ==
  \/ GateRests
  \/ /\ \E p \in Fresh, m \in Msgs : of' = [of EXCEPT ![p] = m]
     /\ UNCHANGED <<verdict, entries, msg>>
  \/ \E p \in Props, how \in {"approved", "auto_applied"} : Apply(p, how)
  \/ \E p \in Props : Reject(p)

\* A row is written for the message its worker carries.
LEMMA ProposesRow ==
  ASSUME WorkerCoherent, NEW w \in Workers, ClassifyProposes(w)
  PROVE  /\ onMsg[w] \in Msgs
         /\ \E p \in Fresh : /\ of' = [of EXCEPT ![p] = onMsg[w]]
                             /\ onProp' = [onProp EXCEPT ![w] = p]
                             /\ at' \in {[at EXCEPT ![w] = "queueing"],
                                         [at EXCEPT ![w] = "routing"]}
<1>1. onMsg[w] \in Msgs
  BY DEF ClassifyProposes, WorkerCoherent, Coherent
<1>2. PICK p \in Fresh, k \in Kinds :
        /\ of' = [of EXCEPT ![p] = onMsg[w]]
        /\ onProp' = [onProp EXCEPT ![w] = p]
        /\ at' = [at EXCEPT ![w] = IF k \in Extractable THEN "queueing" ELSE "routing"]
  BY Zenon DEF ClassifyProposes
<1>3. at' \in {[at EXCEPT ![w] = "queueing"], [at EXCEPT ![w] = "routing"]}
  BY <1>2
<1>4. QED
  BY <1>1, <1>2, <1>3

\* Every step moves the gate in one of these ways, or not at all.
LEMMA GateCases ==
  ASSUME RowTypes, WorkerCoherent, [Next]_vars
  PROVE  GateMoves
<1>1. ASSUME NEW m \in Msgs, Arrive(m)
      PROVE  GateMoves
  BY <1>1
     DEF Arrive, SetMessage, proposals, books, pool, past, GateMoves, GateRests,
         RowTypes, WorkerCoherent, Coherent
<1>2. ASSUME NEW m \in Msgs, SweepQueues(m)
      PROVE  GateMoves
  BY <1>2
     DEF SweepQueues, proposals, books, pool, past, GateMoves, GateRests, RowTypes,
         WorkerCoherent, Coherent
<1>3. ASSUME SweepLists
      PROVE  GateMoves
  BY <1>3
     DEF SweepLists, Awaiting, proposals, books, pool, past, GateMoves, GateRests,
         RowTypes, WorkerCoherent, Coherent
<1>4. ASSUME NEW w \in Workers, NEW m \in Msgs, ClassifyReads(w, m)
      PROVE  GateMoves
  BY <1>4
     DEF ClassifyReads, proposals, books, GateMoves, GateRests, RowTypes,
         WorkerCoherent, Coherent
<1>5. ASSUME NEW w \in Workers, ClassifyMarks(w)
      PROVE  GateMoves
  BY <1>5
     DEF ClassifyMarks, SetMessage, proposals, books, queue, past, GateMoves,
         GateRests, RowTypes, WorkerCoherent, Coherent
<1>6. ASSUME NEW w \in Workers, ClassifyFails(w)
      PROVE  GateMoves
  BY <1>6
     DEF ClassifyFails, SetMessage, JobFails, JobDone, Release, proposals, books,
         past, GateMoves, GateRests, RowTypes, WorkerCoherent, Coherent
<1>7. ASSUME NEW w \in Workers, ClassifyProposes(w)
      PROVE  GateMoves
  <2>1. UNCHANGED <<verdict, entries, msg>>
    BY <1>7 DEF ClassifyProposes, books
  <2>2. QED
    BY <1>7, <2>1, ProposesRow DEF GateMoves
<1>8. ASSUME NEW w \in Workers, ClassifyQueues(w)
      PROVE  GateMoves
  BY <1>8
     DEF ClassifyQueues, JobDone, Release, proposals, books, past, GateMoves,
         GateRests, RowTypes, WorkerCoherent, Coherent
<1>9. ASSUME NEW w \in Workers, ClassifyCannotQueue(w)
      PROVE  GateMoves
  BY <1>9
     DEF ClassifyCannotQueue, JobFails, Release, proposals, books, past, GateMoves,
         GateRests, RowTypes, WorkerCoherent, Coherent
<1>10. ASSUME NEW w \in Workers, NEW p \in Props, ExtractReads(w, p)
      PROVE  GateMoves
  BY <1>10
     DEF ExtractReads, proposals, books, past, GateMoves, GateRests, RowTypes,
         WorkerCoherent, Coherent
<1>11. ASSUME NEW w \in Workers, ExtractFails(w)
      PROVE  GateMoves
  BY <1>11
     DEF ExtractFails, JobFails, JobDone, Release, proposals, books, past, GateMoves,
         GateRests, RowTypes, WorkerCoherent, Coherent
<1>12. ASSUME NEW w \in Workers, ExtractRecords(w)
      PROVE  GateMoves
  BY <1>12
     DEF ExtractRecords, books, queue, past, GateMoves, GateRests, RowTypes,
         WorkerCoherent, Coherent
<1>13. ASSUME NEW w \in Workers, ExtractApplies(w)
      PROVE  GateMoves
  <2>1. onProp[w] \in Props
    BY <1>13 DEF ExtractApplies, WorkerCoherent, Coherent
  <2>2. QED
    BY <1>13, <2>1 DEF ExtractApplies, GateMoves
<1>14. ASSUME NEW w \in Workers, ExtractIsRefused(w)
      PROVE  GateMoves
  BY <1>14
     DEF ExtractIsRefused, proposals, books, queue, past, GateMoves, GateRests,
         RowTypes, WorkerCoherent, Coherent
<1>15. ASSUME NEW w \in Workers, RouteToReview(w)
      PROVE  GateMoves
  BY <1>15
     DEF RouteToReview, SetMessage, JobDone, Release, proposals, books, past,
         GateMoves, GateRests, RowTypes, WorkerCoherent, Coherent
<1>16. ASSUME NEW w \in Workers, LeaseEnds(w)
      PROVE  GateMoves
  BY <1>16
     DEF LeaseEnds, proposals, books, GateMoves, GateRests, RowTypes, WorkerCoherent,
         Coherent
<1>17. ASSUME NEW p \in Props, Correct(p)
      PROVE  GateMoves
  BY <1>17
     DEF Correct, books, queue, pool, past, GateMoves, GateRests, RowTypes,
         WorkerCoherent, Coherent
<1>18. ASSUME NEW p \in Props, Approve(p)
      PROVE  GateMoves
  BY <1>18 DEF Approve, GateMoves
<1>19. ASSUME NEW p \in Props, Reject(p)
      PROVE  GateMoves
  BY <1>19 DEF GateMoves
<1>20. ASSUME Crash
      PROVE  GateMoves
  BY <1>20
     DEF Crash, proposals, books, GateMoves, GateRests, RowTypes, WorkerCoherent,
         Coherent
<1>21. ASSUME BudgetTurns
      PROVE  GateMoves
  BY <1>21
     DEF BudgetTurns, proposals, books, queue, pool, past, GateMoves, GateRests,
         RowTypes, WorkerCoherent, Coherent
<1>22. CASE UNCHANGED vars
  BY <1>22
     DEF vars, proposals, books, queue, pool, past, GateMoves, GateRests, RowTypes,
         WorkerCoherent, Coherent
<1>23. QED
  BY <1>1, <1>2, <1>3, <1>4, <1>5, <1>6, <1>7, <1>8, <1>9, <1>10, <1>11, <1>12, <1>13, <1>14, <1>15, <1>16, <1>17, <1>18, <1>19, <1>20, <1>21, <1>22
     DEF Next, Work

\* Books and verdicts move together.
LEMMA LedgerStep ==
  ASSUME RowTypes, BookTypes, LedgerMatchesVerdicts, GateMoves
  PROVE  LedgerMatchesVerdicts'
<1>1. CASE UNCHANGED <<verdict, entries>>
  BY <1>1 DEF LedgerMatchesVerdicts
<1>2. ASSUME NEW p \in Props, NEW how \in {"approved", "auto_applied"}, Apply(p, how)
      PROVE  LedgerMatchesVerdicts'
  <2>1. verdict[p] = "pending" /\ entries[p] = 0
    BY <1>2 DEF Apply, Fileable, Undecided, LedgerMatchesVerdicts
  <2>2. QED
    BY <1>2, <2>1 DEF Apply, RowTypes, BookTypes, LedgerMatchesVerdicts
<1>3. ASSUME NEW p \in Props, Reject(p)
      PROVE  LedgerMatchesVerdicts'
  BY <1>3 DEF Reject, Undecided, books, RowTypes, LedgerMatchesVerdicts
<1>4. QED
  BY <1>1, <1>2, <1>3 DEF GateMoves, GateRests

\* A decision and the message that shows it are written together, and no
\* other write makes a message look decided.
LEMMA StandingStep ==
  ASSUME RowTypes, StandingHasVerdict, GateMoves
  PROVE  StandingHasVerdict'
<1>1. CASE GateRests
  BY <1>1 DEF GateRests, StandingHasVerdict
<1>2. ASSUME NEW p \in Fresh, NEW m \in Msgs, of' = [of EXCEPT ![p] = m],
             UNCHANGED <<verdict, entries, msg>>
      PROVE  StandingHasVerdict'
  <2>1. p \in Props /\ of[p] = NoMsg
    BY DEF Fresh
  <2>2. \A q \in Props : of[q] \in Msgs => of'[q] = of[q]
    BY <1>2, <2>1, PipelineAssumption DEF RowTypes
  <2>3. QED
    BY <1>2, <2>2 DEF StandingHasVerdict
<1>3. ASSUME NEW p \in Props, NEW how \in {"approved", "auto_applied"}, Apply(p, how)
      PROVE  StandingHasVerdict'
  <2>1. verdict[p] = "pending" /\ of[p] \in Msgs
    BY <1>3 DEF Apply, Fileable, Undecided, RowTypes
  <2>2. /\ verdict' = [verdict EXCEPT ![p] = how] /\ of' = of
        /\ msg' = [msg EXCEPT ![of[p]] = "applied"]
    BY <1>3 DEF Apply, SetMessage
  <2>3. QED
    BY <2>1, <2>2 DEF RowTypes, StandingHasVerdict
<1>4. ASSUME NEW p \in Props, Reject(p)
      PROVE  StandingHasVerdict'
  <2>1. verdict[p] = "pending" /\ of[p] \in Msgs
    BY <1>4 DEF Reject, Undecided, RowTypes
  <2>2. /\ verdict' = [verdict EXCEPT ![p] = "rejected"] /\ of' = of
        /\ msg' = [msg EXCEPT ![of[p]] = "rejected"]
    BY <1>4 DEF Reject, SetMessage
  <2>3. QED
    BY <2>1, <2>2 DEF RowTypes, StandingHasVerdict
<1>5. QED
  BY <1>1, <1>2, <1>3, <1>4 DEF GateMoves

\* A step of the gate's columns is a step of the promised gate, or none.
LEMMA GateStep ==
  ASSUME RowTypes, RowCoherent, GateMoves
  PROVE  [Gate!Next]_(Gate!gateVars)
<1>1. CASE GateRests
  BY <1>1 DEF GateRests, Gate!gateVars, Standing
<1>2. ASSUME NEW p \in Fresh, NEW m \in Msgs, of' = [of EXCEPT ![p] = m],
             UNCHANGED <<verdict, entries, msg>>
      PROVE  Gate!PutUp(p) /\ p \in Props
  <2>1. p \in Props /\ of[p] = NoMsg /\ verdict[p] = "pending"
    BY DEF Fresh, RowCoherent
  <2>2. m # NoMsg /\ \A q \in Props : of'[q] = IF q = p THEN m ELSE of[q]
    BY <1>2, <2>1, PipelineAssumption DEF RowTypes
  <2>3. \A q \in Props : Standing(q)' = IF q = p THEN "open" ELSE Standing(q)
    BY <1>2, <2>1, <2>2 DEF Standing
  <2>4. Standing(p) = "none"
    BY <2>1 DEF Standing
  <2>5. QED
    BY <1>2, <2>1, <2>3, <2>4 DEF Gate!PutUp
<1>3. ASSUME NEW p \in Props, NEW how \in {"approved", "auto_applied"}, Apply(p, how)
      PROVE  Gate!File(p)
  BY <1>3 DEF Apply, Fileable, Undecided, RowTypes, Standing, Gate!File
<1>4. ASSUME NEW p \in Props, Reject(p)
      PROVE  Gate!Refuse(p)
  BY <1>4 DEF Reject, Undecided, books, RowTypes, Standing, Gate!Refuse
<1>5. QED
  BY <1>1, <1>2, <1>3, <1>4 DEF GateMoves, Gate!Next

\* What is filed existed.
LEMMA ApplyRow ==
  ASSUME RowTypes, RowCoherent, NEW p, NEW how, Apply(p, how)
  PROVE  RowCoherent'
<1>1. /\ verdict' = [verdict EXCEPT ![p] = how] /\ of[p] # NoMsg
      /\ msg' = [msg EXCEPT ![of[p]] = "applied"]
      /\ UNCHANGED <<of, payload>>
  BY DEF Apply, SetMessage, Fileable, Undecided
<1>2. \A q \in Props : of[q] = NoMsg => verdict'[q] = verdict[q]
  BY <1>1 DEF RowTypes
<1>3. \A m \in Msgs : msg'[m] = "needs_review" => msg[m] = "needs_review"
  BY <1>1 DEF RowTypes
<1>4. \A m \in Msgs : HasProposal(m)' = HasProposal(m)
  BY <1>1 DEF HasProposal
<1>5. QED
  BY <1>1, <1>2, <1>3, <1>4 DEF RowCoherent

\* A row not written yet stays undecided and unread, and a message waits for
\* review only over a proposal.
LEMMA RowStep ==
  ASSUME RowTypes, QueueTypes, PoolTypes, RowCoherent, WorkerCoherent, [Next]_vars
  PROVE  RowCoherent'
<1> USE PipelineAssumption
<1>1. ASSUME NEW m \in Msgs, Arrive(m)
      PROVE  RowCoherent'
  BY <1>1
     DEF Arrive, SetMessage, proposals, books, pool, past, RowTypes, RowCoherent,
         HasProposal, QueueTypes, WorkerCoherent, Coherent, Undecided
<1>2. ASSUME NEW m \in Msgs, SweepQueues(m)
      PROVE  RowCoherent'
  BY <1>2
     DEF SweepQueues, proposals, books, pool, past, RowTypes, RowCoherent,
         HasProposal, QueueTypes, WorkerCoherent, Coherent, Undecided
<1>3. ASSUME SweepLists
      PROVE  RowCoherent'
  BY <1>3
     DEF SweepLists, Awaiting, proposals, books, pool, past, RowTypes, RowCoherent,
         HasProposal, QueueTypes, WorkerCoherent, Coherent, Undecided
<1>4. ASSUME NEW w \in Workers, NEW m \in Msgs, ClassifyReads(w, m)
      PROVE  RowCoherent'
  BY <1>4
     DEF ClassifyReads, proposals, books, past, RowTypes, RowCoherent, HasProposal,
         QueueTypes, WorkerCoherent, Coherent, Undecided
<1>5. ASSUME NEW w \in Workers, ClassifyMarks(w)
      PROVE  RowCoherent'
  BY <1>5
     DEF ClassifyMarks, SetMessage, proposals, books, queue, past, RowTypes,
         RowCoherent, HasProposal, QueueTypes, WorkerCoherent, Coherent, Undecided
<1>6. ASSUME NEW w \in Workers, ClassifyFails(w)
      PROVE  RowCoherent'
  BY <1>6
     DEF ClassifyFails, SetMessage, JobFails, JobDone, Release, proposals, books,
         past, RowTypes, RowCoherent, HasProposal, QueueTypes, WorkerCoherent,
         Coherent, Undecided
<1>7. ASSUME NEW w \in Workers, ClassifyProposes(w)
      PROVE  RowCoherent'
  <2>1. PICK p \in Fresh : of' = [of EXCEPT ![p] = onMsg[w]]
    BY <1>7, ProposesRow
  <2>2. onMsg[w] \in Msgs /\ p \in Props /\ of[p] = NoMsg
    BY <1>7, ProposesRow DEF Fresh
  <2>3. UNCHANGED <<verdict, payload, msg>>
    BY <1>7 DEF ClassifyProposes
  <2>4. \A q \in Props : of[q] \in Msgs => of'[q] = of[q]
    BY <2>1, <2>2, PipelineAssumption DEF RowTypes
  <2>5. \A m \in Msgs : HasProposal(m) => HasProposal(m)'
    BY <2>4 DEF HasProposal
  <2>6. \A q \in Props : of'[q] = NoMsg => of[q] = NoMsg
    BY <2>1, <2>2 DEF RowTypes
  <2>7. QED
    BY <2>3, <2>5, <2>6 DEF RowCoherent
<1>8. ASSUME NEW w \in Workers, ClassifyQueues(w)
      PROVE  RowCoherent'
  BY <1>8
     DEF ClassifyQueues, JobDone, Release, proposals, books, past, RowTypes,
         RowCoherent, HasProposal, QueueTypes, WorkerCoherent, Coherent, Undecided
<1>9. ASSUME NEW w \in Workers, ClassifyCannotQueue(w)
      PROVE  RowCoherent'
  BY <1>9
     DEF ClassifyCannotQueue, JobFails, Release, proposals, books, past, RowTypes,
         RowCoherent, HasProposal, QueueTypes, WorkerCoherent, Coherent, Undecided
<1>10. ASSUME NEW w \in Workers, NEW p \in Props, ExtractReads(w, p)
      PROVE  RowCoherent'
  BY <1>10
     DEF ExtractReads, proposals, books, past, RowTypes, RowCoherent, HasProposal,
         QueueTypes, WorkerCoherent, Coherent, Undecided
<1>11. ASSUME NEW w \in Workers, ExtractFails(w)
      PROVE  RowCoherent'
  BY <1>11
     DEF ExtractFails, JobFails, JobDone, Release, proposals, books, past, RowTypes,
         RowCoherent, HasProposal, QueueTypes, WorkerCoherent, Coherent, Undecided
<1>12. ASSUME NEW w \in Workers, ExtractRecords(w)
      PROVE  RowCoherent'
  <2>1. onProp[w] \in Props /\ of[onProp[w]] \in Msgs
    BY <1>12 DEF ExtractRecords, WorkerCoherent, Coherent
  <2>2. /\ payload' = [payload EXCEPT ![onProp[w]] = "read"]
        /\ UNCHANGED <<of, verdict, msg>>
    BY <1>12, Zenon DEF ExtractRecords
  <2>3. \A q \in Props : of[q] = NoMsg => payload'[q] = payload[q]
    BY <2>1, <2>2, PipelineAssumption DEF RowTypes
  <2>4. \A m \in Msgs : HasProposal(m)' = HasProposal(m)
    BY <2>2 DEF HasProposal
  <2>5. QED
    BY <2>2, <2>3, <2>4 DEF RowCoherent
<1>13. ASSUME NEW w \in Workers, ExtractApplies(w)
      PROVE  RowCoherent'
  <2>1. Apply(onProp[w], "auto_applied")
    BY <1>13 DEF ExtractApplies
  <2>2. QED
    BY <2>1, ApplyRow
<1>14. ASSUME NEW w \in Workers, ExtractIsRefused(w)
      PROVE  RowCoherent'
  BY <1>14
     DEF ExtractIsRefused, proposals, books, queue, past, RowTypes, RowCoherent,
         HasProposal, QueueTypes, WorkerCoherent, Coherent, Undecided
<1>15. ASSUME NEW w \in Workers, RouteToReview(w)
      PROVE  RowCoherent'
  <2>1. onProp[w] \in Props /\ of[onProp[w]] = onMsg[w] /\ onMsg[w] \in Msgs
    BY <1>15 DEF RouteToReview, WorkerCoherent, Coherent
  <2>2. /\ msg' = [msg EXCEPT ![onMsg[w]] = "needs_review"]
        /\ UNCHANGED <<of, payload, verdict>>
    BY <1>15 DEF RouteToReview, SetMessage, proposals
  <2>3. QED
    BY <2>1, <2>2 DEF RowTypes, RowCoherent, HasProposal
<1>16. ASSUME NEW w \in Workers, LeaseEnds(w)
      PROVE  RowCoherent'
  BY <1>16
     DEF LeaseEnds, proposals, books, past, RowTypes, RowCoherent, HasProposal,
         QueueTypes, WorkerCoherent, Coherent, Undecided
<1>17. ASSUME NEW p \in Props, Correct(p)
      PROVE  RowCoherent'
  <2>1. PICK said : payload' = [payload EXCEPT ![p] = said]
    BY <1>17 DEF Correct
  <2>2. of[p] # NoMsg /\ UNCHANGED <<of, verdict, msg>>
    BY <1>17 DEF Correct, Undecided
  <2>3. QED
    BY <2>1, <2>2 DEF RowTypes, RowCoherent, HasProposal
<1>18. ASSUME NEW p \in Props, Approve(p)
      PROVE  RowCoherent'
  <2>1. Apply(p, "approved")
    BY <1>18 DEF Approve
  <2>2. QED
    BY <2>1, ApplyRow
<1>19. ASSUME NEW p \in Props, Reject(p)
      PROVE  RowCoherent'
  BY <1>19
     DEF Reject, SetMessage, books, queue, pool, past, RowTypes, RowCoherent,
         HasProposal, QueueTypes, WorkerCoherent, Coherent, Undecided
<1>20. ASSUME Crash
      PROVE  RowCoherent'
  BY <1>20
     DEF Crash, proposals, books, past, RowTypes, RowCoherent, HasProposal,
         QueueTypes, WorkerCoherent, Coherent, Undecided
<1>21. ASSUME BudgetTurns
      PROVE  RowCoherent'
  BY <1>21
     DEF BudgetTurns, proposals, books, queue, pool, past, RowTypes, RowCoherent,
         HasProposal, QueueTypes, WorkerCoherent, Coherent, Undecided
<1>22. CASE UNCHANGED vars
  BY <1>22
     DEF vars, proposals, books, queue, pool, past, RowTypes, RowCoherent,
         HasProposal, QueueTypes, WorkerCoherent, Coherent, Undecided
<1>23. QED
  BY <1>1, <1>2, <1>3, <1>4, <1>5, <1>6, <1>7, <1>8, <1>9, <1>10, <1>11, <1>12, <1>13, <1>14, <1>15, <1>16, <1>17, <1>18, <1>19, <1>20, <1>21, <1>22
     DEF Next, Work

-----------------------------------------------------------------------------
(* The invariant.                                                          *)

\* Every step keeps the inductive invariant.
LEMMA InvariantStep ==
  ASSUME IInv, [Next]_vars
  PROVE  IInv'
<1>1. RowTypes' /\ BookTypes' /\ QueueTypes' /\ PoolTypes' /\ PastTypes'
  BY RowTypeStep, BookTypeStep, QueueTypeStep, PoolTypeStep, PastTypeStep
     DEF IInv, TypeOK
<1>2. WorkerCoherent' /\ RowCoherent'
  BY WorkerStep, RowStep DEF IInv, TypeOK
<1>3. LedgerMatchesVerdicts' /\ StandingHasVerdict'
  BY GateCases, LedgerStep, StandingStep DEF IInv, TypeOK
<1>4. QED
  BY <1>1, <1>2, <1>3 DEF IInv, TypeOK

\* It holds of an empty database with idle workers.
LEMMA InvariantInit == Init => IInv
<1> SUFFICES ASSUME Init
             PROVE  IInv
  OBVIOUS
<1>1. RowTypes /\ BookTypes
  BY DEF Init, RowTypes, BookTypes, MsgStates, Payloads, Verdicts
<1>2. QueueTypes /\ PoolTypes
  BY DEF Init, QueueTypes, PoolTypes, Stages
<1>2a. PastTypes
  <2>1. 0 \in 0 .. MaxCrashes
    BY PipelineAssumption
  <2>2. QED
    BY <2>1, Zenon DEF Init, PastTypes
<1>3. WorkerCoherent
  BY DEF Init, WorkerCoherent, Coherent
<1>4. RowCoherent /\ LedgerMatchesVerdicts /\ StandingHasVerdict
  BY DEF Init, RowCoherent, LedgerMatchesVerdicts, StandingHasVerdict
<1>5. QED
  BY <1>1, <1>2, <1>2a, <1>3, <1>4 DEF IInv, TypeOK

\* The invariant holds throughout.
THEOREM InductiveInvariant == Spec => []IInv
<1>1. IInv /\ [Next]_vars => IInv'
  BY InvariantStep
<1>2. QED
  BY <1>1, InvariantInit, PTL DEF Spec

\* Every variable keeps its type; in particular nothing is ever filed against
\* no property or as a kind that has no record.
THEOREM TypeCorrect == Spec => []TypeOK
<1>1. IInv => TypeOK
  BY DEF IInv
<1>2. QED
  BY <1>1, InductiveInvariant, PTL

\* A proposal has exactly one record if it was approved or auto-applied, and
\* none otherwise, however many approvals race for it.
THEOREM OneRecordPerApproval == Spec => []LedgerMatchesVerdicts
<1>1. IInv => LedgerMatchesVerdicts
  BY DEF IInv
<1>2. QED
  BY <1>1, InductiveInvariant, PTL

\* A message is shown as applied or rejected only if a proposal of it was.
THEOREM NoMadeUpDecision == Spec => []StandingHasVerdict
<1>1. IInv => StandingHasVerdict
  BY DEF IInv
<1>2. QED
  BY <1>1, InductiveInvariant, PTL

\* The pipeline implements the review gate: one decision per proposal, and a
\* record only in the step that decides for it.
THEOREM ImplementsGate == Spec => KeepsGate
<1>1. ASSUME Init
      PROVE  Gate!Init
  <2>1. \A p \in Props : Standing(p) = "none"
    BY <1>1 DEF Init, Standing
  <2>2. QED
    BY <1>1, <2>1 DEF Init, Gate!Init
<1>2. IInv /\ [Next]_vars => [Gate!Next]_(Gate!gateVars)
  BY GateCases, GateStep DEF IInv, TypeOK
<1>3. QED
  BY <1>1, <1>2, InductiveInvariant, PTL DEF Spec, KeepsGate, Gate!Spec

-----------------------------------------------------------------------------
(* One proposal per reading.                                               *)

\* A run that has passed the check is on a message it read as unread.
LEMMA OverlapStep ==
  ASSUME IInv, OverlapSeen, DoubledOnlyByOverlap, [Next]_vars
  PROVE  OverlapSeen' /\ DoubledOnlyByOverlap'
<1> USE DEF IInv, TypeOK
<1>1. CASE UNCHANGED <<of, overlapped>> /\ \A w \in Workers, m \in Msgs : PastCheck(w, m)' => PastCheck(w, m)
  BY <1>1 DEF OverlapSeen, DoubledOnlyByOverlap, HasProposal
<1>2. ASSUME NEW w \in Workers, NEW m \in Msgs, ClassifyReads(w, m), Unread(m)
      PROVE  OverlapSeen' /\ DoubledOnlyByOverlap'
  <2>1. /\ ~HasProposal(m)
        /\ of' = of
        /\ overlapped \subseteq overlapped'
        /\ (\E v \in Workers : PastCheck(v, m)) => m \in overlapped'
    BY <1>2 DEF Unread, ClassifyReads, proposals
  <2>2. \A v \in Workers, n \in Msgs : PastCheck(v, n)' => (v = w /\ n = m) \/ PastCheck(v, n)
    BY <1>2 DEF ClassifyReads, PastCheck, PoolTypes
  <2>3. \A n \in Msgs : HasProposal(n)' = HasProposal(n)
    BY <2>1 DEF HasProposal
  <2>4. PastCheck(w, m)' /\ \A n \in Msgs : PastCheck(w, n)' => n = m
    BY <1>2 DEF ClassifyReads, PastCheck, PoolTypes
  <2>5. OverlapSeen'
    BY <2>1, <2>2, <2>3, <2>4 DEF OverlapSeen
  <2>6. QED
    BY <2>1, <2>5 DEF DoubledOnlyByOverlap
<1>3. ASSUME NEW w \in Workers, ClassifyProposes(w)
      PROVE  OverlapSeen' /\ DoubledOnlyByOverlap'
  <2> DEFINE m == onMsg[w]
  <2>1. PICK p \in Fresh : /\ of' = [of EXCEPT ![p] = m]
                           /\ at' \in {[at EXCEPT ![w] = "queueing"],
                                       [at EXCEPT ![w] = "routing"]}
    BY <1>3, ProposesRow
  <2>2. /\ m \in Msgs /\ p \in Props /\ of[p] = NoMsg
        /\ PastCheck(w, m)
        /\ UNCHANGED <<onMsg, overlapped>>
    BY <1>3, ProposesRow DEF Fresh, ClassifyProposes, PastCheck, past
  <2>3. \A q \in Props : of'[q] = IF q = p THEN m ELSE of[q]
    BY <2>1, <2>2 DEF RowTypes
  <2>4. \A v \in Workers, n \in Msgs : PastCheck(v, n)' => v # w /\ PastCheck(v, n)
    BY <2>1, <2>2 DEF PastCheck, PoolTypes
  <2>5. \A n \in Msgs : HasProposal(n)' => HasProposal(n) \/ n = m
    BY <2>3 DEF HasProposal
  <2>6. OverlapSeen'
    BY <2>2, <2>4, <2>5 DEF OverlapSeen
  <2>7. HasProposal(m) => m \in overlapped
    BY <2>2 DEF OverlapSeen
  <2>8. \A q \in Props : q # p /\ of[q] = m => m \in overlapped
    BY <2>7 DEF HasProposal
  <2>9. DoubledOnlyByOverlap'
    BY <2>2, <2>3, <2>8 DEF DoubledOnlyByOverlap
  <2>10. QED
    BY <2>6, <2>9
<1>4. ASSUME NEW m \in Msgs, Arrive(m)
      PROVE  OverlapSeen' /\ DoubledOnlyByOverlap'
  BY <1>4, <1>1
     DEF Arrive, SetMessage, PastCheck, proposals, books, pool, past, PoolTypes
<1>5. ASSUME NEW m \in Msgs, SweepQueues(m)
      PROVE  OverlapSeen' /\ DoubledOnlyByOverlap'
  BY <1>5, <1>1 DEF SweepQueues, PastCheck, proposals, books, pool, past, PoolTypes
<1>6. ASSUME SweepLists
      PROVE  OverlapSeen' /\ DoubledOnlyByOverlap'
  BY <1>6, <1>1
     DEF SweepLists, Awaiting, PastCheck, proposals, books, pool, past, PoolTypes
<1>7. ASSUME NEW w \in Workers, NEW m \in Msgs, ClassifyReads(w, m)
      PROVE  OverlapSeen' /\ DoubledOnlyByOverlap'
  <2>1. CASE ~Unread(m)
    BY <1>7, <1>1, <2>1 DEF ClassifyReads, proposals, PastCheck
  <2>2. QED
    BY <1>7, <1>2, <2>1
<1>8. ASSUME NEW w \in Workers, ClassifyMarks(w)
      PROVE  OverlapSeen' /\ DoubledOnlyByOverlap'
  BY <1>8, <1>1
     DEF ClassifyMarks, SetMessage, PastCheck, proposals, books, queue, past,
         PoolTypes
<1>9. ASSUME NEW w \in Workers, ClassifyFails(w)
      PROVE  OverlapSeen' /\ DoubledOnlyByOverlap'
  BY <1>9, <1>1
     DEF ClassifyFails, SetMessage, JobFails, JobDone, Release, PastCheck, proposals,
         books, past, PoolTypes
<1>10. ASSUME NEW w \in Workers, ClassifyQueues(w)
      PROVE  OverlapSeen' /\ DoubledOnlyByOverlap'
  BY <1>10, <1>1
     DEF ClassifyQueues, JobDone, Release, PastCheck, proposals, books, past,
         PoolTypes
<1>11. ASSUME NEW w \in Workers, ClassifyCannotQueue(w)
      PROVE  OverlapSeen' /\ DoubledOnlyByOverlap'
  BY <1>11, <1>1
     DEF ClassifyCannotQueue, JobFails, Release, PastCheck, proposals, books, past,
         PoolTypes
<1>12. ASSUME NEW w \in Workers, NEW p \in Props, ExtractReads(w, p)
      PROVE  OverlapSeen' /\ DoubledOnlyByOverlap'
  BY <1>12, <1>1 DEF ExtractReads, PastCheck, proposals, books, past, PoolTypes
<1>13. ASSUME NEW w \in Workers, ExtractFails(w)
      PROVE  OverlapSeen' /\ DoubledOnlyByOverlap'
  BY <1>13, <1>1
     DEF ExtractFails, JobFails, JobDone, Release, PastCheck, proposals, books, past,
         PoolTypes
<1>14. ASSUME NEW w \in Workers, ExtractRecords(w)
      PROVE  OverlapSeen' /\ DoubledOnlyByOverlap'
  BY <1>14, <1>1 DEF ExtractRecords, PastCheck, books, queue, past, PoolTypes
<1>15. ASSUME NEW w \in Workers, ExtractApplies(w)
      PROVE  OverlapSeen' /\ DoubledOnlyByOverlap'
  BY <1>15, <1>1
     DEF ExtractApplies, Apply, Fileable, SetMessage, JobDone, Release, PastCheck,
         past, PoolTypes
<1>16. ASSUME NEW w \in Workers, ExtractIsRefused(w)
      PROVE  OverlapSeen' /\ DoubledOnlyByOverlap'
  BY <1>16, <1>1
     DEF ExtractIsRefused, PastCheck, proposals, books, queue, past, PoolTypes
<1>17. ASSUME NEW w \in Workers, RouteToReview(w)
      PROVE  OverlapSeen' /\ DoubledOnlyByOverlap'
  BY <1>17, <1>1
     DEF RouteToReview, SetMessage, JobDone, Release, PastCheck, proposals, books,
         past, PoolTypes
<1>18. ASSUME NEW w \in Workers, LeaseEnds(w)
      PROVE  OverlapSeen' /\ DoubledOnlyByOverlap'
  BY <1>18, <1>1 DEF LeaseEnds, PastCheck, proposals, books, PoolTypes
<1>19. ASSUME NEW p \in Props, Correct(p)
      PROVE  OverlapSeen' /\ DoubledOnlyByOverlap'
  BY <1>19, <1>1 DEF Correct, PastCheck, books, queue, pool, past, PoolTypes
<1>20. ASSUME NEW p \in Props, Approve(p)
      PROVE  OverlapSeen' /\ DoubledOnlyByOverlap'
  BY <1>20, <1>1
     DEF Approve, Apply, Fileable, SetMessage, PastCheck, queue, pool, past,
         PoolTypes
<1>21. ASSUME NEW p \in Props, Reject(p)
      PROVE  OverlapSeen' /\ DoubledOnlyByOverlap'
  BY <1>21, <1>1 DEF Reject, SetMessage, PastCheck, books, queue, pool, past, PoolTypes
<1>22. ASSUME Crash
      PROVE  OverlapSeen' /\ DoubledOnlyByOverlap'
  BY <1>22, <1>1 DEF Crash, PastCheck, proposals, books, PoolTypes
<1>23. ASSUME BudgetTurns
      PROVE  OverlapSeen' /\ DoubledOnlyByOverlap'
  BY <1>23, <1>1
     DEF BudgetTurns, PastCheck, proposals, books, queue, pool, past, PoolTypes
<1>24. CASE UNCHANGED vars
  BY <1>24, <1>1 DEF vars, PastCheck, proposals, books, queue, pool, past
<1>25. QED
  BY <1>1, <1>2, <1>3, <1>4, <1>5, <1>6, <1>7, <1>8, <1>9, <1>10, <1>11, <1>12, <1>13, <1>14, <1>15, <1>16, <1>17, <1>18, <1>19, <1>20, <1>21, <1>22, <1>23, <1>24
     DEF Next, Work

\* Only two Classify runs that overlap make two proposals of one message.
THEOREM OneProposalPerReading == Spec => []DoubledOnlyByOverlap
<1>1. ASSUME Init
      PROVE  OverlapSeen /\ DoubledOnlyByOverlap
  <2>1. OverlapSeen
    BY <1>1 DEF Init, OverlapSeen, PastCheck
  <2>2. \A p \in Props : of[p] = NoMsg
    BY <1>1 DEF Init
  <2>3. QED
    BY <2>1, <2>2 DEF DoubledOnlyByOverlap
<1>2. IInv /\ OverlapSeen /\ DoubledOnlyByOverlap /\ [Next]_vars
        => OverlapSeen' /\ DoubledOnlyByOverlap'
  BY OverlapStep
<1>3. QED
  BY <1>1, <1>2, InductiveInvariant, PTL DEF Spec

-----------------------------------------------------------------------------
(* No message out of reach.                                                *)

\* Someone or something still holds on to a message: the sweep, a job, or a
\* worker about to read it.
Held(m) ==
  \/ msg[m] = "received"
  \/ m \in toClassify
  \/ \E w \in Workers : PastCheck(w, m)

\* A message that is there, has no proposal and was not overrun.
Loose(m) == msg[m] # "absent" /\ ~HasProposal(m) /\ m \notin overran

\* The end of one job takes nothing from another message.
LEMMA EndKeepsOthers ==
  ASSUME PoolTypes, NEW w \in Workers, NEW X, JobDone(w, X) \/ JobFails(w),
         NEW n \in Msgs, n # onMsg[w]
  PROVE  /\ n \in toClassify => n \in toClassify'
         /\ \A v \in Workers : PastCheck(v, n) => PastCheck(v, n)'
<1>1. n \in toClassify => n \in toClassify'
  BY DEF JobDone, JobFails
<1>2. Release(w)
  BY DEF JobDone, JobFails
<1>3. QED
  BY <1>1, <1>2 DEF Release, PastCheck, PoolTypes

\* Every step leaves every loose message held.
LEMMA ReachStep ==
  ASSUME IInv, \A m \in Msgs : Loose(m) => Held(m), [Next]_vars
  PROVE  \A m \in Msgs : Loose(m)' => Held(m)'
<1> USE DEF IInv, TypeOK
<1> SUFFICES ASSUME NEW n \in Msgs, Loose(n)'
             PROVE  Held(n)'
  OBVIOUS
<1>1. CASE /\ UNCHANGED <<of, overran>> /\ msg'[n] = msg[n] /\ (n \in toClassify => n \in toClassify')
           /\ \A w \in Workers : PastCheck(w, n) => PastCheck(w, n)'
  <2>1. Loose(n)
    BY <1>1 DEF Loose, HasProposal
  <2>2. QED
    BY <1>1, <2>1 DEF Held
<1>2. ASSUME NEW w \in Workers, onMsg[w] \in Msgs, HasProposal(onMsg[w]), of' = of
      PROVE  n # onMsg[w]
  BY <1>2 DEF Loose, HasProposal
<1>3. ASSUME NEW m \in Msgs, Arrive(m)
      PROVE  Held(n)'
  <2>1. msg' = [msg EXCEPT ![m] = "received"] /\ toClassify \subseteq toClassify'
        /\ UNCHANGED <<of, overran, at, onMsg>>
    BY <1>3 DEF Arrive, SetMessage, proposals, pool, past
  <2>2. CASE n = m
    BY <2>1, <2>2 DEF Held, RowTypes
  <2>3. CASE n # m
    BY <1>1, <2>1, <2>3 DEF PastCheck, RowTypes
  <2>4. QED
    BY <2>2, <2>3
<1>4. ASSUME NEW m \in Msgs, SweepQueues(m)
      PROVE  Held(n)'
  BY <1>4, <1>1 DEF SweepQueues, PastCheck, proposals, books, pool, past, PoolTypes
<1>5. ASSUME SweepLists
      PROVE  Held(n)'
  BY <1>5, <1>1
     DEF SweepLists, Awaiting, PastCheck, proposals, books, pool, past, PoolTypes
<1>6. ASSUME NEW w \in Workers, NEW m \in Msgs, ClassifyReads(w, m)
      PROVE  Held(n)'
  <2>1. /\ UNCHANGED <<msg, of, overran>>
        /\ toClassify' = toClassify \ {m}
    BY <1>6 DEF ClassifyReads, proposals
  <2>2. Loose(n)
    BY <2>1 DEF Loose, HasProposal
  <2>3. msg[n] \in {"received", "parsing"}
    <3>1. msg[n] \notin {"needs_review", "applied", "rejected"}
      BY <2>2 DEF Loose, RowCoherent, StandingHasVerdict, HasProposal
    <3>2. QED
      BY <2>2, <3>1 DEF Loose, RowTypes, MsgStates
  <2>4. CASE n = m
    <3>1. Unread(n)
      BY <2>2, <2>3 DEF Unread, Loose
    <3>2. PastCheck(w, n)'
      BY <1>6, <2>4, <3>1 DEF ClassifyReads, PastCheck, PoolTypes
    <3>3. QED
      BY <3>2 DEF Held
  <2>5. CASE n # m
    <3>1. at[w] = "idle" /\ \A v \in Workers : v # w => at'[v] = at[v] /\ onMsg'[v] = onMsg[v]
      BY <1>6 DEF ClassifyReads, PoolTypes
    <3>2. \A v \in Workers : PastCheck(v, n) => PastCheck(v, n)'
      BY <3>1 DEF PastCheck
    <3>3. QED
      BY <1>1, <2>1, <2>5, <3>2
  <2>6. QED
    BY <2>4, <2>5
<1>7. ASSUME NEW w \in Workers, ClassifyMarks(w)
      PROVE  Held(n)'
  <2>1. onMsg[w] \in Msgs /\ msg' = [msg EXCEPT ![onMsg[w]] = "parsing"]
    BY <1>7 DEF ClassifyMarks, SetMessage, WorkerCoherent, Coherent
  <2>2. \A v \in Workers : PastCheck(v, n) => PastCheck(v, n)'
    BY <1>7 DEF ClassifyMarks, PastCheck, PoolTypes
  <2>3. CASE n = onMsg[w]
    <3>1. PastCheck(w, n)'
      BY <1>7, <2>3 DEF ClassifyMarks, PastCheck, PoolTypes
    <3>2. QED
      BY <3>1 DEF Held
  <2>4. CASE n # onMsg[w]
    BY <1>7, <1>1, <2>1, <2>2, <2>4 DEF ClassifyMarks, proposals, past, queue, RowTypes
  <2>5. QED
    BY <2>3, <2>4
<1>8. ASSUME NEW w \in Workers, ClassifyFails(w)
      PROVE  Held(n)'
  <2>1. onMsg[w] \in Msgs /\ msg' = [msg EXCEPT ![onMsg[w]] = "received"]
    BY <1>8 DEF ClassifyFails, SetMessage, WorkerCoherent, Coherent
  <2>2. CASE n = onMsg[w]
    BY <2>1, <2>2 DEF Held, RowTypes
  <2>3. CASE n # onMsg[w]
    <3>1. UNCHANGED <<of, overran>> /\ msg'[n] = msg[n]
      BY <1>8, <2>1, <2>3 DEF ClassifyFails, proposals, past, RowTypes
    <3>2. QED
      BY <1>8, <1>1, <2>3, <3>1, EndKeepsOthers DEF ClassifyFails
  <2>4. QED
    BY <2>2, <2>3
<1>9. ASSUME NEW w \in Workers, ClassifyProposes(w)
      PROVE  Held(n)'
  <2>1. PICK p \in Fresh : /\ of' = [of EXCEPT ![p] = onMsg[w]]
                           /\ at' \in {[at EXCEPT ![w] = "queueing"],
                                       [at EXCEPT ![w] = "routing"]}
    BY <1>9, ProposesRow
  <2>2. p \in Props /\ of[p] = NoMsg /\ UNCHANGED <<msg, toClassify, onMsg, overran>>
    BY <1>9 DEF Fresh, ClassifyProposes, queue, past
  <2>3. of'[p] = onMsg[w] /\ \A q \in Props : q # p => of'[q] = of[q]
    BY <2>1, <2>2 DEF RowTypes
  <2>4. n # onMsg[w] /\ ~HasProposal(n)
    BY <2>2, <2>3, PipelineAssumption DEF Loose, HasProposal
  <2>5. Loose(n)
    BY <2>2, <2>4 DEF Loose
  <2>6. \A v \in Workers : PastCheck(v, n) => PastCheck(v, n)'
    BY <2>1, <2>2, <2>4 DEF PastCheck, PoolTypes
  <2>7. QED
    BY <2>2, <2>5, <2>6 DEF Held
<1>10. ASSUME NEW w \in Workers, ClassifyQueues(w)
      PROVE  Held(n)'
  <2>1. onMsg[w] \in Msgs /\ HasProposal(onMsg[w])
    BY <1>10 DEF ClassifyQueues, WorkerCoherent, Coherent, HasProposal
  <2>2. UNCHANGED <<of, overran>> /\ (msg'[n] = msg[n] \/ n = onMsg[w])
    BY <1>10, <2>1 DEF ClassifyQueues, proposals, past, RowTypes
  <2>3. n # onMsg[w]
    BY <1>2, <2>1, <2>2
  <2>4. QED
    BY <1>10, <1>1, <2>2, <2>3, EndKeepsOthers DEF ClassifyQueues
<1>11. ASSUME NEW w \in Workers, ClassifyCannotQueue(w)
      PROVE  Held(n)'
  <2>1. onMsg[w] \in Msgs /\ HasProposal(onMsg[w])
    BY <1>11 DEF ClassifyCannotQueue, WorkerCoherent, Coherent, HasProposal
  <2>2. UNCHANGED <<of, overran>> /\ (msg'[n] = msg[n] \/ n = onMsg[w])
    BY <1>11, <2>1 DEF ClassifyCannotQueue, proposals, past, RowTypes
  <2>3. n # onMsg[w]
    BY <1>2, <2>1, <2>2
  <2>4. QED
    BY <1>11, <1>1, <2>2, <2>3, EndKeepsOthers DEF ClassifyCannotQueue
<1>12. ASSUME NEW w \in Workers, NEW p \in Props, ExtractReads(w, p)
      PROVE  Held(n)'
  BY <1>12, <1>1 DEF ExtractReads, PastCheck, proposals, books, past, PoolTypes
<1>13. ASSUME NEW w \in Workers, ExtractFails(w)
      PROVE  Held(n)'
  <2>1. onMsg[w] \in Msgs /\ HasProposal(onMsg[w])
    BY <1>13 DEF ExtractFails, WorkerCoherent, Coherent, HasProposal
  <2>2. UNCHANGED <<of, overran>> /\ (msg'[n] = msg[n] \/ n = onMsg[w])
    BY <1>13, <2>1 DEF ExtractFails, proposals, past, RowTypes
  <2>3. n # onMsg[w]
    BY <1>2, <2>1, <2>2
  <2>4. QED
    BY <1>13, <1>1, <2>2, <2>3, EndKeepsOthers DEF ExtractFails
<1>14. ASSUME NEW w \in Workers, ExtractRecords(w)
      PROVE  Held(n)'
  BY <1>14, <1>1 DEF ExtractRecords, PastCheck, books, queue, past, PoolTypes
<1>15. ASSUME NEW w \in Workers, ExtractApplies(w)
      PROVE  Held(n)'
  <2>1. onMsg[w] \in Msgs /\ HasProposal(onMsg[w]) /\ of[onProp[w]] = onMsg[w]
    BY <1>15 DEF ExtractApplies, WorkerCoherent, Coherent, HasProposal
  <2>2. UNCHANGED <<of, overran>> /\ (msg'[n] = msg[n] \/ n = onMsg[w])
    BY <1>15, <2>1 DEF ExtractApplies, Apply, SetMessage, past, RowTypes
  <2>3. n # onMsg[w]
    BY <1>2, <2>1, <2>2
  <2>4. QED
    BY <1>15, <1>1, <2>2, <2>3, EndKeepsOthers DEF ExtractApplies
<1>16. ASSUME NEW w \in Workers, ExtractIsRefused(w)
      PROVE  Held(n)'
  BY <1>16, <1>1
     DEF ExtractIsRefused, PastCheck, proposals, books, queue, past, PoolTypes
<1>17. ASSUME NEW w \in Workers, RouteToReview(w)
      PROVE  Held(n)'
  <2>1. onMsg[w] \in Msgs /\ HasProposal(onMsg[w])
    BY <1>17 DEF RouteToReview, WorkerCoherent, Coherent, HasProposal
  <2>2. UNCHANGED <<of, overran>> /\ (msg'[n] = msg[n] \/ n = onMsg[w])
    BY <1>17, <2>1 DEF RouteToReview, proposals, past, SetMessage, RowTypes
  <2>3. n # onMsg[w]
    BY <1>2, <2>1, <2>2
  <2>4. QED
    BY <1>17, <1>1, <2>2, <2>3, EndKeepsOthers DEF RouteToReview
<1>18. ASSUME NEW w \in Workers, LeaseEnds(w)
      PROVE  Held(n)'
  <2>1. /\ UNCHANGED <<msg, of, at, onMsg>>
        /\ overran \subseteq overran'
        /\ toClassify \subseteq toClassify'
    BY <1>18 DEF LeaseEnds, proposals
  <2>2. Loose(n)
    BY <2>1 DEF Loose, HasProposal
  <2>3. QED
    BY <2>1, <2>2 DEF Held, PastCheck
<1>19. ASSUME NEW p \in Props, Correct(p)
      PROVE  Held(n)'
  BY <1>19, <1>1 DEF Correct, PastCheck, books, queue, pool, past, PoolTypes
<1>20. ASSUME NEW p \in Props, Approve(p)
      PROVE  Held(n)'
  <2>1. of[p] \in Msgs /\ HasProposal(of[p]) /\ UNCHANGED <<of, toClassify, at, onMsg, overran>>
    BY <1>20
       DEF Approve, Apply, Fileable, Undecided, HasProposal, RowTypes, queue, pool,
           past
  <2>2. n # of[p]
    BY <2>1 DEF Loose, HasProposal
  <2>3. msg'[n] = msg[n]
    BY <1>20, <2>1, <2>2 DEF Approve, Apply, SetMessage, RowTypes
  <2>4. QED
    BY <1>1, <2>1, <2>3 DEF PastCheck
<1>21. ASSUME NEW p \in Props, Reject(p)
      PROVE  Held(n)'
  <2>1. of[p] \in Msgs /\ HasProposal(of[p]) /\ UNCHANGED <<of, toClassify, at, onMsg, overran>>
    BY <1>21
       DEF Reject, Apply, Fileable, Undecided, HasProposal, RowTypes, queue, pool,
           past
  <2>2. n # of[p]
    BY <2>1 DEF Loose, HasProposal
  <2>3. msg'[n] = msg[n]
    BY <1>21, <2>1, <2>2 DEF Reject, Apply, SetMessage, RowTypes
  <2>4. QED
    BY <1>1, <2>1, <2>3 DEF PastCheck
<1>22. ASSUME Crash
      PROVE  Held(n)'
  <2>1. UNCHANGED <<msg, of, overran>>
    BY <1>22 DEF Crash, proposals
  <2>2. Loose(n)
    BY <2>1 DEF Loose, HasProposal
  <2>3. ASSUME NEW w \in Workers, PastCheck(w, n)
        PROVE  n \in toClassify'
    <3>1. does[w] = "classify" /\ ~late[w] /\ onMsg[w] = n
      BY <2>2, <2>3 DEF PastCheck, Loose, WorkerCoherent, Coherent
    <3>2. QED
      BY <1>22, <3>1 DEF Crash
  <2>4. toClassify \subseteq toClassify'
    BY <1>22 DEF Crash
  <2>5. QED
    BY <2>1, <2>2, <2>3, <2>4 DEF Held
<1>23. ASSUME BudgetTurns
      PROVE  Held(n)'
  BY <1>23, <1>1
     DEF BudgetTurns, PastCheck, proposals, books, queue, pool, past, PoolTypes
<1>24. CASE UNCHANGED vars
  BY <1>24, <1>1 DEF vars, PastCheck, proposals, books, queue, pool, past
<1>25. QED
  BY <1>3, <1>4, <1>5, <1>6, <1>7, <1>8, <1>9, <1>10, <1>11, <1>12, <1>13, <1>14, <1>15, <1>16, <1>17, <1>18, <1>19, <1>20, <1>21, <1>22, <1>23, <1>24
     DEF Next, Work

\* No message that arrived falls out of reach before it has a proposal, unless
\* a worker outlived its lease on it.
THEOREM NoMessageIsLost == Spec => []UnreadIsWithinReach
<1> DEFINE Reach == \A m \in Msgs : Loose(m) => Held(m)
<1>1. ASSUME Init
      PROVE  Reach
  <2>1. \A m \in Msgs : msg[m] = "absent"
    BY <1>1 DEF Init
  <2>2. QED
    BY <2>1 DEF Loose
<1>2. IInv /\ Reach /\ [Next]_vars => Reach'
  BY ReachStep
<1>3. Reach => UnreadIsWithinReach
  BY DEF Loose, Held, UnreadIsWithinReach
<1> HIDE DEF Reach
<1>4. QED
  BY <1>1, <1>2, <1>3, InductiveInvariant, PTL DEF Spec

-----------------------------------------------------------------------------
(* What a person corrects and what an extraction reads.                    *)

\* The end of a job leaves its proposal to at most a job of its own.
LEMMA EndKeepsSole ==
  ASSUME PoolTypes, QueueTypes, WorkerCoherent, SoleReader, NEW w \in Workers, at[w] # "idle",
         NEW X, X = {} \/ (X = {onProp[w]} /\ at[w] = "queueing"),
         JobDone(w, X) \/ JobFails(w), UNCHANGED <<of, overran>>
  PROVE  SoleReader'
<1>1. Release(w)
  BY DEF JobDone, JobFails
<1>2. /\ at'[w] = "idle" /\ onProp'[w] = NoProp
      /\ \A v \in Workers : v # w => /\ at'[v] = at[v] /\ onProp'[v] = onProp[v]
                                     /\ onMsg'[v] = onMsg[v]
  BY <1>1 DEF Release, PoolTypes
<1>3. \A v \in Workers : onProp[v] # NoProp =>
        onProp[v] \in Props /\ of[onProp[v]] = onMsg[v] /\ onMsg[v] \in Msgs
  BY DEF SoleReader, WorkerCoherent, Coherent, PoolTypes, Stages
<1>4. toExtract' \subseteq toExtract \cup {onProp[w]}
      /\ (onProp[w] \in toExtract' => onProp[w] \in toExtract \/ onProp[w] # NoProp)
  <2>1. does[w] = "extract" => onProp[w] # NoProp
    BY PipelineAssumption DEF WorkerCoherent, Coherent, PoolTypes, Stages
  <2>2. at[w] = "queueing" => onProp[w] # NoProp
    BY PipelineAssumption DEF WorkerCoherent, Coherent
  <2>3. CASE JobDone(w, X)
    BY <2>2, <2>3 DEF JobDone
  <2>4. CASE JobFails(w)
    BY <2>1, <2>4 DEF JobFails
  <2>5. QED
    BY <2>3, <2>4
<1>5. \A p \in toExtract' : of[p] # NoMsg
  BY <1>3, <1>4, PipelineAssumption DEF SoleReader
<1>6. ASSUME NEW v \in Workers, onProp'[v] # NoProp, onMsg'[v] \notin overran'
      PROVE  /\ onProp'[v] \notin toExtract'
             /\ \A u \in Workers : u # v => onProp'[u] # onProp'[v]
  <2>1. v # w /\ onProp'[v] = onProp[v] /\ onProp[v] # NoProp /\ onMsg[v] \notin overran
    BY <1>2, <1>6
  <2>2. onProp[v] \notin toExtract /\ \A u \in Workers : u # v => onProp[u] # onProp[v]
    BY <2>1 DEF SoleReader
  <2>3. QED
    BY <1>2, <1>4, <2>1, <2>2
<1>7. \A v \in Workers : at'[v] \in {"idle", "checked", "asking"} => onProp'[v] = NoProp
  BY <1>2 DEF SoleReader
<1>8. QED
  BY <1>5, <1>6, <1>7 DEF SoleReader

\* Every step leaves an extraction alone with its proposal.
LEMMA SoleReaderStep ==
  ASSUME IInv, SoleReader, [Next]_vars
  PROVE  SoleReader'
<1> USE DEF IInv, TypeOK
<1>1. \A v \in Workers : onProp[v] # NoProp =>
        onProp[v] \in Props /\ of[onProp[v]] = onMsg[v] /\ onMsg[v] \in Msgs
  BY DEF SoleReader, WorkerCoherent, Coherent, PoolTypes, Stages
<1>2. CASE /\ UNCHANGED <<toExtract, of, onProp, onMsg, overran>>
           /\ \A v \in Workers : at'[v] \in {"idle", "checked", "asking"} =>
                                   at[v] \in {"idle", "checked", "asking"}
  BY <1>2 DEF SoleReader
<1>3. ASSUME NEW m \in Msgs, Arrive(m)
      PROVE  SoleReader'
  BY <1>3, <1>2 DEF Arrive, proposals, pool, past
<1>4. ASSUME NEW m \in Msgs, SweepQueues(m)
      PROVE  SoleReader'
  BY <1>4, <1>2 DEF SweepQueues, proposals, pool, past
<1>5. ASSUME SweepLists
      PROVE  SoleReader'
  BY <1>5, <1>2 DEF SweepLists, proposals, pool, past
<1>6. ASSUME NEW w \in Workers, NEW m \in Msgs, ClassifyReads(w, m)
      PROVE  SoleReader'
  <2>1. /\ UNCHANGED <<toExtract, of, onProp, overran>>
        /\ at[w] = "idle"
        /\ \A v \in Workers : v # w => at'[v] = at[v] /\ onMsg'[v] = onMsg[v]
    BY <1>6 DEF ClassifyReads, proposals, PoolTypes
  <2>2. onProp[w] = NoProp
    BY <2>1 DEF SoleReader
  <2>3. QED
    BY <2>1, <2>2 DEF SoleReader
<1>7. ASSUME NEW w \in Workers, ClassifyMarks(w)
      PROVE  SoleReader'
  BY <1>7, <1>2 DEF ClassifyMarks, proposals, queue, past, PoolTypes
<1>8. ASSUME NEW w \in Workers, ClassifyFails(w)
      PROVE  SoleReader'
  <2>1. at[w] # "idle" /\ UNCHANGED <<of, overran>>
    BY <1>8 DEF ClassifyFails, proposals, past
  <2>2. QED
    BY <1>8, <2>1, EndKeepsSole DEF ClassifyFails
<1>9. ASSUME NEW w \in Workers, ClassifyProposes(w)
      PROVE  SoleReader'
  <2>1. PICK p \in Fresh : /\ of' = [of EXCEPT ![p] = onMsg[w]]
                           /\ onProp' = [onProp EXCEPT ![w] = p]
                           /\ at' \in {[at EXCEPT ![w] = "queueing"],
                                       [at EXCEPT ![w] = "routing"]}
    BY <1>9, ProposesRow
  <2>2. p \in Props /\ of[p] = NoMsg /\ p # NoProp /\ onMsg[w] \in Msgs
        /\ UNCHANGED <<toExtract, onMsg, overran>>
    BY <1>9, ProposesRow, PipelineAssumption DEF Fresh, ClassifyProposes, queue, past
  <2>3. p \notin toExtract /\ \A v \in Workers : onProp[v] # p
    BY <1>1, <2>2, PipelineAssumption DEF SoleReader
  <2>4. \A q \in toExtract' : of'[q] # NoMsg
    BY <2>1, <2>2, <2>3 DEF SoleReader, QueueTypes, RowTypes
  <2>5. /\ onProp'[w] = p /\ at'[w] \in {"queueing", "routing"}
        /\ \A v \in Workers : v # w => onProp'[v] = onProp[v] /\ at'[v] = at[v]
    BY <2>1 DEF PoolTypes
  <2>6. QED
    BY <2>2, <2>3, <2>4, <2>5 DEF SoleReader
<1>10. ASSUME NEW w \in Workers, ClassifyQueues(w)
      PROVE  SoleReader'
  <2>1. at[w] # "idle" /\ UNCHANGED <<of, overran>>
    BY <1>10 DEF ClassifyQueues, proposals, past
  <2>2. QED
    BY <1>10, <2>1, EndKeepsSole DEF ClassifyQueues
<1>11. ASSUME NEW w \in Workers, ClassifyCannotQueue(w)
      PROVE  SoleReader'
  <2>1. at[w] # "idle" /\ UNCHANGED <<of, overran>>
    BY <1>11 DEF ClassifyCannotQueue, proposals, past
  <2>2. QED
    BY <1>11, <2>1, EndKeepsSole DEF ClassifyCannotQueue
<1>12. ASSUME NEW w \in Workers, NEW p \in Props, ExtractReads(w, p)
      PROVE  SoleReader'
  <2>1. /\ at[w] = "idle" /\ p \in toExtract /\ toExtract' = toExtract \ {p}
        /\ UNCHANGED <<of, overran>>
    BY <1>12 DEF ExtractReads, proposals, past
  <2>2. CASE Unextracted(p)
    <3>1. /\ onProp'[w] = p /\ onMsg'[w] = of[p] /\ at'[w] \in {"extracting", "routing"}
          /\ \A v \in Workers : v # w => /\ onProp'[v] = onProp[v] /\ onMsg'[v] = onMsg[v]
                                         /\ at'[v] = at[v]
      BY <1>12, <2>2 DEF ExtractReads, PoolTypes
    <3>2. \A v \in Workers : onProp[v] = p => of[p] \in overran
      BY <1>1, <2>1, PipelineAssumption DEF SoleReader
    <3>3. \A v \in Workers : onProp[v] = p => onMsg[v] = of[p]
      BY <1>1, PipelineAssumption
    <3>4. QED
      BY <2>1, <3>1, <3>2, <3>3 DEF SoleReader
  <2>3. CASE ~Unextracted(p)
    BY <1>12, <2>1, <2>3 DEF ExtractReads, SoleReader
  <2>4. QED
    BY <2>2, <2>3
<1>13. ASSUME NEW w \in Workers, ExtractFails(w)
      PROVE  SoleReader'
  <2>1. at[w] # "idle" /\ UNCHANGED <<of, overran>>
    BY <1>13 DEF ExtractFails, proposals, past
  <2>2. QED
    BY <1>13, <2>1, EndKeepsSole DEF ExtractFails
<1>14. ASSUME NEW w \in Workers, ExtractRecords(w)
      PROVE  SoleReader'
  <2>1. /\ UNCHANGED <<toExtract, of, onProp, onMsg, overran>>
        /\ \A v \in Workers : at'[v] = at[v] \/ at'[v] \in {"applying", "routing"}
    BY <1>14 DEF ExtractRecords, queue, past, PoolTypes
  <2>2. QED
    BY <1>2, <2>1
<1>15. ASSUME NEW w \in Workers, ExtractApplies(w)
      PROVE  SoleReader'
  <2>1. at[w] # "idle" /\ UNCHANGED <<of, overran>>
    BY <1>15 DEF ExtractApplies, proposals, past, Apply
  <2>2. QED
    BY <1>15, <2>1, EndKeepsSole DEF ExtractApplies
<1>16. ASSUME NEW w \in Workers, ExtractIsRefused(w)
      PROVE  SoleReader'
  BY <1>16, <1>2 DEF ExtractIsRefused, proposals, queue, past, PoolTypes
<1>17. ASSUME NEW w \in Workers, RouteToReview(w)
      PROVE  SoleReader'
  <2>1. at[w] # "idle" /\ UNCHANGED <<of, overran>>
    BY <1>17 DEF RouteToReview, proposals, past
  <2>2. QED
    BY <1>17, <2>1, EndKeepsSole DEF RouteToReview
<1>18. ASSUME NEW w \in Workers, LeaseEnds(w)
      PROVE  SoleReader'
  <2>1. /\ UNCHANGED <<of, at, onProp, onMsg>> /\ overran' = overran \cup {onMsg[w]}
        /\ toExtract' = IF does[w] = "extract" THEN toExtract \cup {onProp[w]} ELSE toExtract
    BY <1>18 DEF LeaseEnds, proposals
  <2>2. does[w] = "extract" => onProp[w] # NoProp
    BY PipelineAssumption DEF WorkerCoherent, Coherent, PoolTypes, Stages
  <2>3. \A p \in toExtract' : of'[p] # NoMsg
    BY <1>1, <2>1, <2>2, PipelineAssumption DEF SoleReader
  <2>4. ASSUME NEW v \in Workers, onProp'[v] # NoProp, onMsg'[v] \notin overran'
        PROVE  /\ onProp'[v] \notin toExtract'
               /\ \A u \in Workers : u # v => onProp'[u] # onProp'[v]
    <3>1. onProp[v] # NoProp /\ onMsg[v] \notin overran /\ onMsg[v] # onMsg[w]
      BY <2>1, <2>4
    <3>2. does[w] = "extract" => onProp[v] # onProp[w]
      BY <1>1, <2>2, <3>1
    <3>3. QED
      BY <2>1, <3>1, <3>2 DEF SoleReader
  <2>5. \A v \in Workers : at'[v] \in {"idle", "checked", "asking"} => onProp'[v] = NoProp
    BY <2>1 DEF SoleReader
  <2>6. QED
    BY <2>3, <2>4, <2>5 DEF SoleReader
<1>19. ASSUME NEW p \in Props, Correct(p)
      PROVE  SoleReader'
  BY <1>19, <1>2 DEF Correct, queue, pool
<1>20. ASSUME NEW p \in Props, Approve(p)
      PROVE  SoleReader'
  BY <1>20, <1>2 DEF Approve, Apply, queue, pool, past
<1>21. ASSUME NEW p \in Props, Reject(p)
      PROVE  SoleReader'
  BY <1>21, <1>2 DEF Reject, queue, pool, past
<1>22. ASSUME Crash
      PROVE  SoleReader'
  <2>1. /\ \A v \in Workers : onProp'[v] = NoProp
        /\ UNCHANGED of
    BY <1>22 DEF Crash, proposals
  <2>2. \A v \in Workers : does[v] = "extract" => onProp[v] # NoProp
    BY PipelineAssumption DEF WorkerCoherent, Coherent, PoolTypes, Stages
  <2>3. \A p \in toExtract' : p \in toExtract \/ \E v \in Workers : does[v] = "extract" /\ onProp[v] = p
    BY <1>22 DEF Crash
  <2>4. \A p \in toExtract' : of'[p] # NoMsg
    BY <1>1, <2>1, <2>2, <2>3, PipelineAssumption DEF SoleReader
  <2>5. QED
    BY <2>1, <2>4 DEF SoleReader
<1>23. ASSUME BudgetTurns
      PROVE  SoleReader'
  BY <1>23, <1>2 DEF BudgetTurns, proposals, queue, pool, past
<1>24. CASE UNCHANGED vars
  BY <1>24, <1>2 DEF vars, proposals, queue, pool, past
<1>25. QED
  BY <1>3, <1>4, <1>5, <1>6, <1>7, <1>8, <1>9, <1>10, <1>11, <1>12, <1>13, <1>14, <1>15, <1>16, <1>17, <1>18, <1>19, <1>20, <1>21, <1>22, <1>23, <1>24
     DEF Next, Work

\* Every step leaves the row an extraction has as the extraction left it.
LEMMA ReadsAloneStep ==
  ASSUME IInv, SoleReader, ReadsAlone, [Next]_vars
  PROVE  ReadsAlone'
<1> USE DEF IInv, TypeOK
<1>1. CASE /\ UNCHANGED <<of, kind, payload, crossed>> /\ overran \subseteq overran'
           /\ \A v \in Workers, q \in Props :
                Extracting(v, q)' => Extracting(v, q) /\ at'[v] = at[v]
  BY <1>1 DEF ReadsAlone
<1>2. ASSUME NEW m \in Msgs, Arrive(m)
      PROVE  ReadsAlone'
  BY <1>2, <1>1 DEF Arrive, Extracting, proposals, pool, past
<1>3. ASSUME NEW m \in Msgs, SweepQueues(m)
      PROVE  ReadsAlone'
  BY <1>3, <1>1 DEF SweepQueues, Extracting, proposals, pool, past
<1>4. ASSUME SweepLists
      PROVE  ReadsAlone'
  BY <1>4, <1>1 DEF SweepLists, Extracting, proposals, pool, past
<1>5. ASSUME NEW w \in Workers, NEW m \in Msgs, ClassifyReads(w, m)
      PROVE  ReadsAlone'
  BY <1>5, <1>1 DEF ClassifyReads, Extracting, proposals, past, PoolTypes
<1>6. ASSUME NEW w \in Workers, ClassifyMarks(w)
      PROVE  ReadsAlone'
  BY <1>6, <1>1 DEF ClassifyMarks, Extracting, proposals, past, PoolTypes
<1>7. ASSUME NEW w \in Workers, ClassifyFails(w)
      PROVE  ReadsAlone'
  <2>1. UNCHANGED <<of, kind, payload, crossed, overran>> /\ Release(w)
    BY <1>7 DEF ClassifyFails, JobDone, JobFails, proposals, past
  <2>2. QED
    BY <1>1, <2>1 DEF Release, Extracting, PoolTypes
<1>8. ASSUME NEW w \in Workers, ClassifyProposes(w)
      PROVE  ReadsAlone'
  <2>1. PICK p \in Fresh, k \in Kinds :
          /\ of' = [of EXCEPT ![p] = onMsg[w]] /\ kind' = [kind EXCEPT ![p] = k]
          /\ onProp' = [onProp EXCEPT ![w] = p]
          /\ at' = [at EXCEPT ![w] = IF k \in Extractable THEN "queueing" ELSE "routing"]
    BY <1>8, Zenon DEF ClassifyProposes
  <2>2. UNCHANGED <<payload, crossed, overran>> /\ p \in Props /\ of[p] = NoMsg
    BY <1>8 DEF Fresh, ClassifyProposes, past
  <2>3. ASSUME NEW v \in Workers, NEW r \in Props, Extracting(v, r)'
        PROVE  Extracting(v, r) /\ at'[v] = at[v] /\ r # p
    <3>1. v # w
      BY <2>1, <2>3 DEF Extracting, PoolTypes
    <3>2. Extracting(v, r) /\ at'[v] = at[v]
      BY <2>1, <2>3, <3>1 DEF Extracting, PoolTypes
    <3>3. of[r] # NoMsg
      BY <3>2, PipelineAssumption DEF Extracting, WorkerCoherent, Coherent
    <3>4. QED
      BY <2>2, <3>2, <3>3
  <2>4. \A r \in Props : r # p => of'[r] = of[r] /\ kind'[r] = kind[r]
    BY <2>1 DEF RowTypes
  <2>5. QED
    BY <2>2, <2>3, <2>4 DEF ReadsAlone
<1>9. ASSUME NEW w \in Workers, ClassifyQueues(w)
      PROVE  ReadsAlone'
  <2>1. UNCHANGED <<of, kind, payload, crossed, overran>> /\ Release(w)
    BY <1>9 DEF ClassifyQueues, JobDone, JobFails, proposals, past
  <2>2. QED
    BY <1>1, <2>1 DEF Release, Extracting, PoolTypes
<1>10. ASSUME NEW w \in Workers, ClassifyCannotQueue(w)
      PROVE  ReadsAlone'
  <2>1. UNCHANGED <<of, kind, payload, crossed, overran>> /\ Release(w)
    BY <1>10 DEF ClassifyCannotQueue, JobDone, JobFails, proposals, past
  <2>2. QED
    BY <1>1, <2>1 DEF Release, Extracting, PoolTypes
<1>11. ASSUME NEW w \in Workers, NEW p \in Props, ExtractReads(w, p)
      PROVE  ReadsAlone'
  <2>1. UNCHANGED <<of, kind, payload, crossed, overran>>
    BY <1>11 DEF ExtractReads, proposals, past
  <2>2. ASSUME NEW v \in Workers, NEW r \in Props, Extracting(v, r)'
        PROVE  \/ Extracting(v, r) /\ at'[v] = at[v]
               \/ at'[v] = "extracting" /\ payload[r] = "{}"
    BY <1>11, <2>2 DEF ExtractReads, Unextracted, Extracting, PoolTypes
  <2>3. QED
    BY <2>1, <2>2 DEF ReadsAlone
<1>12. ASSUME NEW w \in Workers, ExtractFails(w)
      PROVE  ReadsAlone'
  <2>1. UNCHANGED <<of, kind, payload, crossed, overran>> /\ Release(w)
    BY <1>12 DEF ExtractFails, JobDone, JobFails, proposals, past
  <2>2. QED
    BY <1>1, <2>1 DEF Release, Extracting, PoolTypes
<1>13. ASSUME NEW w \in Workers, ExtractRecords(w)
      PROVE  ReadsAlone'
  <2> DEFINE p == onProp[w]
  <2>1. /\ p \in Props /\ onMsg[w] = of[p] /\ p # NoProp
    BY <1>13, PipelineAssumption DEF ExtractRecords, WorkerCoherent, Coherent
  <2>2. /\ UNCHANGED <<of, kind, crossed, overran, onProp>>
        /\ payload' = [payload EXCEPT ![p] = "read"]
        /\ \E r \in {"applying", "routing"} : at' = [at EXCEPT ![w] = r]
        /\ at'[w] = "applying" => kind[p] = Receipt
    BY <1>13 DEF ExtractRecords, AutoApplies, past, PoolTypes
  <2>3. ASSUME NEW v \in Workers, v # w, onProp[v] = p
        PROVE  of[p] \in overran
    BY <2>1, <2>3 DEF SoleReader
  <2> HIDE DEF p
  <2>4. ASSUME NEW v \in Workers, NEW r \in Props, Extracting(v, r)', r \notin crossed'
        PROVE  /\ (at'[v] = "extracting" /\ of'[r] \notin overran') => payload'[r] = "{}"
               /\ at'[v] = "applying" => kind'[r] = Receipt /\ payload'[r] = "read"
    <3>1. CASE v = w
      <4>1. at'[w] # "extracting" /\ r = p
        BY <2>2, <2>4, <3>1 DEF Extracting, PoolTypes, p
      <4>2. QED
        BY <2>1, <2>2, <3>1, <4>1 DEF RowTypes
    <3>2. CASE v # w
      <4>1. Extracting(v, r) /\ at'[v] = at[v] /\ onProp[v] = r
        BY <2>2, <2>4, <3>2 DEF Extracting, PoolTypes
      <4>2. /\ (at[v] = "extracting" /\ of[r] \notin overran) => payload[r] = "{}"
            /\ at[v] = "applying" => kind[r] = Receipt /\ payload[r] = "read"
        BY <2>2, <2>4, <4>1 DEF ReadsAlone
      <4>3. r = p => of[r] \in overran
        BY <2>3, <3>2, <4>1
      <4>4. QED
        BY <2>1, <2>2, <4>1, <4>2, <4>3 DEF RowTypes
    <3>3. QED
      BY <3>1, <3>2
  <2>5. QED
    BY <2>4 DEF ReadsAlone
<1>14. ASSUME NEW w \in Workers, ExtractApplies(w)
      PROVE  ReadsAlone'
  <2>1. UNCHANGED <<of, kind, payload, crossed, overran>> /\ Release(w)
    BY <1>14 DEF ExtractApplies, JobDone, JobFails, proposals, past, Apply
  <2>2. QED
    BY <1>1, <2>1 DEF Release, Extracting, PoolTypes
<1>15. ASSUME NEW w \in Workers, ExtractIsRefused(w)
      PROVE  ReadsAlone'
  BY <1>15, <1>1 DEF ExtractIsRefused, Extracting, proposals, past, PoolTypes
<1>16. ASSUME NEW w \in Workers, RouteToReview(w)
      PROVE  ReadsAlone'
  <2>1. UNCHANGED <<of, kind, payload, crossed, overran>> /\ Release(w)
    BY <1>16 DEF RouteToReview, JobDone, JobFails, proposals, past
  <2>2. QED
    BY <1>1, <2>1 DEF Release, Extracting, PoolTypes
<1>17. ASSUME NEW w \in Workers, LeaseEnds(w)
      PROVE  ReadsAlone'
  BY <1>17, <1>1 DEF LeaseEnds, Extracting, proposals
<1>18. ASSUME NEW p \in Props, Correct(p)
      PROVE  ReadsAlone'
  <2>1. /\ UNCHANGED <<of, at, onProp, overran>>
        /\ \A r \in Props : r # p => kind'[r] = kind[r] /\ payload'[r] = payload[r]
        /\ crossed' = IF \E v \in Workers : Extracting(v, p)
                      THEN crossed \cup {p} ELSE crossed
    BY <1>18 DEF Correct, pool, RowTypes
  <2>2. ASSUME NEW v \in Workers, NEW r \in Props, Extracting(v, r)', r \notin crossed'
        PROVE  Extracting(v, r) /\ r \notin crossed /\ r # p
    BY <2>1, <2>2 DEF Extracting
  <2>3. QED
    BY <2>1, <2>2 DEF ReadsAlone
<1>19. ASSUME NEW p \in Props, Approve(p)
      PROVE  ReadsAlone'
  BY <1>19, <1>1 DEF Approve, Extracting, Apply, pool, past
<1>20. ASSUME NEW p \in Props, Reject(p)
      PROVE  ReadsAlone'
  BY <1>20, <1>1 DEF Reject, Extracting, pool, past
<1>21. ASSUME Crash
      PROVE  ReadsAlone'
  BY <1>21, <1>1 DEF Crash, Extracting, proposals
<1>22. ASSUME BudgetTurns
      PROVE  ReadsAlone'
  BY <1>22, <1>1 DEF BudgetTurns, Extracting, proposals, pool, past
<1>23. CASE UNCHANGED vars
  BY <1>23, <1>1 DEF vars, Extracting, proposals, pool, past
<1>24. QED
  BY <1>2, <1>3, <1>4, <1>5, <1>6, <1>7, <1>8, <1>9, <1>10, <1>11, <1>12, <1>13, <1>14, <1>15, <1>16, <1>17, <1>18, <1>19, <1>20, <1>21, <1>22, <1>23
     DEF Next, Work

\* No record is made of a blank row.
FiledSays == \A p \in Props : entries[p] > 0 => filed[p].payload # "{}"

\* What the proofs below carry along.
Reading == SoleReader /\ ReadsAlone /\ FiledSays
           /\ FiledAsItReadsUncrossed /\ UnreviewedAsReadUncrossed

\* A filing keeps record and row one account.
LEMMA ApplyReads ==
  ASSUME IInv, Reading, NEW p \in Props, NEW how \in {"approved", "auto_applied"}, Apply(p, how),
         how = "auto_applied" /\ p \notin crossed => kind[p] = Receipt /\ payload[p] = "read",
         UNCHANGED <<crossed, overran>>
  PROVE  FiledSays' /\ FiledAsItReadsUncrossed' /\ UnreviewedAsReadUncrossed'
<1> USE DEF IInv, TypeOK
<1> DEFINE entry == [kind |-> kind[p], payload |-> payload[p], place |-> place[p]]
<1>1. /\ payload[p] # "{}" /\ UNCHANGED <<of, kind, payload, place>>
      /\ filed' = [filed EXCEPT ![p] = entry] /\ verdict' = [verdict EXCEPT ![p] = how]
      /\ entries' = [entries EXCEPT ![p] = @ + 1]
  BY DEF Apply, Fileable
<1>2. entry.payload = payload[p] /\ entry.kind = kind[p]
  OBVIOUS
<1>3. \A q \in Props : q # p => /\ filed'[q] = filed[q] /\ verdict'[q] = verdict[q]
                                /\ entries'[q] = entries[q]
  BY <1>1 DEF BookTypes, RowTypes
<1>4. filed'[p] = entry /\ verdict'[p] = how
  BY <1>1 DEF BookTypes, RowTypes
<1>5. FiledSays'
  BY <1>1, <1>2, <1>3, <1>4 DEF Reading, FiledSays
<1>6. FiledAsItReadsUncrossed'
  BY <1>1, <1>3, <1>4 DEF Reading, FiledAsItReadsUncrossed
<1> HIDE DEF entry
<1>7. UnreviewedAsReadUncrossed'
  BY <1>1, <1>2, <1>3, <1>4 DEF Reading, UnreviewedAsReadUncrossed
<1>8. QED
  BY <1>5, <1>6, <1>7

\* Every step does.
LEMMA FiledStep ==
  ASSUME IInv, Reading, [Next]_vars
  PROVE  FiledSays' /\ FiledAsItReadsUncrossed' /\ UnreviewedAsReadUncrossed'
<1> USE DEF IInv, TypeOK, Reading
<1>1. CASE /\ UNCHANGED <<kind, payload, place, verdict, entries, filed, of, crossed>>
           /\ overran \subseteq overran'
  BY <1>1 DEF FiledSays, FiledAsItReadsUncrossed, UnreviewedAsReadUncrossed
<1>2. ASSUME NEW p \in Props, entries[p] = 0, verdict[p] = "pending", verdict'[p] # "auto_applied",
             UNCHANGED <<entries, filed, overran>>, crossed \subseteq crossed',
             \A r \in Props : r # p => /\ of'[r] = of[r] /\ kind'[r] = kind[r]
                                       /\ payload'[r] = payload[r] /\ place'[r] = place[r]
                                       /\ verdict'[r] = verdict[r]
      PROVE  FiledSays' /\ FiledAsItReadsUncrossed' /\ UnreviewedAsReadUncrossed'
  <2>1. FiledSays'
    BY <1>2 DEF FiledSays
  <2>2. FiledAsItReadsUncrossed'
    BY <1>2 DEF FiledAsItReadsUncrossed
  <2>3. UnreviewedAsReadUncrossed'
    BY <1>2 DEF UnreviewedAsReadUncrossed
  <2>4. QED
    BY <2>1, <2>2, <2>3
<1>3. ASSUME NEW m \in Msgs, Arrive(m)
      PROVE  FiledSays' /\ FiledAsItReadsUncrossed' /\ UnreviewedAsReadUncrossed'
  BY <1>3, <1>1 DEF Arrive, proposals, books, past
<1>4. ASSUME NEW m \in Msgs, SweepQueues(m)
      PROVE  FiledSays' /\ FiledAsItReadsUncrossed' /\ UnreviewedAsReadUncrossed'
  BY <1>4, <1>1 DEF SweepQueues, proposals, books, past
<1>5. ASSUME SweepLists
      PROVE  FiledSays' /\ FiledAsItReadsUncrossed' /\ UnreviewedAsReadUncrossed'
  BY <1>5, <1>1 DEF SweepLists, proposals, books, past
<1>6. ASSUME NEW w \in Workers, NEW m \in Msgs, ClassifyReads(w, m)
      PROVE  FiledSays' /\ FiledAsItReadsUncrossed' /\ UnreviewedAsReadUncrossed'
  BY <1>6, <1>1 DEF ClassifyReads, proposals, books, past
<1>7. ASSUME NEW w \in Workers, ClassifyMarks(w)
      PROVE  FiledSays' /\ FiledAsItReadsUncrossed' /\ UnreviewedAsReadUncrossed'
  BY <1>7, <1>1 DEF ClassifyMarks, proposals, books, past
<1>8. ASSUME NEW w \in Workers, ClassifyFails(w)
      PROVE  FiledSays' /\ FiledAsItReadsUncrossed' /\ UnreviewedAsReadUncrossed'
  BY <1>8, <1>1 DEF ClassifyFails, proposals, books, past
<1>9. ASSUME NEW w \in Workers, ClassifyProposes(w)
      PROVE  FiledSays' /\ FiledAsItReadsUncrossed' /\ UnreviewedAsReadUncrossed'
  <2>1. PICK p \in Fresh, k \in Kinds, pl \in Places \cup {NoPlace} :
          /\ \A q \in Fresh : p <= q
          /\ of'    = [of EXCEPT ![p] = onMsg[w]]
          /\ kind'  = [kind EXCEPT ![p] = k]
          /\ place' = [place EXCEPT ![p] = pl]
          /\ onProp' = [onProp EXCEPT ![w] = p]
          /\ at' = [at EXCEPT ![w] = IF k \in Extractable THEN "queueing"
                                                          ELSE "routing"]
    BY <1>9 DEF ClassifyProposes
  <2>2. p \in Props /\ verdict[p] = "pending" /\ entries[p] = 0
    BY DEF Fresh, RowCoherent, LedgerMatchesVerdicts
  <2>3. UNCHANGED <<payload, verdict, entries, filed, crossed, overran>>
    BY <1>9 DEF ClassifyProposes, books, past
  <2>4. QED
    BY <1>2, <2>1, <2>2, <2>3 DEF RowTypes
<1>10. ASSUME NEW w \in Workers, ClassifyQueues(w)
      PROVE  FiledSays' /\ FiledAsItReadsUncrossed' /\ UnreviewedAsReadUncrossed'
  BY <1>10, <1>1 DEF ClassifyQueues, proposals, books, past
<1>11. ASSUME NEW w \in Workers, ClassifyCannotQueue(w)
      PROVE  FiledSays' /\ FiledAsItReadsUncrossed' /\ UnreviewedAsReadUncrossed'
  BY <1>11, <1>1 DEF ClassifyCannotQueue, proposals, books, past
<1>12. ASSUME NEW w \in Workers, NEW p \in Props, ExtractReads(w, p)
      PROVE  FiledSays' /\ FiledAsItReadsUncrossed' /\ UnreviewedAsReadUncrossed'
  BY <1>12, <1>1 DEF ExtractReads, proposals, books, past
<1>13. ASSUME NEW w \in Workers, ExtractFails(w)
      PROVE  FiledSays' /\ FiledAsItReadsUncrossed' /\ UnreviewedAsReadUncrossed'
  BY <1>13, <1>1 DEF ExtractFails, proposals, books, past
<1>14. ASSUME NEW w \in Workers, ExtractRecords(w)
      PROVE  FiledSays' /\ FiledAsItReadsUncrossed' /\ UnreviewedAsReadUncrossed'
  <2> DEFINE p == onProp[w]
  <2>1. p \in Props /\ Extracting(w, p) /\ at[w] = "extracting"
    BY <1>14 DEF ExtractRecords, WorkerCoherent, Coherent, Extracting
  <2>2. (p \notin crossed /\ of[p] \notin overran) => payload[p] = "{}"
    BY <2>1 DEF ReadsAlone
  <2>3. /\ UNCHANGED <<of, kind, verdict, entries, filed, crossed, overran>>
        /\ \A r \in Props : r # p => payload'[r] = payload[r] /\ place'[r] = place[r]
    BY <1>14, <2>1 DEF ExtractRecords, books, past, RowTypes
  <2> HIDE DEF p
  <2>4. (p \notin crossed /\ of[p] \notin overran) => ~(entries[p] > 0)
    <3>1. SUFFICES ASSUME p \notin crossed, of[p] \notin overran, entries[p] > 0
                   PROVE  FALSE
      OBVIOUS
    <3>2. filed[p] = [kind |-> kind[p], payload |-> payload[p], place |-> place[p]]
      BY <2>1, <3>1 DEF FiledAsItReadsUncrossed
    <3>3. [kind |-> kind[p], payload |-> payload[p], place |-> place[p]].payload = payload[p]
      OBVIOUS
    <3>4. filed[p].payload = "{}"
      BY <2>2, <3>1, <3>2, <3>3
    <3>5. QED
      BY <2>1, <3>1, <3>4 DEF FiledSays
  <2>5. QED
    BY <2>1, <2>3, <2>4 DEF FiledSays, FiledAsItReadsUncrossed, UnreviewedAsReadUncrossed
<1>15. ASSUME NEW w \in Workers, ExtractApplies(w)
      PROVE  FiledSays' /\ FiledAsItReadsUncrossed' /\ UnreviewedAsReadUncrossed'
  <2>1. /\ onProp[w] \in Props /\ Extracting(w, onProp[w])
        /\ Apply(onProp[w], "auto_applied") /\ UNCHANGED <<crossed, overran>>
    BY <1>15 DEF ExtractApplies, WorkerCoherent, Coherent, Extracting, past
  <2>2. onProp[w] \notin crossed => kind[onProp[w]] = Receipt /\ payload[onProp[w]] = "read"
    BY <1>15, <2>1 DEF ReadsAlone, ExtractApplies
  <2>3. QED
    BY <2>1, <2>2, ApplyReads
<1>16. ASSUME NEW w \in Workers, ExtractIsRefused(w)
      PROVE  FiledSays' /\ FiledAsItReadsUncrossed' /\ UnreviewedAsReadUncrossed'
  BY <1>16, <1>1 DEF ExtractIsRefused, proposals, books, past
<1>17. ASSUME NEW w \in Workers, RouteToReview(w)
      PROVE  FiledSays' /\ FiledAsItReadsUncrossed' /\ UnreviewedAsReadUncrossed'
  BY <1>17, <1>1 DEF RouteToReview, proposals, books, past
<1>18. ASSUME NEW w \in Workers, LeaseEnds(w)
      PROVE  FiledSays' /\ FiledAsItReadsUncrossed' /\ UnreviewedAsReadUncrossed'
  BY <1>18, <1>1 DEF LeaseEnds, proposals, books, past
<1>19. ASSUME NEW p \in Props, Correct(p)
      PROVE  FiledSays' /\ FiledAsItReadsUncrossed' /\ UnreviewedAsReadUncrossed'
  <2>1. /\ entries[p] = 0 /\ verdict[p] = "pending"
        /\ UNCHANGED <<of, verdict, entries, filed, overran>> /\ crossed \subseteq crossed'
        /\ \A r \in Props : r # p => /\ kind'[r] = kind[r] /\ payload'[r] = payload[r]
                                     /\ place'[r] = place[r]
    BY <1>19 DEF Correct, Undecided, LedgerMatchesVerdicts, books, RowTypes
  <2>2. QED
    BY <1>2, <2>1
<1>20. ASSUME NEW p \in Props, Approve(p)
      PROVE  FiledSays' /\ FiledAsItReadsUncrossed' /\ UnreviewedAsReadUncrossed'
  <2>1. Apply(p, "approved") /\ UNCHANGED <<crossed, overran>>
    BY <1>20 DEF Approve, past
  <2>2. QED
    BY <2>1, ApplyReads
<1>21. ASSUME NEW p \in Props, Reject(p)
      PROVE  FiledSays' /\ FiledAsItReadsUncrossed' /\ UnreviewedAsReadUncrossed'
  <2>1. /\ entries[p] = 0 /\ verdict[p] = "pending"
        /\ verdict' = [verdict EXCEPT ![p] = "rejected"]
        /\ UNCHANGED <<of, kind, payload, place, entries, filed, crossed, overran>>
    BY <1>21 DEF Reject, Undecided, LedgerMatchesVerdicts, books, past
  <2>2. QED
    BY <1>2, <2>1 DEF RowTypes
<1>22. ASSUME Crash
      PROVE  FiledSays' /\ FiledAsItReadsUncrossed' /\ UnreviewedAsReadUncrossed'
  BY <1>22, <1>1 DEF Crash, proposals, books, past
<1>23. ASSUME BudgetTurns
      PROVE  FiledSays' /\ FiledAsItReadsUncrossed' /\ UnreviewedAsReadUncrossed'
  BY <1>23, <1>1 DEF BudgetTurns, proposals, books, past
<1>24. CASE UNCHANGED vars
  BY <1>24, <1>1 DEF vars, proposals, books, past
<1>25. QED
  BY <1>3, <1>4, <1>5, <1>6, <1>7, <1>8, <1>9, <1>10, <1>11, <1>12, <1>13, <1>14, <1>15, <1>16, <1>17, <1>18, <1>19, <1>20, <1>21, <1>22, <1>23, <1>24
     DEF Next, Work

\* All of it holds throughout.
LEMMA ReadingHolds == Spec => []Reading
<1>1. ASSUME Init
      PROVE  Reading
  <2>1. SoleReader /\ ReadsAlone
    BY <1>1 DEF Init, SoleReader, ReadsAlone, Extracting
  <2>2. \A p \in Props : entries[p] = 0 /\ verdict[p] = "pending"
    BY <1>1 DEF Init
  <2>3. \A p \in Props : ~(entries[p] > 0) /\ verdict[p] # "auto_applied"
    BY <2>2
  <2>4. FiledSays /\ FiledAsItReadsUncrossed
    BY <2>3, Zenon DEF FiledSays, FiledAsItReadsUncrossed
  <2>5. UnreviewedAsReadUncrossed
    BY <2>3, Zenon DEF UnreviewedAsReadUncrossed
  <2>6. QED
    BY <2>1, <2>4, <2>5 DEF Reading
<1>2. IInv /\ Reading /\ [Next]_vars => Reading'
  BY SoleReaderStep, ReadsAloneStep, FiledStep DEF Reading
<1>3. QED
  BY <1>1, <1>2, InductiveInvariant, PTL DEF Spec

\* A record and the proposal it was made of say the same for ever, and nothing
\* but a receipt as the model read it files itself, whatever runs twice or
\* late: it takes a person correcting the proposal while an extraction has it,
\* or, for the first, a worker that outlived its lease on the message.
THEOREM RewrittenOnlyByCrossingHolds == Spec => []RewrittenOnlyByCrossing
<1>1. Reading => RewrittenOnlyByCrossing
  BY DEF Reading, RewrittenOnlyByCrossing
<1>2. QED
  BY <1>1, ReadingHolds, PTL

\* An extraction replaces what a person wrote only if both had the row at
\* once, or if it runs past its lease.
THEOREM HandWrittenStaysHolds == Spec => HandWrittenStays
<1>1. ASSUME IInv, Reading, [Next]_vars, NEW p \in Props, payload[p] = "edited",
             payload'[p] = "read"
      PROVE  p \in crossed \/ of[p] \in overran
  <2> USE DEF IInv, TypeOK
  <2>1. CASE \E w \in Workers : ExtractRecords(w)
    <3>1. PICK w \in Workers : ExtractRecords(w)
      BY <2>1
    <3>2. Extracting(w, onProp[w]) /\ at[w] = "extracting" /\ onProp[w] \in Props
      BY <1>1, <3>1 DEF ExtractRecords, Extracting, WorkerCoherent, Coherent
    <3>3. onProp[w] = p
      BY <1>1, <3>1, <3>2 DEF ExtractRecords, RowTypes
    <3>4. QED
      BY <1>1, <3>2, <3>3 DEF Reading, ReadsAlone
  <2>2. CASE \E q \in Props : Correct(q)
    <3>1. PICK q \in Props : Correct(q)
      BY <2>2
    <3>2. PICK said \in {payload[q], "edited", "{}"} : payload' = [payload EXCEPT ![q] = said]
      BY <3>1 DEF Correct
    <3>3. QED
      BY <1>1, <3>2 DEF RowTypes
  <2>3. CASE payload' = payload
    BY <1>1, <2>3
  <2>4. payload' = payload \/ (\E w \in Workers : ExtractRecords(w))
          \/ (\E q \in Props : Correct(q))
    BY <1>1
       DEF Next, Work, vars, proposals, Arrive, SweepQueues, SweepLists, ClassifyReads,
           ClassifyMarks, ClassifyFails, ClassifyProposes, ClassifyQueues,
           ClassifyCannotQueue, ExtractReads, ExtractFails, ExtractApplies, Apply,
           ExtractIsRefused, RouteToReview, LeaseEnds, Approve, Reject, Crash,
           BudgetTurns
  <2>5. QED
    BY <2>1, <2>2, <2>3, <2>4
<1>2. IInv /\ Reading /\ [Next]_vars =>
        [\A p \in Props : (payload[p] = "edited" /\ payload'[p] = "read") =>
           p \in crossed \/ of[p] \in overran]_vars
  BY <1>1
<1>3. QED
  BY <1>2, ReadingHolds, InductiveInvariant, PTL DEF Spec, HandWrittenStays
=============================================================================
