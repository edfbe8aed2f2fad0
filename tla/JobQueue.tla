------------------------------ MODULE JobQueue ------------------------------
(***************************************************************************)
(* The jobs table of internal/jobs and the worker pool that drains it.     *)
(*                                                                         *)
(* A row is enqueued, claimed by a worker, run by its handler, and then    *)
(* recorded as done, failed, or pending again after a backoff.  A sweep    *)
(* returns rows whose lease has run out.  The process that owns the        *)
(* workers may be told to stop, may be killed at any point, and may come   *)
(* back; the table survives all three.                                     *)
(*                                                                         *)
(* Every stamp is kept relative to the present: runIn is run_after - now   *)
(* and lockAge is now - locked_at, so that time may pass for ever in a     *)
(* finite state space.  Two saturations bound them: a row overdue by more  *)
(* than MaxOverdue counts as overdue by MaxOverdue, and a lock older than  *)
(* the lease is just "older".  attempts saturates one above MaxAttempts,   *)
(* which loses nothing, since the code only compares it with MaxAttempts.  *)
(***************************************************************************)
EXTENDS Integers, FiniteSets

CONSTANTS
  JobIds,       \* ids the table hands out, in order (INTEGER PRIMARY KEY)
  Kinds,        \* job kinds callers enqueue
  Handled,      \* the kinds this build registered a handler for
  Keys,         \* dedupe keys
  NoKey,        \* dedupe_key IS NULL
  Workers,      \* the pool
  NoWorker,     \* locked_by IS NULL
  NoJob,        \* a worker between jobs
  MaxAttempts,  \* jobs.max_attempts
  Lease,        \* LeaseTimeout, in ticks
  BackoffBase,  \* the first retry's wait, in ticks
  BackoffCap,   \* no retry waits longer than this
  Delays,       \* how far ahead callers schedule a job
  Horizon,      \* no run_after lies further ahead than this
  MaxOverdue,   \* bound: how late a row can be told apart from later still
  MaxCrashes    \* bound: process deaths considered

ASSUME QueueAssumption ==
  /\ JobIds \subseteq Nat
  /\ Handled \subseteq Kinds
  /\ NoKey \notin Keys
  /\ NoWorker \notin Workers
  /\ NoJob \notin JobIds
  /\ MaxAttempts \in Nat \ {0}
  /\ Lease \in Nat \ {0}
  /\ BackoffBase \in Nat
  /\ BackoffCap \in Nat
  /\ Horizon \in Nat
  /\ BackoffCap <= Horizon
  /\ Delays \subseteq 0 .. Horizon
  /\ MaxOverdue \in Nat
  /\ MaxCrashes \in Nat

VARIABLES
  status,    \* jobs.status, or "absent" for an id not handed out yet
  kind,      \* jobs.kind
  key,       \* jobs.dedupe_key
  attempts,  \* jobs.attempts
  runIn,     \* jobs.run_after, relative to now
  lockedBy,  \* jobs.locked_by; locked_at is NULL exactly when this is
  lockAge,   \* now - jobs.locked_at
  proc,      \* the process: serving, told to stop, or not there
  at,        \* where each worker's runOne is
  holds,     \* the id in the Job value a worker's runOne carries
  try,       \* Attempts in that Job value, as the claim returned it
  worked,    \* history: jobs whose handler has returned nil
  dead,      \* history: jobs OnDeadLetter was called for
  returned,  \* history: jobs ReclaimStaleJobs has returned to the pool
  stolen,    \* history: the ones among them a live worker was still running
  crashes    \* history: process deaths so far

rows == <<status, kind, key, attempts, runIn, lockedBy, lockAge>>
pool == <<at, holds, try>>
past == <<worked, dead, returned, stolen>>
vars == <<rows, proc, pool, past, crashes>>

Statuses == {"absent", "pending", "running", "done", "failed"}
WorkerStates == {"idle", "handling", "succeeded", "erred", "unhandled"}

TypeOK ==
  /\ status   \in [JobIds -> Statuses]
  /\ kind     \in [JobIds -> Kinds \cup {NoKey}]
  /\ key      \in [JobIds -> Keys \cup {NoKey}]
  /\ attempts \in [JobIds -> 0 .. MaxAttempts + 1]
  /\ runIn    \in [JobIds -> -MaxOverdue .. Horizon]
  /\ lockedBy \in [JobIds -> Workers \cup {NoWorker}]
  /\ lockAge  \in [JobIds -> 0 .. Lease + 1]
  /\ proc     \in {"up", "stopping", "down"}
  /\ at       \in [Workers -> WorkerStates]
  /\ holds    \in [Workers -> JobIds \cup {NoJob}]
  /\ try      \in [Workers -> 0 .. MaxAttempts + 1]
  /\ worked \subseteq JobIds
  /\ dead   \subseteq JobIds
  /\ returned \subseteq JobIds
  /\ stolen \subseteq JobIds
  /\ crashes \in 0 .. MaxCrashes

Init ==
  /\ status   = [j \in JobIds |-> "absent"]
  /\ kind     = [j \in JobIds |-> NoKey]
  /\ key      = [j \in JobIds |-> NoKey]
  /\ attempts = [j \in JobIds |-> 0]
  /\ runIn    = [j \in JobIds |-> 0]
  /\ lockedBy = [j \in JobIds |-> NoWorker]
  /\ lockAge  = [j \in JobIds |-> 0]
  /\ proc     = "up"
  /\ at       = [w \in Workers |-> "idle"]
  /\ holds    = [w \in Workers |-> NoJob]
  /\ try      = [w \in Workers |-> 0]
  /\ worked = {} /\ dead = {} /\ returned = {} /\ stolen = {}
  /\ crashes = 0

-----------------------------------------------------------------------------
(* The table.                                                              *)

\* jobs_dedupe_pending_idx: a row may be pending under k beside the rows in
\* others only if none of them is already pending under it.
IndexAllows(k, others) ==
  k = NoKey \/ \A j \in others : ~(status[j] = "pending" /\ key[j] = k)

\* The ids not handed out yet; the table hands out the least of them.
Fresh == {j \in JobIds : status[j] = "absent"}

\* Rows ClaimJob may take, and the order it takes them in.
RunnableWhileRunning ==              \* mutant: forgets the status
  {j \in JobIds : status[j] \in {"pending", "running"} /\ runIn[j] <= 0}
RunnableOnce ==                      \* mutant: overlooks rows tried before
  {j \in JobIds : status[j] = "pending" /\ runIn[j] <= 0 /\ attempts[j] = 0}

Runnable == {j \in JobIds : status[j] = "pending" /\ runIn[j] <= 0}

ClaimsBefore(i, j) ==
  runIn[i] < runIn[j] \/ (runIn[i] = runIn[j] /\ i <= j)

Enqueue(k, dk, delay) ==
  /\ proc # "down"
  /\ IndexAllows(dk, JobIds)          \* otherwise ErrDuplicate, and no row
  /\ \E j \in Fresh :
       /\ \A i \in Fresh : j <= i
       /\ status'   = [status EXCEPT ![j] = "pending"]
       /\ kind'     = [kind EXCEPT ![j] = k]
       /\ key'      = [key EXCEPT ![j] = dk]
       /\ runIn'    = [runIn EXCEPT ![j] = delay]
  /\ UNCHANGED <<attempts, lockedBy, lockAge, proc, pool, past, crashes>>

Claim(w) ==
  /\ proc = "up"
  /\ at[w] = "idle"
  /\ \E j \in Runnable :
       /\ \A i \in Runnable : ClaimsBefore(j, i)
       /\ LET n == IF attempts[j] > MaxAttempts THEN attempts[j]
                                                ELSE attempts[j] + 1
          IN /\ attempts' = [attempts EXCEPT ![j] = n]
             /\ try'      = [try EXCEPT ![w] = n]
       /\ status'   = [status EXCEPT ![j] = "running"]
       /\ lockedBy' = [lockedBy EXCEPT ![j] = w]
       /\ lockAge'  = [lockAge EXCEPT ![j] = 0]
       /\ holds'    = [holds EXCEPT ![w] = j]
       /\ at' = [at EXCEPT ![w] = IF kind[j] \in Handled THEN "handling"
                                                         ELSE "unhandled"]
  /\ UNCHANGED <<kind, key, runIn, proc, past, crashes>>

Unlock(j) ==
  /\ lockedBy' = [lockedBy EXCEPT ![j] = NoWorker]
  /\ lockAge'  = [lockAge EXCEPT ![j] = 0]

\* CompleteJob and FailJob: UPDATE ... WHERE id = j, whatever the row holds.
SettleAsDone(j, s) ==                \* mutant: one statement for both verdicts
  /\ status' = [status EXCEPT ![j] = "done"]
  /\ Unlock(j)
  /\ UNCHANGED <<kind, key, attempts, runIn>>

Settle(j, s) ==
  /\ status' = [status EXCEPT ![j] = s]
  /\ Unlock(j)
  /\ UNCHANGED <<kind, key, attempts, runIn>>

\* The wait before retry n: doubled each time, capped, then full jitter over
\* its upper half.
RetryDelays(n) ==
  LET doubled == BackoffBase * 2 ^ (n - 1)
      wait    == IF doubled > BackoffCap THEN BackoffCap ELSE doubled
  IN {d \in 0 .. BackoffCap : wait \div 2 <= d /\ d <= wait}

\* RetryJob: back to pending, unless that collides with another pending row.
CanRetry(j) == IndexAllows(key[j], JobIds \ {j})

Retry(j, n) ==
  /\ status' = [status EXCEPT ![j] = "pending"]
  /\ \E d \in RetryDelays(n) : runIn' = [runIn EXCEPT ![j] = d]
  /\ Unlock(j)
  /\ UNCHANGED <<kind, key, attempts>>

\* Rows whose lease has run out, and whether returning all of them in one
\* statement keeps the index; one collision fails the statement as a whole.
Stale == {j \in JobIds : status[j] = "running" /\ lockAge[j] > Lease}

ReclaimFits ==
  \A j \in Stale :
    /\ IndexAllows(key[j], JobIds)
    /\ \A i \in Stale \ {j} : key[i] # key[j] \/ key[j] = NoKey

\* The rows ReclaimStaleJobs returns to the pool.
Reclaimed == IF ReclaimFits THEN Stale ELSE {}

ReclaimStaleJobs ==
  /\ status'   = [j \in JobIds |-> IF j \in Reclaimed THEN "pending" ELSE status[j]]
  /\ lockedBy' = [j \in JobIds |-> IF j \in Reclaimed THEN NoWorker ELSE lockedBy[j]]
  /\ lockAge'  = [j \in JobIds |-> IF j \in Reclaimed THEN 0 ELSE lockAge[j]]
  /\ returned' = returned \cup Reclaimed
  /\ UNCHANGED <<kind, key, attempts, runIn>>

-----------------------------------------------------------------------------
(* The pool.                                                               *)

Release(w) ==
  /\ at'    = [at EXCEPT ![w] = "idle"]
  /\ holds' = [holds EXCEPT ![w] = NoJob]
  /\ try'   = [try EXCEPT ![w] = 0]

\* The handler returns nil, or an error, or panics into one.
HandlerReturns(w, outcome) ==
  /\ at[w] = "handling"
  /\ at' = [at EXCEPT ![w] = outcome]
  /\ worked' = IF outcome = "succeeded" THEN worked \cup {holds[w]} ELSE worked
  /\ UNCHANGED <<rows, proc, holds, try, dead, returned, stolen, crashes>>

\* A write under the cancelled context of a stopping process never lands.
Writable == proc = "up"

RecordDone(w) ==
  /\ at[w] = "succeeded"
  /\ IF Writable THEN Settle(holds[w], "done") ELSE UNCHANGED rows
  /\ Release(w)
  /\ UNCHANGED <<proc, past, crashes>>

RecordUnhandled(w) ==
  /\ at[w] = "unhandled"
  /\ IF Writable THEN Settle(holds[w], "failed") ELSE UNCHANGED rows
  /\ Release(w)
  /\ UNCHANGED <<proc, past, crashes>>

\* Queue.fail's question, asked of the worker's own copy of the count.
TriesLeftInclusive(w) == try[w] <= MaxAttempts      \* mutant: off by one
TriesLeftMinusOne(w) == try[w] < MaxAttempts - 1    \* mutant: off by one
TriesLeft(w) == try[w] < MaxAttempts

\* runOne calls OnDeadLetter.
DeadLetterFirstTry(w) ==             \* mutant: silent once a job was retried
  dead' = IF try[w] = 1 THEN dead \cup {holds[w]} ELSE dead
DeadLetter(w) == dead' = dead \cup {holds[w]}

\* Queue.fail with attempts left: a retry, and no more if it lands.
RecordRetry(w) ==
  /\ at[w] = "erred"
  /\ TriesLeft(w)
  /\ Writable /\ CanRetry(holds[w])
  /\ Retry(holds[w], try[w])
  /\ Release(w)
  /\ UNCHANGED <<proc, past, crashes>>

\* Queue.fail reports retrying = false: because the tries are spent, or
\* because the write that would have retried did not land.
RecordGivingUp(w) ==
  /\ at[w] = "erred"
  /\ \/ /\ ~TriesLeft(w)
        /\ IF Writable THEN Settle(holds[w], "failed") ELSE UNCHANGED rows
     \/ /\ TriesLeft(w)
        /\ ~(Writable /\ CanRetry(holds[w]))
        /\ UNCHANGED rows
  /\ DeadLetter(w)
  /\ Release(w)
  /\ UNCHANGED <<proc, worked, returned, stolen, crashes>>

\* Runner.sweep.
Sweep ==
  /\ proc = "up"
  /\ Stale # {}
  /\ ReclaimStaleJobs
  /\ stolen' = stolen \cup {j \in Reclaimed : \E w \in Workers : holds[w] = j}
  /\ UNCHANGED <<proc, pool, worked, dead, crashes>>

-----------------------------------------------------------------------------
(* The process and the clock.                                              *)

\* The signal context is cancelled.
Shutdown ==
  /\ proc = "up"
  /\ crashes < MaxCrashes      \* so that the exit that follows is in bounds
  /\ proc' = "stopping"
  /\ UNCHANGED <<rows, pool, past, crashes>>

\* The process is gone: killed, or stopping and out of its deadline.  What
\* its workers were doing is gone with it.
Die ==
  /\ proc # "down"
  /\ crashes < MaxCrashes
  /\ crashes' = crashes + 1
  /\ proc'  = "down"
  /\ at'    = [w \in Workers |-> "idle"]
  /\ holds' = [w \in Workers |-> NoJob]
  /\ try'   = [w \in Workers |-> 0]
  /\ UNCHANGED <<rows, past>>

\* Runner.Start: one reclaim before the first worker runs.
Start ==
  /\ proc = "down"
  /\ proc' = "up"
  /\ ReclaimStaleJobs
  /\ UNCHANGED <<pool, worked, dead, stolen, crashes>>

Tick ==
  /\ runIn' = [j \in JobIds |->
        IF status[j] # "absent" /\ runIn[j] > -MaxOverdue THEN runIn[j] - 1
                                                          ELSE runIn[j]]
  /\ lockAge' = [j \in JobIds |->
        IF lockedBy[j] # NoWorker /\ lockAge[j] <= Lease THEN lockAge[j] + 1
                                                         ELSE lockAge[j]]
  /\ UNCHANGED <<status, kind, key, attempts, lockedBy, proc, pool, past, crashes>>

Record(w) ==
  RecordDone(w) \/ RecordUnhandled(w) \/ RecordRetry(w) \/ RecordGivingUp(w)

Next ==
  \/ \E k \in Kinds, dk \in Keys \cup {NoKey}, d \in Delays : Enqueue(k, dk, d)
  \/ \E w \in Workers :
       \/ Claim(w)
       \/ \E outcome \in {"succeeded", "erred"} : HandlerReturns(w, outcome)
       \/ RecordDone(w)
       \/ RecordUnhandled(w)
       \/ RecordRetry(w)
       \/ RecordGivingUp(w)
  \/ Sweep
  \/ Shutdown
  \/ Die
  \/ Start
  \/ Tick

\* What the runtime gives a live process: its goroutines run, its ticker
\* fires, time passes; every handler bounds its own calls by a timeout, so
\* it returns; a supervisor restarts a process that is gone; and one told
\* to stop does exit.
Fairness ==
  /\ \A w \in Workers :
       /\ WF_vars(Claim(w))
       /\ WF_vars(\E outcome \in {"succeeded", "erred"} : HandlerReturns(w, outcome))
       /\ WF_vars(Record(w))
  /\ WF_vars(Sweep)
  /\ WF_vars(Start)
  /\ WF_vars(proc = "stopping" /\ Die)
  /\ WF_vars(Tick)

Spec == Init /\ [][Next]_vars
FairSpec == Spec /\ Fairness

-----------------------------------------------------------------------------
(* How the pool and the table agree: the strengthening the proofs need.    *)

\* A worker between jobs carries nothing; one with a job carries a copy of a
\* row that exists, whose count of tries is never ahead of the row's, and
\* whose kind decides whether a handler ran.
WorkerCoherent ==
  \A w \in Workers :
    /\ at[w] = "idle" <=> holds[w] = NoJob
    /\ holds[w] # NoJob =>
         /\ status[holds[w]] # "absent"
         /\ try[w] <= attempts[holds[w]]
         /\ holds[w] \notin stolen => try[w] = attempts[holds[w]]
         /\ at[w] = "unhandled" <=> kind[holds[w]] \notin Handled
    /\ at[w] = "succeeded" => holds[w] \in worked
    /\ proc = "down" => at[w] = "idle"

\* Error retries leave a row short of its limit, and a try past the limit
\* takes a reclaim.
RowCoherent ==
  \A j \in JobIds :
    /\ status[j] = "absent" => attempts[j] = 0
    /\ (status[j] = "pending" /\ j \notin returned) => attempts[j] < MaxAttempts
    /\ j \in stolen => j \in returned /\ status[j] # "absent"

-----------------------------------------------------------------------------
(* What the queue gets right.                                              *)

\* Whatever callers, retries, sweeps and restarts do, at most one pending
\* row carries a dedupe key: the promise EnqueueOnce and every webhook and
\* scheduler tick rely on.
OnePendingPerKey ==
  \A i, j \in JobIds :
    (/\ i # j
     /\ status[i] = "pending" /\ status[j] = "pending"
     /\ key[i] # NoKey) => key[i] # key[j]

\* A worker whose job was never taken from under it still owns the row, so
\* what it is about to write WHERE id = ? lands on its own claim.
HolderOwnsRow ==
  \A w \in Workers :
    (holds[w] # NoJob /\ holds[w] \notin stolen) =>
      status[holds[w]] = "running" /\ lockedBy[holds[w]] = w

\* Two workers carry the same job only if a lease ran out under one of them:
\* restarts, retries and the startup reclaim never double a run.
DoubledOnlyByOverrun ==
  \A v, w \in Workers :
    (v # w /\ holds[v] = holds[w] /\ holds[v] # NoJob) => holds[v] \in stolen

\* A row reads done only if its handler did return nil for it: a shutdown, a
\* crash between the work and the write, or a stale writer never makes up a
\* success.
DoneMeansWorked ==
  \A j \in JobIds : status[j] = "done" => j \in worked

\* Only a reclaim can make a job start more often than max_attempts; error
\* retries alone never do.
OverspentOnlyByReclaim ==
  \A j \in JobIds : attempts[j] > MaxAttempts => j \in returned

\* A job this build can run is given up only after its last try, also when
\* the worker giving it up holds an outdated copy of the attempt count.
GivesUp(j) == status[j] # "failed" /\ status'[j] = "failed" /\ kind[j] \in Handled

SpentWhenGivenUp == \A j \in JobIds : GivesUp(j) => attempts[j] >= MaxAttempts
GivesUpOnlySpent == [][SpentWhenGivenUp]_vars

\* No job this build can run fails in silence: the step that marks it failed
\* is one that called OnDeadLetter for it, the only voice a dead letter has.
HeardWhenGivenUp == \A j \in JobIds : GivesUp(j) => j \in dead'
DeadLettersAreHeard == [][HeardWhenGivenUp]_vars

\* Every enqueued job comes to an end, done or failed, and stays there:
\* through handler errors, a killed process, a restart and leases that run out.
Settled(j) == status[j] \in {"done", "failed"}
EveryJobSettles ==
  \A j \in JobIds : status[j] = "pending" ~> []Settled(j)

\* The queue implements AtLeastOnce: pending and running rows are owed, a
\* failed row is dead, and a lease is overrun when a reclaim takes a row from
\* a live worker.
Verdict(s) == IF s \in {"pending", "running"} THEN "owed"
              ELSE IF s = "failed" THEN "dead" ELSE s

Promise == INSTANCE AtLeastOnce WITH
             verdict <- [j \in JobIds |-> Verdict(status[j])],
             overrun <- stolen

KeepsPromise == Promise!Spec

-----------------------------------------------------------------------------
(* What its comments say and the code does not do.                         *)

\* queries/jobs.sql: claiming spends an attempt, "otherwise a job that panics
\* the process retries forever".
AttemptsWithinLimit ==
  \A j \in JobIds : attempts[j] <= MaxAttempts

\* runner.go: OnDeadLetter is called "for a job that has run out of attempts".
DeadLettersAreSpent ==
  \A j \in dead : attempts[j] >= MaxAttempts

\* queries/jobs.sql: reclaiming "is what stops that work being stranded".
NoStrandedJob ==
  \A j \in JobIds : status[j] = "running" ~> status[j] # "running"
=============================================================================
