---------------------------- MODULE AtLeastOnce -----------------------------
(***************************************************************************)
(* What the job queue promises its callers, with no table, worker or clock *)
(* in sight.  Work that was accepted is owed until it gets a verdict: done, *)
(* which takes a run that succeeded, or dead.  It may run any number of    *)
(* times before that, and a verdict is never taken back, unless some run   *)
(* of the job overran its lease: from then on two runs may be out at once  *)
(* and the last one to report decides.                                     *)
(***************************************************************************)
CONSTANT JobIds

VARIABLES
  verdict,   \* what the queue owes each job, or has decided of it
  worked,    \* jobs a run has succeeded for
  overrun    \* jobs that lost their lease to a reclaim during a run

vars == <<verdict, worked, overrun>>

Init ==
  /\ verdict = [j \in JobIds |-> "absent"]
  /\ worked = {}
  /\ overrun = {}

Accept(j) ==
  /\ verdict[j] = "absent"
  /\ verdict' = [verdict EXCEPT ![j] = "owed"]
  /\ UNCHANGED <<worked, overrun>>

\* One run of the job succeeds.
Work(j) ==
  /\ verdict[j] = "owed" \/ j \in overrun
  /\ worked' = worked \cup {j}
  /\ UNCHANGED <<verdict, overrun>>

Decide(j, v) ==
  /\ verdict[j] = "owed" \/ j \in overrun
  /\ v = "done" => j \in worked
  /\ verdict' = [verdict EXCEPT ![j] = v]
  /\ UNCHANGED <<worked, overrun>>

\* A late run asks for a retry of a job already decided.
Reopen(j) ==
  /\ j \in overrun
  /\ verdict' = [verdict EXCEPT ![j] = "owed"]
  /\ UNCHANGED <<worked, overrun>>

Overrun(S) ==
  /\ \A j \in S : verdict[j] = "owed"
  /\ overrun' = overrun \cup S
  /\ UNCHANGED <<verdict, worked>>

Next ==
  \/ \E j \in JobIds :
       \/ Accept(j)
       \/ Work(j)
       \/ \E v \in {"done", "dead"} : Decide(j, v)
       \/ Reopen(j)
  \/ \E S \in SUBSET JobIds : Overrun(S)

Spec == Init /\ [][Next]_vars
=============================================================================
