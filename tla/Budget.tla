------------------------------- MODULE Budget -------------------------------
(***************************************************************************)
(* The monthly token budget (internal/llm/budget.go), between the workers  *)
(* that read mail and the model: a counter kept in memory, refreshed from  *)
(* the sum over ingest_proposals when it is a minute old or of another     *)
(* month, and an alert that is raised once.                                *)
(*                                                                         *)
(* The mutex is held for the counter and the flag only: the sum, the call, *)
(* the alert and the row a call ends up in are steps of their own.  A call *)
(* takes seconds and the sum does not: one begun after a sum was read does *)
(* not return before that sum is in the counter.  Every call costs one     *)
(* unit, and a limit of zero, which is no budget at all, is left out.      *)
(***************************************************************************)
EXTENDS Integers, FiniteSets

CONSTANTS
  Workers,
  Limit,       \* llm.monthly_token_budget
  MaxCalls,    \* bound: calls in a month
  MaxMonths,   \* bound
  MaxStarts    \* bound: restarts

BudgetAssumption ==
  /\ IsFiniteSet(Workers) /\ Workers # {}     \* jobs.workers is at least 1
  /\ Limit \in Nat \ {0} /\ {MaxCalls, MaxMonths, MaxStarts} \subseteq Nat

\* Where a worker is.  "others" are the ones at the model when it read the sum.
States ==
  [at : {"idle", "reading", "resolving", "calling", "publishing", "returned"}, then : {"idle", "returned"}]
    \cup [at : {"storing"}, sum : Nat, others : SUBSET Workers]
At(state) == [at |-> state, then |-> "idle"]

VARIABLES
  spent, fresh, tripped,   \* Budget: the reading, whether it stands, the flag
  ledger,                  \* what the proposals of the month add up to
  open,                    \* whether the alert is open
  worker,
  month, starts,
  paid,      \* history: calls begun this month
  lost,      \* history: of those, the ones no proposal of the month tells of
  crossed    \* history: an alert was lost, or raised while it was being resolved

memory == <<spent, fresh, tripped>>
vars   == <<memory, ledger, open, worker, month, starts, paid, lost, crossed>>

TypeOK ==
  /\ spent \in Nat /\ fresh \in BOOLEAN /\ tripped \in BOOLEAN
  /\ ledger \in Nat /\ open \in BOOLEAN
  /\ worker \in [Workers -> States]
  /\ month \in 0 .. MaxMonths /\ starts \in 0 .. MaxStarts
  /\ paid \in 0 .. MaxCalls /\ lost \in Nat /\ crossed \in BOOLEAN

Init ==
  /\ spent = 0 /\ fresh = FALSE /\ tripped = FALSE
  /\ ledger = 0 /\ open = FALSE
  /\ worker = [w \in Workers |-> At("idle")]
  /\ month = 0 /\ starts = 0 /\ paid = 0 /\ lost = 0 /\ crossed = FALSE

\* A worker that is back from the model is none of the others any more.
Goes(w, state) ==
  worker' = [v \in Workers |->
               IF v = w THEN state
               ELSE IF worker[v].at = "storing" /\ worker[w].at = "calling"
                      THEN [worker[v] EXCEPT !.others = @ \ {w}]
                      ELSE worker[v]]
Some(state) == \E w \in Workers : worker[w].at = state

-----------------------------------------------------------------------------
(* Check, and what it ends with.                                           *)

SwitchOn(w, then) ==
  /\ tripped' = TRUE
  /\ Goes(w, IF tripped THEN At(then) ELSE [at |-> "publishing", then |-> then])
  /\ crossed' = (crossed \/ (~tripped /\ Some("resolving")))

SwitchOff(w) ==
  /\ tripped' = FALSE
  /\ Goes(w, At(IF tripped THEN "resolving" ELSE "calling"))
  /\ crossed' = (crossed \/ (tripped /\ Some("publishing")))

\* Check on a reading of sum tokens: clear and let through, or trip and refuse.
Check(w, sum) ==
  \/ /\ sum < Limit
     /\ SwitchOff(w)
     /\ paid' = paid + 1
  \/ /\ sum >= Limit
     /\ SwitchOn(w, "idle")
     /\ UNCHANGED paid

MayCall == paid + Cardinality({w \in Workers : worker[w].at \in {"reading", "storing"}}) < MaxCalls

\* reading, on a reading that stands.
ReadCached(w) ==
  /\ worker[w] = At("idle") /\ fresh /\ MayCall
  /\ Check(w, spent)
  /\ UNCHANGED <<spent, fresh, ledger, open, month, starts, lost>>

ReadStale(w) ==
  /\ worker[w] = At("idle") /\ ~fresh /\ MayCall
  /\ Goes(w, At("reading"))
  /\ UNCHANGED <<memory, ledger, open, month, starts, paid, lost, crossed>>

SumProposalTokensSince(w) ==
  /\ worker[w].at = "reading"
  /\ Goes(w, [at |-> "storing", sum |-> ledger,
              others |-> {v \in Workers \ {w} : worker[v].at = "calling"}])
  /\ UNCHANGED <<memory, ledger, open, month, starts, paid, lost, crossed>>

\* A sum that cannot be read lets the call through.
ReadFails(w) ==
  /\ worker[w].at = "reading"
  /\ paid' = paid + 1
  /\ lost' = lost + 1
  /\ Goes(w, At("calling"))
  /\ UNCHANGED <<memory, ledger, open, month, starts, crossed>>

Store(w) ==
  /\ worker[w].at = "storing"
  /\ spent' = worker[w].sum /\ fresh' = TRUE
  /\ Check(w, worker[w].sum)
  /\ UNCHANGED <<ledger, open, month, starts, lost>>

\* Both under a flag that was set before; the bus may fail to write it down.
Publish(w) ==
  /\ worker[w].at = "publishing"
  /\ \/ open' = TRUE /\ UNCHANGED crossed
     \/ crossed' = TRUE /\ UNCHANGED open
  /\ Goes(w, At(worker[w].then))
  /\ UNCHANGED <<memory, ledger, month, starts, paid, lost>>

Resolve(w) ==
  /\ worker[w].at = "resolving"
  /\ \/ open' = FALSE /\ UNCHANGED crossed
     \/ crossed' = TRUE /\ UNCHANGED open
  /\ Goes(w, At("calling"))
  /\ UNCHANGED <<memory, ledger, month, starts, paid, lost>>

-----------------------------------------------------------------------------
(* The call and its proposal.                                              *)

MayReturn(w) == \A v \in Workers : worker[v].at = "storing" => w \in worker[v].others

SpendNothing(w) ==     \* mutant: the usage is not added
  Goes(w, At("returned")) /\ UNCHANGED <<memory, crossed>>
Spend(w) ==
  /\ spent' = spent + 1
  /\ \/ spent' >= Limit /\ SwitchOn(w, "returned")
     \/ spent' < Limit /\ Goes(w, At("returned")) /\ UNCHANGED <<tripped, crossed>>
  /\ UNCHANGED fresh

Generate(w) ==
  /\ worker[w] = At("calling") /\ MayReturn(w)
  /\ Spend(w)
  /\ UNCHANGED <<ledger, open, month, starts, paid, lost>>

\* An error is not counted, whatever it cost.
GenerateFails(w) ==
  /\ worker[w] = At("calling")
  /\ lost' = lost + 1
  /\ Goes(w, At("idle"))
  /\ UNCHANGED <<memory, ledger, open, month, starts, paid, crossed>>

\* CreateProposal, or RecordProposalExtract on one of this month.
CreateProposal(w) ==
  /\ worker[w] = At("returned")
  /\ ledger' = ledger + 1
  /\ Goes(w, At("idle"))
  /\ UNCHANGED <<memory, open, month, starts, paid, lost, crossed>>

\* The row cannot be written, or is one of an earlier month's: the sum goes by
\* when a proposal was made and not by when its tokens were spent.
WriteElsewhere(w) ==
  /\ worker[w] = At("returned")
  /\ lost' = lost + 1
  /\ Goes(w, At("idle"))
  /\ UNCHANGED <<memory, ledger, open, month, starts, paid, crossed>>

-----------------------------------------------------------------------------
(* Time and restarts.                                                      *)

Minute ==
  /\ fresh' = FALSE
  /\ UNCHANGED <<spent, tripped, ledger, open, worker, month, starts, paid, lost, crossed>>

MonthTurns ==
  /\ month < MaxMonths
  /\ month' = month + 1
  /\ ledger' = 0 /\ fresh' = FALSE /\ paid' = 0 /\ lost' = 0
  /\ UNCHANGED <<spent, tripped, open, worker, starts, crossed>>

\* NewBudget: nothing is read back, the flag included.
Restart ==
  /\ starts < MaxStarts
  /\ starts' = starts + 1
  /\ spent' = 0 /\ fresh' = FALSE /\ tripped' = FALSE
  /\ lost' = lost + Cardinality({w \in Workers : worker[w].at \in {"calling", "returned", "resolving"}
                                                  \/ worker[w] = [at |-> "publishing", then |-> "returned"]})
  /\ worker' = [w \in Workers |-> At("idle")]
  /\ UNCHANGED <<ledger, open, month, paid, crossed>>

Next ==
  \/ \E w \in Workers :
       \/ ReadCached(w) \/ ReadStale(w) \/ SumProposalTokensSince(w) \/ ReadFails(w) \/ Store(w)
       \/ Publish(w) \/ Resolve(w)
       \/ Generate(w) \/ GenerateFails(w) \/ CreateProposal(w) \/ WriteElsewhere(w)
  \/ Minute \/ MonthTurns \/ Restart

Spec == Init /\ [][Next]_vars

-----------------------------------------------------------------------------
Quiet == ~Some("publishing") /\ ~Some("resolving")

\* However the workers interleave, a month costs at most the limit, one call of
\* each worker and one more of each of the others that the counter was refreshed
\* past, besides the calls no proposal of the month tells of; and while nothing
\* was lost, the flag goes with an open alert, and until a restart an open alert
\* with the flag.
BreakerHolds ==
  /\ TypeOK
  /\ paid - lost <= Limit - 1 + 2 * Cardinality(Workers) - 1
  /\ Quiet /\ ~crossed => /\ tripped => open
                          /\ starts = 0 => (open => tripped)

\* budget.go: clear "says the condition has passed, which happens at the turn of
\* a month or when somebody raises the limit".  A limit is raised by a restart,
\* after which the flag is down and clear returns before it resolves.
AlertClears == Quiet /\ ~crossed /\ open => tripped
=============================================================================
