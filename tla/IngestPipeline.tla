--------------------------- MODULE IngestPipeline ---------------------------
(***************************************************************************)
(* internal/ingest: how a filed email becomes a proposal and a proposal    *)
(* becomes a record, between queue workers that classify and extract, the  *)
(* sweep that finds what they missed, and a person at the review screen.   *)
(*                                                                         *)
(* Every database call of Classify and Extract is a step of its own, so    *)
(* whatever two workers and the operator may do between two of them is     *)
(* explored.  Apply, Reject and the PATCH handler each run in one write    *)
(* transaction on the one writer connection, and are one step.             *)
(*                                                                         *)
(* The queue is taken at its word (JobQueue, AtLeastOnce): a job enqueued  *)
(* is run, perhaps more than once, perhaps by two workers at a time when a *)
(* lease runs out, until it is done or given up.  A job is known by what   *)
(* it is about: the dedupe key carries nothing else.                       *)
(***************************************************************************)
EXTENDS Integers, FiniteSets

CONSTANTS
  Msgs,          \* messages the mailbox may deliver
  NoMsg,
  Props,         \* bound: ids ingest_proposals hands out, in order
  NoProp,
  Kinds,         \* what the classifier may call a document
  NoKind,
  Extractable,   \* llm.HasExtractor, and the kinds file() can write
  Receipt,       \* the one kind that may be filed unread
  Places,        \* properties in the portfolio
  NoPlace,       \* property_id IS NULL
  Workers,
  AutoApply,     \* config: ingest.auto_apply
  Corrected,     \* bound: proposals the person may correct by hand
  Slow,          \* bound: the workers that may outlive their lease
  MaxCrashes     \* bound: process deaths considered

ASSUME PipelineAssumption ==
  /\ NoMsg \notin Msgs
  /\ Props \subseteq Nat
  /\ NoProp \notin Props
  /\ Extractable \subseteq Kinds
  /\ NoKind \notin Kinds
  /\ Receipt \in Extractable
  /\ NoPlace \notin Places
  /\ AutoApply \in BOOLEAN
  /\ Corrected \subseteq Props
  /\ Slow \subseteq Workers
  /\ MaxCrashes \in Nat

VARIABLES
  msg,        \* email_messages.status, or "absent" for mail yet to come
  of,         \* ingest_proposals.email_message_id; NoMsg: no such row yet
  kind,       \* ingest_proposals.kind
  payload,    \* .payload: "{}", or who wrote what it says
  place,      \* .property_id
  verdict,    \* .status
  entries,    \* how often file() has written its record to the books
  filed,      \* what the last such write was made from
  toClassify, \* messages with a classify job pending
  toExtract,  \* proposals with an extract job pending
  swept,      \* messages the running sweep has listed and not yet queued
  at,         \* where each worker is in its handler
  does,       \* the kind of job a worker runs
  onMsg,      \* the message a worker is about
  onProp,     \* the proposal a worker is about
  seen,       \* the property_id an Extract read at its start
  late,       \* the job row a worker runs for is no longer its own claim
  budget,     \* the monthly token budget has room
  overlapped, \* history: messages two Classify runs were past the check for
  overran,    \* history: messages a worker outlived its lease on
  crossed,    \* history: proposals corrected while an extraction had them
  crashes     \* history: process deaths so far

proposals == <<of, kind, payload, place, verdict>>
books     == <<entries, filed>>
queue     == <<toClassify, toExtract, swept>>
pool      == <<at, does, onMsg, onProp, seen, late>>
past      == <<overlapped, overran, crossed, crashes>>
vars == <<msg, proposals, books, queue, pool, budget, past>>

MsgStates == {"absent", "received", "parsing", "needs_review", "applied", "rejected"}
Payloads  == {"{}", "read", "edited"}
Verdicts  == {"pending", "approved", "auto_applied", "rejected"}
Filings   == [kind : Kinds, payload : Payloads, place : Places]
NoFiling  == [kind |-> NoKind, payload |-> "{}", place |-> NoPlace]
Stages    == {"idle", "checked", "asking", "queueing",
              "extracting", "applying", "routing"}

RowTypes ==
  /\ msg     \in [Msgs -> MsgStates]
  /\ of      \in [Props -> Msgs \cup {NoMsg}]
  /\ kind    \in [Props -> Kinds \cup {NoKind}]
  /\ payload \in [Props -> Payloads]
  /\ place   \in [Props -> Places \cup {NoPlace}]
  /\ verdict \in [Props -> Verdicts]

BookTypes ==
  /\ entries \in [Props -> Nat]
  /\ filed   \in [Props -> Filings \cup {NoFiling}]

QueueTypes ==
  /\ toClassify \subseteq Msgs
  /\ toExtract \subseteq Props
  /\ swept \subseteq Msgs

PoolTypes ==
  /\ at     \in [Workers -> Stages]
  /\ does   \in [Workers -> {"none", "classify", "extract"}]
  /\ onMsg  \in [Workers -> Msgs \cup {NoMsg}]
  /\ onProp \in [Workers -> Props \cup {NoProp}]
  /\ seen   \in [Workers -> Places \cup {NoPlace}]
  /\ late   \in [Workers -> BOOLEAN]

PastTypes ==
  /\ budget \in BOOLEAN
  /\ overlapped \subseteq Msgs
  /\ overran \subseteq Msgs
  /\ crossed \subseteq Props
  /\ crashes \in 0 .. MaxCrashes

TypeOK == RowTypes /\ BookTypes /\ QueueTypes /\ PoolTypes /\ PastTypes

Init ==
  /\ msg     = [m \in Msgs |-> "absent"]
  /\ of      = [p \in Props |-> NoMsg]
  /\ kind    = [p \in Props |-> NoKind]
  /\ payload = [p \in Props |-> "{}"]
  /\ place   = [p \in Props |-> NoPlace]
  /\ verdict = [p \in Props |-> "pending"]
  /\ entries = [p \in Props |-> 0]
  /\ filed   = [p \in Props |-> NoFiling]
  /\ toClassify = {} /\ toExtract = {} /\ swept = {}
  /\ at      = [w \in Workers |-> "idle"]
  /\ does    = [w \in Workers |-> "none"]
  /\ onMsg   = [w \in Workers |-> NoMsg]
  /\ onProp  = [w \in Workers |-> NoProp]
  /\ seen    = [w \in Workers |-> NoPlace]
  /\ late    = [w \in Workers |-> FALSE]
  /\ budget = TRUE
  /\ overlapped = {} /\ overran = {} /\ crossed = {}
  /\ crashes = 0

-----------------------------------------------------------------------------
(* The tables.                                                             *)

Fresh          == {p \in Props : of[p] = NoMsg}
HasProposal(m) == \E p \in Props : of[p] = m

\* setMessage: an UPDATE by id, whatever the row says by now.
SetMessage(m, s) == msg' = [msg EXCEPT ![m] = s]

\* Messages the sweep sees: ListMessagesAwaitingProposal.
AwaitingAnswer ==                    \* mutant: sweeps the wrong standing
  {m \in Msgs : msg[m] = "parsing" /\ ~HasProposal(m)}

Awaiting == {m \in Msgs : msg[m] = "received" /\ ~HasProposal(m)}

\* What Apply asks of a proposal before it files anything.
EverDecided(p) == of[p] # NoMsg      \* mutant: settles what is settled
Undecided(p) == of[p] # NoMsg /\ verdict[p] = "pending"
Fileable(p) ==
  /\ Undecided(p)
  /\ place[p] # NoPlace
  /\ payload[p] # "{}"
  /\ kind[p] \in Extractable

\* Apply, when nothing makes it refuse: record, settlement and standing.
Apply(p, how) ==
  /\ Fileable(p)
  /\ entries' = [entries EXCEPT ![p] = @ + 1]
  /\ filed'   = [filed EXCEPT ![p] =
                   [kind |-> kind[p], payload |-> payload[p], place |-> place[p]]]
  /\ verdict' = [verdict EXCEPT ![p] = how]
  /\ SetMessage(of[p], "applied")
  /\ UNCHANGED <<of, kind, payload, place>>

-----------------------------------------------------------------------------
(* How a worker's job ends.                                                *)

Release(w) ==
  /\ at'     = [at EXCEPT ![w] = "idle"]
  /\ does'   = [does EXCEPT ![w] = "none"]
  /\ onMsg'  = [onMsg EXCEPT ![w] = NoMsg]
  /\ onProp' = [onProp EXCEPT ![w] = NoProp]
  /\ seen'   = [seen EXCEPT ![w] = NoPlace]

SameJob(v, w) ==
  /\ does[v] = does[w]
  /\ IF does[w] = "classify" THEN onMsg[v] = onMsg[w] ELSE onProp[v] = onProp[w]

\* The handler returns nil, having queued extracts.  A worker that lost its
\* claim marks the row done all the same, under whoever has it now, unless
\* the job pending or running there is another row.
JobDone(w, extracts) ==
  /\ \E stale \in {FALSE, late[w]} :
       /\ toClassify' = IF stale /\ does[w] = "classify"
                        THEN toClassify \ {onMsg[w]} ELSE toClassify
       /\ toExtract'  = IF stale /\ does[w] = "extract"
                        THEN toExtract \ {onProp[w]} ELSE toExtract \cup extracts
       /\ late' = [v \in Workers |->
                     v # w /\ (late[v] \/ (stale /\ SameJob(v, w)))]
  /\ Release(w)

\* The handler returns an error: another try, or none left.
JobFails(w) ==
  /\ \/ UNCHANGED <<toClassify, toExtract>>
     \/ /\ does[w] = "classify"
        /\ toClassify' = toClassify \cup {onMsg[w]}
        /\ UNCHANGED toExtract
     \/ /\ does[w] = "extract"
        /\ toExtract' = toExtract \cup {onProp[w]}
        /\ UNCHANGED toClassify
  /\ late' = [late EXCEPT ![w] = FALSE]
  /\ Release(w)

-----------------------------------------------------------------------------
(* Mail and the sweep.                                                     *)

\* The syncer files a message; the direct enqueue may not happen.
Arrive(m) ==
  /\ msg[m] = "absent"
  /\ SetMessage(m, "received")
  /\ \/ toClassify' = toClassify \cup {m}
     \/ UNCHANGED toClassify
  /\ UNCHANGED <<proposals, books, toExtract, swept, pool, budget, past>>

SweepLists ==
  /\ budget
  /\ swept = {}
  /\ Awaiting # {}
  /\ swept' = Awaiting
  /\ UNCHANGED <<msg, proposals, books, toClassify, toExtract, pool, budget, past>>

SweepQueues(m) ==
  /\ m \in swept
  /\ swept' = swept \ {m}
  /\ toClassify' = toClassify \cup {m}
  /\ UNCHANGED <<msg, proposals, books, toExtract, pool, budget, past>>

-----------------------------------------------------------------------------
(* Classify.                                                               *)

\* Stages of a Classify that has looked for a proposal and not yet made one.
PastCheck(w, m) == at[w] \in {"checked", "asking"} /\ onMsg[w] = m

UnreadByStanding(m) ==               \* mutant: does not look for a proposal
  msg[m] \in {"received", "parsing"}

Unread(m) == msg[m] \in {"received", "parsing"} /\ ~HasProposal(m)

\* A message that is not to be read, or read already, finishes the job.
ClassifyReads(w, m) ==
  /\ at[w] = "idle"
  /\ m \in toClassify
  /\ toClassify' = toClassify \ {m}
  /\ IF Unread(m)
     THEN /\ at'    = [at EXCEPT ![w] = "checked"]
          /\ does'  = [does EXCEPT ![w] = "classify"]
          /\ onMsg' = [onMsg EXCEPT ![w] = m]
          /\ overlapped' = IF \E v \in Workers : PastCheck(v, m)
                           THEN overlapped \cup {m} ELSE overlapped
     ELSE UNCHANGED <<at, does, onMsg, overlapped>>
  /\ UNCHANGED <<msg, proposals, books, toExtract, swept, onProp, seen, late,
                 budget, overran, crossed, crashes>>

ClassifyMarks(w) ==
  /\ at[w] = "checked"
  /\ SetMessage(onMsg[w], "parsing")
  /\ at' = [at EXCEPT ![w] = "asking"]
  /\ UNCHANGED <<proposals, books, queue, does, onMsg, onProp, seen, late, budget, past>>

\* The model does not answer, or the row cannot be written: back to received.
\* A spent budget finishes the job (budgeted); anything else fails it.
ClassifyFailsInPlace(w) ==           \* mutant: leaves the message in parsing
  /\ at[w] = "asking"
  /\ UNCHANGED msg
  /\ \/ JobFails(w)
     \/ ~budget /\ JobDone(w, {})
  /\ UNCHANGED <<proposals, books, swept, budget, past>>

ClassifyFails(w) ==
  /\ at[w] = "asking"
  /\ SetMessage(onMsg[w], "received")
  /\ \/ JobFails(w)
     \/ ~budget /\ JobDone(w, {})
  /\ UNCHANGED <<proposals, books, swept, budget, past>>

\* The model answers k, and the address matches a property or none.
ClassifyProposes(w) ==
  /\ at[w] = "asking"
  /\ budget
  /\ \E p \in Fresh, k \in Kinds, pl \in Places \cup {NoPlace} :
       /\ \A q \in Fresh : p <= q
       /\ of'    = [of EXCEPT ![p] = onMsg[w]]
       /\ kind'  = [kind EXCEPT ![p] = k]
       /\ place' = [place EXCEPT ![p] = pl]
       /\ onProp' = [onProp EXCEPT ![w] = p]
       /\ at' = [at EXCEPT ![w] = IF k \in Extractable THEN "queueing"
                                                       ELSE "routing"]
  /\ UNCHANGED <<msg, payload, verdict, books, queue, does, onMsg, seen, late,
                 budget, past>>

ClassifyQueues(w) ==
  /\ at[w] = "queueing"
  /\ JobDone(w, {onProp[w]})
  /\ UNCHANGED <<msg, proposals, books, swept, budget, past>>

\* The enqueue fails, and with it the job; its next run finds the proposal.
ClassifyCannotQueue(w) ==
  /\ at[w] = "queueing"
  /\ JobFails(w)
  /\ UNCHANGED <<msg, proposals, books, swept, budget, past>>

-----------------------------------------------------------------------------
(* Extract.                                                                *)

UnsettledOnly(p) == Undecided(p)     \* mutant: reads again what is read

Unextracted(p) == Undecided(p) /\ payload[p] = "{}"

\* A kind nothing extracts goes to a person without a call being made.
ExtractReads(w, p) ==
  /\ at[w] = "idle"
  /\ p \in toExtract
  /\ toExtract' = toExtract \ {p}
  /\ IF Unextracted(p)
     THEN /\ at'     = [at EXCEPT ![w] = IF kind[p] \in Extractable
                                         THEN "extracting" ELSE "routing"]
          /\ does'   = [does EXCEPT ![w] = "extract"]
          /\ onMsg'  = [onMsg EXCEPT ![w] = of[p]]
          /\ onProp' = [onProp EXCEPT ![w] = p]
          /\ seen'   = [seen EXCEPT ![w] = place[p]]
     ELSE UNCHANGED <<at, does, onMsg, onProp, seen>>
  /\ UNCHANGED <<msg, proposals, books, toClassify, swept, late, budget, past>>

\* The model does not answer.  The message is left as it is.
ExtractFails(w) ==
  /\ at[w] = "extracting"
  /\ \/ JobFails(w)
     \/ ~budget /\ JobDone(w, {})
  /\ UNCHANGED <<msg, proposals, books, swept, budget, past>>

\* The conditions under which a row just read may be filed without a person;
\* clean: nothing to complain about, and confident enough.
AutoApplies(p, clean, exact) ==
  AutoApply /\ clean /\ exact /\ kind[p] = Receipt

\* RecordProposalExtract: an UPDATE by id.  The property is the one the
\* extraction's own address matched, or else the one read at the start.
ExtractRecords(w) ==
  /\ at[w] = "extracting"
  /\ budget
  /\ \E matched \in Places \cup {NoPlace}, exact, clean \in BOOLEAN :
       LET p == onProp[w]
       IN /\ payload' = [payload EXCEPT ![p] = "read"]
          /\ place'   = [place EXCEPT ![p] = IF matched = NoPlace THEN seen[w]
                                                                  ELSE matched]
          /\ at' = [at EXCEPT ![w] =
                      IF AutoApplies(p, clean, exact /\ matched # NoPlace)
                      THEN "applying" ELSE "routing"]
  /\ UNCHANGED <<msg, of, kind, verdict, books, queue, does, onMsg, onProp,
                 seen, late, budget, past>>

\* Apply as ActorSystem.
ExtractApplies(w) ==
  /\ at[w] = "applying"
  /\ Apply(onProp[w], "auto_applied")
  /\ JobDone(w, {})
  /\ UNCHANGED <<swept, budget, past>>

\* Apply refuses: what it checks has changed, or the record cannot be written.
ExtractIsRefused(w) ==
  /\ at[w] = "applying"
  /\ at' = [at EXCEPT ![w] = "routing"]
  /\ UNCHANGED <<msg, proposals, books, queue, does, onMsg, onProp, seen, late,
                 budget, past>>

\* The last write of either handler when a person is to decide.
RouteAsApplied(w) ==                 \* mutant: a refusal taken for a filing
  /\ at[w] = "routing"
  /\ SetMessage(onMsg[w], IF does[w] = "extract" THEN "applied" ELSE "needs_review")
  /\ JobDone(w, {})
  /\ UNCHANGED <<proposals, books, swept, budget, past>>

RouteToReview(w) ==
  /\ at[w] = "routing"
  /\ SetMessage(onMsg[w], "needs_review")
  /\ JobDone(w, {})
  /\ UNCHANGED <<proposals, books, swept, budget, past>>

-----------------------------------------------------------------------------
(* The person at the review screen.                                        *)

\* An extraction has read the row and not yet asked to file it.
Extracting(w, p) == at[w] \in {"extracting", "applying"} /\ onProp[w] = p

\* PATCH: any of kind, payload and property, of a pending proposal.
CorrectAnything(p) ==                \* mutant: takes a settled one too
  /\ p \in Corrected
  /\ of[p] # NoMsg
  /\ \E k \in Kinds, said \in {payload[p], "edited", "{}"},
        pl \in Places \cup {NoPlace} :
       /\ kind'    = [kind EXCEPT ![p] = k]
       /\ payload' = [payload EXCEPT ![p] = said]
       /\ place'   = [place EXCEPT ![p] = pl]
  /\ crossed' = IF \E w \in Workers : Extracting(w, p)
                THEN crossed \cup {p} ELSE crossed
  /\ UNCHANGED <<msg, of, verdict, books, queue, pool, budget, overlapped,
                 overran, crashes>>

Correct(p) ==
  /\ p \in Corrected
  /\ Undecided(p)
  /\ \E k \in Kinds, said \in {payload[p], "edited", "{}"},
        pl \in Places \cup {NoPlace} :
       /\ kind'    = [kind EXCEPT ![p] = k]
       /\ payload' = [payload EXCEPT ![p] = said]
       /\ place'   = [place EXCEPT ![p] = pl]
  /\ crossed' = IF \E w \in Workers : Extracting(w, p)
                THEN crossed \cup {p} ELSE crossed
  /\ UNCHANGED <<msg, of, verdict, books, queue, pool, budget, overlapped,
                 overran, crashes>>

Approve(p) ==
  /\ Apply(p, "approved")
  /\ UNCHANGED <<queue, pool, budget, past>>

Reject(p) ==
  /\ Undecided(p)
  /\ verdict' = [verdict EXCEPT ![p] = "rejected"]
  /\ SetMessage(of[p], "rejected")
  /\ UNCHANGED <<of, kind, payload, place, books, queue, pool, budget, past>>

-----------------------------------------------------------------------------
(* Leases, the process and the budget.                                     *)

\* A sweep of the queue returns the job of a worker that is still at it.
LeaseEnds(w) ==
  /\ w \in Slow
  /\ at[w] # "idle"
  /\ ~late[w]
  /\ late' = [late EXCEPT ![w] = TRUE]
  /\ overran' = overran \cup {onMsg[w]}
  /\ toClassify' = IF does[w] = "classify"
                   THEN toClassify \cup {onMsg[w]} ELSE toClassify
  /\ toExtract' = IF does[w] = "extract"
                  THEN toExtract \cup {onProp[w]} ELSE toExtract
  /\ UNCHANGED <<msg, proposals, books, swept, at, does, onMsg, onProp, seen,
                 budget, overlapped, crossed, crashes>>

\* The process dies and comes back: the rows its workers held are reclaimed,
\* and a sweep that was under way lists again.
Crash ==
  /\ crashes < MaxCrashes
  /\ crashes' = crashes + 1
  /\ toClassify' = toClassify \cup
       {onMsg[w] : w \in {v \in Workers : does[v] = "classify" /\ ~late[v]}}
  /\ toExtract' = toExtract \cup
       {onProp[w] : w \in {v \in Workers : does[v] = "extract" /\ ~late[v]}}
  /\ swept' = {}
  /\ at'     = [w \in Workers |-> "idle"]
  /\ does'   = [w \in Workers |-> "none"]
  /\ onMsg'  = [w \in Workers |-> NoMsg]
  /\ onProp' = [w \in Workers |-> NoProp]
  /\ seen'   = [w \in Workers |-> NoPlace]
  /\ late'   = [w \in Workers |-> FALSE]
  /\ UNCHANGED <<msg, proposals, books, budget, overlapped, overran, crossed>>

\* The month's tokens run out, or a new month begins.
BudgetTurns ==
  /\ budget' = ~budget
  /\ UNCHANGED <<msg, proposals, books, queue, pool, past>>

Work(w) ==
  \/ \E m \in Msgs : ClassifyReads(w, m)
  \/ ClassifyMarks(w)
  \/ ClassifyFails(w)
  \/ ClassifyProposes(w)
  \/ ClassifyQueues(w)
  \/ ClassifyCannotQueue(w)
  \/ \E p \in Props : ExtractReads(w, p)
  \/ ExtractFails(w)
  \/ ExtractRecords(w)
  \/ ExtractApplies(w)
  \/ ExtractIsRefused(w)
  \/ RouteToReview(w)

Next ==
  \/ \E m \in Msgs : Arrive(m) \/ SweepQueues(m)
  \/ SweepLists
  \/ \E w \in Workers : Work(w) \/ LeaseEnds(w)
  \/ \E p \in Props : Correct(p) \/ Approve(p) \/ Reject(p)
  \/ Crash
  \/ BudgetTurns

\* Workers run and the sweep's schedule fires.  Of the model provider no more
\* is asked than that a reading tried again and again succeeds in the end, and
\* of the budget that from some month on it suffices.
Fairness ==
  /\ \A w \in Workers :
       /\ WF_vars(Work(w))
       /\ SF_vars(ClassifyProposes(w))
  /\ \A m \in Msgs : WF_vars(SweepQueues(m))
  /\ SF_vars(SweepLists)
  /\ <>[]budget

Spec == Init /\ [][Next]_vars
FairSpec == Spec /\ Fairness

-----------------------------------------------------------------------------
(* How workers and rows agree: the strengthening the proofs need.          *)

\* A worker carries what its stage says it does, and the proposal it carries
\* is of the message it carries.
Coherent(w) ==
  /\ at[w] = "idle" => does[w] = "none" /\ ~late[w]
  /\ at[w] \in {"checked", "asking", "queueing"} => does[w] = "classify"
  /\ at[w] \in {"extracting", "applying"} => does[w] = "extract"
  /\ at[w] = "routing" => does[w] \in {"classify", "extract"}
  /\ at[w] \in {"checked", "asking"} => onMsg[w] \in Msgs
  /\ at[w] \in {"queueing", "extracting", "applying", "routing"} =>
       onMsg[w] \in Msgs /\ onProp[w] \in Props /\ of[onProp[w]] = onMsg[w]
  /\ late[w] => onMsg[w] \in overran

WorkerCoherent == \A w \in Workers : Coherent(w)

\* A row not written yet has been decided by nobody; a message not read yet
\* stands as one.
RowCoherent ==
  /\ \A p \in Props :
       of[p] = NoMsg => verdict[p] = "pending" /\ payload[p] = "{}"
  /\ \A m \in Msgs : msg[m] = "needs_review" => HasProposal(m)

\* Two Classify runs past the check, or one past a check that no longer
\* holds, have overlapped.
OverlapSeen ==
  \A m \in Msgs, w \in Workers :
    PastCheck(w, m) =>
      /\ HasProposal(m) => m \in overlapped
      /\ \A v \in Workers : v # w /\ PastCheck(v, m) => m \in overlapped

\* An extraction has its proposal to itself: no second worker carries it and
\* no job for it is pending, but where a worker outlived its lease.
SoleReader ==
  /\ \A p \in toExtract : of[p] # NoMsg
  /\ \A w \in Workers :
       /\ at[w] \in {"idle", "checked", "asking"} => onProp[w] = NoProp
       /\ (onProp[w] # NoProp /\ onMsg[w] \notin overran) =>
            /\ onProp[w] \notin toExtract
            /\ \A v \in Workers : v # w => onProp[v] # onProp[w]

\* The row an extraction has is as the extraction left it: blank until it
\* records, and what it judged until it files.
ReadsAlone ==
  \A w \in Workers, p \in Props :
    (Extracting(w, p) /\ p \notin crossed) =>
      /\ (at[w] = "extracting" /\ of[p] \notin overran) => payload[p] = "{}"
      /\ at[w] = "applying" => kind[p] = Receipt /\ payload[p] = "read"

-----------------------------------------------------------------------------
(* What the gate and the pipeline get right.                               *)

\* The books and the verdicts never disagree: a proposal has a record exactly
\* when it was approved or auto-applied, and then exactly one, whatever
\* approvals, automatic filings and rejections raced for it.
LedgerMatchesVerdicts ==
  \A p \in Props :
    entries[p] = IF verdict[p] \in {"approved", "auto_applied"} THEN 1 ELSE 0

\* A message reads applied or rejected only on the strength of a proposal
\* that was: no late status write makes up a decision.
StandingHasVerdict ==
  \A m \in Msgs :
    /\ msg[m] = "applied" =>
         \E p \in Props : of[p] = m /\ verdict[p] \in {"approved", "auto_applied"}
    /\ msg[m] = "rejected" => \E p \in Props : of[p] = m /\ verdict[p] = "rejected"

\* Retries, sweeps, crashes and reruns never make a second proposal of a
\* message; only two Classify runs past the check at one time do.
DoubledOnlyByOverlap ==
  \A p, q \in Props :
    (p # q /\ of[p] = of[q] /\ of[p] # NoMsg) => of[p] \in overlapped

\* A message in the middle of its first reading is within reach until it has
\* a proposal: a job is pending for it or a worker is on it, or the sweep can
\* see it, whatever failed on the way.  A worker past its lease is the only
\* exception.
UnreadIsWithinReach ==
  \A m \in Msgs :
    (msg[m] # "absent" /\ ~HasProposal(m) /\ m \notin overran) =>
      \/ msg[m] = "received"
      \/ m \in toClassify
      \/ \E w \in Workers : PastCheck(w, m)

\* A settled proposal and the record made of it are one account of one fact:
\* no reading rewrites it, unless a person corrected it while an extraction
\* had it, or a worker outlived its lease on its message.
FiledAsItReadsUncrossed ==
  \A p \in Props :
    (entries[p] > 0 /\ p \notin crossed /\ of[p] \notin overran) =>
      filed[p] = [kind |-> kind[p], payload |-> payload[p], place |-> place[p]]

\* What files itself is a receipt as the model read it, whoever else reads it
\* at the time: only a correction between the judgment and the filing makes it
\* anything else.
UnreviewedAsReadUncrossed ==
  \A p \in Props :
    (verdict[p] = "auto_applied" /\ p \notin crossed) =>
      filed[p].kind = Receipt /\ filed[p].payload = "read"

\* What the minutes between an extraction's reading and its writing can do to
\* a row, to a record and to the review gate's one exception.
RewrittenOnlyByCrossing == FiledAsItReadsUncrossed /\ UnreviewedAsReadUncrossed

\* What a person wrote is replaced by what the model read only where the two
\* had the row at once.
HandWrittenStays ==
  [][\A p \in Props :
       (payload[p] = "edited" /\ payload'[p] = "read") =>
         p \in crossed \/ of[p] \in overran]_vars

\* The gate is the one ProposalGate promises.
Standing(p) ==
  IF of[p] = NoMsg THEN "none"
  ELSE IF verdict[p] = "pending" THEN "open"
  ELSE IF verdict[p] = "rejected" THEN "refused" ELSE "filed"

Gate == INSTANCE ProposalGate WITH
          standing <- [p \in Props |-> Standing(p)],
          books    <- entries

KeepsGate == Gate!Spec

\* Every message that arrives gets a proposal, through failed calls, given-up
\* jobs, missed enqueues, spent budgets and restarts.
EveryMessageIsRead == \A m \in Msgs : msg[m] = "received" ~> HasProposal(m)

-----------------------------------------------------------------------------
(* What its comments say and the code does not do.                         *)

\* handlers.go: a job the budget stops leaves mail "the sweep reads once there
\* is budget again".
EveryReadingIsOwed ==
  \A p \in Props :
    (Unextracted(p) /\ kind[p] \in Extractable /\ msg[of[p]] = "parsing") =>
      \/ of[p] \in toClassify
      \/ p \in toExtract
      \/ \E w \in Workers : onProp[w] = p

\* runner.go: "every write in the ingestion path is already keyed so that
\* filing it twice costs nothing".
FiledOncePerMessage ==
  \A p, q \in Props :
    (p # q /\ of[p] = of[q] /\ of[p] # NoMsg) => ~(entries[p] > 0 /\ entries[q] > 0)

\* review.go: a settled proposal is not edited, so that it and the record it
\* produced never are "two accounts of the same fact disagreeing".
FiledAsItReads ==
  \A p \in Props :
    entries[p] > 0 =>
      filed[p] = [kind |-> kind[p], payload |-> payload[p], place |-> place[p]]

\* extract.go: the review gate's one exception is a receipt, as the model read
\* it and validation passed it.
UnreviewedIsAReceiptAsRead ==
  \A p \in Props :
    verdict[p] = "auto_applied" =>
      filed[p].kind = Receipt /\ filed[p].payload = "read"

=============================================================================
