--------------------------- MODULE TelegramSender ---------------------------
(***************************************************************************)
(* internal/telegram, the way out for critical alerts: a small buffer that *)
(* one goroutine drains, bounded retry, and a spool on disk for what could *)
(* not be said (sender.go, spool.go), through orderly restarts and deaths. *)
(*                                                                         *)
(* Alerts are numbered in the order they are raised, which is the order of *)
(* their stamps.  So the buffer, which is first in first out, is a set     *)
(* whose oldest member is its head, and a spooled message goes by the      *)
(* number of its first alert, as its file goes by that alert's stamp.  A   *)
(* message is the set of alerts its text tells of.                         *)
(*                                                                         *)
(* Whether Telegram can be reached and a chat is paired is one flag the    *)
(* world turns.  Routine alerts travel as jobs, which JobQueue models; the *)
(* spacing of messages and the waits between tries are left to fairness.   *)
(***************************************************************************)
EXTENDS Integers, FiniteSets

CONSTANTS
  MaxAlerts,   \* bound: critical alerts raised
  Buffer,      \* criticalBuffer
  Batch,       \* how many waiting alerts one digest joins
  Room,        \* how many of them its text has room for
  Tries,       \* criticalTries
  SpoolLimit,  \* spoolLimit
  MayMishear,  \* bound: whether a send may arrive and be reported as failed
  MaxDeaths    \* bound: process ends that are not orderly

ASSUME SenderAssumption ==
  /\ {MaxAlerts, SpoolLimit, MaxDeaths} \subseteq Nat
  /\ {Buffer, Batch, Room, Tries} \subseteq Nat \ {0}
  /\ MayMishear \in BOOLEAN

Alerts == 1 .. MaxAlerts
Causes == {"death", "limit", "torn", "digest"}

VARIABLES
  raised,   \* how many alerts were raised so far
  buffer,   \* s.critical
  files,    \* the spool: no file, one just created, or one written out
  holds,    \* what each spooled message tells of
  writing,  \* who is in Spool.Add for each of them
  at,       \* where drainCritical is
  due,      \* the listing flushSpool has still to go through
  hand,     \* the message sendOrSpool is about
  tried,    \* how often it was tried
  life,     \* of the process
  main,     \* where shutdown is with this channel
  late,     \* the shutdown deadline has passed
  up,       \* Telegram answers and a chat is paired
  heard,    \* how often each alert reached the chat: 0, 1 or more
  lost,     \* history: alerts let go of, by cause
  unsure,   \* history: a send arrived and was reported as failed
  deaths    \* history: process ends that were not orderly

spool   == <<files, holds, writing>>
drain   == <<at, due, hand, tried>>
process == <<life, main, late>>
past    == <<lost, unsure, deaths>>
vars    == <<raised, buffer, spool, drain, process, up, heard, past>>

TypeOK ==
  /\ raised \in 0 .. MaxAlerts
  /\ buffer \subseteq Alerts
  /\ files \in [Alerts -> {"none", "torn", "full"}]
  /\ holds \in [Alerts -> SUBSET Alerts]
  /\ writing \in [Alerts -> {"nobody", "publisher", "drain", "main"}]
  /\ at \in {"none", "listing", "flushing", "telling", "removing",
             "waiting", "sending", "spooling", "gone"}
  /\ due \subseteq Alerts
  /\ hand \subseteq Alerts
  /\ tried \in 0 .. Tries
  /\ life \in {"up", "stopping", "down"}
  /\ main \in {"serving", "draining", "spooling", "done"}
  /\ late \in BOOLEAN
  /\ up \in BOOLEAN
  /\ heard \in [Alerts -> 0 .. 2]
  /\ lost \in [Causes -> SUBSET Alerts]
  /\ unsure \in BOOLEAN
  /\ deaths \in 0 .. MaxDeaths

Init ==
  /\ raised = 0
  /\ buffer = {}
  /\ files   = [s \in Alerts |-> "none"]
  /\ holds   = [s \in Alerts |-> {}]
  /\ writing = [s \in Alerts |-> "nobody"]
  /\ at = "none" /\ due = {} /\ hand = {} /\ tried = 0
  /\ life = "down" /\ main = "serving" /\ late = FALSE
  /\ up = TRUE
  /\ heard = [a \in Alerts |-> 0]
  /\ lost = [c \in Causes |-> {}]
  /\ unsure = FALSE
  /\ deaths = 0

Oldest(S)   == CHOOSE s \in S : \A t \in S : s <= t
First(S, n) == {s \in S : Cardinality({t \in S : t <= s}) <= n}
Files       == {s \in Alerts : files[s] # "none"}

Lose(cause, S) == lost' = [lost EXCEPT ![cause] = @ \cup S]
Tell(S)        == heard' = [a \in Alerts |-> IF a \notin S THEN heard[a]
                                             ELSE IF heard[a] = 0 THEN 1 ELSE 2]

-----------------------------------------------------------------------------
(* The spool.  Add creates the file, writes it out, and trims the          *)
(* directory; os.WriteFile does the first two one after the other.  The    *)
(* last two are one step: at most the limit is exceeded in between.        *)

Create(who, s, S) ==
  /\ files'   = [files EXCEPT ![s] = "torn"]
  /\ holds'   = [holds EXCEPT ![s] = S]
  /\ writing' = [writing EXCEPT ![s] = who]

OverLimitNewest(there) ==            \* mutant: drops the newest
  {s \in there : Cardinality({t \in there : t < s}) >= SpoolLimit}
OverLimit(there) == First(there, Cardinality(there) - SpoolLimit)

\* A file that was removed half-written stays removed.
WriteOut(who, s) ==
  /\ writing[s] = who
  /\ writing' = [writing EXCEPT ![s] = "nobody"]
  /\ LET written == IF files[s] = "torn" THEN [files EXCEPT ![s] = "full"] ELSE files
         trimmed == OverLimit(Files)
         dropped == {t \in trimmed : written[t] = "full"}
     IN  /\ files' = [t \in Alerts |-> IF t \in trimmed THEN "none" ELSE written[t]]
         /\ lost' = [lost EXCEPT !["torn"]  = @ \cup (IF files[s] = "none" THEN holds[s] ELSE {}),
                                 !["limit"] = @ \cup UNION {holds[t] : t \in dropped}]
  /\ UNCHANGED <<holds, unsure, deaths>>

-----------------------------------------------------------------------------
(* Deliver, for a critical notice.                                         *)

\* Once shutdown has waited for the workers, only those that it could not wait
\* for raise alerts.
Raising == life # "down" /\ (main = "serving" \/ late) /\ raised < MaxAlerts

Raise ==
  /\ Raising
  /\ raised' = raised + 1
  /\ \/ /\ Cardinality(buffer) < Buffer
        /\ buffer' = buffer \cup {raised'}
        /\ UNCHANGED spool
     \/ /\ Cardinality(buffer) >= Buffer
        /\ Create("publisher", raised', {raised'})
        /\ UNCHANGED buffer
  /\ UNCHANGED <<drain, process, up, heard, past>>

PublisherWrites(s) ==
  /\ WriteOut("publisher", s)
  /\ UNCHANGED <<raised, buffer, drain, process, up, heard>>

-----------------------------------------------------------------------------
(* Send.  Under a cancelled context nothing new goes out; what was on its  *)
(* way may have arrived all the same.                                      *)

Works(S) ==
  /\ up /\ life = "up"
  /\ Tell(S)
  /\ UNCHANGED unsure

Fails(S) ==
  \/ /\ ~up \/ life # "up"
     /\ UNCHANGED <<heard, unsure>>
  \/ /\ MayMishear /\ up
     /\ Tell(S)
     /\ unsure' = TRUE

-----------------------------------------------------------------------------
(* drainCritical: flushSpool first, and again after each message.          *)

DrainOnly == UNCHANGED <<raised, process, up, deaths>>

Pending ==
  /\ at = "listing"
  /\ at' = "flushing" /\ due' = Files
  /\ UNCHANGED <<buffer, spool, hand, tried, heard, lost, unsure>> /\ DrainOnly

FlushEnds ==
  /\ at = "flushing"
  /\ due = {} \/ life # "up"
  /\ at' = "waiting" /\ due' = {}
  /\ UNCHANGED <<buffer, spool, hand, tried, heard, lost, unsure>> /\ DrainOnly

\* Read: a file that is gone or half-written is dropped, whoever is writing it.
FlushReads ==
  /\ at = "flushing" /\ due # {} /\ life = "up"
  /\ LET s == Oldest(due) IN
       \/ /\ files[s] = "full"
          /\ at' = "telling"
          /\ UNCHANGED <<due, files>>
       \/ /\ files[s] # "full"
          /\ files' = [files EXCEPT ![s] = "none"]
          /\ due' = due \ {s}
          /\ UNCHANGED at
  /\ UNCHANGED <<buffer, holds, writing, hand, tried, heard, lost, unsure>> /\ DrainOnly

FlushSends ==
  /\ at = "telling"
  /\ Works(holds[Oldest(due)])
  /\ at' = "removing"
  /\ UNCHANGED <<buffer, spool, due, hand, tried, lost>> /\ DrainOnly

FlushFailsAndDrops ==                \* mutant: takes the failed one off the disk
  /\ at = "telling"
  /\ Fails(holds[Oldest(due)])
  /\ files' = [files EXCEPT ![Oldest(due)] = "none"]
  /\ at' = "waiting" /\ due' = {}
  /\ UNCHANGED <<buffer, holds, writing, hand, tried, lost>> /\ DrainOnly

FlushFails ==
  /\ at = "telling"
  /\ Fails(holds[Oldest(due)])
  /\ at' = "waiting" /\ due' = {}
  /\ UNCHANGED <<buffer, spool, hand, tried, lost>> /\ DrainOnly

FlushSkipsRemove ==                  \* mutant: leaves a delivered message
  /\ at = "removing"
  /\ at' = "flushing" /\ due' = due \ {Oldest(due)}
  /\ UNCHANGED <<buffer, spool, hand, tried, heard, lost, unsure>> /\ DrainOnly

FlushRemoves ==
  /\ at = "removing"
  /\ files' = [files EXCEPT ![Oldest(due)] = "none"]
  /\ at' = "flushing" /\ due' = due \ {Oldest(due)}
  /\ UNCHANGED <<buffer, holds, writing, hand, tried, heard, lost, unsure>> /\ DrainOnly

\* Receive, and coalesce with what is waiting; the digest is cut to its limit.
Take ==
  /\ at = "waiting" /\ buffer # {}
  /\ LET batch == First(buffer, Batch) IN
       /\ hand' = First(batch, Room)
       /\ buffer' = buffer \ batch
       /\ Lose("digest", batch \ hand')
  /\ at' = "sending" /\ tried' = 0
  /\ UNCHANGED <<spool, due, heard, unsure>> /\ DrainOnly

SendWorks ==
  /\ at = "sending"
  /\ Works(hand)
  /\ at' = "listing" /\ hand' = {} /\ tried' = 0
  /\ UNCHANGED <<buffer, spool, due, lost>> /\ DrainOnly

SendFails ==
  /\ at = "sending" /\ tried < Tries
  /\ Fails(hand)
  /\ tried' = IF life = "up" THEN tried + 1 ELSE Tries
  /\ UNCHANGED <<buffer, spool, at, due, hand, lost>> /\ DrainOnly

GiveUp ==
  /\ at = "sending" /\ tried = Tries
  /\ Create("drain", Oldest(hand), hand)
  /\ at' = "spooling" /\ hand' = {} /\ tried' = 0
  /\ UNCHANGED <<buffer, due, heard, lost, unsure>> /\ DrainOnly

DrainWrites ==
  /\ \E s \in Alerts : WriteOut("drain", s)
  /\ at' = "listing"
  /\ UNCHANGED <<raised, buffer, due, hand, tried, process, up, heard>>

DrainEnds ==
  /\ at = "waiting" /\ life = "stopping"
  /\ at' = "gone"
  /\ UNCHANGED <<buffer, spool, due, hand, tried, heard, lost, unsure>> /\ DrainOnly

Drain ==
  \/ Pending \/ FlushEnds \/ FlushReads \/ FlushSends \/ FlushFails \/ FlushRemoves
  \/ Take \/ SendWorks \/ SendFails \/ GiveUp \/ DrainWrites \/ DrainEnds

-----------------------------------------------------------------------------
(* The process.                                                            *)

StartUnflushed ==                    \* mutant: leaves the last run's spool
  /\ life = "down"
  /\ life' = "up" /\ main' = "serving" /\ late' = FALSE
  /\ at' = "waiting"
  /\ UNCHANGED <<raised, buffer, spool, due, hand, tried, up, heard, past>>
Start ==
  /\ life = "down"
  /\ life' = "up" /\ main' = "serving" /\ late' = FALSE
  /\ at' = "listing"
  /\ UNCHANGED <<raised, buffer, spool, due, hand, tried, up, heard, past>>

Signal ==
  /\ life = "up"
  /\ life' = "stopping"
  /\ UNCHANGED <<raised, buffer, spool, drain, main, late, up, heard, past>>

\* Everything in memory goes; a file half-written stays so.
Ends ==
  /\ life' = "down" /\ main' = "serving" /\ late' = FALSE
  /\ buffer' = {}
  /\ writing' = [s \in Alerts |-> "nobody"]
  /\ at' = "none" /\ due' = {} /\ hand' = {} /\ tried' = 0
  /\ Lose("death", buffer \cup hand \cup UNION {holds[s] : s \in {t \in Alerts : writing[t] # "nobody"}})
  /\ UNCHANGED <<raised, files, holds, up, heard, unsure>>

\* Also a listener that fails or does not close in time: run then returns
\* without stopping the sender.
Kill ==
  /\ life # "down" /\ deaths < MaxDeaths
  /\ deaths' = deaths + 1
  /\ Ends

\* The one deadline that all of shutdown shares runs out.
DeadlinePasses ==
  /\ life = "stopping" /\ ~late /\ deaths < MaxDeaths
  /\ late' = TRUE /\ deaths' = deaths + 1
  /\ UNCHANGED <<raised, buffer, spool, drain, life, main, up, heard, lost, unsure>>

\* Stop: after the workers, and once the drain is done or the deadline past,
\* whatever is in the buffer goes to the spool.
StopWaits ==
  /\ life = "stopping" /\ main = "serving"
  /\ late \/ (at = "gone" /\ \A s \in Alerts : writing[s] # "publisher")
  /\ main' = "draining"
  /\ UNCHANGED <<raised, buffer, spool, drain, life, late, up, heard, past>>

StopSpools ==
  /\ main = "draining" /\ buffer # {}
  /\ Create("main", Oldest(buffer), {Oldest(buffer)})
  /\ buffer' = buffer \ {Oldest(buffer)}
  /\ main' = "spooling"
  /\ UNCHANGED <<raised, drain, life, late, up, heard, past>>

MainWrites ==
  /\ \E s \in Alerts : WriteOut("main", s)
  /\ main' = "draining"
  /\ UNCHANGED <<raised, buffer, drain, life, late, up, heard>>

StopEndsUndrained ==                 \* mutant: does not empty the buffer first
  /\ main = "draining"
  /\ main' = "done"
  /\ UNCHANGED <<raised, buffer, spool, drain, life, late, up, heard, past>>
StopEnds ==
  /\ main = "draining" /\ buffer = {}
  /\ main' = "done"
  /\ UNCHANGED <<raised, buffer, spool, drain, life, late, up, heard, past>>

Exit ==
  /\ main = "done"
  /\ Ends
  /\ UNCHANGED deaths

Turn ==
  /\ up' = ~up
  /\ UNCHANGED <<raised, buffer, spool, drain, process, heard, past>>

Main == Start \/ StopWaits \/ StopSpools \/ MainWrites \/ StopEnds \/ Exit

Next ==
  \/ Raise
  \/ \E s \in Alerts : PublisherWrites(s)
  \/ Drain
  \/ Main
  \/ Signal \/ DeadlinePasses \/ Kill
  \/ Turn

\* Goroutines run on, and a process that ended is started again.  The rest is
\* about a process that is restarted over and over: it gets through a listing,
\* and a send that can go through does so, in one of its lives.
Fairness ==
  /\ WF_vars(\E s \in Alerts : PublisherWrites(s))
  /\ WF_vars(Drain)
  /\ WF_vars(Main)
  /\ SF_vars(FlushSends) /\ SF_vars(SendWorks)
  /\ SF_vars(Pending /\ life = "up") /\ SF_vars(FlushReads) /\ SF_vars(FlushRemoves)

Spec == Init /\ [][Next]_vars
FairSpec == Spec /\ Fairness

-----------------------------------------------------------------------------
(* What the sender gets right.                                             *)

Waiting(a) ==
  \/ a \in buffer \/ a \in hand
  \/ \E s \in Alerts : a \in holds[s] /\ (files[s] = "full" \/ writing[s] # "nobody")
LetGo(a) == \E c \in Causes : a \in lost[c]

\* No alert slips through between buffer, digest, retry and disk: one that was
\* raised was heard, is waiting somewhere, or was let go of for a known cause.
Accounted == \A a \in 1 .. raised : heard[a] > 0 \/ Waiting(a) \/ LetGo(a)

\* An orderly stop takes nothing with it: only a process that was killed, or
\* ran out of its deadline, forgets what it had in memory.
OrderlyStopKeepsAll == lost["death"] # {} => deaths > 0

\* And an alert is heard twice only if a process ended between saying and
\* removing it, or a send arrived that was reported as failed.
HeardAgainOnlyInDoubt ==
  (\E a \in Alerts : heard[a] > 1) => deaths > 0 \/ unsure

\* Messages in the spool stay within its limit, whoever writes at once, and
\* whatever half-written files a death leaves among them.
SpoolBounded == Cardinality({s \in Alerts : files[s] = "full"}) <= SpoolLimit

\* What a trim lets go of is older than all that stays: the newest reading of a
\* condition survives.
NewestStay ==
  [][lost'["limit"] # lost["limit"] => \A s \in Files \ Files', t \in Files' : s < t]_vars

\* With the channel back for good, and the process started again from time to
\* time, every alert is heard, unless it was let go of.
HeardAtLast ==
  ([]<>(life = "down") /\ <>[]up) =>
    \A a \in Alerts : (raised >= a) ~> (heard[a] > 0 \/ LetGo(a))

-----------------------------------------------------------------------------
(* What its comments say and the code does not do.                         *)

\* DESIGN.md 8.4: "a network blip delays delivery rather than losing it".
BlipOnlyDelays ==
  (<>[]up /\ <>[](life = "up")) =>
    \A a \in Alerts : (raised >= a) ~> (heard[a] > 0 \/ LetGo(a))

\* DESIGN.md 8.4: "bursts coalesce into a digest message rather than being
\* dropped".
DigestDropsNothing == lost["digest"] = {}

\* spool.go: "A network blip then delays delivery rather than losing it."
SpoolLosesNothing == lost["torn"] = {}
=============================================================================
