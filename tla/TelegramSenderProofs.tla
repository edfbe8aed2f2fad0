------------------------ MODULE TelegramSenderProofs ------------------------
(***************************************************************************)
(* Theorems of TelegramSender, for any number of alerts and of process     *)
(* ends, and any sizes of buffer, digest and spool.                        *)
(***************************************************************************)
EXTENDS TelegramSender, FiniteSetTheorems, WellFoundedInduction, TLAPS

(***************************************************************************)
(* The invariant behind all of them: where the goroutines are and what they *)
(* hold; that a name is used for one file; that a message is in one place; *)
(* and, as long as no end or answer left a doubt, that what was heard is   *)
(* in no place any more, but for the file that is about to be removed.     *)
(***************************************************************************)

Reading == at \in {"telling", "removing"}
Open(s) == Reading /\ s = Oldest(due)
Held(s) == files[s] = "full" \/ writing[s] # "nobody" \/ Open(s)
Doubt   == deaths > 0 \/ unsure

Coherent ==
  /\ life = "down" <=> at = "none"
  /\ life = "down" => main = "serving" /\ ~late /\ buffer = {}
  /\ main # "serving" => life = "stopping"
  /\ hand # {} <=> at = "sending"
  /\ Reading => due # {}
  /\ late => deaths > 0
  /\ main # "serving" /\ ~late => at = "gone"
  /\ main = "done" /\ ~late => buffer = {}

WritersCoherent ==
  /\ \A s \in Alerts :
       /\ writing[s] # "nobody" => files[s] # "full" /\ life # "down" /\ ~Open(s)
       /\ writing[s] = "drain" => at = "spooling"
       /\ writing[s] = "main" => main = "spooling"
       /\ writing[s] = "publisher" => main = "serving" \/ late
  /\ \A s, t \in Alerts :
       writing[s] = writing[t] /\ writing[s] \in {"drain", "main"} => s = t

Fresh ==
  /\ \A s \in Alerts : s > raised \/ s \in buffer \cup hand =>
       files[s] = "none" /\ writing[s] = "nobody"
  /\ buffer \cup hand \cup due \subseteq 1 .. raised
  /\ buffer \cap hand = {}
  /\ due \cap (buffer \cup hand) = {}

OnePlace ==
  /\ \A s \in Alerts : Held(s) =>
       holds[s] \subseteq 1 .. raised /\ holds[s] \cap (buffer \cup hand) = {}
  /\ \A s, t \in Alerts : Held(s) /\ Held(t) /\ s # t => holds[s] \cap holds[t] = {}

Told == at = "removing" => \A a \in holds[Oldest(due)] : heard[a] > 0

HeardOnce == ~Doubt =>
  \A a \in Alerts :
    /\ heard[a] <= 1
    /\ heard[a] > 0 =>
         /\ a <= raised
         /\ a \notin buffer \cup hand
         /\ \A s \in Alerts : Held(s) /\ a \in holds[s] => at = "removing" /\ Open(s)

IInv ==
  /\ TypeOK
  /\ Coherent
  /\ WritersCoherent
  /\ Fresh
  /\ OnePlace
  /\ Told
  /\ HeardOnce
  /\ Accounted
  /\ OrderlyStopKeepsAll
  /\ SpoolBounded

-----------------------------------------------------------------------------
(* The operators.                                                          *)

\* A set of alerts that is not empty has an oldest one.
LEMMA OldestIn ==
  ASSUME NEW S \in SUBSET Alerts, S # {}
  PROVE  Oldest(S) \in S /\ \A t \in S : Oldest(S) <= t
<1> DEFINE Below(s) == {t \in S : t < s}
<1>1. IsFiniteSet(Alerts)
  BY SenderAssumption, FS_Interval DEF Alerts
<1>2. IsWellFoundedOn(StrictSubsetOrdering(Alerts), SUBSET Alerts)
  BY <1>1, FS_StrictSubsetOrderingWellFounded, FS_FiniteSubsetsOfFinite
<1>3. {Below(s) : s \in S} \subseteq SUBSET Alerts /\ {Below(s) : s \in S} # {}
  OBVIOUS
<1>4. \E x \in {Below(s) : s \in S} : \A y \in {Below(s) : s \in S} :
        ~ (<<y, x>> \in StrictSubsetOrdering(Alerts))
  BY <1>2, <1>3, WFMin
<1>5. PICK s \in S : \A t \in S : ~ (Below(t) \subseteq Below(s) /\ Below(t) # Below(s))
  <2>1. PICK s \in S : \A y \in {Below(u) : u \in S} :
          ~ (<<y, Below(s)>> \in StrictSubsetOrdering(Alerts))
    BY <1>4
  <2>2. \A t \in S : ~ (<<Below(t), Below(s)>> \in StrictSubsetOrdering(Alerts))
    BY <2>1
  <2> QED BY <2>2 DEF StrictSubsetOrdering
<1>6. S \subseteq Nat
  BY SenderAssumption DEF Alerts
<1>7. ASSUME NEW t \in S, t < s PROVE FALSE
  <2>0. s \in Nat /\ t \in Nat /\ \A u \in S : u \in Nat
    BY <1>6
  <2>1. Below(t) \subseteq Below(s)
    <3>1. \A u \in S : u < t => u < s
      BY <1>7, <2>0
    <3> QED BY <3>1
  <2>2. t \in Below(s) /\ t \notin Below(t)
    BY <1>6, <1>7
  <2> QED BY <1>5, <2>1, <2>2
<1>8. \A t \in S : s <= t
  BY <1>6, <1>7
<1>9. \E u \in S : \A t \in S : u <= t
  BY <1>8
<1> HIDE DEF Below
<1> QED BY <1>9, Zenon DEF Oldest

\* The first of some alerts are some of them.
LEMMA FirstSubset ==
  \A S, n : First(S, n) \subseteq S
BY DEF First

\* Writing a file out, and the trim after it, touches no other file but to
\* remove it, and what a removal takes away is recorded.
LEMMA WriteOutEffect ==
  ASSUME TypeOK, NEW who, NEW s \in Alerts, WriteOut(who, s)
  PROVE  /\ writing[s] = who
         /\ writing' = [writing EXCEPT ![s] = "nobody"]
         /\ holds' = holds /\ unsure' = unsure /\ deaths' = deaths
         /\ files' \in [Alerts -> {"none", "torn", "full"}]
         /\ lost' \in [Causes -> SUBSET Alerts]
         /\ \A t \in Alerts : files'[t] \in {files[t], "none"} \/
              (t = s /\ files[s] = "torn" /\ files'[s] = "full")
         /\ \A t \in Alerts : files[t] = "full" /\ files'[t] # "full" =>
              holds[t] \subseteq lost'["limit"]
         /\ files'[s] # "full" => holds[s] \subseteq lost'["torn"] \cup lost'["limit"]
         /\ \A c \in Causes : lost[c] \subseteq lost'[c]
         /\ lost'["death"] = lost["death"]
<1> USE DEF TypeOK
<1> DEFINE written == IF files[s] = "torn" THEN [files EXCEPT ![s] = "full"] ELSE files
           trimmed == OverLimit(Files)
           dropped == {t \in trimmed : written[t] = "full"}
<1>1. /\ writing[s] = who
      /\ writing' = [writing EXCEPT ![s] = "nobody"]
      /\ files' = [t \in Alerts |-> IF t \in trimmed THEN "none" ELSE written[t]]
      /\ lost' = [lost EXCEPT !["torn"]  = @ \cup (IF files[s] = "none" THEN holds[s] ELSE {}),
                              !["limit"] = @ \cup UNION {holds[t] : t \in dropped}]
      /\ UNCHANGED <<holds, unsure, deaths>>
  BY DEF WriteOut
<1>2. trimmed \subseteq Files /\ Files \subseteq Alerts
  BY FirstSubset DEF OverLimit, Files
<1>3. written \in [Alerts -> {"none", "torn", "full"}]
  OBVIOUS
<1> HIDE DEF trimmed
<1>4. dropped \subseteq Alerts
  BY <1>2
<1>5. UNION {holds[t] : t \in dropped} \subseteq Alerts
  BY <1>4
<1>6. files' \in [Alerts -> {"none", "torn", "full"}]
  BY <1>1, <1>3
<1>7. /\ lost'["torn"] = lost["torn"] \cup (IF files[s] = "none" THEN holds[s] ELSE {})
      /\ lost'["limit"] = lost["limit"] \cup UNION {holds[t] : t \in dropped}
      /\ lost'["death"] = lost["death"] /\ lost'["digest"] = lost["digest"]
      /\ lost' \in [Causes -> SUBSET Alerts]
  BY <1>1, <1>5 DEF Causes
<1>w. \A t \in Alerts :
        /\ files'[t] = IF t \in trimmed THEN "none" ELSE written[t]
        /\ written[t] = files[t] \/ (t = s /\ files[s] = "torn" /\ written[t] = "full")
  BY <1>1
<1>8. \A t \in Alerts : files'[t] \in {files[t], "none"} \/
              (t = s /\ files[s] = "torn" /\ files'[s] = "full")
  BY <1>w
<1>9. \A t \in Alerts : written[t] = "full" /\ files'[t] # "full" => t \in dropped
  BY <1>1, <1>2
<1>10. \A t \in dropped : holds[t] \subseteq lost'["limit"]
  BY <1>7
<1>11. \A t \in Alerts : files[t] = "full" /\ files'[t] # "full" =>
              holds[t] \subseteq lost'["limit"]
  BY <1>9, <1>10
<1>12. files'[s] # "full" => holds[s] \subseteq lost'["torn"] \cup lost'["limit"]
  <2>1. CASE files[s] = "none"
    BY <2>1, <1>7
  <2>2. CASE files[s] # "none"
    BY <2>2, <1>9, <1>10
  <2> QED BY <2>1, <2>2
<1>13. \A c \in Causes : lost[c] \subseteq lost'[c]
  BY <1>7 DEF Causes
<1> QED BY <1>1, <1>6, <1>7, <1>8, <1>11, <1>12, <1>13

-----------------------------------------------------------------------------
(* Types.                                                                  *)

\* Telling of some alerts keeps the count of what was heard of its type.
LEMMA TellType ==
  ASSUME TypeOK, NEW S, Tell(S)
  PROVE  heard' \in [Alerts -> 0 .. 2]
BY DEF TypeOK, Tell

\* A send that fails may have been heard.
LEMMA FailsType ==
  ASSUME TypeOK, NEW S, Fails(S)
  PROVE  heard' \in [Alerts -> 0 .. 2] /\ unsure' \in BOOLEAN
BY TellType DEF TypeOK, Fails

\* Every step keeps every variable of its type.
LEMMA TypeStep ==
  ASSUME TypeOK, Coherent, Fresh, [Next]_vars
  PROVE  TypeOK'
<1> USE DEF TypeOK
<1>z. Tries \in Nat /\ 0 \in 0 .. Tries
  BY SenderAssumption
<1>0. CASE UNCHANGED vars
  BY <1>0 DEF vars, spool, drain, process, past
<1>1. CASE Raise
  <2>1. raised' \in Alerts /\ raised' \in 0 .. MaxAlerts
    BY <1>1, SenderAssumption DEF Raise, Raising, Alerts
  <2>2. CASE UNCHANGED spool
    BY <1>1, <2>1, <2>2 DEF Raise, spool, drain, process, past
  <2>3. CASE Create("publisher", raised', {raised'}) /\ UNCHANGED buffer
    BY <1>1, <2>1, <2>3 DEF Raise, Create, drain, process, past
  <2> QED BY <1>1, <2>2, <2>3 DEF Raise
<1>2. ASSUME NEW s \in Alerts, NEW who, WriteOut(who, s)
      PROVE  /\ files' \in [Alerts -> {"none", "torn", "full"}]
             /\ holds' \in [Alerts -> SUBSET Alerts]
             /\ writing' \in [Alerts -> {"nobody", "publisher", "drain", "main"}]
             /\ lost' \in [Causes -> SUBSET Alerts]
             /\ unsure' \in BOOLEAN
             /\ deaths' \in 0 .. MaxDeaths
  BY <1>2, WriteOutEffect
<1>3. ASSUME NEW s \in Alerts, PublisherWrites(s) PROVE TypeOK'
  BY <1>2, <1>3 DEF PublisherWrites, drain, process
<1>4. CASE Drain
  <2> USE DEF DrainOnly, spool, process
  <2>1. CASE Pending
    BY <2>1 DEF Pending, Files
  <2>2. CASE FlushEnds
    BY <2>2 DEF FlushEnds
  <2>3. CASE FlushReads
    <3>1. Oldest(due) \in Alerts
      BY <2>3, OldestIn DEF FlushReads
    <3> QED BY <2>3, <3>1 DEF FlushReads
  <2>4. CASE FlushSends
    BY <2>4, TellType DEF FlushSends, Works
  <2>5. CASE FlushFails
    BY <2>5, FailsType DEF FlushFails
  <2>6. CASE FlushRemoves
    <3>1. Oldest(due) \in Alerts
      BY <2>6, OldestIn DEF FlushRemoves, Coherent, Reading
    <3> QED BY <2>6, <3>1 DEF FlushRemoves
  <2>7. CASE Take
    <3>1. First(buffer, Batch) \subseteq Alerts
      BY FirstSubset
    <3>2. hand' \subseteq Alerts
      BY <2>7, <3>1, FirstSubset DEF Take
    <3>3. lost' \in [Causes -> SUBSET Alerts]
      BY <2>7, <3>1 DEF Take, Lose, Causes
    <3> QED BY <1>z, <2>7, <3>2, <3>3 DEF Take
  <2>8. CASE SendWorks
    BY <1>z, <2>8, TellType DEF SendWorks, Works
  <2>9. CASE SendFails
    BY <1>z, <2>9, FailsType DEF SendFails
  <2>10. CASE GiveUp
    <3>1. Oldest(hand) \in Alerts
      BY <2>10, OldestIn DEF GiveUp, Coherent
    <3> QED BY <1>z, <2>10, <3>1 DEF GiveUp, Create
  <2>11. CASE DrainWrites
    BY <1>2, <2>11 DEF DrainWrites
  <2>12. CASE DrainEnds
    BY <2>12 DEF DrainEnds
  <2> QED BY <1>4, <2>1, <2>2, <2>3, <2>4, <2>5, <2>6, <2>7, <2>8, <2>9, <2>10, <2>11, <2>12
          DEF Drain
<1>5. CASE Ends /\ ((deaths' = deaths + 1 /\ deaths < MaxDeaths) \/ deaths' = deaths)
  <2>1. lost' \in [Causes -> SUBSET Alerts]
    BY <1>5 DEF Ends, Lose, Causes
  <2>2. /\ life' = "down" /\ main' = "serving" /\ late' = FALSE
        /\ buffer' = {} /\ at' = "none" /\ due' = {} /\ hand' = {} /\ tried' = 0
        /\ writing' = [s \in Alerts |-> "nobody"]
        /\ UNCHANGED <<raised, files, holds, up, heard, unsure>>
    BY <1>5 DEF Ends
  <2>3. deaths' \in 0 .. MaxDeaths
    BY <1>5, SenderAssumption
  <2> QED BY <1>z, <2>1, <2>2, <2>3
<1>6. CASE Main
  <2>1. CASE Start \/ StopWaits \/ StopEnds
    BY <2>1 DEF Start, StopWaits, StopEnds, spool, drain, past
  <2>2. CASE StopSpools
    <3>1. Oldest(buffer) \in Alerts
      BY <2>2, OldestIn DEF StopSpools
    <3> QED BY <2>2, <3>1 DEF StopSpools, Create, drain, past
  <2>3. CASE MainWrites
    BY <1>2, <2>3 DEF MainWrites, drain
  <2>4. CASE Exit
    BY <1>5, <2>4 DEF Exit
  <2> QED BY <1>6, <2>1, <2>2, <2>3, <2>4 DEF Main
<1>7. CASE Signal \/ Turn
  BY <1>7 DEF Signal, Turn, spool, drain, process, past
<1>8. CASE DeadlinePasses
  <2>1. deaths' \in 0 .. MaxDeaths
    BY <1>8, SenderAssumption DEF DeadlinePasses
  <2> QED BY <1>8, <2>1 DEF DeadlinePasses, spool, drain
<1>9. CASE Kill
  BY <1>5, <1>9 DEF Kill
<1> QED BY <1>0, <1>1, <1>3, <1>4, <1>6, <1>7, <1>8, <1>9 DEF Next

\* The first of some alerts are some, if any are asked for.
LEMMA FirstNotEmpty ==
  ASSUME NEW S \in SUBSET Alerts, S # {}
  PROVE  First(First(S, Batch), Room) # {}
<1>1. PICK s \in S : \A t \in S : s <= t
  BY OldestIn
<1>2. \A t \in S : t <= s => t = s
  <2>1. \A t \in S : t \in Nat
    BY SenderAssumption DEF Alerts
  <2> QED BY <1>1, <2>1
<1>3. ASSUME NEW T \in SUBSET S, s \in T, NEW n \in Nat \ {0}
      PROVE  s \in First(T, n)
  <2>1. {t \in T : t <= s} = {s}
    <3>1. s <= s
      BY SenderAssumption DEF Alerts
    <3> QED BY <1>2, <1>3, <3>1
  <2>2. Cardinality({s}) = 1
    BY FS_Singleton
  <2> QED BY <1>3, <2>1, <2>2 DEF First
<1>4. s \in First(S, Batch)
  BY <1>3, SenderAssumption
<1>5. s \in First(First(S, Batch), Room)
  BY <1>3, <1>4, FirstSubset, SenderAssumption
<1> QED BY <1>5

-----------------------------------------------------------------------------
(* Where the goroutines are, and which names are used.                     *)

\* Every step keeps process and goroutines coherent.
LEMMA CoherentStep ==
  ASSUME TypeOK, Coherent, WritersCoherent, [Next]_vars
  PROVE  Coherent'
<1>1. CASE UNCHANGED vars \/ Signal \/ Turn
  BY <1>1 DEF vars, spool, drain, process, past, Signal, Turn, TypeOK,
     Coherent, Reading
<1>2. CASE Raise
  BY <1>2 DEF Raise, Raising, Create, spool, drain, process, past, TypeOK,
     Coherent, Reading
<1>3. CASE \E s \in Alerts : PublisherWrites(s)
  BY <1>3 DEF PublisherWrites, WriteOut, drain, process, Coherent, Reading
<1>4. CASE Pending \/ FlushEnds
  BY <1>4 DEF Pending, DrainOnly, spool, process, FlushEnds, TypeOK,
     Coherent, Reading
<1>5. CASE FlushReads
  BY <1>5 DEF FlushReads, DrainOnly, process, TypeOK, Coherent, Reading
<1>6. CASE FlushSends
  BY <1>6 DEF FlushSends, Works, Tell, DrainOnly, spool, process, TypeOK,
     Coherent, Reading
<1>7. CASE FlushFails
  BY <1>7 DEF FlushFails, Fails, Tell, DrainOnly, spool, process, TypeOK,
     Coherent, Reading
<1>8. CASE FlushRemoves
  BY <1>8 DEF FlushRemoves, DrainOnly, process, TypeOK, Coherent, Reading
<1>9. CASE Take
  <2>1. buffer # {} /\ hand' = First(First(buffer, Batch), Room)
    BY <1>9 DEF Take
  <2>2. hand' # {}
    BY <2>1, FirstNotEmpty DEF TypeOK
  <2> QED BY <1>9, <2>2 DEF Take, DrainOnly, spool, process, Coherent, Reading
<1>10. CASE SendWorks \/ SendFails
  BY <1>10 DEF SendWorks, Works, Tell, DrainOnly, spool, process, SendFails,
     Fails, TypeOK, Coherent, Reading
<1>11. CASE GiveUp
  BY <1>11 DEF GiveUp, Create, DrainOnly, process, TypeOK, Coherent, Reading
<1>12. CASE DrainWrites
  <2>1. at = "spooling"
    BY <1>12 DEF DrainWrites, WriteOut, WritersCoherent
  <2> QED BY <1>12, <2>1 DEF DrainWrites, WriteOut, process, Coherent, Reading
<1>13. CASE DrainEnds
  BY <1>13 DEF DrainEnds, DrainOnly, spool, process, TypeOK, Coherent,
     Reading
<1>14. CASE Start
  BY <1>14 DEF Start, spool, past, TypeOK, Coherent, Reading
<1>15. CASE Kill \/ Exit
  BY <1>15 DEF Kill, Exit, Ends, TypeOK, Coherent, Reading
<1>16. CASE DeadlinePasses
  <2>1. deaths' > 0
    BY <1>16, SenderAssumption DEF DeadlinePasses, TypeOK
  <2> QED BY <1>16, <2>1 DEF DeadlinePasses, spool, drain, Coherent, Reading
<1>17. CASE StopWaits \/ StopEnds
  BY <1>17 DEF StopWaits, StopEnds, spool, drain, past, TypeOK, Coherent, Reading
<1>18. CASE StopSpools
  BY <1>18 DEF StopSpools, Create, drain, past, TypeOK, Coherent, Reading
<1>19. CASE MainWrites
  <2>1. main = "spooling"
    BY <1>19 DEF MainWrites, WriteOut, WritersCoherent
  <2> QED BY <1>19, <2>1 DEF MainWrites, WriteOut, drain, Coherent, Reading
<1> QED BY <1>1, <1>2, <1>3, <1>4, <1>5, <1>6, <1>7, <1>8, <1>9, <1>10,
           <1>11, <1>12, <1>13, <1>14, <1>15, <1>16, <1>17, <1>18, <1>19 DEF
           Next, Main, Drain

\* Every step keeps the writers coherent.
LEMMA WritersStep ==
  ASSUME TypeOK, Coherent, WritersCoherent, Fresh, [Next]_vars
  PROVE  WritersCoherent'
<1>1. CASE UNCHANGED vars \/ Turn
  BY <1>1 DEF vars, spool, drain, process, past, Turn, WritersCoherent,
     Coherent, Reading, Open
<1>2. CASE Raise
  <2>1. raised' \in Alerts /\ raised' > raised
    BY <1>2, SenderAssumption DEF Raise, Raising, Alerts, TypeOK
  <2>2. Reading => Oldest(due) \in 1 .. raised
    BY OldestIn DEF TypeOK, Coherent, Fresh
  <2>3. ~ Open(raised')
    BY <2>1, <2>2, SenderAssumption DEF Open, TypeOK
  <2>4. CASE UNCHANGED spool
    BY <1>2, <2>4 DEF Raise, spool, drain, process, WritersCoherent, Open, Reading
  <2> QED BY <1>2, <2>1, <2>3, <2>4 DEF Raise, Raising, Create, drain, process,
             WritersCoherent, Open, Reading, TypeOK
<1>3. CASE \E s \in Alerts : PublisherWrites(s)
  <2>1. PICK s \in Alerts : PublisherWrites(s)
    BY <1>3
  <2> QED BY <2>1, WriteOutEffect DEF PublisherWrites, drain, process, TypeOK,
             WritersCoherent, Open, Reading
<1>4. CASE Pending
  BY <1>4 DEF Pending, DrainOnly, spool, process, WritersCoherent, Coherent,
     Reading, Open
<1>5. CASE FlushEnds
  BY <1>5 DEF FlushEnds, DrainOnly, spool, process, WritersCoherent,
     Coherent, Reading, Open
<1>6. CASE FlushReads
  <2>1. Oldest(due) \in Alerts
    BY <1>6, OldestIn DEF FlushReads, TypeOK
  <2> QED BY <1>6, <2>1 DEF FlushReads, DrainOnly, process, TypeOK, WritersCoherent,
             Open, Reading
<1>7. CASE FlushSends
  BY <1>7 DEF FlushSends, Works, Tell, DrainOnly, spool, process,
     WritersCoherent, Coherent, Reading, Open
<1>8. CASE FlushFails
  BY <1>8 DEF FlushFails, Fails, Tell, DrainOnly, spool, process,
     WritersCoherent, Coherent, Reading, Open
<1>9. CASE FlushRemoves
  <2>1. Oldest(due) \in Alerts
    BY <1>9, OldestIn DEF FlushRemoves, TypeOK, Coherent, Reading
  <2> QED BY <1>9, <2>1 DEF FlushRemoves, DrainOnly, process, TypeOK, WritersCoherent,
             Open, Reading
<1>10. CASE Take
  BY <1>10 DEF Take, Lose, DrainOnly, spool, process, WritersCoherent,
     Coherent, Reading, Open
<1>11. CASE SendWorks
  BY <1>11 DEF SendWorks, Works, Tell, DrainOnly, spool, process,
     WritersCoherent, Coherent, Reading, Open
<1>12. CASE SendFails
  BY <1>12 DEF SendFails, Fails, Tell, DrainOnly, spool, process,
     WritersCoherent, Coherent, Reading, Open
<1>13. CASE GiveUp
  <2>1. Oldest(hand) \in Alerts
    BY <1>13, OldestIn DEF GiveUp, Coherent, TypeOK
  <2> QED BY <1>13, <2>1 DEF GiveUp, Create, DrainOnly, process, TypeOK, Coherent,
             WritersCoherent, Open, Reading
<1>14. CASE DrainWrites
  <2>1. PICK s \in Alerts : WriteOut("drain", s)
    BY <1>14 DEF DrainWrites
  <2> QED BY <1>14, <2>1, WriteOutEffect DEF DrainWrites, process, TypeOK,
             WritersCoherent, Open, Reading
<1>15. CASE DrainEnds
  BY <1>15 DEF DrainEnds, DrainOnly, spool, process, WritersCoherent,
     Coherent, Reading, Open
<1>16. CASE Start
  BY <1>16 DEF Start, spool, past, WritersCoherent, Coherent, Reading, Open
<1>17. CASE Signal
  BY <1>17 DEF Signal, spool, drain, past, WritersCoherent, Coherent,
     Reading, Open
<1>18. CASE Kill \/ Exit
  BY <1>18 DEF Kill, Exit, Ends, WritersCoherent, Coherent, Reading, Open
<1>19. CASE DeadlinePasses
  BY <1>19 DEF DeadlinePasses, spool, drain, WritersCoherent, Coherent,
     Reading, Open
<1>20. CASE StopWaits \/ StopEnds
  BY <1>20 DEF StopWaits, StopEnds, spool, drain, past, WritersCoherent, Coherent,
     Reading, Open
<1>21. CASE StopSpools
  <2>1. Oldest(buffer) \in buffer
    BY <1>21, OldestIn DEF StopSpools, TypeOK
  <2>2. Reading => Oldest(due) \in due
    BY OldestIn DEF TypeOK, Coherent
  <2>3. ~ Open(Oldest(buffer))
    BY <2>1, <2>2 DEF Open, Fresh
  <2> QED BY <1>21, <2>1, <2>3 DEF StopSpools, Create, drain, TypeOK, Coherent,
             WritersCoherent, Open, Reading
<1>22. CASE MainWrites
  <2>1. PICK s \in Alerts : WriteOut("main", s)
    BY <1>22 DEF MainWrites
  <2> QED BY <1>22, <2>1, WriteOutEffect DEF MainWrites, drain, TypeOK,
             WritersCoherent, Open, Reading
<1> QED BY <1>1, <1>2, <1>3, <1>4, <1>5, <1>6, <1>7, <1>8, <1>9, <1>10,
           <1>11, <1>12, <1>13, <1>14, <1>15, <1>16, <1>17, <1>18, <1>19,
           <1>20, <1>21, <1>22 DEF Next, Main, Drain

\* Every step keeps the names fresh.
LEMMA FreshStep ==
  ASSUME TypeOK, Coherent, WritersCoherent, Fresh, [Next]_vars
  PROVE  Fresh'
<1>1. CASE UNCHANGED vars \/ Signal \/ DeadlinePasses \/ Turn \/ Start \/
           StopWaits \/ StopEnds
  BY <1>1 DEF vars, spool, drain, process, past, Signal, DeadlinePasses,
     Turn, Start, StopWaits, StopEnds, Fresh, Coherent, TypeOK
<1>2. CASE Raise
  <2>1. raised' \in Alerts /\ raised' = raised + 1 /\ raised \in Nat
    BY <1>2, SenderAssumption DEF Raise, Raising, Alerts, TypeOK
  <2>2. \A s \in Alerts : s \in Int
    BY DEF Alerts
  <2>3. CASE UNCHANGED spool /\ buffer' = buffer \cup {raised'}
    BY <1>2, <2>1, <2>2, <2>3 DEF Raise, spool, drain, Fresh, TypeOK
  <2>4. CASE Create("publisher", raised', {raised'}) /\ UNCHANGED buffer
    BY <1>2, <2>1, <2>2, <2>4 DEF Raise, Create, drain, Fresh, TypeOK
  <2> QED BY <1>2, <2>3, <2>4 DEF Raise
<1>3. CASE \E s \in Alerts : PublisherWrites(s)
  <2>1. PICK s \in Alerts : PublisherWrites(s)
    BY <1>3
  <2> QED BY <2>1, WriteOutEffect DEF PublisherWrites, drain, TypeOK, Fresh
<1>4. CASE Pending
  <2>1. \A s \in Files : s \in 1 .. raised /\ s \notin buffer \cup hand
    BY SenderAssumption DEF Files, Fresh, Alerts, TypeOK
  <2> QED BY <1>4, <2>1 DEF Pending, DrainOnly, spool, Fresh
<1>5. CASE FlushEnds \/ FlushSends \/ FlushFails \/ SendFails \/ DrainEnds
  BY <1>5 DEF FlushEnds, DrainOnly, spool, process, FlushSends, Works, Tell,
     FlushFails, Fails, SendFails, DrainEnds, Fresh, Coherent, TypeOK
<1>6. CASE FlushReads
  <2>1. Oldest(due) \in Alerts
    BY <1>6, OldestIn DEF FlushReads, TypeOK
  <2> QED BY <1>6, <2>1 DEF FlushReads, DrainOnly, TypeOK, Fresh
<1>7. CASE FlushRemoves
  <2>1. Oldest(due) \in Alerts
    BY <1>7, OldestIn DEF FlushRemoves, TypeOK, Coherent, Reading
  <2> QED BY <1>7, <2>1 DEF FlushRemoves, DrainOnly, TypeOK, Fresh
<1>8. CASE Take
  <2>1. hand' \subseteq First(buffer, Batch) /\ First(buffer, Batch) \subseteq buffer
    BY <1>8, FirstSubset DEF Take
  <2>2. hand = {}
    BY <1>8 DEF Take, Coherent
  <2> QED BY <1>8, <2>1, <2>2 DEF Take, DrainOnly, spool, Fresh
<1>9. CASE SendWorks
  BY <1>9 DEF SendWorks, Works, Tell, DrainOnly, spool, process, Fresh,
     Coherent, TypeOK
<1>10. CASE GiveUp
  <2>1. Oldest(hand) \in hand
    BY <1>10, OldestIn DEF GiveUp, Coherent, TypeOK
  <2>2. ~ (Oldest(hand) > raised)
    BY <2>1, SenderAssumption DEF Fresh, TypeOK
  <2> QED BY <1>10, <2>1, <2>2 DEF GiveUp, Create, DrainOnly, Fresh, TypeOK
<1>11. CASE DrainWrites
  <2>1. PICK s \in Alerts : WriteOut("drain", s)
    BY <1>11 DEF DrainWrites
  <2> QED BY <1>11, <2>1, WriteOutEffect DEF DrainWrites, TypeOK, Fresh
<1>12. CASE Kill \/ Exit
  <2>1. buffer' = {} /\ hand' = {} /\ due' = {} /\ UNCHANGED <<raised, files>>
        /\ writing' = [s \in Alerts |-> "nobody"]
    BY <1>12 DEF Kill, Exit, Ends
  <2> QED BY <2>1 DEF Fresh
<1>13. CASE StopSpools
  <2>1. Oldest(buffer) \in buffer
    BY <1>13, OldestIn DEF StopSpools, TypeOK
  <2>2. ~ (Oldest(buffer) > raised)
    BY <2>1, SenderAssumption DEF Fresh, TypeOK
  <2> QED BY <1>13, <2>1, <2>2 DEF StopSpools, Create, drain, TypeOK, Fresh
<1>14. CASE MainWrites
  <2>1. PICK s \in Alerts : WriteOut("main", s)
    BY <1>14 DEF MainWrites
  <2> QED BY <1>14, <2>1, WriteOutEffect DEF MainWrites, drain, TypeOK, Fresh
<1> QED BY <1>1, <1>2, <1>3, <1>4, <1>5, <1>6, <1>7, <1>8, <1>9, <1>10,
           <1>11, <1>12, <1>13, <1>14 DEF Next, Main, Drain

-----------------------------------------------------------------------------
(* Where a message is.                                                     *)

\* Nothing new is held, raised or taken in.
Shrinks ==
  /\ raised' = raised /\ holds' = holds
  /\ buffer' \cup hand' \subseteq buffer \cup hand
  /\ \A t \in Alerts : Held(t)' => Held(t)

\* Some of what was in memory is now in a new file, under the name of one of it.
Moves(s, S) ==
  /\ raised' = raised /\ heard' = heard /\ due' = due
  /\ S \subseteq buffer \cup hand /\ s \in S /\ s \in Alerts
  /\ holds' = [holds EXCEPT ![s] = S] /\ writing'[s] # "nobody"
  /\ buffer' \cup hand' = (buffer \cup hand) \ S
  /\ \A t \in Alerts : t # s /\ Held(t)' => Held(t)
  /\ \A t \in Alerts : t # s => files'[t] = files[t] /\ writing'[t] = writing[t]
  /\ at = "removing" <=> at' = "removing"

\* A step that writes a file out keeps what is held, holds and read.
LEMMA WriteOutHeld ==
  ASSUME TypeOK, WritersCoherent, NEW who, NEW s \in Alerts, WriteOut(who, s),
         who \in {"publisher", "drain", "main"}, due' = due, Reading' => Reading
  PROVE  \A t \in Alerts : Held(t)' => Held(t)
<1>1. \A t \in Alerts : Open(t)' => Open(t)
  BY DEF Open
<1>2. \A t \in Alerts : writing'[t] # "nobody" => writing[t] # "nobody"
  BY WriteOutEffect DEF TypeOK
<1>3. \A t \in Alerts : files'[t] = "full" => files[t] = "full" \/ t = s
  BY WriteOutEffect DEF TypeOK
<1>4. writing[s] # "nobody"
  BY WriteOutEffect
<1> QED BY <1>1, <1>2, <1>3, <1>4 DEF Held

\* Giving up on a message, and emptying the buffer at the end, move it.
LEMMA MovesStep ==
  ASSUME TypeOK, Coherent, Fresh, GiveUp \/ StopSpools
  PROVE  \E s \in Alerts, S \in SUBSET Alerts : Moves(s, S)
<1>1. CASE GiveUp
  <2>1. Oldest(hand) \in hand /\ Oldest(hand) \in Alerts
    BY <1>1, OldestIn DEF GiveUp, Coherent, TypeOK
  <2>2. \A t \in Alerts : t # Oldest(hand) => files'[t] = files[t] /\ writing'[t] = writing[t]
    BY <1>1, <2>1 DEF GiveUp, Create, TypeOK
  <2>3. \A t \in Alerts : t # Oldest(hand) /\ Held(t)' => Held(t)
    BY <1>1, <2>2 DEF GiveUp, DrainOnly, Held, Open, Reading
  <2>4. buffer' \cup hand' = (buffer \cup hand) \ hand
    BY <1>1 DEF GiveUp, Fresh
  <2>5. /\ holds' = [holds EXCEPT ![Oldest(hand)] = hand]
        /\ writing'[Oldest(hand)] # "nobody"
        /\ raised' = raised /\ heard' = heard /\ due' = due
        /\ at # "removing" /\ at' # "removing"
    BY <1>1, <2>1 DEF GiveUp, Create, DrainOnly, TypeOK
  <2>6. Moves(Oldest(hand), hand)
    BY <2>1, <2>2, <2>3, <2>4, <2>5 DEF Moves
  <2> QED BY <2>1, <2>6 DEF TypeOK
<1>2. CASE StopSpools
  <2>1. Oldest(buffer) \in buffer /\ Oldest(buffer) \in Alerts
    BY <1>2, OldestIn DEF StopSpools, TypeOK
  <2>2. \A t \in Alerts : t # Oldest(buffer) => files'[t] = files[t] /\ writing'[t] = writing[t]
    BY <1>2, <2>1 DEF StopSpools, Create, TypeOK
  <2>3. \A t \in Alerts : t # Oldest(buffer) /\ Held(t)' => Held(t)
    BY <1>2, <2>2 DEF StopSpools, drain, Held, Open, Reading
  <2>4. buffer' \cup hand' = (buffer \cup hand) \ {Oldest(buffer)}
    BY <1>2, <2>1 DEF StopSpools, drain, Fresh
  <2>5. /\ holds' = [holds EXCEPT ![Oldest(buffer)] = {Oldest(buffer)}]
        /\ writing'[Oldest(buffer)] # "nobody"
        /\ raised' = raised /\ heard' = heard /\ due' = due /\ at' = at
    BY <1>2, <2>1 DEF StopSpools, Create, drain, TypeOK
  <2>6. Moves(Oldest(buffer), {Oldest(buffer)})
    BY <2>1, <2>2, <2>3, <2>4, <2>5 DEF Moves
  <2> QED BY <2>1, <2>6
<1> QED BY <1>1, <1>2

\* Of all steps, but a new alert, only those two move anything.
LEMMA ShrinksStep ==
  ASSUME TypeOK, Coherent, WritersCoherent, ~ Raise, ~ GiveUp, ~ StopSpools, [Next]_vars
  PROVE  Shrinks
<1>1. CASE UNCHANGED vars \/ Signal \/ DeadlinePasses \/ Turn
  <2>1. \A t \in Alerts : Held(t)' => Held(t)
    BY <1>1 DEF vars, spool, drain, process, past, Signal, DeadlinePasses, Turn,
       Held, Open, Reading
  <2> QED BY <1>1, <2>1 DEF Shrinks, vars, spool, drain, process, past, Signal,
     DeadlinePasses, Turn
<1>2. CASE \E s \in Alerts : PublisherWrites(s)
  <2>1. PICK s \in Alerts : WriteOut("publisher", s)
    BY <1>2 DEF PublisherWrites
  <2>2. due' = due /\ (Reading' => Reading) /\ raised' = raised /\ buffer' = buffer /\ hand' = hand
    BY <1>2 DEF PublisherWrites, drain, process, Reading
  <2>3. holds' = holds /\ \A t \in Alerts : Held(t)' => Held(t)
    BY <2>1, <2>2, WriteOutHeld, WriteOutEffect
  <2> QED BY <2>2, <2>3 DEF Shrinks
<1>3. CASE Pending \/ FlushEnds
  <2>1. \A t \in Alerts : Held(t)' => Held(t)
    BY <1>3 DEF Pending, DrainOnly, spool, process, FlushEnds, Held, Open, Reading
  <2> QED BY <1>3, <2>1 DEF Shrinks, Pending, DrainOnly, spool, process, FlushEnds
<1>4. CASE FlushReads
  <2>1. Oldest(due) \in Alerts
    BY <1>4, OldestIn DEF FlushReads, TypeOK
  <2>2. \A t \in Alerts : Held(t)' => Held(t)
    BY <1>4, <2>1 DEF FlushReads, DrainOnly, TypeOK, Held, Open, Reading
  <2> QED BY <1>4, <2>2 DEF FlushReads, DrainOnly, Shrinks
<1>5. CASE FlushSends \/ FlushFails
  <2>1. \A t \in Alerts : Held(t)' => Held(t)
    BY <1>5 DEF FlushSends, Works, Tell, DrainOnly, spool, process, FlushFails,
       Fails, Held, Open, Reading
  <2> QED BY <1>5, <2>1 DEF Shrinks, FlushSends, Works, Tell, DrainOnly, spool,
     process, FlushFails, Fails
<1>6. CASE FlushRemoves
  <2>1. Oldest(due) \in Alerts
    BY <1>6, OldestIn DEF FlushRemoves, TypeOK, Coherent, Reading
  <2>2. \A t \in Alerts : Held(t)' => Held(t)
    BY <1>6, <2>1 DEF FlushRemoves, DrainOnly, TypeOK, Held, Open, Reading
  <2> QED BY <1>6, <2>2 DEF FlushRemoves, DrainOnly, Shrinks
<1>7. CASE Take
  <2>1. \A t \in Alerts : Held(t)' => Held(t)
    BY <1>7 DEF Take, DrainOnly, spool, Held, Open, Reading
  <2>2. hand' \subseteq buffer /\ buffer' \subseteq buffer
    BY <1>7, FirstSubset DEF Take
  <2> QED BY <1>7, <2>1, <2>2 DEF Take, DrainOnly, spool, Shrinks
<1>8. CASE SendWorks \/ SendFails \/ DrainEnds
  <2>1. \A t \in Alerts : Held(t)' => Held(t)
    BY <1>8 DEF SendWorks, Works, Tell, DrainOnly, spool, process, SendFails,
       Fails, DrainEnds, Held, Open, Reading
  <2> QED BY <1>8, <2>1 DEF Shrinks, SendWorks, Works, Tell, DrainOnly, spool,
     process, SendFails, Fails, DrainEnds
<1>9. CASE DrainWrites
  <2>1. PICK s \in Alerts : WriteOut("drain", s)
    BY <1>9 DEF DrainWrites
  <2>2. due' = due /\ (Reading' => Reading) /\ raised' = raised /\ buffer' = buffer /\ hand' = hand
    BY <1>9 DEF DrainWrites, Reading
  <2>3. holds' = holds /\ \A t \in Alerts : Held(t)' => Held(t)
    BY <2>1, <2>2, WriteOutHeld, WriteOutEffect
  <2> QED BY <2>2, <2>3 DEF Shrinks
<1>10. CASE Start \/ StopWaits \/ StopEnds
  <2>1. \A t \in Alerts : Held(t)' => Held(t)
    BY <1>10 DEF Start, spool, past, StopWaits, StopEnds, drain, Held, Open, Reading
  <2> QED BY <1>10, <2>1 DEF Shrinks, Start, spool, past, StopWaits, StopEnds, drain
<1>11. CASE Kill \/ Exit
  <2>1. \A t \in Alerts : Held(t)' => Held(t)
    BY <1>11 DEF Kill, Exit, Ends, Held, Open, Reading
  <2> QED BY <1>11, <2>1 DEF Shrinks, Kill, Exit, Ends
<1>12. CASE MainWrites
  <2>1. PICK s \in Alerts : WriteOut("main", s)
    BY <1>12 DEF MainWrites
  <2>2. due' = due /\ (Reading' => Reading) /\ raised' = raised /\ buffer' = buffer /\ hand' = hand
    BY <1>12 DEF MainWrites, drain, Reading
  <2>3. holds' = holds /\ \A t \in Alerts : Held(t)' => Held(t)
    BY <2>1, <2>2, WriteOutHeld, WriteOutEffect
  <2> QED BY <2>2, <2>3 DEF Shrinks
<1> QED BY <1>1, <1>2, <1>3, <1>4, <1>5, <1>6, <1>7, <1>8, <1>9, <1>10,
           <1>11, <1>12 DEF Next, Main, Drain

\* Every step keeps a message in one place.
LEMMA OnePlaceStep ==
  ASSUME TypeOK, Coherent, WritersCoherent, Fresh, OnePlace, [Next]_vars
  PROVE  OnePlace'
<1>1. CASE Raise
  <2>1. raised' \in Alerts /\ raised' = raised + 1 /\ raised \in Nat
    BY <1>1, SenderAssumption DEF Raise, Raising, Alerts, TypeOK
  <2>2. 1 .. raised \subseteq 1 .. raised' /\ raised' \notin 1 .. raised
    BY <2>1
  <2>3. \A t \in Alerts : Held(t) => raised' \notin holds[t]
    BY <2>2 DEF OnePlace
  <2>4. CASE buffer' = buffer \cup {raised'} /\ UNCHANGED spool
    <3>1. \A t \in Alerts : Held(t)' => Held(t)
      BY <1>1, <2>4 DEF Raise, spool, drain, Held, Open, Reading
    <3>2. hand' = hand /\ holds' = holds
      BY <1>1, <2>4 DEF Raise, spool, drain
    <3> QED BY <2>2, <2>3, <2>4, <3>1, <3>2 DEF OnePlace
  <2>5. CASE Create("publisher", raised', {raised'}) /\ UNCHANGED buffer
    <3>1. \A t \in Alerts : t # raised' /\ Held(t)' => Held(t)
      BY <1>1, <2>1, <2>5 DEF Raise, Create, drain, Held, Open, Reading, TypeOK
    <3>2. hand' = hand /\ holds' = [holds EXCEPT ![raised'] = {raised'}]
      BY <1>1, <2>5 DEF Raise, Create, drain
    <3>3. raised' \notin buffer \cup hand /\ raised' \in 1 .. raised'
      BY <2>1, <2>2 DEF Fresh
    <3>4. \A t \in Alerts : holds'[t] = IF t = raised' THEN {raised'} ELSE holds[t]
      BY <2>1, <3>2 DEF TypeOK
    <3> QED BY <2>1, <2>2, <2>3, <2>5, <3>1, <3>2, <3>3, <3>4 DEF OnePlace
  <2> QED BY <1>1, <2>4, <2>5 DEF Raise
<1>2. CASE GiveUp \/ StopSpools
  <2>1. PICK s \in Alerts, S \in SUBSET Alerts : Moves(s, S)
    BY <1>2, MovesStep
  <2>2. \A t \in Alerts : holds'[t] = IF t = s THEN S ELSE holds[t]
    BY <2>1 DEF Moves, TypeOK
  <2> QED BY <2>1, <2>2 DEF OnePlace, Moves, Fresh
<1>3. CASE ~ Raise /\ ~ GiveUp /\ ~ StopSpools
  <2>1. Shrinks
    BY <1>3, ShrinksStep
  <2> QED BY <2>1 DEF OnePlace, Shrinks
<1> QED BY <1>1, <1>2, <1>3

\* Every step keeps it that what is being removed was heard.
LEMMA ToldStep ==
  ASSUME TypeOK, Coherent, WritersCoherent, Fresh, Told, [Next]_vars
  PROVE  Told'
<1>1. CASE UNCHANGED vars \/ Signal \/ DeadlinePasses \/ Turn \/ StopWaits \/ StopEnds
  BY <1>1 DEF vars, spool, drain, process, past, Signal, DeadlinePasses,
     Turn, StopWaits, StopEnds, Told
<1>2. CASE Raise
  <2>1. (Oldest(due) \in due /\ Oldest(due) \in Alerts) \/ at # "removing"
    BY OldestIn DEF TypeOK, Coherent, Reading
  <2>2. raised' \in Alerts /\ raised' \notin due
    BY <1>2, SenderAssumption DEF Raise, Raising, Alerts, TypeOK, Fresh
  <2>3. CASE UNCHANGED holds
    BY <1>2, <2>3 DEF Raise, drain, Told
  <2>4. CASE Create("publisher", raised', {raised'})
    <3>1. at = "removing" => holds'[Oldest(due)] = holds[Oldest(due)]
      BY <2>1, <2>2, <2>4 DEF Create, TypeOK
    <3> QED BY <1>2, <3>1 DEF Raise, drain, Told
  <2> QED BY <1>2, <2>3, <2>4 DEF Raise, spool
<1>3. CASE \E s \in Alerts : PublisherWrites(s)
  <2>1. PICK s \in Alerts : WriteOut("publisher", s)
    BY <1>3 DEF PublisherWrites
  <2>2. holds' = holds
    BY <2>1, WriteOutEffect
  <2> QED BY <1>3, <2>2 DEF PublisherWrites, drain, process, Told
<1>4. CASE Pending \/ FlushEnds \/ FlushReads \/ FlushFails \/ FlushRemoves
  BY <1>4 DEF Pending, DrainOnly, spool, process, FlushEnds, FlushReads,
     FlushFails, Fails, Tell, FlushRemoves, Told
<1>5. CASE FlushSends
  <2>1. \A a \in holds[Oldest(due)] : heard'[a] > 0
    <3>1. Oldest(due) \in Alerts
      BY <1>5, OldestIn DEF FlushSends, TypeOK, Coherent, Reading
    <3> QED BY <1>5, <3>1 DEF FlushSends, Works, Tell, TypeOK
  <2> QED BY <1>5, <2>1 DEF FlushSends, DrainOnly, spool, Told
<1>6. CASE Take \/ SendWorks \/ SendFails \/ GiveUp \/ DrainEnds
  BY <1>6 DEF Take, Lose, DrainOnly, spool, process, SendWorks, Works, Tell,
     SendFails, Fails, GiveUp, Create, DrainEnds, Told
<1>7. CASE DrainWrites
  <2>1. PICK s \in Alerts : WriteOut("drain", s)
    BY <1>7 DEF DrainWrites
  <2>2. holds' = holds
    BY <2>1, WriteOutEffect
  <2> QED BY <1>7, <2>2 DEF DrainWrites, Told
<1>8. CASE Start
  BY <1>8 DEF Start, spool, past, Told
<1>9. CASE Kill \/ Exit
  BY <1>9 DEF Kill, Exit, Ends, Told
<1>10. CASE StopSpools
  <2>1. (Oldest(due) \in due /\ Oldest(due) \in Alerts) \/ at # "removing"
    BY OldestIn DEF TypeOK, Coherent, Reading
  <2>2. Oldest(buffer) \in buffer
    BY <1>10, OldestIn DEF StopSpools, TypeOK
  <2> QED BY <1>10, <2>1, <2>2 DEF StopSpools, Create, drain, TypeOK, Told, Fresh
<1>11. CASE MainWrites
  <2>1. PICK s \in Alerts : WriteOut("main", s)
    BY <1>11 DEF MainWrites
  <2>2. holds' = holds
    BY <2>1, WriteOutEffect
  <2> QED BY <1>11, <2>2 DEF MainWrites, drain, Told
<1> QED BY <1>1, <1>2, <1>3, <1>4, <1>5, <1>6, <1>7, <1>8, <1>9, <1>10,
           <1>11 DEF Next, Main, Drain

\* A doubt lasts.
LEMMA DoubtLasts ==
  ASSUME TypeOK, Doubt, [Next]_vars
  PROVE  Doubt'
<1>1. CASE UNCHANGED vars \/ Raise \/ Signal \/ Turn \/ Start \/ StopWaits \/ StopEnds \/
           StopSpools
  BY <1>1 DEF vars, spool, drain, process, past, Raise, Raising, Create,
     Signal, Turn, Start, StopWaits, StopEnds, StopSpools, Doubt
<1>2. CASE \E s \in Alerts : PublisherWrites(s)
  BY <1>2, WriteOutEffect DEF PublisherWrites, Doubt
<1>3. CASE Pending \/ FlushEnds \/ FlushReads \/ FlushSends \/ FlushFails \/
           FlushRemoves
  BY <1>3 DEF Pending, DrainOnly, spool, process, FlushEnds, FlushReads,
     FlushSends, Works, Tell, FlushFails, Fails, FlushRemoves, Doubt
<1>4. CASE Take \/ SendWorks \/ SendFails \/ GiveUp \/ DrainEnds
  BY <1>4 DEF Take, Lose, DrainOnly, spool, process, SendWorks, Works, Tell,
     SendFails, Fails, GiveUp, Create, DrainEnds, Doubt
<1>5. CASE DrainWrites
  BY <1>5, WriteOutEffect DEF DrainWrites, Doubt
<1>6. CASE Kill \/ Exit
  <2>1. deaths' \in {deaths, deaths + 1} /\ unsure' = unsure
    BY <1>6, SenderAssumption DEF Kill, Exit, Ends, TypeOK
  <2> QED BY <2>1, SenderAssumption DEF Doubt, TypeOK
<1>7. CASE DeadlinePasses
  <2>1. deaths' \in {deaths, deaths + 1} /\ unsure' = unsure
    BY <1>7, SenderAssumption DEF DeadlinePasses, TypeOK
  <2> QED BY <2>1, SenderAssumption DEF Doubt, TypeOK
<1>8. CASE MainWrites
  BY <1>8, WriteOutEffect DEF MainWrites, Doubt
<1> QED BY <1>1, <1>2, <1>3, <1>4, <1>5, <1>6, <1>7, <1>8 DEF Next, Main,
           Drain

\* Other steps say nothing and leave what is being removed.
LEMMA SilentStep ==
  ASSUME TypeOK, Coherent, WritersCoherent, ~ Raise, ~ GiveUp, ~ StopSpools, ~ FlushSends,
         ~ FlushFails, ~ FlushRemoves, ~ SendWorks, ~ SendFails, ~ Kill, ~ Exit, [Next]_vars
  PROVE  heard' = heard /\ (at = "removing" => at' = "removing" /\ due' = due)
<1>1. CASE UNCHANGED vars \/ Signal \/ DeadlinePasses \/ Turn \/ StopWaits \/ StopEnds \/
           MainWrites
  BY <1>1 DEF vars, spool, drain, process, past, Signal, DeadlinePasses,
     Turn, StopWaits, StopEnds, MainWrites
<1>2. CASE \E s \in Alerts : PublisherWrites(s)
  BY <1>2 DEF PublisherWrites, drain, process
<1>3. CASE Pending \/ FlushEnds \/ FlushReads \/ Take \/ DrainEnds
  BY <1>3 DEF Pending, DrainOnly, spool, process, FlushEnds, FlushReads,
     Take, Lose, DrainEnds
<1>4. CASE DrainWrites
  <2>1. at = "spooling"
    BY <1>4 DEF DrainWrites, WriteOut, WritersCoherent
  <2> QED BY <1>4, <2>1 DEF DrainWrites
<1>5. CASE Start
  BY <1>5 DEF Start, Coherent
<1> QED BY <1>1, <1>2, <1>3, <1>4, <1>5 DEF Next, Main, Drain

\* Every step keeps it that, without a doubt, what was heard is done with.
LEMMA HeardOnceStep ==
  ASSUME TypeOK, Coherent, WritersCoherent, Fresh, OnePlace, HeardOnce, [Next]_vars
  PROVE  HeardOnce'
<1> SUFFICES ASSUME ~ Doubt'
             PROVE  \A a \in Alerts :
                      /\ heard'[a] <= 1
                      /\ heard'[a] > 0 =>
                           /\ a <= raised'
                           /\ a \notin buffer' \cup hand'
                           /\ \A s \in Alerts : Held(s)' /\ a \in holds'[s] =>
                                at' = "removing" /\ Open(s)'
  BY DEF HeardOnce
<1>1. ~ Doubt
  BY DoubtLasts
<1>2. \A a \in Alerts : heard[a] \in 0 .. 2
  BY DEF TypeOK
<1>3. CASE Raise
  <2>1. raised' \in Alerts /\ raised' = raised + 1 /\ raised \in Nat
    BY <1>3, SenderAssumption DEF Raise, Raising, Alerts, TypeOK
  <2>2. ~ (heard[raised'] > 0)
    BY <1>1, <2>1 DEF HeardOnce
  <2>3. heard' = heard /\ hand' = hand /\ at' = at /\ due' = due
        /\ buffer' \subseteq buffer \cup {raised'}
    BY <1>3 DEF Raise, drain
  <2>4. \A a \in Alerts : a <= raised => a <= raised' /\ a # raised'
    BY <2>1 DEF Alerts
  <2>5. \A s \in Alerts : Open(s) => Open(s)'
    BY <2>3 DEF Open, Reading
  <2>6. \A t \in Alerts, a \in Alerts \ {raised'} : Held(t)' /\ a \in holds'[t] =>
          Held(t) /\ a \in holds[t]
    BY <1>3, <2>1 DEF Raise, Create, spool, drain, Held, Open, Reading, TypeOK
  <2> QED BY <1>1, <1>2, <2>2, <2>3, <2>4, <2>5, <2>6 DEF HeardOnce
<1>4. CASE GiveUp \/ StopSpools
  <2>1. PICK s \in Alerts, S \in SUBSET Alerts : Moves(s, S)
    BY <1>4, MovesStep
  <2>2. \A t \in Alerts : holds'[t] = IF t = s THEN S ELSE holds[t]
    BY <2>1 DEF Moves, TypeOK
  <2>3. \A t \in Alerts : at = "removing" /\ Open(t) => at' = "removing" /\ Open(t)'
    BY <2>1 DEF Moves, Open, Reading
  <2> QED BY <1>1, <2>1, <2>2, <2>3 DEF Moves, HeardOnce
<1>5. CASE FlushSends
  <2>0. PICK s \in Alerts : s = Oldest(due)
    BY <1>5, OldestIn DEF FlushSends, TypeOK, Coherent, Reading
  <2>1. s \in Alerts /\ Open(s) /\ Held(s) /\ at = "telling" /\ at' = "removing" /\ due' = due
    BY <1>5, <2>0 DEF FlushSends, Reading, Open, Held
  <2>2. Shrinks
    BY <1>5, ShrinksStep DEF FlushSends, Raise, GiveUp, StopSpools, DrainOnly, process, TypeOK
  <2>3. \A a \in holds[s] : ~ (heard[a] > 0)
    BY <1>1, <2>1 DEF HeardOnce, TypeOK
  <2>4. \A a \in Alerts : a \notin holds[s] => heard'[a] = heard[a]
    BY <1>5, <2>0 DEF FlushSends, Works, Tell, TypeOK
  <2>5. \A a \in holds[s] : heard'[a] = 1
    BY <1>2, <1>5, <2>0, <2>1, <2>3 DEF FlushSends, Works, Tell, TypeOK
  <2>6. Open(s)' /\ \A t \in Alerts : Open(t) => Open(t)'
    BY <2>0, <2>1 DEF Open, Reading
  <2>7. \A a \in holds[s] : /\ a <= raised /\ a \notin buffer \cup hand
                            /\ \A t \in Alerts : Held(t) /\ a \in holds[t] => t = s
    BY <2>1 DEF OnePlace
  <2> QED BY <1>1, <1>2, <2>1, <2>2, <2>4, <2>5, <2>6, <2>7 DEF HeardOnce, Shrinks
<1>6. CASE FlushFails
  <2>1. Shrinks
    BY <1>6, ShrinksStep DEF FlushFails, Raise, GiveUp, StopSpools, DrainOnly, process, TypeOK
  <2>2. heard' = heard
    BY <1>6 DEF FlushFails, Fails, Doubt
  <2>3. at = "telling"
    BY <1>6 DEF FlushFails
  <2> QED BY <1>1, <2>1, <2>2, <2>3 DEF HeardOnce, Shrinks
<1>7. CASE FlushRemoves
  <2>0. PICK s \in Alerts : s = Oldest(due)
    BY <1>7, OldestIn DEF FlushRemoves, TypeOK, Coherent, Reading
  <2>1. Shrinks /\ heard' = heard
    BY <1>7, ShrinksStep DEF FlushRemoves, Raise, GiveUp, StopSpools, DrainOnly, process, TypeOK
  <2>2. ~ Held(s)'
    BY <1>7, <2>0 DEF FlushRemoves, WritersCoherent, Held, Open, Reading, TypeOK
  <2>3. \A t \in Alerts : Open(t) => t = s
    BY <2>0 DEF Open
  <2> QED BY <1>1, <2>1, <2>2, <2>3 DEF HeardOnce, Shrinks
<1>8. CASE SendWorks
  <2>1. Shrinks
    BY <1>8, ShrinksStep DEF SendWorks, Raise, GiveUp, StopSpools, DrainOnly, process, TypeOK
  <2>2. \A a \in hand : ~ (heard[a] > 0)
    BY <1>1 DEF HeardOnce, TypeOK
  <2>3. \A a \in hand : heard'[a] = 1
    BY <1>2, <1>8, <2>2 DEF SendWorks, Works, Tell, TypeOK
  <2>4. \A a \in Alerts : a \notin hand => heard'[a] = heard[a]
    BY <1>8 DEF SendWorks, Works, Tell, TypeOK
  <2>5. hand' = {} /\ buffer' = buffer /\ at = "sending"
    BY <1>8 DEF SendWorks
  <2>6. \A a \in hand : a <= raised /\ a \notin buffer
    BY DEF Fresh
  <2>7. \A a \in hand, t \in Alerts : Held(t) => a \notin holds[t]
    BY DEF OnePlace
  <2> QED BY <1>1, <1>2, <2>1, <2>3, <2>4, <2>5, <2>6, <2>7 DEF HeardOnce, Shrinks
<1>9. CASE SendFails
  <2>1. Shrinks
    BY <1>9, ShrinksStep DEF SendFails, Raise, GiveUp, StopSpools, DrainOnly, process, TypeOK
  <2>2. heard' = heard
    BY <1>9 DEF SendFails, Fails, Doubt
  <2>3. at = "sending"
    BY <1>9 DEF SendFails
  <2> QED BY <1>1, <2>1, <2>2, <2>3 DEF HeardOnce, Shrinks
<1>10. CASE Kill \/ Exit
  <2>1. CASE Kill
    BY <2>1, <1>1, SenderAssumption DEF Kill, Doubt, TypeOK
  <2>2. CASE Exit
    <3>1. at # "removing" /\ at' # "removing"
      BY <1>1, <2>2 DEF Exit, Ends, Coherent, Doubt
    <3>2. Shrinks /\ heard' = heard
      BY <2>2, ShrinksStep DEF Exit, Ends, Raise, GiveUp, StopSpools, process
    <3> QED BY <1>1, <3>1, <3>2 DEF HeardOnce, Shrinks
  <2> QED BY <1>10, <2>1, <2>2
<1>11. CASE /\ ~ Raise /\ ~ GiveUp /\ ~ StopSpools /\ ~ FlushSends /\ ~ FlushFails
            /\ ~ FlushRemoves /\ ~ SendWorks /\ ~ SendFails /\ ~ Kill /\ ~ Exit
  <2>1. Shrinks
    BY <1>11, ShrinksStep
  <2>2. heard' = heard /\ (at = "removing" => at' = "removing" /\ due' = due)
    BY <1>11, SilentStep
  <2>3. \A t \in Alerts : at = "removing" /\ Open(t) => at' = "removing" /\ Open(t)'
    BY <2>2 DEF Open, Reading
  <2> QED BY <1>1, <2>1, <2>2, <2>3 DEF HeardOnce, Shrinks
<1> QED BY <1>3, <1>4, <1>5, <1>6, <1>7, <1>8, <1>9, <1>10, <1>11

-----------------------------------------------------------------------------
(* No alert slips through.                                                 *)

\* What waits in a file that is written out waits on, or its loss is recorded.
LEMMA WriteOutKeeps ==
  ASSUME TypeOK, NEW who, NEW s \in Alerts, WriteOut(who, s), NEW a \in Alerts,
         NEW t \in Alerts, a \in holds[t], files[t] = "full" \/ writing[t] # "nobody"
  PROVE  \/ a \in holds'[t] /\ (files'[t] = "full" \/ writing'[t] # "nobody")
         \/ LetGo(a)'
<1>1. holds' = holds /\ Causes = {"death", "limit", "torn", "digest"}
  BY WriteOutEffect DEF Causes
<1>2. CASE t = s
  BY <1>1, <1>2, WriteOutEffect DEF LetGo
<1>3. CASE t # s /\ writing[t] # "nobody"
  BY <1>1, <1>3, WriteOutEffect DEF TypeOK
<1>4. CASE t # s /\ files[t] = "full"
  BY <1>1, <1>4, WriteOutEffect DEF LetGo
<1> QED BY <1>2, <1>3, <1>4

\* What is moved to a file waits there, and the rest where it was.
LEMMA MovedWaits ==
  ASSUME TypeOK, Fresh, NEW s \in Alerts, NEW S \in SUBSET Alerts, Moves(s, S)
  PROVE  \A a \in Alerts : Waiting(a) => Waiting(a)'
<1>1. files[s] = "none" /\ writing[s] = "nobody"
  BY DEF Moves, Fresh
<1>2. \A t \in Alerts : holds'[t] = IF t = s THEN S ELSE holds[t]
  BY DEF Moves, TypeOK
<1> QED BY <1>1, <1>2 DEF Moves, Waiting

\* What was heard was heard, and what was let go of is gone.
LEMMA GainsStep ==
  ASSUME TypeOK, [Next]_vars
  PROVE  \A a \in Alerts : (heard[a] > 0 => heard'[a] > 0) /\ (LetGo(a) => LetGo(a)')
<1>1. CASE UNCHANGED vars \/ Raise \/ Signal \/ DeadlinePasses \/ Turn \/
           Start \/ StopWaits \/ StopEnds \/ StopSpools
  BY <1>1 DEF vars, spool, drain, process, past, Raise, Raising, Create,
     Signal, DeadlinePasses, Turn, Start, StopWaits, StopEnds, StopSpools, LetGo
<1>2. CASE \E s \in Alerts : PublisherWrites(s)
  <2>1. PICK s \in Alerts : WriteOut("publisher", s)
    BY <1>2 DEF PublisherWrites
  <2> QED BY <1>2, <2>1, WriteOutEffect DEF PublisherWrites, LetGo
<1>3. CASE Pending \/ FlushEnds \/ FlushReads \/ FlushRemoves \/ GiveUp \/
           DrainEnds
  BY <1>3 DEF Pending, DrainOnly, spool, process, FlushEnds, FlushReads,
     FlushRemoves, GiveUp, Create, DrainEnds, LetGo
<1>4. CASE FlushSends
  <2>1. lost' = lost /\ Tell(holds[Oldest(due)])
    BY <1>4 DEF FlushSends, Works
  <2> QED BY <2>1 DEF LetGo, Tell, TypeOK
<1>5. CASE FlushFails
  <2>1. lost' = lost /\ (heard' = heard \/ Tell(holds[Oldest(due)]))
    BY <1>5 DEF FlushFails, Fails
  <2> QED BY <2>1 DEF LetGo, Tell, TypeOK
<1>6. CASE Take
  <2>1. heard' = heard /\ \A c \in Causes : lost[c] \subseteq lost'[c]
    BY <1>6 DEF Take, Lose, TypeOK
  <2> QED BY <2>1 DEF LetGo
<1>7. CASE SendWorks
  <2>1. lost' = lost /\ Tell(hand)
    BY <1>7 DEF SendWorks, Works
  <2> QED BY <2>1 DEF LetGo, Tell, TypeOK
<1>8. CASE SendFails
  <2>1. lost' = lost /\ (heard' = heard \/ Tell(hand))
    BY <1>8 DEF SendFails, Fails
  <2> QED BY <2>1 DEF LetGo, Tell, TypeOK
<1>9. CASE DrainWrites
  <2>1. PICK s \in Alerts : WriteOut("drain", s)
    BY <1>9 DEF DrainWrites
  <2> QED BY <1>9, <2>1, WriteOutEffect DEF DrainWrites, LetGo
<1>10. CASE Kill \/ Exit
  <2>1. heard' = heard /\ \A c \in Causes : lost[c] \subseteq lost'[c]
    BY <1>10 DEF Kill, Exit, Ends, Lose, TypeOK
  <2> QED BY <2>1 DEF LetGo
<1>11. CASE MainWrites
  <2>1. PICK s \in Alerts : WriteOut("main", s)
    BY <1>11 DEF MainWrites
  <2> QED BY <1>11, <2>1, WriteOutEffect DEF MainWrites, LetGo
<1> QED BY <1>1, <1>2, <1>3, <1>4, <1>5, <1>6, <1>7, <1>8, <1>9, <1>10,
           <1>11 DEF Next, Main, Drain

\* No step drops what is waiting: it waits on, is heard, or is let go of.
LEMMA KeepsStep ==
  ASSUME TypeOK, Coherent, Fresh, Told, [Next]_vars
  PROVE  \A a \in Alerts : Waiting(a) => heard'[a] > 0 \/ Waiting(a)' \/ LetGo(a)'
<1>1. CASE UNCHANGED vars \/ Signal \/ DeadlinePasses \/ Turn \/ Start \/
           StopWaits \/ StopEnds
  BY <1>1 DEF vars, spool, drain, process, past, Signal, DeadlinePasses,
     Turn, Start, StopWaits, StopEnds, Waiting
<1>2. CASE Raise
  <2>1. raised' \in Alerts /\ raised' > raised
    BY <1>2, SenderAssumption DEF Raise, Raising, Alerts, TypeOK
  <2>2. files[raised'] = "none" /\ writing[raised'] = "nobody"
    BY <2>1 DEF Fresh
  <2>3. \A t \in Alerts : files[t] = "full" \/ writing[t] # "nobody" =>
          files'[t] = files[t] /\ writing'[t] = writing[t] /\ holds'[t] = holds[t]
    BY <1>2, <2>1, <2>2 DEF Raise, Create, spool, TypeOK
  <2>4. buffer \subseteq buffer' /\ hand' = hand
    BY <1>2 DEF Raise, drain
  <2> QED BY <2>3, <2>4 DEF Waiting
<1>3. CASE \E s \in Alerts : PublisherWrites(s)
  <2>1. PICK s \in Alerts : WriteOut("publisher", s)
    BY <1>3 DEF PublisherWrites, drain, process
  <2>2. \A a \in Alerts : a \in buffer \cup hand => a \in buffer' \cup hand'
    BY <1>3 DEF PublisherWrites, drain, process
  <2> QED BY <2>1, <2>2, WriteOutKeeps DEF Waiting
<1>4. CASE Pending \/ FlushEnds \/ FlushSends \/ FlushFails \/ SendFails \/
           DrainEnds
  BY <1>4 DEF Pending, DrainOnly, spool, process, FlushEnds, FlushSends,
     Works, Tell, FlushFails, Fails, SendFails, DrainEnds, Waiting
<1>5. CASE FlushReads
  <2>1. Oldest(due) \in Alerts
    BY <1>5, OldestIn DEF FlushReads, TypeOK
  <2> QED BY <1>5, <2>1 DEF FlushReads, DrainOnly, Waiting, TypeOK
<1>6. CASE FlushRemoves
  <2>1. PICK s \in Alerts : s = Oldest(due)
    BY <1>6, OldestIn DEF FlushRemoves, TypeOK, Coherent, Reading
  <2>2. \A a \in holds[s] : heard'[a] > 0
    BY <1>6, <2>1 DEF FlushRemoves, Told
  <2>3. \A t \in Alerts : t # s => files'[t] = files[t]
    BY <1>6, <2>1 DEF FlushRemoves, TypeOK
  <2> QED BY <1>6, <2>2, <2>3 DEF FlushRemoves, Waiting
<1>7. CASE Take
  <2>1. hand = {} /\ UNCHANGED spool
    BY <1>7 DEF Take, Coherent
  <2>2. \A a \in buffer : a \in buffer' \/ a \in hand' \/ a \in lost'["digest"]
    BY <1>7 DEF Take, Lose, TypeOK, Causes
  <2> QED BY <2>1, <2>2 DEF Waiting, LetGo, Causes, spool
<1>8. CASE SendWorks
  <2>1. \A a \in hand : heard'[a] > 0
    BY <1>8 DEF SendWorks, Works, Tell, TypeOK
  <2> QED BY <1>8, <2>1 DEF SendWorks, spool, Waiting
<1>9. CASE GiveUp \/ StopSpools
  <2>1. PICK s \in Alerts, S \in SUBSET Alerts : Moves(s, S)
    BY <1>9, MovesStep
  <2> QED BY <2>1, MovedWaits
<1>10. CASE DrainWrites
  <2>1. PICK s \in Alerts : WriteOut("drain", s)
    BY <1>10 DEF DrainWrites
  <2>2. \A a \in Alerts : a \in buffer \cup hand => a \in buffer' \cup hand'
    BY <1>10 DEF DrainWrites
  <2> QED BY <2>1, <2>2, WriteOutKeeps DEF Waiting
<1>11. CASE Kill \/ Exit
  <2>1. \A a \in Alerts : Waiting(a) =>
          \/ a \in lost'["death"]
          \/ \E s \in Alerts : a \in holds[s] /\ files[s] = "full"
    BY <1>11 DEF Kill, Exit, Ends, Lose, Waiting, TypeOK, Causes
  <2>2. UNCHANGED <<files, holds>>
    BY <1>11 DEF Kill, Exit, Ends
  <2> QED BY <2>1, <2>2 DEF Waiting, LetGo, Causes
<1>12. CASE MainWrites
  <2>1. PICK s \in Alerts : WriteOut("main", s)
    BY <1>12 DEF MainWrites, drain
  <2>2. \A a \in Alerts : a \in buffer \cup hand => a \in buffer' \cup hand'
    BY <1>12 DEF MainWrites, drain
  <2> QED BY <2>1, <2>2, WriteOutKeeps DEF Waiting
<1> QED BY <1>1, <1>2, <1>3, <1>4, <1>5, <1>6, <1>7, <1>8, <1>9, <1>10,
           <1>11, <1>12 DEF Next, Main, Drain

\* Every step keeps every alert accounted for.
LEMMA AccountedStep ==
  ASSUME TypeOK, Coherent, Fresh, Told, Accounted, [Next]_vars
  PROVE  Accounted'
<1>1. \A a \in Alerts : heard[a] > 0 \/ Waiting(a) \/ LetGo(a) =>
        heard'[a] > 0 \/ Waiting(a)' \/ LetGo(a)'
  BY GainsStep, KeepsStep
<1>2. 1 .. raised \subseteq Alerts
  BY SenderAssumption DEF TypeOK, Alerts
<1>3. CASE Raise
  <2>1. PICK n \in Alerts : n = raised' /\ 1 .. n = 1 .. raised \cup {n}
    BY <1>3, SenderAssumption DEF Raise, Raising, Alerts, TypeOK
  <2>2. Waiting(n)'
    BY <1>3, <2>1 DEF Raise, Create, Waiting, TypeOK
  <2> QED BY <1>1, <1>2, <2>1, <2>2 DEF Accounted
<1>4. CASE ~ Raise
  <2>1. raised' = raised
    BY <1>4, MovesStep DEF Next, vars, PublisherWrites, Drain, Pending, FlushEnds, FlushReads,
       FlushSends, FlushFails, FlushRemoves, Take, SendWorks, SendFails, GiveUp,
       DrainWrites, DrainEnds, DrainOnly, Main, Start, StopWaits, StopEnds, StopSpools,
       MainWrites, Exit, Signal, DeadlinePasses, Kill, Ends, Turn
  <2> QED BY <1>1, <1>2, <2>1 DEF Accounted
<1> QED BY <1>3, <1>4

\* Every step keeps it that only a death or a missed deadline forgets.
LEMMA OrderlyStep ==
  ASSUME TypeOK, Coherent, WritersCoherent, OrderlyStopKeepsAll, [Next]_vars
  PROVE  OrderlyStopKeepsAll'
<1>1. CASE UNCHANGED vars \/ Raise \/ Signal \/ Turn \/ Start \/ StopWaits \/ StopEnds \/
           StopSpools
  BY <1>1 DEF vars, spool, drain, process, past, Raise, Raising, Create,
     Signal, Turn, Start, StopWaits, StopEnds, StopSpools, OrderlyStopKeepsAll
<1>2. CASE \E s \in Alerts : PublisherWrites(s)
  BY <1>2, WriteOutEffect DEF PublisherWrites, OrderlyStopKeepsAll
<1>3. CASE Pending \/ FlushEnds \/ FlushReads \/ FlushSends \/ FlushFails \/
           FlushRemoves
  BY <1>3 DEF Pending, DrainOnly, spool, process, FlushEnds, FlushReads,
     FlushSends, Works, Tell, FlushFails, Fails, FlushRemoves,
     OrderlyStopKeepsAll
<1>4. CASE Take
  <2>1. lost'["death"] = lost["death"] /\ deaths' = deaths
    BY <1>4 DEF Take, Lose, DrainOnly, TypeOK, Causes
  <2> QED BY <2>1 DEF OrderlyStopKeepsAll
<1>5. CASE SendWorks \/ SendFails \/ GiveUp \/ DrainEnds
  BY <1>5 DEF SendWorks, Works, Tell, DrainOnly, spool, process, SendFails,
     Fails, GiveUp, Create, DrainEnds, OrderlyStopKeepsAll
<1>6. CASE DrainWrites
  BY <1>6, WriteOutEffect DEF DrainWrites, OrderlyStopKeepsAll
<1>7. CASE Kill \/ Exit
  <2>1. CASE Kill
    <3>1. deaths' > 0
      BY <2>1, SenderAssumption DEF Kill, TypeOK
    <3> QED BY <3>1 DEF OrderlyStopKeepsAll
  <2>2. CASE Exit /\ late
    BY <2>2 DEF Exit, Coherent, OrderlyStopKeepsAll
  <2>3. CASE Exit /\ ~ late
    <3>1. main = "done" /\ buffer = {}
      BY <2>3 DEF Exit, Coherent
    <3>2. hand = {} /\ at = "gone"
      BY <2>3, <3>1 DEF Coherent
    <3>3. \A s \in Alerts : writing[s] = "nobody"
      BY <2>3, <3>1, <3>2 DEF WritersCoherent, TypeOK
    <3>4. lost'["death"] = lost["death"] /\ deaths' = deaths
      BY <2>3, <3>1, <3>2, <3>3 DEF Exit, Ends, Lose, TypeOK, Causes
    <3> QED BY <3>4 DEF OrderlyStopKeepsAll
  <2> QED BY <1>7, <2>1, <2>2, <2>3
<1>8. CASE DeadlinePasses
  <2>1. deaths' > 0
    BY <1>8, SenderAssumption DEF DeadlinePasses, TypeOK
  <2> QED BY <2>1 DEF OrderlyStopKeepsAll
<1>9. CASE MainWrites
  BY <1>9, WriteOutEffect DEF MainWrites, OrderlyStopKeepsAll
<1> QED BY <1>1, <1>2, <1>3, <1>4, <1>5, <1>6, <1>7, <1>8, <1>9 DEF Next,
           Main, Drain

-----------------------------------------------------------------------------
(* The trim.                                                               *)

\* Alerts are finitely many.
LEMMA AlertsFinite ==
  ASSUME NEW S \in SUBSET Alerts
  PROVE  IsFiniteSet(S) /\ Cardinality(S) \in Nat
<1>1. IsFiniteSet(Alerts)
  BY SenderAssumption, FS_Interval DEF Alerts
<1> QED BY <1>1, FS_Subset, FS_CardinalityType

\* What a trim lets go of is older than what it leaves.
LEMMA TrimTakesOldest ==
  ASSUME NEW there \in SUBSET Alerts, NEW s \in OverLimit(there), NEW t \in there \ OverLimit(there)
  PROVE  s < t
<1> DEFINE n == Cardinality(there) - SpoolLimit
           UpTo(x) == {u \in there : u <= x}
<1>1. IsFiniteSet(there) /\ Cardinality(there) \in Nat
  BY AlertsFinite
<1>2. \A x : IsFiniteSet(UpTo(x)) /\ Cardinality(UpTo(x)) \in Nat
  <2>1. ASSUME NEW x PROVE IsFiniteSet(UpTo(x)) /\ Cardinality(UpTo(x)) \in Nat
    BY <1>1, FS_Subset, FS_CardinalityType
  <2> QED BY <2>1
<1>3. n \in Int
  BY <1>1, FS_CardinalityType, SenderAssumption
<1>4. Cardinality(UpTo(s)) <= n /\ ~ (Cardinality(UpTo(t)) <= n) /\ s \in there
  BY DEF OverLimit, First
<1>5. s \in Nat /\ t \in Nat /\ \A u \in there : u \in Nat
  BY <1>4, SenderAssumption DEF Alerts
<1>6. ASSUME t <= s PROVE FALSE
  <2>1. \A u \in there : u <= t => u <= s
    BY <1>5, <1>6
  <2>2. UpTo(t) \in SUBSET UpTo(s)
    BY <2>1
  <2>3. Cardinality(UpTo(t)) <= Cardinality(UpTo(s))
    BY <1>2, <2>2, FS_Subset
  <2> HIDE DEF UpTo, n
  <2> QED BY <1>2, <1>3, <1>4, <2>3
<1> QED BY <1>5, <1>6

\* And it leaves no more than the limit.
LEMMA TrimBounds ==
  ASSUME NEW there \in SUBSET Alerts
  PROVE  /\ IsFiniteSet(there \ OverLimit(there))
         /\ Cardinality(there \ OverLimit(there)) <= SpoolLimit
<1> DEFINE n == Cardinality(there) - SpoolLimit
           left == there \ OverLimit(there)
           UpTo(x) == {u \in there : u <= x}
<1>1. IsFiniteSet(there) /\ Cardinality(there) \in Nat /\ SpoolLimit \in Nat
  BY SenderAssumption, AlertsFinite
<1>2. IsFiniteSet(left) /\ Cardinality(left) \in Nat
  BY <1>1, FS_Subset, FS_CardinalityType
<1>3. CASE left = {}
  BY <1>1, <1>3, FS_EmptySet
<1>4. CASE left # {}
  <2>1. PICK s \in left : \A t \in left : s <= t
    BY <1>4, OldestIn
  <2>2. IsFiniteSet(UpTo(s)) /\ Cardinality(UpTo(s)) \in Nat /\ ~ (Cardinality(UpTo(s)) <= n)
    BY <1>1, <2>1, FS_Subset, FS_CardinalityType DEF OverLimit, First
  <2> DEFINE rest == there \ UpTo(s)
  <2>3. IsFiniteSet(rest) /\ Cardinality(rest) = Cardinality(there) - Cardinality(UpTo(s))
    <3>1. there \cap UpTo(s) = UpTo(s)
      OBVIOUS
    <3> HIDE DEF UpTo
    <3> QED BY <1>1, <2>2, <3>1, FS_Difference
  <2>4. left \subseteq rest \cup {s}
    <3>1. \A t \in left : t # s => ~ (t <= s)
      BY <2>1, SenderAssumption DEF Alerts
    <3> QED BY <3>1
  <2>5. Cardinality(rest) \in Nat
    BY <2>3, FS_CardinalityType
  <2> HIDE DEF rest, UpTo, left, n
  <2>6. /\ IsFiniteSet(rest \cup {s}) /\ Cardinality(rest \cup {s}) \in Nat
        /\ Cardinality(rest \cup {s}) \in {Cardinality(rest), Cardinality(rest) + 1}
    BY <2>3, <2>5, FS_AddElement, FS_CardinalityType
  <2>7. Cardinality(left) <= Cardinality(rest \cup {s})
    BY <2>4, <2>6, FS_Subset
  <2>8. Cardinality(rest) < SpoolLimit
    BY <1>1, <2>2, <2>3, <2>5 DEF n
  <2>9. Cardinality(left) <= SpoolLimit
    BY <1>1, <1>2, <2>5, <2>6, <2>7, <2>8
  <2> QED BY <1>2, <2>9 DEF left
<1> QED BY <1>2, <1>3, <1>4

\* After a file is written out, what is left was there and was not trimmed.
LEMMA WriteOutTrims ==
  ASSUME TypeOK, NEW who, NEW s \in Alerts, WriteOut(who, s)
  PROVE  Files' = Files \ OverLimit(Files)
<1>1. files' = [t \in Alerts |-> IF t \in OverLimit(Files) THEN "none"
                  ELSE IF files[s] = "torn" THEN [files EXCEPT ![s] = "full"][t] ELSE files[t]]
  BY DEF WriteOut
<1>2. \A t \in Alerts : files'[t] # "none" <=> files[t] # "none" /\ t \notin OverLimit(Files)
  BY <1>1 DEF TypeOK
<1>3. OverLimit(Files) \subseteq Files
  BY FirstSubset DEF OverLimit
<1> QED BY <1>2 DEF Files

\* Every step keeps the spool within its limit.
LEMMA SpoolBoundedStep ==
  ASSUME TypeOK, Coherent, SpoolBounded, [Next]_vars
  PROVE  SpoolBounded'
<1> DEFINE Full == {s \in Alerts : files[s] = "full"}
<1>a. IsFiniteSet(Alerts)
  BY SenderAssumption, FS_Interval DEF Alerts
<1>b. IsFiniteSet(Full) /\ Cardinality(Full) \in Nat /\ Cardinality(Full) <= SpoolLimit
  BY <1>a, FS_Subset, FS_CardinalityType DEF SpoolBounded
<1>c. ASSUME NEW S, IsFiniteSet(S), Cardinality(S) \in Nat, Cardinality(S) <= SpoolLimit, Full' \subseteq S
      PROVE  SpoolBounded'
  <2>1. Full' \in SUBSET S
    BY <1>c
  <2>2. IsFiniteSet(Full') /\ Cardinality(Full') <= Cardinality(S)
    BY <1>c, <2>1, FS_Subset
  <2>3. Cardinality(Full') \in Nat
    BY <2>2, FS_CardinalityType
  <2>4. Cardinality(Full') <= SpoolLimit
    BY <1>c, <2>2, <2>3, SenderAssumption
  <2> QED BY <2>4 DEF SpoolBounded
<1>d. ASSUME NEW s \in Alerts, NEW who, WriteOut(who, s)
      PROVE  SpoolBounded'
  <2>1. Files' = Files \ OverLimit(Files)
    BY <1>d, WriteOutTrims
  <2>2. IsFiniteSet(Files') /\ Cardinality(Files') <= SpoolLimit /\ Cardinality(Files') \in Nat
    BY <2>1, TrimBounds, FS_CardinalityType DEF Files
  <2>3. Full' \subseteq Files'
    BY DEF Files
  <2> QED BY <1>c, <2>2, <2>3
<1>e. ASSUME \A s \in Alerts : files'[s] = "full" => files[s] = "full"
      PROVE  SpoolBounded'
  BY <1>b, <1>c, <1>e
<1>1. CASE UNCHANGED vars \/ Signal \/ DeadlinePasses \/ Turn
  BY <1>1, <1>e DEF vars, spool, drain, process, past, Signal,
     DeadlinePasses, Turn
<1>2. CASE Raise
  <2>1. raised' \in Alerts
    BY <1>2, SenderAssumption DEF Raise, Raising, Alerts, TypeOK
  <2> QED BY <1>2, <2>1, <1>e DEF Raise, Create, spool, TypeOK
<1>3. CASE \E s \in Alerts : PublisherWrites(s)
  BY <1>3, <1>d DEF PublisherWrites
<1>4. CASE Pending \/ FlushEnds \/ FlushSends \/ FlushFails
  BY <1>4, <1>e DEF Pending, DrainOnly, spool, process, FlushEnds,
     FlushSends, Works, Tell, FlushFails, Fails
<1>5. CASE FlushReads
  <2>1. Oldest(due) \in Alerts
    BY <1>5, OldestIn DEF FlushReads, TypeOK
  <2> QED BY <1>5, <2>1, <1>e DEF FlushReads, TypeOK
<1>6. CASE FlushRemoves
  <2>1. Oldest(due) \in Alerts
    BY <1>6, OldestIn DEF FlushRemoves, TypeOK, Coherent, Reading
  <2> QED BY <1>6, <2>1, <1>e DEF FlushRemoves, TypeOK
<1>7. CASE Take \/ SendWorks \/ SendFails \/ DrainEnds
  BY <1>7, <1>e DEF Take, Lose, DrainOnly, spool, process, SendWorks, Works,
     Tell, SendFails, Fails, DrainEnds
<1>8. CASE GiveUp
  <2>1. Oldest(hand) \in Alerts
    BY <1>8, OldestIn DEF GiveUp, Coherent, TypeOK
  <2> QED BY <1>8, <2>1, <1>e DEF GiveUp, Create, TypeOK
<1>9. CASE DrainWrites
  BY <1>9, <1>d DEF DrainWrites
<1>10. CASE Start \/ StopWaits \/ StopEnds
  BY <1>10, <1>e DEF Start, spool, past, StopWaits, StopEnds, drain
<1>11. CASE Kill \/ Exit
  BY <1>11, <1>e DEF Kill, Exit, Ends
<1>12. CASE StopSpools
  <2>1. Oldest(buffer) \in Alerts
    BY <1>12, OldestIn DEF StopSpools, TypeOK
  <2> QED BY <1>12, <2>1, <1>e DEF StopSpools, Create, TypeOK
<1>13. CASE MainWrites
  BY <1>13, <1>d DEF MainWrites
<1> QED BY <1>1, <1>2, <1>3, <1>4, <1>5, <1>6, <1>7, <1>8, <1>9, <1>10,
           <1>11, <1>12, <1>13 DEF Next, Main, Drain

\* Only a trim lets go of anything for the limit, and it takes the oldest.
LEMMA NewestStayStep ==
  ASSUME TypeOK, lost'["limit"] # lost["limit"],
         NEW s \in Files \ Files', NEW t \in Files', [Next]_vars
  PROVE  s < t
<1>a. ASSUME NEW u \in Alerts, NEW who, WriteOut(who, u)
      PROVE  s < t
  <2>1. Files' = Files \ OverLimit(Files)
    BY <1>a, WriteOutTrims
  <2> QED BY <2>1, TrimTakesOldest DEF Files
<1>1. CASE UNCHANGED vars \/ Raise \/ Signal \/ DeadlinePasses \/ Turn \/
           Start \/ StopWaits \/ StopEnds \/ StopSpools
  BY <1>1 DEF vars, spool, drain, process, past, Raise, Raising, Create,
     Signal, DeadlinePasses, Turn, Start, StopWaits, StopEnds, StopSpools
<1>2. CASE \E u \in Alerts : PublisherWrites(u)
  BY <1>2, <1>a DEF PublisherWrites
<1>3. CASE Pending \/ FlushEnds \/ FlushReads \/ FlushSends \/ FlushFails \/
           FlushRemoves
  BY <1>3 DEF Pending, DrainOnly, spool, process, FlushEnds, FlushReads,
     FlushSends, Works, Tell, FlushFails, Fails, FlushRemoves
<1>4. CASE Take
  BY <1>4 DEF Take, Lose, TypeOK, Causes
<1>5. CASE SendWorks \/ SendFails \/ GiveUp \/ DrainEnds
  BY <1>5 DEF SendWorks, Works, Tell, DrainOnly, spool, process, SendFails,
     Fails, GiveUp, Create, DrainEnds
<1>6. CASE DrainWrites
  BY <1>6, <1>a DEF DrainWrites
<1>7. CASE Kill \/ Exit
  BY <1>7 DEF Kill, Exit, Ends, Lose, TypeOK, Causes
<1>8. CASE MainWrites
  BY <1>8, <1>a DEF MainWrites
<1> QED BY <1>1, <1>2, <1>3, <1>4, <1>5, <1>6, <1>7, <1>8 DEF Next, Main,
           Drain

-----------------------------------------------------------------------------
(* The theorems.                                                           *)

\* The initial state satisfies the invariant.
LEMMA InitInv == Init => IInv
<1> SUFFICES ASSUME Init PROVE IInv
  OBVIOUS
<1>0. TypeOK
  <2>1. 0 \in 0 .. MaxAlerts /\ 0 \in 0 .. Tries /\ 0 \in 0 .. MaxDeaths
    BY SenderAssumption
  <2>2. /\ files \in [Alerts -> {"none", "torn", "full"}] /\ holds \in [Alerts -> SUBSET Alerts]
        /\ writing \in [Alerts -> {"nobody", "publisher", "drain", "main"}]
        /\ heard \in [Alerts -> 0 .. 2] /\ lost \in [Causes -> SUBSET Alerts]
    BY DEF Init
  <2> QED BY <2>1, <2>2 DEF Init, TypeOK
<1>1. Coherent /\ WritersCoherent
  BY DEF Init, Coherent, WritersCoherent, Reading, Open
<1>2. Fresh /\ OnePlace /\ Told /\ HeardOnce
  BY DEF Init, Fresh, OnePlace, Told, HeardOnce, Held, Open, Reading
<1>3. Accounted /\ OrderlyStopKeepsAll
  BY DEF Init, Accounted, OrderlyStopKeepsAll, Causes
<1>4. SpoolBounded
  <2>1. {s \in Alerts : files[s] = "full"} = {}
    BY DEF Init
  <2> QED BY <2>1, FS_EmptySet, SenderAssumption DEF SpoolBounded
<1> QED BY <1>0, <1>1, <1>2, <1>3, <1>4 DEF IInv

\* Every step keeps the invariant.
LEMMA NextInv == IInv /\ [Next]_vars => IInv'
BY TypeStep, CoherentStep, WritersStep, FreshStep, OnePlaceStep, ToldStep, HeardOnceStep,
   AccountedStep, OrderlyStep, SpoolBoundedStep DEF IInv

\* The invariant holds in every reachable state.
THEOREM InductiveInvariant == Spec => []IInv
BY InitInv, NextInv, PTL DEF Spec

\* Every variable keeps to its type, for any number of alerts and process ends.
THEOREM TypeCorrect == Spec => []TypeOK
<1>1. IInv => TypeOK
  BY DEF IInv
<1> QED BY <1>1, InductiveInvariant, PTL

\* No alert slips through: each was heard, waits in one of the buffer, the
\* message being sent and the spool, or was let go of for a known cause.
THEOREM NothingSlips == Spec => []Accounted
<1>1. IInv => Accounted
  BY DEF IInv
<1> QED BY <1>1, InductiveInvariant, PTL

\* A shutdown that is not cut short forgets nothing it had in memory.
THEOREM StopKeeps == Spec => []OrderlyStopKeepsAll
<1>1. IInv => OrderlyStopKeepsAll
  BY DEF IInv
<1> QED BY <1>1, InductiveInvariant, PTL

\* Without a death, a missed deadline or an answer misheard, nothing is heard
\* twice.
THEOREM HeardOnlyOnce == Spec => []HeardAgainOnlyInDoubt
<1>1. IInv => HeardAgainOnlyInDoubt
  <2> SUFFICES ASSUME IInv, NEW a \in Alerts, heard[a] > 1, ~ Doubt
               PROVE  FALSE
    BY DEF HeardAgainOnlyInDoubt, Doubt
  <2>1. heard[a] <= 1 /\ heard[a] \in 0 .. 2
    BY DEF IInv, HeardOnce, TypeOK
  <2> QED BY <2>1
<1> QED BY <1>1, InductiveInvariant, PTL

\* The spool holds no more than its limit, whoever writes at once.
THEOREM SpoolStaysBounded == Spec => []SpoolBounded
<1>1. IInv => SpoolBounded
  BY DEF IInv
<1> QED BY <1>1, InductiveInvariant, PTL

\* What the spool lets go of for its limit is older than all that stays.
THEOREM TrimKeepsNewest == Spec => NewestStay
<1>1. TypeOK /\ [Next]_vars =>
        [lost'["limit"] # lost["limit"] => \A s \in Files \ Files', t \in Files' : s < t]_vars
  BY NewestStayStep
<1> QED BY <1>1, TypeCorrect, PTL DEF Spec, NewestStay
=============================================================================
