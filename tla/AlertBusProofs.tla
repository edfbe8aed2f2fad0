--------------------------- MODULE AlertBusProofs ---------------------------
(***************************************************************************)
(* Theorems of AlertBus, for any conditions, callers, cooldown and number  *)
(* of process deaths.                                                      *)
(***************************************************************************)
EXTENDS AlertBus, TLAPS

IInv ==
  /\ TypeOK
  /\ CallerCoherent
  /\ RowCoherent
  /\ RestCoherent
  /\ AloneCoherent
  /\ OpenMeansOffered

-----------------------------------------------------------------------------
(* Types.                                                                  *)

CallTypes ==
  /\ at      \in [Callers -> Stages]
  /\ on      \in [Callers -> Lines \cup {NoLine}]
  /\ began   \in [Callers -> 0 .. MaxStall]
  /\ current \in [Callers -> BOOLEAN]

\* A caller that goes on or returns stays of its types.
LEMMA CallerMoves ==
  ASSUME CallTypes, NEW c \in Callers,
         Returns(c) \/ \E stage \in Stages, row \in BOOLEAN : GoesOn(c, stage, row)
  PROVE  CallTypes'
<1>1. CASE Returns(c)
  BY <1>1, BusAssumption DEF CallTypes, Returns, Stages
<1>2. CASE \E stage \in Stages, row \in BOOLEAN : GoesOn(c, stage, row)
  BY <1>2 DEF CallTypes, GoesOn
<1> QED BY <1>1, <1>2

\* A caller in the middle of a call is on a line.
LEMMA ServedLine ==
  ASSUME TypeOK, CallerCoherent, NEW c \in Callers, Serve(c)
  PROVE  on[c] \in Lines
BY DEF TypeOK, CallerCoherent, Coherent, Serve, Look, Insert, Record, State,
       PublishFails, Close, CloseFails, Recover

\* Every step keeps every variable of its type.
LEMMA TypeStep ==
  ASSUME TypeOK, CallerCoherent, [Next]_vars
  PROVE  TypeOK'
<1> USE BusAssumption DEF TypeOK
<1>a. CASE UNCHANGED vars
  BY <1>a DEF vars, table, calls, ears, past
<1>1. ASSUME NEW c \in Callers, NEW l \in Lines, Notice(c, l) \/ NoticeClear(c, l)
      PROVE  TypeOK'
  <2>1. raced' \subseteq Lines
    BY <1>1 DEF Notice, NoticeClear, Enter
  <2>2. at' \in [Callers -> Stages] /\ on' \in [Callers -> Lines \cup {NoLine}]
    BY <1>1 DEF Notice, NoticeClear, Enter, Stages
  <2>3. began' \in [Callers -> 0 .. MaxStall]
    BY <1>1 DEF Notice, NoticeClear, Enter
  <2> QED BY <1>1, <2>1, <2>2, <2>3 DEF Notice, NoticeClear, Enter, table, ears
<1>3. ASSUME NEW c \in Callers, Serve(c)
      PROVE  TypeOK'
  <2>0. on[c] \in Lines /\ CallTypes
    BY <1>3, ServedLine DEF CallTypes
  <2>b. began[c] \in Ages
    BY DEF Ages, MaxAge
  <2>1. CASE Look(c)
    <3>1. CallTypes'
      BY <2>0, <2>1, CallerMoves DEF Look, Stages
    <3> QED BY <2>1, <3>1 DEF Look, CallTypes, table, ears, past
  <2>2. CASE Insert(c)
    <3>1. CallTypes'
      BY <2>0, <2>2, CallerMoves DEF Insert, Stages
    <3>2. open' \subseteq Lines /\ offered' \subseteq Lines
          /\ sentAgo' \in [Lines -> Ages \cup {Never}]
      BY <2>0, <2>2 DEF Insert, table
    <3> QED BY <2>2, <3>1, <3>2 DEF Insert, CallTypes, past
  <2>3. CASE Record(c)
    <3>1. CallTypes'
      BY <2>0, <2>3, CallerMoves DEF Record, Stages, CallTypes
    <3>2. sentAgo' \in [Lines -> Ages \cup {Never}]
      BY <2>0, <2>b, <2>3 DEF Record
    <3> QED BY <2>3, <3>1, <3>2 DEF Record, CallTypes, ears, past
  <2>4. CASE State(c)
    <3>1. CallTypes'
      BY <2>0, <2>4, CallerMoves DEF State
    <3>2. /\ said' \in [Lines -> {"nothing", "stated", "cleared"}]
          /\ toldAgo' \in [Lines -> Ages \cup {Never}]
          /\ offered' \subseteq Lines
      BY <2>0, <2>b, <2>4 DEF State
    <3> QED BY <2>4, <3>1, <3>2 DEF State, CallTypes, table, past
  <2>5. CASE PublishFails(c)
    <3>1. CallTypes'
      BY <2>0, <2>5, CallerMoves DEF PublishFails, Stages, CallTypes
    <3> QED BY <2>0, <2>5, <3>1 DEF PublishFails, CallTypes, table, ears
  <2>6. CASE Close(c)
    <3>1. CASE Returns(c)
      <4>1. CallTypes'
        BY <2>0, <3>1, CallerMoves
      <4> QED BY <2>0, <2>6, <4>1 DEF Close, CallTypes, table, past
    <3>2. CASE ~Returns(c)
      BY <2>0, <2>6, <3>2 DEF Close, Stages, past
    <3> QED BY <3>1, <3>2
  <2>7. CASE CloseFails(c)
    <3>1. CallTypes'
      BY <2>0, <2>7, CallerMoves DEF CloseFails
    <3> QED BY <2>0, <2>7, <3>1 DEF CloseFails, CallTypes, table, ears
  <2>8. CASE Recover(c)
    <3>1. CallTypes'
      BY <2>0, <2>8, CallerMoves DEF Recover
    <3> QED BY <2>0, <2>8, <3>1 DEF Recover, CallTypes, table, past
  <2> QED BY <1>3, <2>1, <2>2, <2>3, <2>4, <2>5, <2>6, <2>7, <2>8 DEF Serve
<1>6. CASE \E l \in Lines : Turn(l)
  BY <1>6 DEF Turn, table, calls, ears, past
<1>7. CASE Crash
  BY <1>7 DEF Crash, table, ears, Stages
<1>8. CASE Tick
  <2>1. \A a \in Ages \cup {Never} : Older(a) \in Ages \cup {Never}
    BY DEF Older, Ages, MaxAge, Never
  <2> QED BY <1>8, <2>1 DEF Tick, past
<1> QED BY <1>a, <1>1, <1>3, <1>6, <1>7, <1>8 DEF Next

-----------------------------------------------------------------------------
(* What a caller's step leaves alone.                                      *)

\* Other callers stay where they are; at most a row they hold is closed.
LEMMA OthersStay ==
  ASSUME TypeOK, NEW c \in Callers, NEW d \in Callers, d # c, Serve(c)
  PROVE  /\ at'[d] = at[d] /\ on'[d] = on[d] /\ began'[d] = began[d]
         /\ current'[d] => current[d]
         /\ on[d] # on[c] => current'[d] = current[d]
<1>1. CASE Returns(c) \/ \E s \in Stages, r \in BOOLEAN : GoesOn(c, s, r)
  BY <1>1 DEF TypeOK, Returns, GoesOn
<1>2. CASE Look(c) \/ Insert(c) \/ Record(c) \/ PublishFails(c)
  BY <1>1, <1>2 DEF TypeOK, Look, Insert, Record, PublishFails, Stages
<1>3. CASE State(c) \/ CloseFails(c) \/ Recover(c)
  BY <1>1, <1>3 DEF State, CloseFails, Recover
<1>4. CASE Close(c)
  BY <1>1, <1>4 DEF TypeOK, Close
<1> QED BY <1>2, <1>3, <1>4 DEF Serve

\* The caller itself goes on with its line or is done.
LEMMA ServerMoves ==
  ASSUME TypeOK, NEW c \in Callers, Serve(c)
  PROVE  \/ /\ at'[c] = "idle" /\ on'[c] = NoLine /\ ~current'[c]
         \/ at'[c] # "idle" /\ on'[c] = on[c] /\ began'[c] = began[c]
<1>1. CASE Returns(c) \/ \E s \in Stages \ {"idle"}, r \in BOOLEAN : GoesOn(c, s, r)
  BY <1>1 DEF TypeOK, Returns, GoesOn
<1>2. CASE Look(c) \/ Insert(c) \/ Record(c) \/ PublishFails(c)
  BY <1>1, <1>2 DEF TypeOK, Look, Insert, Record, PublishFails, Stages
<1>3. CASE State(c) \/ CloseFails(c) \/ Recover(c)
  BY <1>1, <1>3 DEF State, CloseFails, Recover
<1>4. CASE Close(c)
  BY <1>1, <1>4 DEF TypeOK, Close
<1> QED BY <1>2, <1>3, <1>4 DEF Serve

\* Other lines stay as they are.
LEMMA OtherLinesStay ==
  ASSUME TypeOK, NEW c \in Callers, NEW l \in Lines, l # on[c], Serve(c)
  PROVE  /\ l \in open' <=> l \in open
         /\ l \in offered' <=> l \in offered
         /\ sentAgo'[l] = sentAgo[l] /\ said'[l] = said[l] /\ toldAgo'[l] = toldAgo[l]
         /\ l \in raced' <=> l \in raced
         /\ l \in cut' <=> l \in cut
<1>2. CASE Look(c) \/ Insert(c) \/ Record(c) \/ PublishFails(c)
  BY <1>2 DEF TypeOK, Look, Insert, Record, PublishFails, table, ears, past
<1>3. CASE State(c) \/ CloseFails(c) \/ Recover(c)
  BY <1>3 DEF TypeOK, State, CloseFails, Recover, table, ears, past
<1>4. CASE Close(c)
  BY <1>4 DEF TypeOK, Close, table, past
<1> QED BY <1>2, <1>3, <1>4 DEF Serve

-----------------------------------------------------------------------------
(* Callers hold what their stage says.                                     *)

\* A caller's stage, line and row stay together through every step.
LEMMA CallerStep ==
  ASSUME TypeOK, CallerCoherent, RowCoherent, [Next]_vars
  PROVE  CallerCoherent'
<1> SUFFICES ASSUME NEW d \in Callers
             PROVE  Coherent(d)'
  BY DEF CallerCoherent
<1>0. Coherent(d) /\ on[d] \in Lines \cup {NoLine} /\ NoLine \notin Lines
  BY BusAssumption DEF CallerCoherent, TypeOK
<1>a. CASE UNCHANGED vars
  BY <1>0, <1>a DEF vars, table, calls, Coherent
<1>1. ASSUME NEW c \in Callers, NEW l \in Lines, Notice(c, l) \/ NoticeClear(c, l)
      PROVE  Coherent(d)'
  BY <1>0, <1>1 DEF Notice, NoticeClear, Enter, table, Coherent, TypeOK
<1>2. ASSUME NEW c \in Callers, Serve(c), d # c
      PROVE  Coherent(d)'
  <2>1. at'[d] = at[d] /\ on'[d] = on[d] /\ (current'[d] => current[d])
    BY <1>2, OthersStay
  <2>2. CASE open \subseteq open'
    BY <1>0, <2>1, <2>2 DEF Coherent
  <2>3. CASE ~(open \subseteq open')
    <3>1. Close(c) /\ open' = open \ {on[c]}
      BY <1>2, <2>3 DEF Serve, Look, Insert, Record, State, PublishFails, CloseFails, Recover,
                        Close, table
    <3>2. current'[d] => on[d] # on[c]
      BY <2>3, <3>1 DEF Close, Returns, table, TypeOK
    <3> QED BY <1>0, <2>1, <3>1, <3>2 DEF Coherent
  <2> QED BY <2>2, <2>3
<1>3. ASSUME Serve(d)
      PROVE  Coherent(d)'
  <2>0. on[d] \in Lines
    BY <1>3, ServedLine
  <2>1. CASE at'[d] = "idle" /\ on'[d] = NoLine /\ ~current'[d]
    BY <2>1 DEF Coherent
  <2>2. CASE at'[d] # "idle" /\ on'[d] = on[d]
    <3>1. current'[d] => on[d] \in open' /\ at'[d] \in {"recording", "stating"}
      BY <1>0, <1>3, <2>0, <2>2 DEF Serve, Look, Insert, Record, State, PublishFails, CloseFails,
         Recover, Close, GoesOn, Returns, table, Coherent, TypeOK
    <3> QED BY <1>0, <2>0, <2>2, <3>1 DEF Coherent
  <2> QED BY <1>3, <2>1, <2>2, ServerMoves
<1>6. CASE \E l \in Lines : Turn(l)
  BY <1>0, <1>6 DEF Turn, table, calls, Coherent
<1>7. CASE Crash
  BY <1>7 DEF Crash, Coherent
<1>8. CASE Tick
  BY <1>0, <1>8 DEF Tick, Coherent
<1> QED BY <1>a, <1>1, <1>2, <1>3, <1>6, <1>7, <1>8 DEF Next

\* Only an open row counts as offered.
LEMMA RowStep ==
  ASSUME TypeOK, CallerCoherent, RowCoherent, [Next]_vars
  PROVE  RowCoherent'
<1> USE DEF RowCoherent
<1>a. CASE UNCHANGED vars
  BY <1>a DEF vars, table, ears
<1>1. ASSUME NEW c \in Callers, NEW l \in Lines, Notice(c, l) \/ NoticeClear(c, l)
      PROVE  RowCoherent'
  BY <1>1 DEF Notice, NoticeClear, Enter, table, ears
<1>2. ASSUME NEW c \in Callers, Serve(c)
      PROVE  RowCoherent'
  <2>1. CASE State(c)
    BY <2>1 DEF State, table, CallerCoherent, Coherent
  <2>2. CASE ~State(c)
    BY <1>2, <2>2 DEF Serve, Look, Insert, Record, PublishFails, CloseFails, Recover, Close,
                      table, ears
  <2> QED BY <2>1, <2>2
<1>6. CASE \E l \in Lines : Turn(l)
  BY <1>6 DEF Turn, table, ears
<1>7. CASE Crash
  BY <1>7 DEF Crash, table, ears
<1>8. CASE Tick
  BY <1>8 DEF Tick
<1> QED BY <1>a, <1>1, <1>2, <1>6, <1>7, <1>8 DEF Next

-----------------------------------------------------------------------------
(* No condition is on file and unsaid.                                     *)

\* A row is stated by the caller that holds it, or a cut is recorded.
LEMMA OfferStep ==
  ASSUME TypeOK, CallerCoherent, OpenMeansOffered, [Next]_vars
  PROVE  OpenMeansOffered'
<1> SUFFICES ASSUME NEW l \in Lines, l \in open'
             PROVE  \/ l \in offered'
                    \/ \E c \in Callers : on'[c] = l /\ current'[c]
                    \/ l \in cut'
  BY TypeStep DEF OpenMeansOffered, TypeOK
<1> DEFINE Held == \E c \in Callers : on[c] = l /\ current[c]
<1>0. l \in open => l \in offered \/ Held \/ l \in cut
  BY DEF OpenMeansOffered
<1>a. CASE UNCHANGED vars
  BY <1>0, <1>a DEF vars, table, calls, ears, past
<1>1. ASSUME NEW c \in Callers, NEW k \in Lines, Notice(c, k) \/ NoticeClear(c, k)
      PROVE  l \in offered' \/ Held' \/ l \in cut'
  <2>1. UNCHANGED <<open, offered, cut, current>> /\ \A d \in Callers : current[d] => on'[d] = on[d]
    BY <1>1 DEF Notice, NoticeClear, Enter, table, ears, CallerCoherent, Coherent, TypeOK
  <2> QED BY <1>0, <2>1
<1>2. ASSUME NEW c \in Callers, Serve(c)
      PROVE  l \in offered' \/ Held' \/ l \in cut'
  <2>0. on[c] \in Lines /\ cut \subseteq cut'
    BY <1>2, ServedLine DEF Serve, Look, Insert, Record, State, PublishFails, CloseFails, Recover,
                            Close, past
  <2>1. CASE l # on[c]
    <3>1. /\ l \in open /\ (l \in offered => l \in offered')
          /\ \A d \in Callers : on[d] = l => d # c
      BY <1>2, <2>1, OtherLinesStay
    <3>2. \A d \in Callers : on[d] = l => on'[d] = l /\ current'[d] = current[d]
      BY <1>2, <2>1, <3>1, OthersStay
    <3> QED BY <1>0, <2>0, <3>1, <3>2
  <2>2. CASE l = on[c] /\ l \notin open
    <3>1. Insert(c) /\ on'[c] = l /\ current'[c]
      BY <1>2, <2>2 DEF Serve, Look, Insert, Record, State, PublishFails, CloseFails, Recover,
                        Close, GoesOn, table, TypeOK
    <3> QED BY <3>1
  <2>3. CASE l = on[c] /\ l \in open
    <3>1. l \in offered => l \in offered'
      BY <1>2, <2>3 DEF Serve, Look, Insert, Record, State, PublishFails, CloseFails, Recover,
                        Close, table, ears
    <3>2. ASSUME NEW d \in Callers, d # c, on[d] = l, current[d]
          PROVE  on'[d] = l /\ current'[d]
      BY <1>2, <2>3, <3>2 DEF Serve, Look, Insert, Record, State, PublishFails, CloseFails, Recover,
                        Close, GoesOn, Returns, table, TypeOK
    <3>3. current[c] => l \in offered' \/ (on'[c] = l /\ current'[c])
      BY <1>2, <2>3 DEF Serve, Look, Insert, Record, State, PublishFails, CloseFails, Recover,
                        Close, GoesOn, Returns, table, TypeOK, CallerCoherent, Coherent
    <3> QED BY <1>0, <2>0, <2>3, <3>1, <3>2, <3>3
  <2> QED BY <2>1, <2>2, <2>3
<1>6. CASE \E k \in Lines : Turn(k)
  BY <1>0, <1>6 DEF Turn, table, calls, ears, past
<1>7. CASE Crash
  BY <1>0, <1>7 DEF Crash, table, ears, Busy
<1>8. CASE Tick
  BY <1>0, <1>8 DEF Tick, past
<1> QED BY <1>a, <1>1, <1>2, <1>6, <1>7, <1>8 DEF Next

-----------------------------------------------------------------------------
(* A line nobody is on, and a line one caller has to itself.               *)

\* Stamps that agree go on agreeing as time passes.
LEMMA AgeingAgrees ==
  ASSUME TypeOK, Tick, NEW l \in Lines
  PROVE  /\ Agrees(l) => Agrees(l)'
         /\ toldAgo[l] \in Ages => toldAgo'[l] \in Ages
         /\ \A c \in Callers : at[c] # "idle" /\ toldAgo[l] \in Ages
                /\ toldAgo[l] - began[c] >= Cooldown => toldAgo'[l] - began'[c] >= Cooldown
         /\ \A c \in Callers : at[c] # "idle" /\ sentAgo[l] = began[c] => sentAgo'[l] = began'[c]
<1> USE BusAssumption DEF Ages, MaxAge, Never
<1>1. sentAgo'[l] = Older(sentAgo[l]) /\ toldAgo'[l] = Older(toldAgo[l])
  BY DEF Tick, TypeOK
<1>2. toldAgo[l] \in Ages => toldAgo'[l] \in Ages
  BY <1>1 DEF Older, TypeOK
<1>3. Agrees(l) => Agrees(l)'
  BY <1>1, <1>2 DEF Agrees, Tick
<1>4. ASSUME NEW c \in Callers, at[c] # "idle"
      PROVE  /\ began'[c] = began[c] + 1 /\ began[c] \in Nat /\ began[c] < MaxStall
  BY <1>4 DEF Tick, TypeOK
<1>5. ASSUME NEW c \in Callers, at[c] # "idle", toldAgo[l] \in Ages, toldAgo[l] - began[c] >= Cooldown
      PROVE  toldAgo'[l] - began'[c] >= Cooldown
  BY <1>1, <1>4, <1>5 DEF Older
<1>6. ASSUME NEW c \in Callers, at[c] # "idle", sentAgo[l] = began[c]
      PROVE  sentAgo'[l] = began'[c]
  BY <1>1, <1>4, <1>6 DEF Older
<1> QED BY <1>2, <1>3, <1>5, <1>6

\* A caller alone on an untouched line does what the line needs.
LEMMA AloneServes ==
  ASSUME TypeOK, CallerCoherent, RowCoherent, NEW c \in Callers, Serve(c),
         NEW l \in Lines, l = on[c], Alone(c, l), l \notin cut'
  PROVE  /\ on'[c] = l => Alone(c, l)'
         /\ on'[c] # l => Agrees(l)'
<1> USE BusAssumption
<1>0. /\ Coherent(c) /\ began[c] \in 0 .. MaxStall /\ l # NoLine
      /\ \A d \in Callers : on[d] = l => d = c
  BY DEF CallerCoherent, TypeOK, Alone
<1>1. \A d \in Callers : on'[d] = l => d = c
  BY <1>0, OthersStay
<1>2. CASE Look(c)
  <2>1. Agrees(l) /\ at[c] = "reading"
    BY <1>2 DEF Look, Alone
  <2>2. UNCHANGED <<open, sentAgo, said, toldAgo, offered>>
    BY <1>2 DEF Look, table, ears
  <2>3. CASE Returns(c)
    <3>1. on'[c] # l
      BY <1>0, <2>3 DEF Returns, TypeOK
    <3> QED BY <2>1, <2>2, <3>1 DEF Agrees
  <2>4. CASE l \notin open /\ GoesOn(c, "inserting", FALSE)
    <3>1. at'[c] = "inserting" /\ on'[c] = l
      BY <2>4 DEF GoesOn, TypeOK
    <3> QED BY <1>1, <2>1, <2>2, <2>4, <3>1 DEF Alone, Agrees
  <2>5. CASE l \in open /\ ~Quiet(c) /\ GoesOn(c, "recording", TRUE)
    <3>1. at'[c] = "recording" /\ on'[c] = l /\ current'[c] /\ began'[c] = began[c]
      BY <2>5 DEF GoesOn, TypeOK
    <3>2. toldAgo[l] \in Ages /\ toldAgo[l] - began[c] >= Cooldown
      BY <1>0, <2>1, <2>5 DEF Agrees, Quiet, Ages, MaxAge, Never
    <3> QED BY <1>1, <2>2, <3>1, <3>2 DEF Alone
  <2> QED BY <1>2, <2>3, <2>4, <2>5 DEF Look
<1>3. CASE Insert(c)
  <2>1. l \notin open /\ at[c] = "inserting"
    BY <1>3 DEF Insert, Alone
  <2>2. at'[c] = "recording" /\ on'[c] = l /\ current'[c] /\ l \notin offered'
    BY <1>3, <2>1 DEF Insert, GoesOn, TypeOK
  <2> QED BY <1>1, <2>2 DEF Alone
<1>4. CASE Record(c)
  <2>1. at[c] = "recording" /\ current[c] /\ UNCHANGED <<open, said, toldAgo, offered>>
    BY <1>4 DEF Record, Alone, ears
  <2>2. /\ at'[c] = "stating" /\ on'[c] = l /\ current'[c] /\ began'[c] = began[c]
        /\ sentAgo'[l] = began[c]
    BY <1>4, <2>1 DEF Record, GoesOn, TypeOK
  <2> QED BY <1>1, <2>1, <2>2 DEF Alone
<1>5. CASE State(c)
  <2>1. /\ current[c] /\ l \in open /\ sentAgo[l] = began[c]
    BY <1>0, <1>5 DEF State, Alone, Coherent
  <2>2. /\ on'[c] # l /\ l \in offered' /\ said'[l] = "stated" /\ toldAgo'[l] = began[c]
        /\ UNCHANGED <<open, sentAgo>>
    BY <1>0, <1>5, <2>1 DEF State, Returns, table, TypeOK
  <2> QED BY <1>0, <2>1, <2>2 DEF Agrees, Ages, MaxAge
<1>6. CASE PublishFails(c) \/ CloseFails(c)
  BY <1>6 DEF PublishFails, CloseFails
<1>7. CASE Close(c)
  <2>1. Agrees(l)
    BY <1>7 DEF Close, Alone
  <2>2. CASE l \notin open
    <3>1. Returns(c) /\ UNCHANGED <<open, sentAgo, said, toldAgo, offered>>
      BY <1>7, <2>2 DEF Close, table
    <3>2. on'[c] # l
      BY <1>0, <3>1 DEF Returns, TypeOK
    <3> QED BY <2>1, <3>1, <3>2 DEF Agrees
  <2>3. CASE l \in open
    <3>1. at'[c] = "recovering" /\ on'[c] = l /\ l \notin open'
      BY <1>7, <2>3 DEF Close, TypeOK
    <3> QED BY <1>1, <3>1 DEF Alone
  <2> QED BY <2>2, <2>3
<1>8. CASE Recover(c)
  <2>1. on'[c] # l /\ l \notin open' /\ said'[l] = "cleared"
    BY <1>0, <1>8 DEF Recover, Returns, Alone, table, TypeOK
  <2> QED BY <2>1 DEF Agrees
<1> QED BY <1>2, <1>3, <1>4, <1>5, <1>6, <1>7, <1>8 DEF Serve

-----------------------------------------------------------------------------
(* Each line's register and channel, through every step.                   *)

\* A line is right: nobody is on it and both sides agree, or one caller is.
Right(l) ==
  /\ ~Busy(l) => Agrees(l)
  /\ \A c \in Callers : on[c] = l => Alone(c, l)

\* A step that leaves a line and the callers on it alone leaves it right.
LEMMA LeftAlone ==
  ASSUME NEW l \in Lines, Right(l),
         (l \in open') <=> (l \in open), (l \in offered') <=> (l \in offered),
         sentAgo'[l] = sentAgo[l], said'[l] = said[l], toldAgo'[l] = toldAgo[l],
         \A d \in Callers : on[d] = l \/ on'[d] = l =>
           on'[d] = on[d] /\ at'[d] = at[d] /\ began'[d] = began[d] /\ current'[d] = current[d]
  PROVE  Right(l)'
<1>1. Agrees(l)' <=> Agrees(l)
  BY DEF Agrees
<1>2. Busy(l)' <=> Busy(l)
  BY DEF Busy
<1>3. ASSUME NEW c \in Callers, on'[c] = l
      PROVE  Alone(c, l)'
  <2>1. on[c] = l /\ Alone(c, l)
    BY <1>3 DEF Right
  <2>2. at'[c] = at[c] /\ began'[c] = began[c] /\ current'[c] = current[c]
    BY <2>1
  <2> QED BY <1>1, <2>1, <2>2 DEF Alone
<1> QED BY <1>1, <1>2, <1>3 DEF Right

\* A caller that enters a line nobody is on has it to itself.
LEMMA EnterStep ==
  ASSUME TypeOK, CallerCoherent, NEW l \in Lines, Right(l), NEW c \in Callers, NEW k \in Lines,
         Notice(c, k) \/ NoticeClear(c, k), l \notin raced'
  PROVE  Right(l)'
<1>1. /\ UNCHANGED <<open, sentAgo, said, toldAgo, offered, current>>
      /\ on[c] = NoLine /\ on'[c] = k /\ at'[c] \in {"reading", "closing"}
      /\ \A d \in Callers : d # c => on'[d] = on[d] /\ at'[d] = at[d] /\ began'[d] = began[d]
  BY DEF Notice, NoticeClear, Enter, table, ears, TypeOK, CallerCoherent, Coherent
<1>2. CASE l # k
  BY <1>1, <1>2, LeftAlone, BusAssumption
<1>3. CASE l = k
  <2>1. ~Busy(l) /\ Agrees(l)
    BY <1>3 DEF Notice, NoticeClear, Enter, Right
  <2>2. Agrees(l)' /\ \A d \in Callers : on'[d] = l => d = c
    BY <1>1, <2>1 DEF Agrees, Busy
  <2>3. Alone(c, l)'
    BY <1>1, <2>2 DEF Alone
  <2> QED BY <2>2, <2>3 DEF Right
<1> QED BY <1>2, <1>3

\* A caller's step leaves its line right, unless it is cut short, and the others.
LEMMA ServeStep ==
  ASSUME TypeOK, CallerCoherent, RowCoherent, NEW l \in Lines, Right(l),
         NEW c \in Callers, Serve(c), l \notin cut'
  PROVE  Right(l)'
<1>1. CASE l # on[c]
  <2>1. on'[c] # l
    BY <1>1, ServerMoves, BusAssumption
  <2>2. \A d \in Callers : on[d] = l \/ on'[d] = l =>
          on'[d] = on[d] /\ at'[d] = at[d] /\ began'[d] = began[d] /\ current'[d] = current[d]
    BY <1>1, <2>1, OthersStay
  <2> QED BY <1>1, <2>2, OtherLinesStay, LeftAlone
<1>2. CASE l = on[c]
  <2>1. Alone(c, l)
    BY <1>2 DEF Right
  <2>2. \A d \in Callers : on'[d] = l => d = c
    BY <1>2, <2>1, OthersStay DEF Alone
  <2>3. (on'[c] = l => Alone(c, l)') /\ (on'[c] # l => Agrees(l)')
    BY <1>2, <2>1, AloneServes
  <2> QED BY <2>2, <2>3 DEF Right, Busy
<1> QED BY <1>1, <1>2

\* Every step leaves every untouched line right.
LEMMA LineStep ==
  ASSUME TypeOK, CallerCoherent, RowCoherent, [Next]_vars, NEW l \in Lines, Right(l),
         l \notin raced', l \notin cut'
  PROVE  Right(l)'
<1>a. CASE UNCHANGED vars
  BY <1>a, LeftAlone DEF vars, table, calls, ears
<1>1. CASE \E c \in Callers, k \in Lines : Notice(c, k) \/ NoticeClear(c, k)
  BY <1>1, EnterStep
<1>2. CASE \E c \in Callers : Serve(c)
  BY <1>2, ServeStep
<1>3. CASE \E k \in Lines : Turn(k)
  BY <1>3, LeftAlone DEF Turn, table, calls, ears
<1>4. CASE Crash
  <2>1. ~Busy(l)
    BY <1>4 DEF Crash
  <2>2. Agrees(l)'
    BY <1>4, <2>1 DEF Right, Agrees, Crash, table, ears
  <2>3. \A c \in Callers : on'[c] # l
    BY <1>4, BusAssumption DEF Crash
  <2> QED BY <2>2, <2>3 DEF Right
<1>5. CASE Tick
  <2>1. UNCHANGED <<at, on, current, open, offered, said>>
    BY <1>5 DEF Tick
  <2>2. Agrees(l) => Agrees(l)'
    BY <1>5, AgeingAgrees
  <2>3. ASSUME NEW c \in Callers, on'[c] = l
        PROVE  Alone(c, l)'
    <3>1. Alone(c, l) /\ at[c] # "idle"
      BY <2>1, <2>3, BusAssumption DEF Right, CallerCoherent, Coherent
    <3>2. /\ toldAgo[l] \in Ages => toldAgo'[l] \in Ages
          /\ toldAgo[l] \in Ages /\ toldAgo[l] - began[c] >= Cooldown
               => toldAgo'[l] - began'[c] >= Cooldown
          /\ sentAgo[l] = began[c] => sentAgo'[l] = began'[c]
      BY <1>5, <3>1, AgeingAgrees
    <3> QED BY <2>1, <2>2, <3>1, <3>2 DEF Alone
  <2> QED BY <2>1, <2>2, <2>3 DEF Right, Busy
<1> QED BY <1>a, <1>1, <1>2, <1>3, <1>4, <1>5 DEF Next

\* So the two halves of the strengthening are kept together.
LEMMA AloneStep ==
  ASSUME TypeOK, CallerCoherent, RowCoherent, RestCoherent, AloneCoherent, [Next]_vars
  PROVE  RestCoherent' /\ AloneCoherent'
<1>1. raced \subseteq raced' /\ cut \subseteq cut'
  BY DEF Next, Notice, NoticeClear, Enter, Serve, Look, Insert, Record, State, PublishFails,
         Close, CloseFails, Recover, Turn, Crash, Tick, vars, past
<1>2. ASSUME NEW l \in Lines, l \notin raced', l \notin cut'
      PROVE  Right(l)'
  <2>1. Right(l)
    BY <1>1, <1>2 DEF Right, RestCoherent, AloneCoherent, Untouched
  <2> QED BY <1>2, <2>1, LineStep
<1> QED BY <1>2 DEF Right, RestCoherent, AloneCoherent, Untouched

-----------------------------------------------------------------------------
(* The theorems.                                                           *)

\* The bus starts with nothing on file, nothing said and nobody calling.
LEMMA InvariantInit ==
  ASSUME Init
  PROVE  IInv
<1>1. TypeOK
  BY BusAssumption DEF Init, TypeOK, Stages
<1>2. CallerCoherent /\ RowCoherent /\ OpenMeansOffered
  BY DEF Init, CallerCoherent, Coherent, RowCoherent, OpenMeansOffered
<1>3. RestCoherent /\ AloneCoherent
  BY BusAssumption DEF Init, RestCoherent, AloneCoherent, Agrees, Untouched
<1> QED BY <1>1, <1>2, <1>3 DEF IInv

\* Every step keeps the strengthening.
LEMMA InvariantStep ==
  ASSUME IInv, [Next]_vars
  PROVE  IInv'
BY TypeStep, CallerStep, RowStep, OfferStep, AloneStep DEF IInv

\* The strengthening holds in every reachable state.
THEOREM InductiveInvariant == Spec => []IInv
BY InvariantInit, InvariantStep, PTL DEF Spec

\* Every variable keeps its type: whatever the callers do, a row's age stays
\* one the cooldown is compared with.
THEOREM TypeCorrect == Spec => []TypeOK
<1>1. IInv => TypeOK
  BY DEF IInv
<1> QED BY <1>1, InductiveInvariant, PTL

\* A condition on file was stated, or the caller that filed it is about to
\* state it, or a call was cut short: losing the insert in Publish costs no word.
THEOREM NothingUnsaid == Spec => []OpenMeansOffered
<1>1. IInv => OpenMeansOffered
  BY DEF IInv
<1> QED BY <1>1, InductiveInvariant, PTL

\* Where callers did not overlap and nothing was cut short, the last word on
\* the channel is what the register shows, whatever Publish and Resolve did.
THEOREM LastWord == Spec => []LastWordHolds
<1>1. IInv => LastWordHolds
  BY DEF IInv, RestCoherent, Untouched, Agrees, LastWordHolds
<1> QED BY <1>1, InductiveInvariant, PTL

\* And a standing condition is not stated again within its cooldown.
THEOREM Spacing == Spec => CooldownHolds
<1>1. IInv /\ [Next]_vars => [SpacedOut]_vars
  <2> SUFFICES ASSUME IInv, [Next]_vars, NEW l \in offered \ (raced' \cup cut'), Restates(l),
                      NEW c \in Callers, on[c] = l
               PROVE  toldAgo[l] - began[c] >= Cooldown
    BY DEF SpacedOut
  <2>1. raced \subseteq raced' /\ cut \subseteq cut'
    BY DEF Next, Notice, NoticeClear, Enter, Serve, Look, Insert, Record, State, PublishFails,
           Close, CloseFails, Recover, Turn, Crash, Tick, vars, past
  <2>2. PICK d \in Callers : on[d] = l /\ at[d] = "stating"
    BY DEF Restates
  <2>3. Untouched(l)
    BY <2>1 DEF Untouched, IInv, TypeOK
  <2>4. Alone(d, l) /\ c = d
    BY <2>2, <2>3 DEF IInv, AloneCoherent, Alone
  <2> QED BY <2>2, <2>4 DEF Alone
<1> QED BY <1>1, InductiveInvariant, PTL DEF Spec, CooldownHolds
=============================================================================
