------------------------------ MODULE AlertBus ------------------------------
(***************************************************************************)
(* internal/alert: the bus that states a condition on a channel, stays     *)
(* quiet about it for a cooldown, and says so when it has cleared.         *)
(*                                                                         *)
(* A line is one condition on one channel, which is what a notification    *)
(* row is about and what the index on open rows is over.  Publish and      *)
(* Resolve serve the channels one after another and share nothing between  *)
(* them, so a caller is modelled on one line at a time.  Every database    *)
(* call and the hand-over to the sink is a step: whatever other callers    *)
(* and the process do between two of them is explored.                     *)
(*                                                                         *)
(* Of the rows of a line only the open one matters.  A caller holds its id *)
(* across steps, and what it writes by that id counts only as long as the  *)
(* row is still the open one: that is all the model keeps of ids.          *)
(*                                                                         *)
(* Stamps are kept relative to now.  A row's age is told apart up to the   *)
(* cooldown and MaxStall beyond it, past which nothing compares it.        *)
(***************************************************************************)
EXTENDS Integers, FiniteSets

CONSTANTS
  Lines,       \* conditions, each on a channel
  NoLine,
  Callers,     \* goroutines that publish and resolve
  Cooldown,    \* how long a stated condition stays quiet, in ticks
  MaxStall,    \* bound: ticks a call to the bus may take
  MayFail,     \* bound: whether the database may refuse a read or a write
  MaxCrashes   \* bound: process deaths considered

ASSUME BusAssumption ==
  /\ NoLine \notin Lines
  /\ Cooldown \in Nat \ {0}
  /\ MaxStall \in Nat
  /\ MayFail \in BOOLEAN
  /\ MaxCrashes \in Nat

Never  == -1
MaxAge == Cooldown + MaxStall
Ages   == 0 .. MaxAge

VARIABLES
  actual,   \* whether the condition holds, as a probe would find it
  open,     \* lines with a row whose resolved_at IS NULL
  sentAgo,  \* now - last_sent_at of the open row; Never: NULL
  at,       \* where each caller is
  on,       \* the line it is serving
  began,    \* now - the stamp it took when it began
  current,  \* the row it holds is still the open one
  said,     \* the last notice handed to the sink
  toldAgo,  \* now - the stamp of the last statement handed to the sink
  offered,  \* lines whose open row has been stated to the sink
  raced,    \* history: lines two callers were on at once
  cut,      \* history: lines a crash or a failed write left half done
  crashes   \* history: process deaths so far

table == <<open, sentAgo>>
calls == <<at, on, began, current>>
ears  == <<said, toldAgo, offered>>
past  == <<raced, cut, crashes>>
vars  == <<actual, table, calls, ears, past>>

Stages == {"idle", "reading", "inserting", "recording", "stating",
           "closing", "recovering"}

TypeOK ==
  /\ actual  \in [Lines -> BOOLEAN]
  /\ open \subseteq Lines
  /\ sentAgo \in [Lines -> Ages \cup {Never}]
  /\ at      \in [Callers -> Stages]
  /\ on      \in [Callers -> Lines \cup {NoLine}]
  /\ began   \in [Callers -> 0 .. MaxStall]
  /\ current \in [Callers -> BOOLEAN]
  /\ said    \in [Lines -> {"nothing", "stated", "cleared"}]
  /\ toldAgo \in [Lines -> Ages \cup {Never}]
  /\ offered \subseteq Lines
  /\ raced   \subseteq Lines
  /\ cut     \subseteq Lines
  /\ crashes \in 0 .. MaxCrashes

Init ==
  /\ actual  = [l \in Lines |-> FALSE]
  /\ open    = {}
  /\ sentAgo = [l \in Lines |-> Never]
  /\ at      = [c \in Callers |-> "idle"]
  /\ on      = [c \in Callers |-> NoLine]
  /\ began   = [c \in Callers |-> 0]
  /\ current = [c \in Callers |-> FALSE]
  /\ said    = [l \in Lines |-> "nothing"]
  /\ toldAgo = [l \in Lines |-> Never]
  /\ offered = {} /\ raced = {} /\ cut = {}
  /\ crashes = 0

Busy(l) == \E c \in Callers : on[c] = l

-----------------------------------------------------------------------------
(* A caller notices the condition, or that it is gone.                     *)

Enter(c, l, stage) ==
  /\ at[c] = "idle"
  /\ at'    = [at EXCEPT ![c] = stage]
  /\ on'    = [on EXCEPT ![c] = l]
  /\ began' = [began EXCEPT ![c] = 0]
  /\ raced' = IF Busy(l) THEN raced \cup {l} ELSE raced
  /\ UNCHANGED <<actual, table, current, ears, cut, crashes>>

Notice(c, l)      == actual[l] /\ Enter(c, l, "reading")
NoticeClear(c, l) == ~actual[l] /\ Enter(c, l, "closing")

GoesOn(c, stage, row) ==
  /\ at'      = [at EXCEPT ![c] = stage]
  /\ current' = [current EXCEPT ![c] = row]
  /\ UNCHANGED <<on, began>>

Returns(c) ==
  /\ at'      = [at EXCEPT ![c] = "idle"]
  /\ on'      = [on EXCEPT ![c] = NoLine]
  /\ began'   = [began EXCEPT ![c] = 0]
  /\ current' = [current EXCEPT ![c] = FALSE]

-----------------------------------------------------------------------------
(* Publish, on one channel.                                                *)

\* Stated less than a cooldown before this caller looked at its clock.
QuietUnsent(c) ==                    \* mutant: a row never sent is quiet too
  sentAgo[on[c]] - began[c] < Cooldown
QuietTooShort(c) ==                  \* mutant: off by one
  sentAgo[on[c]] # Never /\ sentAgo[on[c]] - began[c] < Cooldown - 1
Quiet(c) ==
  sentAgo[on[c]] # Never /\ sentAgo[on[c]] - began[c] < Cooldown

Look(c) ==
  /\ at[c] = "reading"
  /\ \/ /\ on[c] \notin open
        /\ GoesOn(c, "inserting", FALSE)
     \/ /\ on[c] \in open /\ Quiet(c)
        /\ Returns(c)
     \/ /\ on[c] \in open /\ ~Quiet(c)
        /\ GoesOn(c, "recording", TRUE)
  /\ UNCHANGED <<actual, table, ears, past>>

\* Of two callers that found no row, the index lets one insert its own.
InsertOnly(c) ==                     \* mutant: takes the row for the message
  /\ at[c] = "inserting"
  /\ open'    = open \cup {on[c]}
  /\ sentAgo' = [sentAgo EXCEPT ![on[c]] = Never]
  /\ offered' = offered \ {on[c]}
  /\ Returns(c)
  /\ UNCHANGED <<actual, said, toldAgo, past>>

Insert(c) ==
  /\ at[c] = "inserting"
  /\ \/ /\ on[c] \in open
        /\ Returns(c)
        /\ UNCHANGED <<table, offered>>
     \/ /\ on[c] \notin open
        /\ open'    = open \cup {on[c]}
        /\ sentAgo' = [sentAgo EXCEPT ![on[c]] = Never]
        /\ offered' = offered \ {on[c]}
        /\ GoesOn(c, "recording", TRUE)
  /\ UNCHANGED <<actual, said, toldAgo, past>>

\* RecordNotificationSent, by id, stamped with when the call began.
Record(c) ==
  /\ at[c] = "recording"
  /\ sentAgo' = IF current[c] THEN [sentAgo EXCEPT ![on[c]] = began[c]] ELSE sentAgo
  /\ GoesOn(c, "stating", current[c])
  /\ UNCHANGED <<actual, open, ears, past>>

State(c) ==
  /\ at[c] = "stating"
  /\ said'    = [said EXCEPT ![on[c]] = "stated"]
  /\ toldAgo' = [toldAgo EXCEPT ![on[c]] = began[c]]
  /\ offered' = IF current[c] THEN offered \cup {on[c]} ELSE offered
  /\ Returns(c)
  /\ UNCHANGED <<actual, table, past>>

\* A read or a write that fails is logged, and the condition stated all the
\* same.
PublishFails(c) ==
  /\ MayFail
  /\ at[c] \in {"reading", "inserting", "recording"}
  /\ GoesOn(c, "stating", current[c])
  /\ cut' = cut \cup {on[c]}
  /\ UNCHANGED <<actual, table, ears, raced, crashes>>

-----------------------------------------------------------------------------
(* Resolve, on one channel.                                                *)

CloseSilently(c) ==                  \* mutant: closes without a word
  /\ at[c] = "closing"
  /\ open' = open \ {on[c]}
  /\ Returns(c)
  /\ UNCHANGED <<actual, sentAgo, ears, past>>

Close(c) ==
  /\ at[c] = "closing"
  /\ \/ /\ on[c] \notin open
        /\ Returns(c)
        /\ UNCHANGED <<table, offered>>
     \/ /\ on[c] \in open
        /\ open'    = open \ {on[c]}
        /\ sentAgo' = [sentAgo EXCEPT ![on[c]] = Never]
        /\ offered' = offered \ {on[c]}
        /\ at'      = [at EXCEPT ![c] = "recovering"]
        /\ current' = [d \in Callers |-> current[d] /\ on[d] # on[c]]
        /\ UNCHANGED <<on, began>>
  /\ UNCHANGED <<actual, said, toldAgo, past>>

CloseFails(c) ==
  /\ MayFail
  /\ at[c] = "closing"
  /\ Returns(c)
  /\ cut' = cut \cup {on[c]}
  /\ UNCHANGED <<actual, table, ears, raced, crashes>>

Recover(c) ==
  /\ at[c] = "recovering"
  /\ said' = [said EXCEPT ![on[c]] = "cleared"]
  /\ Returns(c)
  /\ UNCHANGED <<actual, table, toldAgo, offered, past>>

-----------------------------------------------------------------------------
(* The world, the process and the clock.                                   *)

Turn(l) ==
  /\ actual' = [actual EXCEPT ![l] = ~@]
  /\ UNCHANGED <<table, calls, ears, past>>

\* The process dies and comes back; the rows survive, the calls do not.
Crash ==
  /\ crashes < MaxCrashes
  /\ crashes' = crashes + 1
  /\ cut' = cut \cup {l \in Lines : Busy(l)}
  /\ at'      = [c \in Callers |-> "idle"]
  /\ on'      = [c \in Callers |-> NoLine]
  /\ began'   = [c \in Callers |-> 0]
  /\ current' = [c \in Callers |-> FALSE]
  /\ UNCHANGED <<actual, table, ears, raced>>

Older(age) == IF age = Never \/ age = MaxAge THEN age ELSE age + 1

Tick ==
  /\ \A c \in Callers : began[c] < MaxStall
  /\ sentAgo' = [l \in Lines |-> Older(sentAgo[l])]
  /\ toldAgo' = [l \in Lines |-> Older(toldAgo[l])]
  /\ began'   = [c \in Callers |-> IF at[c] = "idle" THEN 0 ELSE began[c] + 1]
  /\ UNCHANGED <<actual, open, at, on, current, said, offered, past>>

Serve(c) ==
  \/ Look(c)
  \/ Insert(c)
  \/ Record(c)
  \/ State(c)
  \/ PublishFails(c)
  \/ Close(c)
  \/ CloseFails(c)
  \/ Recover(c)

Next ==
  \/ \E c \in Callers, l \in Lines : Notice(c, l) \/ NoticeClear(c, l)
  \/ \E c \in Callers : Serve(c)
  \/ \E l \in Lines : Turn(l)
  \/ Crash
  \/ Tick

\* Calls run on, time passes, and the sweep reports every condition it finds,
\* in both directions, again and again.
Fairness ==
  /\ \A c \in Callers : WF_vars(Serve(c))
  /\ \A l \in Lines :
       /\ SF_vars(\E c \in Callers : Notice(c, l))
       /\ SF_vars(\E c \in Callers : NoticeClear(c, l))
  /\ WF_vars(Tick)

Spec == Init /\ [][Next]_vars
FairSpec == Spec /\ Fairness

-----------------------------------------------------------------------------
(* How callers and rows agree: the strengthening the proofs need.          *)

Coherent(c) ==
  /\ at[c] = "idle" <=> on[c] = NoLine
  /\ current[c] => on[c] \in open /\ at[c] \in {"recording", "stating"}
  /\ at[c] \in {"idle", "closing", "recovering"} => ~current[c]

CallerCoherent == \A c \in Callers : Coherent(c)
RowCoherent    == offered \subseteq open

\* The register and the channel tell the same story of a line, to the tick.
Agrees(l) ==
  /\ l \in open <=> said[l] = "stated"
  /\ l \in open => l \in offered /\ toldAgo[l] \in Ages /\ sentAgo[l] = toldAgo[l]

\* So they do where nobody is, and where one caller is that has not acted yet;
\* from there on, what that caller holds is what the line is about to be.
Untouched(l) == l \in Lines /\ l \notin raced /\ l \notin cut

RestCoherent == \A l \in Lines : Untouched(l) /\ ~Busy(l) => Agrees(l)

Alone(c, l) ==
  /\ \A d \in Callers : on[d] = l => d = c
  /\ at[c] \in {"reading", "closing"} => Agrees(l)
  /\ at[c] = "inserting" => l \notin open /\ said[l] # "stated"
  /\ at[c] = "recovering" => l \notin open
  /\ at[c] \in {"recording", "stating"} =>
       /\ current[c]
       /\ l \in offered => toldAgo[l] \in Ages /\ toldAgo[l] - began[c] >= Cooldown
  /\ at[c] = "stating" => sentAgo[l] = began[c]

AloneCoherent == \A c \in Callers : Untouched(on[c]) => Alone(c, on[c])

-----------------------------------------------------------------------------
(* What the bus gets right.                                                *)

\* No condition is on file and unsaid: an open row has been stated to its
\* channel, or a caller that holds it is about to, or a call was cut short.
\* The caller that lost the insert and says nothing relies on this.
OpenMeansOffered ==
  \A l \in open :
    \/ l \in offered
    \/ \E c \in Callers : on[c] = l /\ current[c]
    \/ l \in cut

\* When nobody is on a line, the last thing the channel heard is what the
\* register shows: a standing condition was stated, a closed one was said to
\* have cleared.  Only callers that overlapped, or a call cut short, undo it.
LastWordHolds ==
  \A l \in Lines \ (raced \cup cut) :
    ~Busy(l) => (l \in open <=> said[l] = "stated")

\* A standing condition is not stated twice within its cooldown, unless two
\* callers were on it at once or a write failed.
Restates(l) == \E c \in Callers : on[c] = l /\ at[c] = "stating" /\ at'[c] = "idle"

SpacedOut ==
  \A l \in offered \ (raced' \cup cut') :
    Restates(l) =>
      \A c \in Callers : on[c] = l => toldAgo[l] - began[c] >= Cooldown
CooldownHolds == [][SpacedOut]_vars

\* A condition that lasts is stated in the end, whatever crash, failed write
\* or race came first: only its cooldown can delay it.
LastingConditionIsStated ==
  \A l \in Lines : actual[l] ~> (said[l] = "stated" \/ ~actual[l])

-----------------------------------------------------------------------------
(* What its comments say and the code does not do.                         *)

\* alert.go: "a cooldown so a flapping condition says one thing and then stays
\* quiet".
QuietFlapping ==
  \A l \in Lines \ (raced' \cup cut') :
    (Restates(l) /\ toldAgo[l] # Never) =>
      \A c \in Callers : on[c] = l => toldAgo[l] - began[c] >= Cooldown
FlappingIsQuiet == [][QuietFlapping]_vars

\* alert.go: "an explicit message when the condition clears".
EveryRecoveryIsHeard ==
  \A l \in Lines :
    (said[l] = "stated" /\ ~actual[l]) ~> (said[l] = "cleared" \/ actual[l])
=============================================================================
