-------------------------- MODULE TelegramPairing --------------------------
(***************************************************************************)
(* Pairing a chat (internal/telegram/store.go and pairing.go): one row     *)
(* with the chat, the outstanding code and the cursor of the long poll,    *)
(* and narrow writes to it by whoever issues codes, handles updates or     *)
(* unpairs from a shell.                                                   *)
(*                                                                         *)
(* The library runs the handler of each update in a goroutine of its own,  *)
(* remembers in memory how far it has read, and after a restart hears      *)
(* again what Telegram has had no confirmation of.  Time is in TTLs.       *)
(* Mute, which nothing calls, the replies, the greeting and the status,    *)
(* which the sender writes, are left out.                                  *)
(***************************************************************************)
EXTENDS Naturals, Sequences, FiniteSets

CONSTANTS
  Chats, Issuers,
  MaxCodes, MaxUpdates,    \* bounds
  MaxUnpairs, MaxStarts,   \* bounds
  LastDay                  \* bound

Nobody == "nobody"

PairingAssumption ==
  /\ Nobody \notin Chats /\ IsFiniteSet(Issuers)
  /\ {MaxCodes, MaxUpdates, MaxUnpairs, MaxStarts, LastDay} \subseteq Nat

TTL     == 1
Codes   == 1 .. MaxCodes
Updates == 1 .. MaxUpdates
Days    == 0 .. LastDay + TTL

VARIABLES
  row,        \* telegram_state, or none
  today,
  issuing,    \* what each issuer of codes is at
  issued,     \* how many codes there are
  said,       \* what was sent to the bot, in the order of its update ids
  offset,     \* how far the library has read
  handling,   \* what the handler of each update is at
  starts,
  unpairs,    \* history
  since,      \* history: after how many unpairings each code was written
  pairings    \* history: who paired, by which code, when and after how many unpairings

vars == <<row, today, issuing, issued, said, offset, handling, starts, unpairs, since, pairings>>

None   == [none |-> TRUE]
Fresh  == [chat |-> Nobody, cursor |-> 0, code |-> 0, expires |-> 0]
State  == IF row = None THEN Fresh ELSE row

TypeOK ==
  /\ row \in [chat : Chats \cup {Nobody}, cursor : 0 .. MaxUpdates, code : 0 .. MaxCodes, expires : Days]
           \cup {None}
  /\ today \in 0 .. LastDay
  /\ issuing \in [Issuers -> [at : {"idle"}] \cup [at : {"ensured", "unpaired"}, day : 0 .. LastDay]]
  /\ issued \in 0 .. MaxCodes
  /\ said \in Seq([chat : Chats, code : 0 .. MaxCodes]) /\ Len(said) <= MaxUpdates
  /\ offset \in 0 .. Len(said)
  /\ handling \in [Updates -> [at : {"idle", "begun", "pairing"}] \cup [at : {"read"}, chat : Chats \cup {Nobody}]]
  /\ starts \in 0 .. MaxStarts /\ unpairs \in 0 .. MaxUnpairs
  /\ since \in [Codes -> 0 .. MaxUnpairs]
  /\ pairings \subseteq [chat : Chats, code : Codes, unpairs : 0 .. MaxUnpairs, late : BOOLEAN]

Init ==
  /\ row = None /\ today = 0
  /\ issuing = [i \in Issuers |-> [at |-> "idle"]] /\ issued = 0
  /\ said = <<>> /\ offset = 0
  /\ handling = [u \in Updates |-> [at |-> "idle"]]
  /\ starts = 0 /\ unpairs = 0 /\ since = [c \in Codes |-> 0] /\ pairings = {}

\* The last day does not end.
Midnight ==
  /\ today' = IF today < LastDay THEN today + 1 ELSE today
  /\ UNCHANGED <<row, issuing, issued, said, offset, handling, starts, unpairs, since, pairings>>

\* An UPDATE ... WHERE id = 1 of a row there may not be.
Update(new) == row' = IF row = None THEN None ELSE new

-----------------------------------------------------------------------------
(* IssuePairingCode: from the screen, and when the process starts.         *)

ensure(i) ==
  /\ issuing[i].at = "idle"
  /\ issued + Cardinality({j \in Issuers : issuing[j].at # "idle"}) < MaxCodes
  /\ row' = State
  /\ issuing' = [issuing EXCEPT ![i] = [at |-> "ensured", day |-> today]]
  /\ UNCHANGED <<today, issued, said, offset, handling, starts, unpairs, since, pairings>>

IssuePairingCode(i) ==
  /\ issuing[i].at = "ensured"
  /\ issuing' = [issuing EXCEPT ![i] =
       IF State.chat = Nobody THEN [@ EXCEPT !.at = "unpaired"] ELSE [at |-> "idle"]]
  /\ UNCHANGED <<row, today, issued, said, offset, handling, starts, unpairs, since, pairings>>

\* Whoever paired since then is not looked for.
SetTelegramPairingCode(i) ==
  /\ issuing[i].at = "unpaired"
  /\ issued' = issued + 1
  /\ Update([row EXCEPT !.code = issued + 1, !.expires = issuing[i].day + TTL])
  /\ issuing' = [issuing EXCEPT ![i] = [at |-> "idle"]]
  /\ since' = [since EXCEPT ![issued + 1] = unpairs]
  /\ UNCHANGED <<today, said, offset, handling, starts, unpairs, pairings>>

-----------------------------------------------------------------------------
(* The long poll.                                                          *)

\* A message: a pairing command with a code that was shown, or anything else.
Say(chat, code) ==
  /\ Len(said) < MaxUpdates
  /\ said' = Append(said, [chat |-> chat, code |-> code])
  /\ UNCHANGED <<row, today, issuing, issued, offset, handling, starts, unpairs, since, pairings>>

\* The library reads on, and starts a handler.
getUpdates ==
  /\ offset < Len(said) /\ offset' = offset + 1
  /\ handling' = [handling EXCEPT ![offset + 1] = [at |-> "begun"]]
  /\ UNCHANGED <<row, today, issuing, issued, said, starts, unpairs, since, pairings>>

\* What the cursor is past is dropped: seen before a restart, or of a smaller id
\* than one whose handler was quicker.
handle(u) ==
  /\ handling[u].at = "begun"
  /\ handling' = [handling EXCEPT ![u] =
       IF u <= State.cursor THEN [at |-> "idle"] ELSE [at |-> "read", chat |-> State.chat]]
  /\ UNCHANGED <<row, today, issuing, issued, said, offset, starts, unpairs, since, pairings>>

SetTelegramCursor(u) == Update([row EXCEPT !.cursor = u])

\* The cursor goes to this update, back too, and where that fails the update is
\* handled all the same.
SetCursor(u) ==
  /\ handling[u].at = "read"
  /\ SetTelegramCursor(u) \/ UNCHANGED row
  /\ handling' = [handling EXCEPT ![u] =
       IF handling[u].chat = Nobody /\ said[u].code # 0 THEN [at |-> "pairing"] ELSE [at |-> "idle"]]
  /\ UNCHANGED <<today, issuing, issued, said, offset, starts, unpairs, since, pairings>>

PairTelegram(chat, code) ==
  row.chat = Nobody /\ row.code = code /\ row.expires > today

Pair(u) ==
  /\ handling[u].at = "pairing"
  /\ LET s == said[u] IN
       \/ /\ row # None /\ PairTelegram(s.chat, s.code)
          /\ row' = [row EXCEPT !.chat = s.chat, !.code = 0, !.expires = 0]
          /\ pairings' = pairings \cup
               {[chat |-> s.chat, code |-> s.code, unpairs |-> unpairs, late |-> row.expires <= today]}
       \/ /\ row # None => ~PairTelegram(s.chat, s.code)
          /\ UNCHANGED <<row, pairings>>
  /\ handling' = [handling EXCEPT ![u] = [at |-> "idle"]]
  /\ UNCHANGED <<today, issuing, issued, said, offset, starts, unpairs, since>>

-----------------------------------------------------------------------------
(* The other processes.                                                    *)

\* rental-bot -unpair-telegram, a process of its own.
ForgetChat == Update([row EXCEPT !.chat = Nobody])     \* mutant: the row stays
DeleteTelegramState == row' = None

Unpair ==
  /\ row # None
  /\ unpairs < MaxUnpairs /\ unpairs' = unpairs + 1
  /\ DeleteTelegramState
  /\ UNCHANGED <<today, issuing, issued, said, offset, handling, starts, since, pairings>>

Restart ==
  /\ starts < MaxStarts /\ starts' = starts + 1
  /\ offset' \in 0 .. offset
  /\ issuing' = [i \in Issuers |-> [at |-> "idle"]]
  /\ handling' = [u \in Updates |-> [at |-> "idle"]]
  /\ UNCHANGED <<row, today, issued, said, unpairs, since, pairings>>

Next ==
  \/ Midnight
  \/ \E i \in Issuers : ensure(i) \/ IssuePairingCode(i) \/ SetTelegramPairingCode(i)
  \/ \E chat \in Chats, code \in 0 .. issued : Say(chat, code)
  \/ getUpdates
  \/ \E u \in Updates : handle(u) \/ SetCursor(u) \/ Pair(u)
  \/ Unpair \/ Restart

Spec == Init /\ [][Next]_vars

-----------------------------------------------------------------------------
\* Whoever issues, retries, restarts or answers at once: a chat is on file only
\* because it sent a code, in time and before anybody else did, no second one takes
\* its place until somebody unpairs the first from a shell, and no code of before
\* that lets anybody in after it.
PairedOnce ==
  /\ TypeOK
  /\ \A p, q \in pairings : p.code = q.code \/ p.unpairs = q.unpairs => p = q
  /\ \A p \in pairings : ~p.late /\ since[p.code] = p.unpairs
  /\ State.chat # Nobody => \E p \in pairings : p.chat = row.chat /\ p.unpairs = unpairs

\* pairing.go: "a restart neither replays a command nor drops one that arrived
\* while down".  Of two that are handled at once the first may be passed over,
\* which nothing but a restart should do.
NoneDropped ==
  [][\A u \in Updates : handling[u].at = "begun" /\ starts' = 0 => handling'[u].at # "idle"]_vars
=============================================================================
