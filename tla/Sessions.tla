------------------------------ MODULE Sessions ------------------------------
(***************************************************************************)
(* Signing in (internal/auth/session.go, internal/httpapi/auth.go and      *)
(* cmd/rental-bot/user.go): sessions with an expiry that slides, but not   *)
(* on every request; a password whose hash is upgraded by the sign-in that *)
(* has it in hand; and the command that resets it from another process.    *)
(*                                                                         *)
(* A request reads its session on the read pool and slides it by row id in *)
(* a second step.  Time is in days.  No request is under way for as long   *)
(* as Slide days.  One user; CSRF, cookies, addresses and the limiter are  *)
(* left out, and so is Sweep, which nothing calls.                         *)
(***************************************************************************)
EXTENDS Integers, FiniteSets, Tables

CONSTANTS
  Requests,     \* requests under way at a time
  Logins,       \* sign-ins under way at a time
  MaxSignIns,   \* bound: tokens handed out
  MaxResets,    \* bound: how often the password is reset
  TTL, Slide,   \* DefaultTTL and slideAfter
  LastDay       \* bound

SessionAssumption ==
  /\ {MaxSignIns, MaxResets, LastDay} \subseteq Nat
  /\ {TTL, Slide} \subseteq Nat \ {0} /\ Slide < TTL

Days      == 0 .. LastDay
Tokens    == 1 .. MaxSignIns
Passwords == 0 .. MaxResets
Session   == [token : Tokens, seen : Days, expires : 0 .. LastDay + TTL]
Idle      == [at |-> "nothing"]
Looking   == [at : {"sliding"}, token : Tokens, id : Tokens, day : Days]
               \cup [at : {"expiring"}, token : Tokens, day : Days]
Signing   == [at : {"verified", "upgraded"}, password : Passwords, weak : BOOLEAN]

VARIABLES
  today,
  sessions,   \* id -> row
  password,   \* the password the user's hash is of, by when it was set
  weak,       \* whether the hash is of older parameters
  looking,    \* requests
  signing,    \* sign-ins
  resetting,  \* whether createUser has still to end the sessions
  issued,     \* how many tokens were handed out
  promised,   \* history: how long a token is good for at the least
  ended       \* history: tokens signed out, expired or swept away by a reset

user  == <<password, weak, resetting>>
vars  == <<today, sessions, user, looking, signing, issued, promised, ended>>

TypeOK ==
  /\ today \in Days
  /\ DOMAIN sessions \subseteq Tokens /\ \A i \in DOMAIN sessions : sessions[i] \in Session
  /\ password \in Passwords /\ weak \in BOOLEAN /\ resetting \in BOOLEAN
  /\ looking \in [Requests -> Looking \cup {Idle}]
  /\ signing \in [Logins -> Signing \cup {Idle}]
  /\ issued \in 0 .. MaxSignIns
  /\ promised \in [Tokens -> 0 .. LastDay + TTL]
  /\ ended \subseteq 1 .. issued

Init ==
  /\ today = 0 /\ sessions = NoRows
  /\ password = 0 /\ weak \in BOOLEAN /\ resetting = FALSE
  /\ looking = [r \in Requests |-> Idle] /\ signing = [l \in Logins |-> Idle]
  /\ issued = 0 /\ promised = [t \in Tokens |-> 0] /\ ended = {}

Midnight ==
  /\ today < LastDay
  /\ \A r \in Requests : looking[r] # Idle => today + 1 - looking[r].day < Slide
  /\ today' = today + 1
  /\ UNCHANGED <<sessions, user, looking, signing, issued, promised, ended>>

-----------------------------------------------------------------------------
(* The queries.                                                            *)

GetSessionByTokenHash(token) == {i \in DOMAIN sessions : sessions[i].token = token}

CreateSession(token, now) ==
  sessions' = With(sessions, NextId(sessions), [token |-> token, seen |-> now, expires |-> now + TTL])

\* By id: whatever row has it by now, if any.
TouchOrInsert(id, now, token) ==     \* mutant: an upsert
  sessions' = With(sessions, id, [token |-> token, seen |-> now, expires |-> now + TTL])
TouchSession(id, now, token) ==
  sessions' = [i \in DOMAIN sessions |->
                 IF i = id THEN [sessions[i] EXCEPT !.seen = now, !.expires = now + TTL]
                           ELSE sessions[i]]

DeleteSessions(ids) ==
  /\ sessions' = Without(sessions, ids)
  /\ ended' = ended \cup {sessions[i].token : i \in ids}

DeleteSessionByTokenHash(token) == DeleteSessions(GetSessionByTokenHash(token))
DeleteSessionsForUser == DeleteSessions(DOMAIN sessions)

UpsertUser(new) == password' = new /\ weak' = FALSE

-----------------------------------------------------------------------------
(* A request and its session.                                              *)

\* Whoever was let in on a day is let in for as long again, less the days
\* that are not written down.
Admit(token, day) ==
  promised' = [promised EXCEPT ![token] = IF @ > day + TTL - Slide THEN @ ELSE day + TTL - Slide]

Done(r) == looking' = [looking EXCEPT ![r] = Idle]

\* What Lookup reads decides what it writes.
Lookup(r, token) ==
  /\ looking[r] = Idle
  /\ \E i \in GetSessionByTokenHash(token) :
       \/ /\ today >= sessions[i].expires
          /\ looking' = [looking EXCEPT ![r] = [at |-> "expiring", token |-> token, day |-> today]]
          /\ UNCHANGED promised
       \/ /\ today < sessions[i].expires /\ today - sessions[i].seen >= Slide
          /\ looking' = [looking EXCEPT ![r] = [at |-> "sliding", token |-> token, id |-> i, day |-> today]]
          /\ UNCHANGED promised
       \/ /\ today < sessions[i].expires /\ today - sessions[i].seen < Slide
          /\ Admit(token, today)
          /\ UNCHANGED looking
  /\ UNCHANGED <<today, sessions, user, signing, issued, ended>>

Expire(r) ==
  /\ looking[r].at = "expiring"
  /\ DeleteSessionByTokenHash(looking[r].token)
  /\ Done(r)
  /\ UNCHANGED <<today, user, signing, issued, promised>>

SlideExpiry(r) ==
  /\ looking[r].at = "sliding"
  /\ TouchSession(looking[r].id, looking[r].day, looking[r].token)
  /\ Admit(looking[r].token, looking[r].day)
  /\ Done(r)
  /\ UNCHANGED <<today, user, signing, issued, ended>>

\* Revoke; signing out twice is signing out once.
handleLogout(token) ==
  /\ token <= issued
  /\ DeleteSessionByTokenHash(token)
  /\ UNCHANGED <<today, user, looking, signing, issued, promised>>

-----------------------------------------------------------------------------
(* Signing in, and resetting the password.                                 *)

Steps(l, state) == signing' = [signing EXCEPT ![l] = state]

\* The user's row is read and the password verified against it.
handleLogin(l) ==
  /\ signing[l] = Idle
  /\ Steps(l, [at |-> "verified", password |-> password, weak |-> weak])
  /\ UNCHANGED <<today, sessions, user, looking, issued, promised, ended>>

\* A hash of older parameters is replaced by one of the password in hand.
Rehash(l) ==
  /\ signing[l].at = "verified" /\ signing[l].weak
  /\ UpsertUser(signing[l].password)
  /\ Steps(l, [signing[l] EXCEPT !.at = "upgraded"])
  /\ UNCHANGED <<today, sessions, resetting, looking, issued, promised, ended>>

\* Where the upgrade failed, the sign-in is valid either way.
Issue(l) ==
  /\ signing[l] # Idle
  /\ issued < MaxSignIns
  /\ issued' = issued + 1
  /\ CreateSession(issued + 1, today)
  /\ Admit(issued + 1, today)
  /\ Steps(l, Idle)
  /\ UNCHANGED <<today, user, looking, ended>>

createUser ==
  /\ password < MaxResets /\ ~resetting
  /\ UpsertUser(password + 1)
  /\ resetting' = TRUE
  /\ UNCHANGED <<today, sessions, looking, signing, issued, promised, ended>>

RevokeAll ==
  /\ resetting
  /\ resetting' = FALSE
  /\ DeleteSessionsForUser
  /\ UNCHANGED <<today, password, weak, looking, signing, issued, promised>>

\* The command is stopped before it got there.
ResetStops ==
  /\ resetting
  /\ resetting' = FALSE
  /\ UNCHANGED <<today, sessions, password, weak, looking, signing, issued, promised, ended>>

Next ==
  \/ Midnight
  \/ \E r \in Requests : Expire(r) \/ SlideExpiry(r) \/ \E token \in Tokens : Lookup(r, token)
  \/ \E token \in Tokens : handleLogout(token)
  \/ \E l \in Logins : handleLogin(l) \/ Rehash(l) \/ Issue(l)
  \/ createUser \/ RevokeAll \/ ResetStops

Spec == Init /\ [][Next]_vars

-----------------------------------------------------------------------------
\* A session that ended is not brought back by a request that was sliding it;
\* one that did not is there for as long as the last request let in was
\* promised, whichever of two requests wrote last and whoever has its row id.
SessionsHold ==
  /\ TypeOK
  /\ \A i \in DOMAIN sessions :
       /\ sessions[i].token \notin ended
       /\ sessions[i].expires = sessions[i].seen + TTL
  /\ \A i, j \in DOMAIN sessions : sessions[i].token = sessions[j].token => i = j
  /\ \A token \in (1 .. issued) \ ended : \E i \in DOMAIN sessions :
       sessions[i].token = token /\ sessions[i].expires >= promised[token]

\* user.go: the command "resets an existing one's password".  A sign-in that has
\* the old one in hand puts it back, with a hash of the newer parameters.
ResetStands == [][password' >= password]_vars
=============================================================================
