---------------------------- MODULE ConsoleProofs ----------------------------
(***************************************************************************)
(* Theorems of Console, for any number of requests, workers, processes and *)
(* so on, and any bounds.  Each part has an inductive invariant of its     *)
(* own, over its own variables: a step of the part keeps it, a step of     *)
(* another part leaves it alone, and it implies the property the part is   *)
(* for.                                                                    *)
(***************************************************************************)
EXTENDS Console, Sequences, FiniteSetTheorems, WellFoundedInduction, TLAPS

-----------------------------------------------------------------------------
(* Signing in.                                                             *)

\* A set of numbers that has one has a least one.
LEMMA LeastIsThere ==
  ASSUME NEW R \in SUBSET Nat, R # {}
  PROVE  \E m \in R : \A i \in R : m <= i
<1> DEFINE Less == {s \in Nat \X Nat : s[1] < s[2]}
<1>1. IsWellFoundedOn(Less, Nat)
  BY NatLessThanWellFounded DEF OpToRel
<1>2. PICK m \in R : \A i \in R : ~(<<i, m>> \in Less)
  BY <1>1, WFMin
<1>3. \A i \in R : m <= i
  <2>. SUFFICES ASSUME NEW i \in R
                PROVE  m <= i
    OBVIOUS
  <2>1. i \in Nat /\ m \in Nat /\ ~(<<i, m>> \in Less)
    BY <1>2
  <2>. QED
    BY <2>1
<1>. QED
  BY <1>3

\* The id of a new session is none that is on file, and no further than the sessions there were.
LEMMA SessionIdIsNew ==
  ASSUME NEW n \in Nat, NEW t, DOMAIN t \subseteq 1 .. n
  PROVE  S!NextId(t) \in 1 .. n + 1 /\ S!NextId(t) \notin DOMAIN t
<1>1. CASE DOMAIN t = {}
  BY <1>1 DEF S!NextId
<1>2. CASE DOMAIN t # {}
  <2> DEFINE largest == CHOOSE m \in DOMAIN t : \A i \in DOMAIN t : i <= m
             down    == {n - i : i \in DOMAIN t}
  <2>1. down \in SUBSET Nat /\ down # {}
    BY <1>2
  <2>2. PICK k \in down : \A d \in down : k <= d
    BY <2>1, LeastIsThere
  <2>3. PICK m \in DOMAIN t : k = n - m
    BY <2>2
  <2>4. \A i \in DOMAIN t : i <= m
    <3>. SUFFICES ASSUME NEW i \in DOMAIN t
                  PROVE  i <= m
      OBVIOUS
    <3>1. n - i \in down
      OBVIOUS
    <3>2. n - m <= n - i
      BY <2>2, <2>3, <3>1
    <3>3. i \in Nat /\ m \in Nat
      OBVIOUS
    <3>. QED
      BY <3>2, <3>3
  <2>5. largest \in DOMAIN t /\ \A i \in DOMAIN t : i <= largest
    BY <2>4
  <2>6. S!NextId(t) = 1 + largest
    BY <1>2 DEF S!NextId
  <2> HIDE DEF largest
  <2>. QED
    BY <2>5, <2>6
<1>. QED
  BY <1>1, <1>2

\* Rows are of sessions that have not ended, seen by now.
RowsRight ==
  /\ DOMAIN sessions \subseteq 1 .. sIssued
  /\ \A i \in DOMAIN sessions :
       /\ sessions[i] \in S!Session
       /\ sessions[i].token \in (1 .. sIssued) \ ended
       /\ sessions[i].expires = sessions[i].seen + SessionTTL /\ sessions[i].seen <= sToday
  /\ \A i, j \in DOMAIN sessions : sessions[i].token = sessions[j].token => i = j

\* Sessions that have not ended are on file, for as long as was promised.
Stands ==
  \A token \in (1 .. sIssued) \ ended : \E i \in DOMAIN sessions :
    sessions[i].token = token /\ sessions[i].expires >= promised[token]

\* Nothing is promised past what a request let in today would be.
Promised ==
  /\ promised \in [S!Tokens -> 0 .. LastSignInDay + SessionTTL]
  /\ \A t \in S!Tokens : /\ promised[t] <= sToday + SessionTTL - Slide
                         /\ t > sIssued => promised[t] = 0

\* A request read its session less than Slide days ago; the id it has is of its
\* own session, unless that has ended.
LooksRight(c) ==
  /\ c \in S!Looking \cup {S!Idle}
  /\ c # S!Idle => /\ c.token <= sIssued
                   /\ c.day <= sToday /\ sToday - c.day < Slide
                   /\ c.at = "sliding" /\ c.token \notin ended =>
                        c.id \in DOMAIN sessions /\ sessions[c.id].token = c.token
\* So of all requests.
Looks == looking \in [Requests -> S!Looking \cup {S!Idle}] /\ \A r \in Requests : LooksRight(looking[r])

\* The user and the sign-ins under way.
UserTyped ==
  /\ password \in S!Passwords /\ weak \in BOOLEAN /\ resetting \in BOOLEAN
  /\ signing \in [Logins -> S!Signing \cup {S!Idle}]

\* The day, the tokens handed out and the ones that ended.
SessionsCounted == sToday \in S!Days /\ sIssued \in 0 .. MaxSignIns /\ ended \subseteq 1 .. sIssued

\* What every step of signing in keeps.
SessionsInv == RowsRight /\ Stands /\ Promised /\ Looks /\ UserTyped /\ SessionsCounted

\* The bounds, and that a session outlives the time it is left alone for.
LEMMA SessionNumbers ==
  ASSUME S!SessionAssumption
  PROVE  /\ MaxSignIns \in Nat /\ MaxResets \in Nat /\ LastSignInDay \in Nat
         /\ SessionTTL \in Nat /\ Slide \in Nat /\ 0 < Slide /\ Slide < SessionTTL
BY DEF S!SessionAssumption

\* It holds before anybody signed in.
LEMMA SessionsInit == S!SessionAssumption /\ S!Init => SessionsInv
<1>. SUFFICES ASSUME S!SessionAssumption, S!Init
              PROVE  SessionsInv
  OBVIOUS
<1>1. DOMAIN sessions = {} /\ sIssued = 0 /\ sToday = 0 /\ ended = {}
  BY DEF S!Init, S!NoRows
<1>2. RowsRight /\ Stands /\ SessionsCounted
  BY <1>1, SessionNumbers DEF RowsRight, Stands, SessionsCounted, S!Days
<1>3. Promised
  BY <1>1, SessionNumbers DEF S!Init, Promised
<1>4. Looks
  BY DEF S!Init, Looks, LooksRight
<1>5. UserTyped
  <2>1. signing \in [Logins -> S!Signing \cup {S!Idle}]
    BY DEF S!Init
  <2>2. password \in S!Passwords
    BY SessionNumbers DEF S!Init, S!Passwords
  <2>. QED
    BY <2>1, <2>2 DEF S!Init, UserTyped
<1>. QED
  BY <1>2, <1>3, <1>4, <1>5 DEF SessionsInv

\* It gives the property.
LEMMA SessionsInvImplies == ASSUME S!SessionAssumption, SessionsInv PROVE S!SessionsHold
<1>1. S!TypeOK
  BY SessionNumbers DEF SessionsInv, RowsRight, Promised, Looks, UserTyped, SessionsCounted, S!TypeOK, S!Tokens
<1>. QED
  BY <1>1 DEF SessionsInv, RowsRight, Stands, S!SessionsHold

\* Requests that look right still do when one of them moves and what they see stays.
LEMMA RequestMoves ==
  ASSUME Looks, NEW r \in Requests, NEW c, looking' = [looking EXCEPT ![r] = c], LooksRight(c)',
         \A d \in S!Looking \cup {S!Idle} : LooksRight(d) => LooksRight(d)'
  PROVE  Looks'
<1>1. c \in S!Looking \cup {S!Idle}
  BY DEF LooksRight
<1>2. looking' \in [Requests -> S!Looking \cup {S!Idle}] /\ looking'[r] = c
  BY <1>1 DEF Looks
<1>3. ASSUME NEW q \in Requests, q # r
      PROVE  LooksRight(looking[q])'
  <2>1. looking'[q] = looking[q] /\ looking[q] \in S!Looking \cup {S!Idle} /\ LooksRight(looking[q])
    BY <1>3 DEF Looks
  <2> DEFINE d == looking[q]
  <2>2. d \in S!Looking \cup {S!Idle} /\ LooksRight(d)
    BY <2>1
  <2>. QED
    BY <2>1 DEF LooksRight
<1>. QED
  BY <1>2, <1>3 DEF Looks

\* A request that looks right still does when what it sees stays.
LEMMA LooksStay ==
  ASSUME UNCHANGED <<sToday, sessions, sIssued, ended>>
  PROVE  \A d \in S!Looking \cup {S!Idle} : LooksRight(d) => LooksRight(d)'
BY DEF LooksRight

\* Whoever is let in is promised no more than a request let in today.
LEMMA Admitted ==
  ASSUME S!SessionAssumption, Promised, sToday \in Nat, sIssued \in Nat, sIssued' \in Nat, sIssued <= sIssued',
         NEW token \in S!Tokens, token <= sIssued', NEW day \in S!Days, day <= sToday,
         S!Admit(token, day), sToday' = sToday
  PROVE  /\ Promised' /\ promised'[token] <= sToday + SessionTTL - Slide
         /\ \A t \in S!Tokens : t # token => promised'[t] = promised[t]
<1> DEFINE new == IF promised[token] > day + SessionTTL - Slide THEN promised[token] ELSE day + SessionTTL - Slide
<1>1. /\ promised[token] \in 0 .. LastSignInDay + SessionTTL /\ promised[token] <= sToday + SessionTTL - Slide
      /\ day \in 0 .. LastSignInDay
  BY DEF Promised, S!Days
<1>2. new \in 0 .. LastSignInDay + SessionTTL /\ new <= sToday + SessionTTL - Slide
  BY <1>1, SessionNumbers
<1>3. promised' = [promised EXCEPT ![token] = new]
  BY DEF S!Admit
<1> HIDE DEF new
<1>4. /\ promised' \in [S!Tokens -> 0 .. LastSignInDay + SessionTTL] /\ promised'[token] = new
      /\ \A t \in S!Tokens : t # token => promised'[t] = promised[t]
  BY <1>2, <1>3 DEF Promised
<1>5. ASSUME NEW t \in S!Tokens
      PROVE  promised'[t] <= sToday + SessionTTL - Slide /\ (t > sIssued' => promised'[t] = 0)
  <2>1. CASE t = token
    BY <1>2, <1>4, <2>1 DEF S!Tokens
  <2>2. CASE t # token
    <3>1. promised'[t] = promised[t] /\ (t > sIssued' => t > sIssued)
      BY <1>4, <2>2, SessionNumbers DEF S!Tokens
    <3>. QED
      BY <3>1 DEF Promised
  <2>. QED
    BY <2>1, <2>2
<1>. QED
  BY <1>2, <1>4, <1>5 DEF Promised

\* Rows that go, with the session ended.
LEMMA RowsGone ==
  ASSUME SessionsInv, NEW ids \in SUBSET DOMAIN sessions, S!DeleteSessions(ids),
         UNCHANGED <<sToday, sIssued, promised>>
  PROVE  /\ RowsRight' /\ Stands' /\ Promised' /\ SessionsCounted'
         /\ \A d \in S!Looking \cup {S!Idle} : LooksRight(d) => LooksRight(d)'
<1>1. /\ DOMAIN sessions' = DOMAIN sessions \ ids
      /\ \A i \in DOMAIN sessions' : sessions'[i] = sessions[i]
      /\ ended' = ended \cup {sessions[i].token : i \in ids}
  BY DEF S!DeleteSessions, S!Without
<1>2. \A i \in DOMAIN sessions' : sessions'[i].token \notin ended'
  BY <1>1 DEF SessionsInv, RowsRight
<1>3. RowsRight'
  BY <1>1, <1>2 DEF SessionsInv, RowsRight
<1>4. Stands'
  <2>. SUFFICES ASSUME NEW token \in (1 .. sIssued) \ ended, token \notin ended'
                PROVE  \E i \in DOMAIN sessions' :
                         sessions'[i].token = token /\ sessions'[i].expires >= promised[token]
    BY <1>1 DEF Stands
  <2>1. PICK i \in DOMAIN sessions : sessions[i].token = token /\ sessions[i].expires >= promised[token]
    BY DEF SessionsInv, Stands
  <2>2. i \notin ids
    BY <1>1, <2>1
  <2>. QED
    BY <1>1, <2>1, <2>2
<1>5. Promised' /\ SessionsCounted'
  <2>1. \A i \in ids : sessions[i].token \in 1 .. sIssued
    BY DEF SessionsInv, RowsRight
  <2>2. SessionsCounted'
    BY <1>1, <2>1 DEF SessionsInv, SessionsCounted
  <2>. QED
    BY <2>2 DEF SessionsInv, Promised
<1>6. ASSUME NEW d \in S!Looking \cup {S!Idle}, LooksRight(d)
      PROVE  LooksRight(d)'
  <2>1. ASSUME d # S!Idle, d.at = "sliding", d.token \notin ended'
        PROVE  d.id \in DOMAIN sessions' /\ sessions'[d.id].token = d.token
    BY <1>1, <1>6, <2>1 DEF LooksRight
  <2>. QED
    BY <1>6, <2>1 DEF LooksRight
<1>. QED
  BY <1>3, <1>4, <1>5, <1>6

\* Every step of signing in keeps the invariant.
LEMMA SessionsStep ==
  ASSUME S!SessionAssumption, SessionsInv, S!Next
  PROVE  SessionsInv'
<1>1. RowsRight /\ Stands /\ Promised /\ Looks /\ UserTyped /\ SessionsCounted
  BY DEF SessionsInv
<1>2. /\ sToday \in Nat /\ sIssued \in Nat
      /\ \A i \in DOMAIN sessions : sessions[i].seen \in Nat /\ sessions[i].expires \in Nat
  BY SessionNumbers DEF SessionsInv, SessionsCounted, RowsRight, S!Session, S!Days
<1>3. \A t \in S!Tokens : promised[t] \in Nat
  BY <1>1, SessionNumbers DEF Promised
<1>4. CASE S!Midnight
  <2>1. /\ sToday' = sToday + 1 /\ sToday' \in S!Days
        /\ \A r \in Requests : looking[r] # S!Idle => sToday + 1 - looking[r].day < Slide
        /\ UNCHANGED <<sessions, password, weak, resetting, looking, signing, sIssued, promised, ended>>
    BY <1>2, <1>4, SessionNumbers DEF S!Midnight, S!user, S!Days
  <2>2. RowsRight'
    BY <1>1, <1>2, <2>1 DEF RowsRight
  <2>3. Stands' /\ UserTyped' /\ SessionsCounted'
    BY <1>1, <2>1 DEF Stands, UserTyped, SessionsCounted
  <2>4. Promised'
    BY <1>1, <1>2, <1>3, <2>1, SessionNumbers DEF Promised
  <2>5. Looks'
    <3>. SUFFICES ASSUME NEW r \in Requests
                  PROVE  LooksRight(looking[r])'
      BY <1>1, <2>1 DEF Looks
    <3>1. LooksRight(looking[r])
      BY <1>1 DEF Looks
    <3>2. looking[r] # S!Idle => looking[r].day \in Nat
      BY <3>1, SessionNumbers DEF LooksRight, S!Looking, S!Days
    <3>. QED
      BY <1>2, <2>1, <3>1, <3>2 DEF LooksRight
  <2>. QED
    BY <2>2, <2>3, <2>4, <2>5 DEF SessionsInv
<1>5. ASSUME NEW r \in Requests, NEW token \in S!Tokens, S!Lookup(r, token)
      PROVE  SessionsInv'
  <2>1. UNCHANGED <<sToday, sessions, password, weak, resetting, signing, sIssued, ended>>
    BY <1>5 DEF S!Lookup, S!user
  <2>2. PICK i \in DOMAIN sessions :
          /\ sessions[i].token = token
          /\ \/ \E c \in {[at |-> "expiring", token |-> token, day |-> sToday],
                        [at |-> "sliding", token |-> token, id |-> i, day |-> sToday]} :
                  looking' = [looking EXCEPT ![r] = c] /\ UNCHANGED promised
             \/ /\ sToday - sessions[i].seen < Slide /\ S!Admit(token, sToday) /\ UNCHANGED looking
    BY <1>5 DEF S!Lookup, S!GetSessionByTokenHash
  <2>3. token \in (1 .. sIssued) \ ended /\ i \in S!Tokens /\ sToday \in S!Days
    BY <1>1, <2>2, SessionNumbers DEF RowsRight, SessionsCounted, S!Tokens
  <2>4. RowsRight' /\ UserTyped' /\ SessionsCounted'
    BY <1>1, <2>1 DEF RowsRight, UserTyped, SessionsCounted
  <2>5. \A d \in S!Looking \cup {S!Idle} : LooksRight(d) => LooksRight(d)'
    BY <2>1, LooksStay
  <2>6. ASSUME NEW c \in {[at |-> "expiring", token |-> token, day |-> sToday],
                          [at |-> "sliding", token |-> token, id |-> i, day |-> sToday]},
               looking' = [looking EXCEPT ![r] = c], UNCHANGED promised
        PROVE  SessionsInv'
    <3>1. Stands' /\ Promised'
      BY <1>1, <2>1, <2>6 DEF Stands, Promised
    <3>2. LooksRight(c)'
      <4>1. c \in S!Looking
        BY <2>3, <2>6 DEF S!Looking
      <4>2. c.token = token /\ c.day = sToday /\ (c.at = "sliding" => c.id = i)
        BY <2>6
      <4>. QED
        BY <1>2, <2>1, <2>2, <2>3, <4>1, <4>2, SessionNumbers DEF LooksRight
    <3>3. Looks'
      BY <1>1, <2>5, <2>6, <3>2, RequestMoves
    <3>. QED
      BY <2>4, <3>1, <3>3 DEF SessionsInv
  <2>7. CASE sToday - sessions[i].seen < Slide /\ S!Admit(token, sToday) /\ UNCHANGED looking
    <3>1. /\ Promised' /\ promised'[token] <= sToday + SessionTTL - Slide
          /\ \A t \in S!Tokens : t # token => promised'[t] = promised[t]
      BY <1>1, <1>2, <2>1, <2>3, <2>7, Admitted
    <3>2. promised'[token] \in Nat
      BY <3>1, SessionNumbers DEF Promised
    <3>4. sessions[i].expires >= promised'[token]
      <4>1. sessions[i].expires = sessions[i].seen + SessionTTL /\ sToday < sessions[i].seen + Slide
        BY <1>1, <1>2, <2>7, SessionNumbers DEF RowsRight
      <4>. QED
        BY <1>2, <3>1, <3>2, <4>1, SessionNumbers
    <3>5. Stands'
      <4>. SUFFICES ASSUME NEW t \in (1 .. sIssued) \ ended
                    PROVE  \E j \in DOMAIN sessions : sessions[j].token = t /\ sessions[j].expires >= promised'[t]
        BY <2>1 DEF Stands
      <4>1. CASE t = token
        BY <2>2, <3>4, <4>1
      <4>2. CASE t # token
        <5>1. t \in S!Tokens
          BY <1>1, SessionNumbers DEF SessionsCounted, S!Tokens
        <5>. QED
          BY <1>1, <3>1, <4>2, <5>1 DEF Stands
      <4>. QED
        BY <4>1, <4>2
    <3>6. Looks'
      BY <1>1, <2>1, <2>7 DEF Looks, LooksRight
    <3>. QED
      BY <2>4, <3>1, <3>5, <3>6 DEF SessionsInv
  <2>. QED
    BY <2>2, <2>6, <2>7
<1>6. ASSUME NEW r \in Requests, S!Expire(r)
      PROVE  SessionsInv'
  <2> DEFINE ids == S!GetSessionByTokenHash(looking[r].token)
  <2>1. /\ S!DeleteSessions(ids) /\ looking' = [looking EXCEPT ![r] = S!Idle]
        /\ UNCHANGED <<sToday, password, weak, resetting, signing, sIssued, promised>>
    BY <1>6 DEF S!Expire, S!DeleteSessionByTokenHash, S!Done, S!user
  <2>2. ids \in SUBSET DOMAIN sessions
    BY DEF S!GetSessionByTokenHash
  <2> HIDE DEF ids
  <2>3. /\ RowsRight' /\ Stands' /\ Promised' /\ SessionsCounted'
        /\ \A d \in S!Looking \cup {S!Idle} : LooksRight(d) => LooksRight(d)'
    BY <2>1, <2>2, RowsGone
  <2>4. Looks'
    <3>1. LooksRight(S!Idle)'
      BY DEF LooksRight
    <3>. QED
      BY <1>1, <2>1, <2>3, <3>1, RequestMoves
  <2>5. UserTyped'
    BY <1>1, <2>1 DEF UserTyped
  <2>. QED
    BY <2>3, <2>4, <2>5 DEF SessionsInv
<1>7. ASSUME NEW ids \in SUBSET DOMAIN sessions, S!DeleteSessions(ids),
             UNCHANGED <<sToday, looking, signing, sIssued, promised>>, UserTyped'
      PROVE  SessionsInv'
  <2>1. /\ RowsRight' /\ Stands' /\ Promised' /\ SessionsCounted'
        /\ \A d \in S!Looking \cup {S!Idle} : LooksRight(d) => LooksRight(d)'
    BY <1>7, RowsGone
  <2>2. Looks'
    <3>. SUFFICES ASSUME NEW r \in Requests
                  PROVE  LooksRight(looking[r])'
      BY <1>1, <1>7 DEF Looks
    <3> DEFINE c == looking[r]
    <3>1. c \in S!Looking \cup {S!Idle} /\ LooksRight(c)
      BY <1>1 DEF Looks
    <3>2. PICK d \in S!Looking \cup {S!Idle} : d = c /\ LooksRight(d)'
      BY <2>1, <3>1
    <3>. QED
      BY <1>7, <3>2 DEF LooksRight
  <2>. QED
    BY <1>7, <2>1, <2>2 DEF SessionsInv
<1>8. ASSUME NEW token \in S!Tokens, S!handleLogout(token)
      PROVE  SessionsInv'
  <2>1. S!GetSessionByTokenHash(token) \in SUBSET DOMAIN sessions
    BY DEF S!GetSessionByTokenHash
  <2>2. UserTyped'
    BY <1>1, <1>8 DEF S!handleLogout, UserTyped, S!user
  <2>. QED
    BY <1>7, <1>8, <2>1, <2>2 DEF S!handleLogout, S!DeleteSessionByTokenHash
<1>9. CASE S!RevokeAll
  <2>1. UserTyped'
    BY <1>1, <1>9 DEF S!RevokeAll, UserTyped
  <2>. QED
    BY <1>7, <1>9, <2>1 DEF S!RevokeAll, S!DeleteSessionsForUser
\* Steps that write neither sessions nor promises.
<1>10. ASSUME UNCHANGED <<sToday, sessions, looking, sIssued, promised, ended>>, UserTyped'
       PROVE  SessionsInv'
  <2>1. RowsRight' /\ Stands' /\ Promised' /\ SessionsCounted'
    BY <1>1, <1>10 DEF RowsRight, Stands, Promised, SessionsCounted
  <2>2. Looks'
    BY <1>1, <1>10 DEF Looks, LooksRight
  <2>. QED
    BY <1>10, <2>1, <2>2 DEF SessionsInv
<1>11. ASSUME NEW l \in Logins, S!handleLogin(l)
       PROVE  SessionsInv'
  <2> DEFINE state == [at |-> "verified", password |-> password, weak |-> weak]
  <2>1. /\ signing' = [signing EXCEPT ![l] = state]
        /\ UNCHANGED <<sToday, sessions, password, weak, resetting, looking, sIssued, promised, ended>>
    BY <1>11 DEF S!handleLogin, S!Steps, S!user
  <2>2. state \in S!Signing
    BY <1>1 DEF S!Signing, UserTyped
  <2>3. UserTyped'
    BY <1>1, <2>1, <2>2 DEF UserTyped
  <2>. QED
    BY <1>10, <2>1, <2>3
<1>12. ASSUME NEW l \in Logins, S!Rehash(l)
       PROVE  SessionsInv'
  <2>1. /\ signing[l].at = "verified" /\ password' = signing[l].password /\ weak' = FALSE
        /\ signing' = [signing EXCEPT ![l] = [signing[l] EXCEPT !.at = "upgraded"]]
        /\ UNCHANGED <<sToday, sessions, resetting, looking, sIssued, promised, ended>>
    BY <1>12 DEF S!Rehash, S!UpsertUser, S!Steps
  <2>2. signing[l] \in S!Signing
    BY <1>1, <2>1 DEF UserTyped, S!Idle
  <2>3. signing[l].password \in S!Passwords /\ [signing[l] EXCEPT !.at = "upgraded"] \in S!Signing
    BY <2>2 DEF S!Signing
  <2>4. UserTyped'
    BY <1>1, <2>1, <2>3 DEF UserTyped
  <2>. QED
    BY <1>10, <2>1, <2>4
<1>13. CASE S!createUser
  <2>1. /\ password < MaxResets /\ password' = password + 1 /\ weak' = FALSE /\ resetting' = TRUE
        /\ UNCHANGED <<sToday, sessions, looking, signing, sIssued, promised, ended>>
    BY <1>13 DEF S!createUser, S!UpsertUser
  <2>2. password' \in S!Passwords
    BY <1>1, <2>1, SessionNumbers DEF UserTyped, S!Passwords
  <2>3. UserTyped'
    BY <1>1, <2>1, <2>2 DEF UserTyped
  <2>. QED
    BY <1>10, <2>1, <2>3
<1>14. CASE S!ResetStops
  <2>1. UserTyped'
    BY <1>1, <1>14 DEF S!ResetStops, UserTyped
  <2>. QED
    BY <1>10, <1>14, <2>1 DEF S!ResetStops
<1>15. ASSUME NEW r \in Requests, S!SlideExpiry(r)
       PROVE  SessionsInv'
  <2> DEFINE c == looking[r]
  <2>1. /\ c.at = "sliding" /\ S!TouchSession(c.id, c.day, c.token) /\ S!Admit(c.token, c.day)
        /\ looking' = [looking EXCEPT ![r] = S!Idle]
        /\ UNCHANGED <<sToday, password, weak, resetting, signing, sIssued, ended>>
    BY <1>15 DEF S!SlideExpiry, S!Done, S!user
  <2>2. /\ LooksRight(c) /\ c \in S!Looking /\ c # S!Idle
    BY <1>1, <2>1 DEF Looks, LooksRight, S!Idle
  <2>3. PICK token \in S!Tokens, id \in S!Tokens, day \in S!Days :
          token = c.token /\ id = c.id /\ day = c.day
    BY <2>1, <2>2 DEF S!Looking
  <2>4. /\ token <= sIssued /\ day <= sToday /\ sToday - day < Slide
        /\ token \notin ended => id \in DOMAIN sessions /\ sessions[id].token = token
    BY <2>1, <2>2, <2>3 DEF LooksRight
  <2> HIDE DEF c
  <2>5. S!TouchSession(id, day, token) /\ S!Admit(token, day)
    BY <2>1, <2>3
  <2>6. /\ DOMAIN sessions' = DOMAIN sessions
        /\ \A i \in DOMAIN sessions : i # id => sessions'[i] = sessions[i]
        /\ id \in DOMAIN sessions =>
             sessions'[id] = [sessions[id] EXCEPT !.seen = day, !.expires = day + SessionTTL]
    BY <2>5 DEF S!TouchSession
  <2>7. day + SessionTTL \in 0 .. LastSignInDay + SessionTTL
    BY SessionNumbers DEF S!Days
  <2>8. \A i \in DOMAIN sessions :
          /\ sessions'[i] \in S!Session /\ sessions'[i].token = sessions[i].token
          /\ sessions'[i].seen <= sToday /\ sessions'[i].expires = sessions'[i].seen + SessionTTL
          /\ i = id => sessions'[i].expires = day + SessionTTL
    <3>. SUFFICES ASSUME NEW i \in DOMAIN sessions
                  PROVE  /\ sessions'[i] \in S!Session /\ sessions'[i].token = sessions[i].token
                         /\ sessions'[i].seen <= sToday /\ sessions'[i].expires = sessions'[i].seen + SessionTTL
                         /\ i = id => sessions'[i].expires = day + SessionTTL
      OBVIOUS
    <3>1. CASE i # id
      BY <1>1, <2>6, <3>1 DEF RowsRight
    <3>2. CASE i = id
      <4> DEFINE old == sessions[id]
                 q   == [old EXCEPT !.seen = day]
      <4>1. old \in S!Session
        BY <1>1, <3>2 DEF RowsRight
      <4>2. sessions'[i] = [q EXCEPT !.expires = day + SessionTTL]
        BY <2>6, <3>2
      <4> HIDE DEF old
      <4>3. q \in S!Session /\ q.token = old.token /\ q.seen = day
        BY <4>1 DEF S!Session
      <4> HIDE DEF q
      <4>4. LET n == [q EXCEPT !.expires = day + SessionTTL] IN
              n \in S!Session /\ n.token = old.token /\ n.seen = day /\ n.expires = day + SessionTTL
        BY <2>7, <4>3 DEF S!Session
      <4>. QED
        BY <2>4, <3>2, <4>2, <4>4 DEF old
    <3>. QED
      BY <3>1, <3>2
  <2>9. RowsRight'
    BY <1>1, <2>1, <2>6, <2>8 DEF RowsRight
  <2>10. /\ Promised' /\ promised'[token] <= sToday + SessionTTL - Slide
         /\ \A t \in S!Tokens : t # token => promised'[t] = promised[t]
    BY <1>1, <1>2, <2>1, <2>4, <2>5, Admitted
  <2>11. Stands'
    <3>. SUFFICES ASSUME NEW t \in (1 .. sIssued) \ ended
                  PROVE  \E i \in DOMAIN sessions' : sessions'[i].token = t /\ sessions'[i].expires >= promised'[t]
      BY <2>1 DEF Stands
    <3>1. PICK i \in DOMAIN sessions : sessions[i].token = t /\ sessions[i].expires >= promised[t]
      BY <1>1 DEF Stands
    <3>2. t \in S!Tokens /\ promised'[t] <= sToday + SessionTTL - Slide /\ promised'[t] \in Nat
      <4>1. t \in S!Tokens
        BY <1>1, SessionNumbers DEF SessionsCounted, S!Tokens
      <4>. QED
        BY <2>1, <2>10, <4>1, SessionNumbers DEF Promised
    <3>3. CASE i = id
      <4>1. sessions'[i].expires = day + SessionTTL /\ day \in Nat
        BY <2>8, <3>3, SessionNumbers DEF S!Days
      <4>2. day + SessionTTL >= promised'[t]
        BY <1>2, <2>4, <3>2, <4>1, SessionNumbers
      <4>. QED
        BY <2>6, <2>8, <3>1, <4>1, <4>2
    <3>4. CASE i # id
      <4>1. t # token
        BY <1>1, <2>4, <3>1, <3>4 DEF RowsRight
      <4>. QED
        BY <2>6, <2>10, <3>1, <3>2, <3>4, <4>1
    <3>. QED
      BY <3>3, <3>4
  <2>12. Looks'
    <3>1. \A d \in S!Looking \cup {S!Idle} : LooksRight(d) => LooksRight(d)'
      BY <2>1, <2>6, <2>8 DEF LooksRight
    <3>2. LooksRight(S!Idle)'
      BY DEF LooksRight
    <3>. QED
      BY <1>1, <2>1, <3>1, <3>2, RequestMoves
  <2>13. UserTyped' /\ SessionsCounted'
    BY <1>1, <2>1 DEF UserTyped, SessionsCounted
  <2>. QED
    BY <2>9, <2>10, <2>11, <2>12, <2>13 DEF SessionsInv
<1>16. ASSUME NEW l \in Logins, S!Issue(l)
       PROVE  SessionsInv'
  <2> DEFINE n   == sIssued + 1
             id  == S!NextId(sessions)
             row == [token |-> n, seen |-> sToday, expires |-> sToday + SessionTTL]
  <2>1. /\ sIssued < MaxSignIns /\ sIssued' = n /\ sessions' = S!With(sessions, id, row) /\ S!Admit(n, sToday)
        /\ signing' = [signing EXCEPT ![l] = S!Idle]
        /\ UNCHANGED <<sToday, password, weak, resetting, looking, ended>>
    BY <1>16 DEF S!Issue, S!CreateSession, S!Steps, S!user
  <2>2. /\ n \in S!Tokens /\ n \in Nat /\ n \in 0 .. MaxSignIns /\ sToday \in S!Days
        /\ sToday + SessionTTL \in 0 .. LastSignInDay + SessionTTL
    BY <1>1, <1>2, <2>1, SessionNumbers DEF SessionsCounted, S!Tokens, S!Days
  <2>3. id \in 1 .. n /\ id \notin DOMAIN sessions
    BY <1>1, <1>2, SessionIdIsNew DEF RowsRight
  <2>4. row \in S!Session /\ row.token = n /\ row.seen = sToday /\ row.expires = sToday + SessionTTL
    BY <2>2 DEF S!Session
  <2> HIDE DEF id, row
  <2>5. /\ DOMAIN sessions' = DOMAIN sessions \cup {id} /\ sessions'[id] = row
        /\ \A i \in DOMAIN sessions : sessions'[i] = sessions[i]
    BY <2>1, <2>3 DEF S!With
  <2>6. /\ n \notin ended /\ (1 .. n) \ ended = ((1 .. sIssued) \ ended) \cup {n}
        /\ \A i \in DOMAIN sessions : sessions[i].token # n
    BY <1>1, <1>2 DEF SessionsCounted, RowsRight
  <2>7. RowsRight'
    <3>1. DOMAIN sessions' \subseteq 1 .. n
      BY <1>1, <1>2, <2>3, <2>5 DEF RowsRight
    <3>2. ASSUME NEW i \in DOMAIN sessions'
          PROVE  /\ sessions'[i] \in S!Session /\ sessions'[i].token \in (1 .. n) \ ended
                 /\ sessions'[i].expires = sessions'[i].seen + SessionTTL /\ sessions'[i].seen <= sToday
      BY <1>1, <1>2, <2>4, <2>5, <2>6 DEF RowsRight
    <3>3. \A i, j \in DOMAIN sessions' : sessions'[i].token = sessions'[j].token => i = j
      BY <1>1, <2>4, <2>5, <2>6 DEF RowsRight
    <3>. QED
      BY <2>1, <3>1, <3>2, <3>3 DEF RowsRight
  <2>8. /\ Promised' /\ promised'[n] <= sToday + SessionTTL - Slide
        /\ \A t \in S!Tokens : t # n => promised'[t] = promised[t]
    BY <1>1, <1>2, <2>1, <2>2, Admitted
  <2>9. Stands'
    <3>. SUFFICES ASSUME NEW t \in (1 .. n) \ ended
                  PROVE  \E i \in DOMAIN sessions' : sessions'[i].token = t /\ sessions'[i].expires >= promised'[t]
      BY <2>1 DEF Stands
    <3>1. CASE t = n
      <4>1. row.expires >= promised'[n]
        BY <1>2, <2>2, <2>4, <2>8, SessionNumbers DEF Promised
      <4>. QED
        BY <2>4, <2>5, <3>1, <4>1
    <3>2. CASE t # n
      <4>1. t \in (1 .. sIssued) \ ended /\ promised'[t] = promised[t]
        BY <1>1, <1>2, <2>6, <2>8, <3>2, SessionNumbers DEF SessionsCounted, S!Tokens
      <4>. QED
        BY <1>1, <2>5, <4>1 DEF Stands
    <3>. QED
      BY <3>1, <3>2
  <2>10. Looks'
    <3>. SUFFICES ASSUME NEW r \in Requests
                  PROVE  LooksRight(looking[r])'
      BY <1>1, <2>1 DEF Looks
    <3>1. LooksRight(looking[r])
      BY <1>1 DEF Looks
    <3>2. looking[r] # S!Idle => looking[r].token \in Nat
      BY <3>1 DEF LooksRight, S!Looking, S!Tokens
    <3>. QED
      BY <1>2, <2>1, <2>5, <3>1, <3>2 DEF LooksRight
  <2>11. UserTyped' /\ SessionsCounted'
    BY <1>1, <1>2, <2>1, <2>2 DEF UserTyped, SessionsCounted
  <2>. QED
    BY <2>7, <2>8, <2>9, <2>10, <2>11 DEF SessionsInv
<1>. QED
  BY <1>4, <1>5, <1>6, <1>8, <1>9, <1>11, <1>12, <1>13, <1>14, <1>15, <1>16 DEF S!Next

\* A step of another part keeps it.
LEMMA SessionsStay ==
  ASSUME SessionsInv, UNCHANGED S!vars
  PROVE  SessionsInv'
<1>1. UNCHANGED <<sToday, sessions, password, weak, resetting, looking, signing, sIssued, promised, ended>>
  BY DEF S!vars, S!user
<1>2. RowsRight' /\ Stands' /\ Promised' /\ SessionsCounted' /\ UserTyped'
  BY <1>1 DEF SessionsInv, RowsRight, Stands, Promised, SessionsCounted, UserTyped
<1>3. Looks'
  BY <1>1 DEF SessionsInv, Looks, LooksRight
<1>. QED
  BY <1>2, <1>3 DEF SessionsInv

-----------------------------------------------------------------------------
(* The token budget.                                                       *)

\* How many workers there are.
Size == Cardinality(Workers)

\* Whose call is back and not written down ...
Back(c)  == c.at = "returned" \/ (c.at = "publishing" /\ c.then = "returned")
Returned == {w \in Workers : Back(worker[w])}
\* ... who is at a call or was let through to one ...
Calling  == {w \in Workers : worker[w].at \in {"resolving", "calling"}}
\* ... and who is being checked.
Checked  == {w \in Workers : worker[w].at \in {"reading", "storing"}}

\* The types, without the bounds that follow from the counts below.
BudgetTyped ==
  /\ spent \in Nat /\ fresh \in BOOLEAN /\ tripped \in BOOLEAN
  /\ ledger \in Nat /\ open \in BOOLEAN
  /\ worker \in [Workers -> B!States]
  /\ month \in 0 .. MaxMonths /\ bStarts \in 0 .. MaxRestarts
  /\ paid \in Nat /\ bLost \in Nat /\ bCrossed \in BOOLEAN

\* A check that is under way has its call within the bound.
CallsBounded == paid + Cardinality(Checked) <= MaxCalls

\* Every call of the month is in the ledger, lost, back or under way.
Told == paid <= ledger + bLost + Cardinality(Returned) + Cardinality(Calling)

\* What came back is in the counter, but for one call of each of the others.
Near == fresh => ledger + Cardinality(Returned) <= spent + Size - 1

\* So it will be in a sum that was read, less the calls that may still come back past it.
Past ==
  \A v \in Workers : worker[v].at = "storing" =>
    ledger + Cardinality(Returned) + Cardinality(worker[v].others) <= worker[v].sum + Size - 1

\* What the property says of a month.
Within == paid - bLost <= Limit - 1 + 2 * Size - 1

\* The flag and the alert differ while somebody is between the two, and only one way at a time.
FlagHolds ==
  ~bCrossed => /\ tripped /\ ~open => B!Some("publishing")
               /\ open /\ ~tripped /\ bStarts = 0 => B!Some("resolving")
               /\ B!Some("publishing") => tripped
               /\ B!Some("resolving") => ~tripped

\* What every step of the budget keeps.
BudgetInv == BudgetTyped /\ CallsBounded /\ Told /\ Near /\ Past /\ Within /\ FlagHolds

\* The instance counts as this module does.
LEMMA BCardinality ==
  ASSUME NEW set
  PROVE  B!Cardinality(set) = Cardinality(set) /\ (B!IsFiniteSet(set) <=> IsFiniteSet(set))
BY DEF B!Cardinality, Cardinality, B!IsFiniteSet, IsFiniteSet

\* The bounds, and that there is a worker.
LEMMA BudgetNumbers ==
  ASSUME B!BudgetAssumption
  PROVE  /\ IsFiniteSet(Workers) /\ Size \in Nat /\ 1 <= Size
         /\ Limit \in Nat /\ 1 <= Limit /\ MaxCalls \in Nat /\ MaxMonths \in Nat /\ MaxRestarts \in Nat
<1>1. IsFiniteSet(Workers) /\ Workers # {}
  BY BCardinality DEF B!BudgetAssumption
<1>2. Size \in Nat /\ Size # 0
  BY <1>1, FS_CardinalityType, FS_EmptySet DEF Size
<1>. QED
  BY <1>1, <1>2 DEF B!BudgetAssumption

\* The workers of each kind are finitely many.
LEMMA CountsTyped ==
  ASSUME B!BudgetAssumption
  PROVE  /\ IsFiniteSet(Returned) /\ IsFiniteSet(Calling) /\ IsFiniteSet(Checked)
         /\ Cardinality(Returned) \in Nat /\ Cardinality(Calling) \in Nat /\ Cardinality(Checked) \in Nat
<1>1. IsFiniteSet(Workers) /\ Returned \subseteq Workers /\ Calling \subseteq Workers /\ Checked \subseteq Workers
  BY BudgetNumbers DEF Returned, Calling, Checked
<1>. QED
  BY <1>1, FS_Subset, FS_CardinalityType

\* One member more or less.
LEMMA OneMore ==
  ASSUME NEW set, IsFiniteSet(set), NEW w
  PROVE  /\ Cardinality(set \cup {w}) = Cardinality(set) + (IF w \in set THEN 0 ELSE 1)
         /\ Cardinality(set \ {w}) = Cardinality(set) - (IF w \in set THEN 1 ELSE 0)
<1>1. Cardinality(set) \in Nat
  BY FS_CardinalityType
<1>2. Cardinality(set \cup {w}) = Cardinality(set) + (IF w \in set THEN 0 ELSE 1)
  <2>1. CASE w \in set
    <3>1. set \cup {w} = set
      BY <2>1
    <3>. QED
      BY <1>1, <2>1, <3>1
  <2>2. CASE w \notin set
    BY <2>2, FS_AddElement
  <2>. QED
    BY <2>1, <2>2
<1>3. Cardinality(set \ {w}) = Cardinality(set) - (IF w \in set THEN 1 ELSE 0)
  <2>1. CASE w \in set
    BY <2>1, FS_RemoveElement
  <2>2. CASE w \notin set
    <3>1. set \ {w} = set
      BY <2>2
    <3>. QED
      BY <1>1, <2>2, <3>1
  <2>. QED
    BY <2>1, <2>2
<1>. QED
  BY <1>2, <1>3

\* Where a worker is, besides storing a sum.
LEMMA StatesAre ==
  ASSUME NEW then \in {"idle", "returned"}
  PROVE  /\ \A at \in {"idle", "reading", "resolving", "calling", "returned"} : B!At(at) \in B!States
         /\ [at |-> "publishing", then |-> then] \in B!States
BY DEF B!At, B!States

\* A worker moves on; the others are told when it comes back from the model.
LEMMA WorkerMoves ==
  ASSUME B!BudgetAssumption, BudgetTyped, NEW w \in Workers, NEW c \in B!States, B!Goes(w, c)
  PROVE  /\ worker' \in [Workers -> B!States] /\ worker'[w] = c
         /\ \A v \in Workers \ {w} :
              /\ worker'[v].at = worker[v].at
              /\ worker[v].at # "storing" => worker'[v] = worker[v]
              /\ worker[v].at = "storing" =>
                   /\ worker'[v].sum = worker[v].sum
                   /\ worker'[v].others = IF worker[w].at = "calling" THEN worker[v].others \ {w}
                                                                     ELSE worker[v].others
<1> DEFINE Storing == [at : {"storing"}, sum : Nat, others : SUBSET Workers]
<1>1. worker'[w] = c
  BY DEF B!Goes
<1>2. ASSUME NEW v \in Workers, v # w
      PROVE  /\ worker'[v] \in B!States /\ worker'[v].at = worker[v].at
             /\ worker[v].at # "storing" => worker'[v] = worker[v]
             /\ worker[v].at = "storing" =>
                  /\ worker'[v].sum = worker[v].sum
                  /\ worker'[v].others = IF worker[w].at = "calling" THEN worker[v].others \ {w}
                                                                    ELSE worker[v].others
  <2>1. worker[v] \in B!States
    BY DEF BudgetTyped
  <2>2. CASE worker[v].at = "storing" /\ worker[w].at = "calling"
    <3>1. worker'[v] = [worker[v] EXCEPT !.others = @ \ {w}]
      BY <1>2, <2>2 DEF B!Goes
    <3>2. worker[v] \in Storing
      BY <2>1, <2>2 DEF B!States
    <3>3. worker'[v] \in Storing /\ worker'[v].at = "storing" /\ worker'[v].sum = worker[v].sum
          /\ worker'[v].others = worker[v].others \ {w}
      BY <3>1, <3>2
    <3>. QED
      BY <2>2, <3>3 DEF B!States
  <2>3. CASE ~(worker[v].at = "storing" /\ worker[w].at = "calling")
    <3>1. worker'[v] = worker[v]
      BY <1>2, <2>3 DEF B!Goes
    <3>. QED
      BY <2>1, <2>3, <3>1
  <2>. QED
    BY <2>2, <2>3
<1>3. worker' \in [Workers -> B!States]
  BY <1>1, <1>2 DEF B!Goes
<1>. QED
  BY <1>1, <1>2, <1>3

\* One or none, for a number that goes with a condition.
One(b) == IF b THEN 1 ELSE 0

\* ... and what that makes of the numbers.
LEMMA WorkersCounted ==
  ASSUME B!BudgetAssumption, BudgetTyped, NEW w \in Workers, NEW c \in B!States, B!Goes(w, c)
  PROVE  /\ Cardinality(Returned') = Cardinality(Returned) + One(Back(c)) - One(Back(worker[w]))
         /\ Cardinality(Calling') = Cardinality(Calling) + One(c.at \in {"resolving", "calling"})
                                      - One(worker[w].at \in {"resolving", "calling"})
         /\ Cardinality(Checked') = Cardinality(Checked) + One(c.at \in {"reading", "storing"})
                                      - One(worker[w].at \in {"reading", "storing"})
<1>1. /\ worker'[w] = c
      /\ \A v \in Workers \ {w} : worker'[v].at = worker[v].at /\ (Back(worker'[v]) <=> Back(worker[v]))
  BY WorkerMoves DEF Back
<1>2. /\ Returned' = IF Back(c) THEN Returned \cup {w} ELSE Returned \ {w}
      /\ Calling' = IF c.at \in {"resolving", "calling"} THEN Calling \cup {w} ELSE Calling \ {w}
      /\ Checked' = IF c.at \in {"reading", "storing"} THEN Checked \cup {w} ELSE Checked \ {w}
  <2>1. Returned' = {v \in Workers : Back(worker'[v])}
    BY DEF Returned, Back
  <2>2. Returned' = IF Back(c) THEN Returned \cup {w} ELSE Returned \ {w}
    BY <1>1, <2>1 DEF Returned
  <2>. QED
    BY <1>1, <2>2 DEF Calling, Checked
<1>3. /\ w \in Returned <=> Back(worker[w])
      /\ w \in Calling <=> worker[w].at \in {"resolving", "calling"}
      /\ w \in Checked <=> worker[w].at \in {"reading", "storing"}
  BY DEF Returned, Calling, Checked
<1>4. /\ Cardinality(Returned \cup {w}) = Cardinality(Returned) + (IF w \in Returned THEN 0 ELSE 1)
      /\ Cardinality(Returned \ {w}) = Cardinality(Returned) - (IF w \in Returned THEN 1 ELSE 0)
      /\ Cardinality(Calling \cup {w}) = Cardinality(Calling) + (IF w \in Calling THEN 0 ELSE 1)
      /\ Cardinality(Calling \ {w}) = Cardinality(Calling) - (IF w \in Calling THEN 1 ELSE 0)
      /\ Cardinality(Checked \cup {w}) = Cardinality(Checked) + (IF w \in Checked THEN 0 ELSE 1)
      /\ Cardinality(Checked \ {w}) = Cardinality(Checked) - (IF w \in Checked THEN 1 ELSE 0)
  BY CountsTyped, OneMore
<1>5. Cardinality(Returned) \in Nat /\ Cardinality(Calling) \in Nat /\ Cardinality(Checked) \in Nat
  BY CountsTyped
<1>6. Cardinality(Returned') = Cardinality(Returned) + One(Back(c)) - One(Back(worker[w]))
  BY <1>2, <1>3, <1>4, <1>5 DEF One
<1>7. Cardinality(Calling') = Cardinality(Calling) + One(c.at \in {"resolving", "calling"})
                                      - One(worker[w].at \in {"resolving", "calling"})
  BY <1>2, <1>3, <1>4, <1>5 DEF One
<1>8. Cardinality(Checked') = Cardinality(Checked) + One(c.at \in {"reading", "storing"})
                                      - One(worker[w].at \in {"reading", "storing"})
  BY <1>2, <1>3, <1>4, <1>5 DEF One
<1>. QED
  BY <1>6, <1>7, <1>8

\* It holds when nothing has run.
LEMMA BudgetInit == B!BudgetAssumption /\ B!Init => BudgetInv
<1>. SUFFICES ASSUME B!BudgetAssumption, B!Init
              PROVE  BudgetInv
  OBVIOUS
<1>1. \A w \in Workers : worker[w] = B!At("idle") /\ worker[w].at = "idle"
  BY DEF B!Init, B!At
<1>2. Returned = {} /\ Calling = {} /\ Checked = {}
  BY <1>1 DEF Returned, Back, Calling, Checked
<1>3. Cardinality(Returned) = 0 /\ Cardinality(Calling) = 0 /\ Cardinality(Checked) = 0
  BY <1>2, FS_EmptySet
<1>4. worker \in [Workers -> B!States]
  BY StatesAre DEF B!Init
<1>5. BudgetTyped
  <2>1. spent \in Nat /\ ledger \in Nat /\ paid \in Nat /\ bLost \in Nat
    BY DEF B!Init
  <2>2. month \in 0 .. MaxMonths /\ bStarts \in 0 .. MaxRestarts
    BY BudgetNumbers DEF B!Init
  <2>3. fresh \in BOOLEAN /\ tripped \in BOOLEAN /\ open \in BOOLEAN /\ bCrossed \in BOOLEAN
    BY DEF B!Init
  <2>. QED
    BY <1>4, <2>1, <2>2, <2>3, Zenon DEF BudgetTyped
<1>6. CallsBounded /\ Told /\ Near /\ Past /\ Within
  BY <1>1, <1>3, BudgetNumbers DEF B!Init, CallsBounded, Told, Near, Past, Within
<1>7. FlagHolds
  BY <1>1 DEF B!Init, FlagHolds, B!Some
<1>. QED
  BY <1>5, <1>6, <1>7 DEF BudgetInv

\* It gives the property.
LEMMA BudgetInvImplies == ASSUME B!BudgetAssumption, BudgetInv PROVE B!BreakerHolds
<1>1. B!TypeOK
  BY CountsTyped, BudgetNumbers DEF BudgetInv, BudgetTyped, CallsBounded, B!TypeOK
<1>2. paid - bLost <= Limit - 1 + 2 * B!Cardinality(Workers) - 1
  BY BCardinality DEF BudgetInv, Within, Size
<1>. QED
  BY <1>1, <1>2 DEF BudgetInv, FlagHolds, B!BreakerHolds, B!Quiet

\* The ones a sum was read past stay few enough, whoever moves.
LEMMA PastStays ==
  ASSUME B!BudgetAssumption, BudgetInv, NEW w \in Workers, NEW c \in B!States, B!Goes(w, c), c.at # "storing",
         ledger' \in Nat,
         \/ ledger' + Cardinality(Returned') <= ledger + Cardinality(Returned)
         \/ /\ worker[w].at = "calling" /\ B!MayReturn(w)
            /\ ledger' + Cardinality(Returned') <= ledger + Cardinality(Returned) + 1
  PROVE  Past'
<1>. SUFFICES ASSUME NEW v \in Workers, worker'[v].at = "storing"
              PROVE  ledger' + Cardinality(Returned') + Cardinality(worker'[v].others)
                       <= worker'[v].sum + Size - 1
  BY DEF Past, Size
<1>1. /\ v # w /\ worker[v].at = "storing" /\ worker'[v].sum = worker[v].sum
      /\ worker'[v].others = IF worker[w].at = "calling" THEN worker[v].others \ {w} ELSE worker[v].others
  <2>1. BudgetTyped
    BY DEF BudgetInv
  <2>2. worker'[w] = c /\ v # w
    BY <2>1, WorkerMoves
  <2>3. worker'[v].at = worker[v].at
    BY <2>1, <2>2, WorkerMoves
  <2>4. worker[v].at = "storing"
    BY <2>3
  <2>5. /\ worker'[v].sum = worker[v].sum
        /\ worker'[v].others = IF worker[w].at = "calling" THEN worker[v].others \ {w} ELSE worker[v].others
    BY <2>1, <2>2, <2>4, WorkerMoves
  <2>. QED
    BY <2>2, <2>4, <2>5
<1>2. worker[v].others \subseteq Workers /\ worker[v].sum \in Nat
  BY <1>1 DEF BudgetInv, BudgetTyped, B!States
<1>3. IsFiniteSet(worker[v].others) /\ Cardinality(worker[v].others) \in Nat
  BY <1>2, BudgetNumbers, FS_Subset, FS_CardinalityType
<1>4. Cardinality(worker[v].others \ {w}) = Cardinality(worker[v].others) - (IF w \in worker[v].others THEN 1 ELSE 0)
  BY <1>3, OneMore
<1>5. ledger + Cardinality(Returned) + Cardinality(worker[v].others) <= worker[v].sum + Size - 1
  BY <1>1 DEF BudgetInv, Past
<1>6. ledger \in Nat /\ Cardinality(Returned) \in Nat /\ Cardinality(Returned') \in Nat /\ Size \in Nat
  <2>1. Cardinality(Returned') \in Nat
    BY BudgetNumbers, FS_Subset, FS_CardinalityType DEF Returned
  <2>. QED
    BY <2>1, CountsTyped, BudgetNumbers DEF BudgetInv, BudgetTyped
<1>7. CASE ledger' + Cardinality(Returned') <= ledger + Cardinality(Returned)
  <2>1. Cardinality(worker'[v].others) <= Cardinality(worker[v].others) /\ Cardinality(worker'[v].others) \in Nat
    <3>1. CASE worker[w].at = "calling"
      <4>1. Cardinality(worker[v].others \ {w}) \in Nat
        BY <1>3, FS_RemoveElement, FS_Subset, FS_CardinalityType
      <4>. QED
        BY <1>1, <1>3, <1>4, <3>1, <4>1
    <3>2. CASE worker[w].at # "calling"
      BY <1>1, <1>3, <3>2
    <3>. QED
      BY <3>1, <3>2
  <2>. QED
    BY <1>1, <1>2, <1>3, <1>5, <1>6, <1>7, <2>1
<1>8. CASE /\ worker[w].at = "calling" /\ B!MayReturn(w)
           /\ ledger' + Cardinality(Returned') <= ledger + Cardinality(Returned) + 1
  <2>1. w \in worker[v].others
    BY <1>1, <1>8 DEF B!MayReturn
  <2>2. Cardinality(worker'[v].others) = Cardinality(worker[v].others) - 1
    BY <1>1, <1>4, <1>8, <2>1
  <2>. QED
    BY <1>1, <1>2, <1>3, <1>5, <1>6, <1>8, <2>2
<1>. QED
  BY <1>7, <1>8

\* Where no worker changes places that matter to the flag.
LEMMA SomeMoves ==
  ASSUME B!BudgetAssumption, BudgetTyped, NEW w \in Workers, NEW c \in B!States, B!Goes(w, c), NEW at
  PROVE  /\ B!Some(at)' <=> c.at = at \/ \E v \in Workers \ {w} : worker[v].at = at
         /\ B!Some(at) <=> worker[w].at = at \/ \E v \in Workers \ {w} : worker[v].at = at
<1>1. worker'[w] = c /\ \A v \in Workers \ {w} : worker'[v].at = worker[v].at
  BY WorkerMoves
<1>. QED
  BY <1>1 DEF B!Some

\* A check on a reading that is near enough.
LEMMA Checks ==
  ASSUME B!BudgetAssumption, BudgetInv, NEW w \in Workers, worker[w].at \in {"idle", "storing"},
         NEW sum \in Nat, B!Check(w, sum), ledger + Cardinality(Returned) <= sum + Size - 1,
         paid + Cardinality(Checked) + One(worker[w].at = "idle") <= MaxCalls,
         spent' = sum, fresh' = TRUE, UNCHANGED <<ledger, open, month, bStarts, bLost>>
  PROVE  BudgetInv'
<1>1. PICK c \in B!States :
        /\ B!Goes(w, c) /\ c.at \in {"idle", "publishing", "resolving", "calling"} /\ c.then = "idle"
        /\ \/ /\ sum < Limit /\ paid' = paid + 1 /\ tripped' = FALSE
              /\ c.at = IF tripped THEN "resolving" ELSE "calling"
              /\ bCrossed' = (bCrossed \/ (tripped /\ B!Some("publishing")))
           \/ /\ paid' = paid /\ tripped' = TRUE
              /\ c.at = IF tripped THEN "idle" ELSE "publishing"
              /\ bCrossed' = (bCrossed \/ (~tripped /\ B!Some("resolving")))
  <2>1. CASE sum < Limit /\ B!SwitchOff(w) /\ paid' = paid + 1
    <3> DEFINE c == B!At(IF tripped THEN "resolving" ELSE "calling")
    <3>1. c \in B!States /\ c.at = (IF tripped THEN "resolving" ELSE "calling") /\ c.then = "idle"
      BY StatesAre DEF B!At
    <3>. QED
      BY <2>1, <3>1 DEF B!SwitchOff
  <2>2. CASE B!SwitchOn(w, "idle") /\ UNCHANGED paid
    <3> DEFINE c == IF tripped THEN B!At("idle") ELSE [at |-> "publishing", then |-> "idle"]
    <3>1. c \in B!States /\ c.at = (IF tripped THEN "idle" ELSE "publishing") /\ c.then = "idle"
      BY StatesAre DEF B!At
    <3>. QED
      BY <2>2, <3>1 DEF B!SwitchOn
  <2>. QED
    BY <2>1, <2>2 DEF B!Check
<1>2. BudgetTyped /\ ~Back(worker[w]) /\ ~Back(c)
  BY <1>1 DEF BudgetInv, Back
<1>3. /\ worker' \in [Workers -> B!States]
      /\ Cardinality(Returned') = Cardinality(Returned)
      /\ Cardinality(Calling') = Cardinality(Calling) + One(c.at \in {"resolving", "calling"})
      /\ Cardinality(Checked') = Cardinality(Checked) - One(worker[w].at = "storing")
  <2>1. /\ Cardinality(Returned') = Cardinality(Returned) + One(Back(c)) - One(Back(worker[w]))
        /\ Cardinality(Calling') = Cardinality(Calling) + One(c.at \in {"resolving", "calling"})
                                     - One(worker[w].at \in {"resolving", "calling"})
        /\ Cardinality(Checked') = Cardinality(Checked) + One(c.at \in {"reading", "storing"})
                                     - One(worker[w].at \in {"reading", "storing"})
        /\ worker' \in [Workers -> B!States]
    BY <1>1, <1>2, WorkerMoves, WorkersCounted
  <2>. QED
    BY <1>1, <1>2, <2>1, CountsTyped DEF One
<1>4. paid \in Nat /\ bLost \in Nat /\ ledger \in Nat /\ Limit \in Nat /\ Size \in Nat /\ MaxCalls \in Nat
      /\ Cardinality(Returned) \in Nat /\ Cardinality(Calling) \in Nat /\ Cardinality(Checked) \in Nat
  BY <1>2, BudgetNumbers, CountsTyped DEF BudgetTyped
<1>5. BudgetTyped'
  <2>1. spent' \in Nat /\ ledger' \in Nat /\ paid' \in Nat /\ bLost' \in Nat
    BY <1>1, <1>4
  <2>2. month' \in 0 .. MaxMonths /\ bStarts' \in 0 .. MaxRestarts
    BY <1>2, Zenon DEF BudgetTyped
  <2>3. fresh' \in BOOLEAN /\ tripped' \in BOOLEAN /\ open' \in BOOLEAN
    BY <1>1, <1>2, Zenon DEF BudgetTyped
  <2>4. bCrossed' \in BOOLEAN
    BY <1>1, Zenon
  <2>. QED
    BY <1>3, <2>1, <2>2, <2>3, <2>4, Zenon DEF BudgetTyped
<1>6. CallsBounded'
  BY <1>1, <1>3, <1>4 DEF CallsBounded, One
<1>7. Told'
  BY <1>1, <1>3, <1>4 DEF BudgetInv, Told, One
<1>8. Near'
  BY <1>3 DEF Near, Size
<1>9. Past'
  BY <1>1, <1>3, <1>4, PastStays DEF BudgetInv
<1>10. Cardinality(Calling) <= Size - 1
  <2>1. Calling \subseteq Workers \ {w}
    BY DEF Calling
  <2>2. IsFiniteSet(Workers \ {w}) /\ Cardinality(Workers \ {w}) = Size - 1
    BY BudgetNumbers, FS_RemoveElement DEF Size
  <2>. QED
    BY <2>1, <2>2, FS_Subset
<1>11. Within'
  <2>1. paid - bLost <= ledger + Cardinality(Returned) + Cardinality(Calling)
    BY <1>4 DEF BudgetInv, Told
  <2>2. CASE paid' = paid
    BY <2>2 DEF BudgetInv, Within, Size
  <2>3. CASE sum < Limit /\ paid' = paid + 1
    BY <1>4, <1>10, <2>1, <2>3 DEF Within, Size
  <2>. QED
    BY <1>1, <2>2, <2>3
<1>12. FlagHolds'
  <2>1. /\ B!Some("publishing")' <=> c.at = "publishing" \/ \E v \in Workers \ {w} : worker[v].at = "publishing"
        /\ B!Some("publishing") <=> \E v \in Workers \ {w} : worker[v].at = "publishing"
        /\ B!Some("resolving")' <=> c.at = "resolving" \/ \E v \in Workers \ {w} : worker[v].at = "resolving"
        /\ B!Some("resolving") <=> \E v \in Workers \ {w} : worker[v].at = "resolving"
    BY <1>1, <1>2, SomeMoves
  <2>. QED
    BY <1>1, <2>1 DEF BudgetInv, BudgetTyped, FlagHolds
<1>. QED
  BY <1>5, <1>6, <1>7, <1>8, <1>9, <1>11, <1>12 DEF BudgetInv

\* A move that neither raises nor clears leaves the flag as it was.
LEMMA FlagStays ==
  ASSUME B!BudgetAssumption, BudgetInv, NEW w \in Workers, NEW c \in B!States, B!Goes(w, c),
         worker[w].at \notin {"publishing", "resolving"}, c.at \notin {"publishing", "resolving"},
         UNCHANGED <<tripped, open, bStarts, bCrossed>>
  PROVE  FlagHolds'
<1>1. /\ B!Some("publishing")' <=> B!Some("publishing")
      /\ B!Some("resolving")' <=> B!Some("resolving")
  BY SomeMoves DEF BudgetInv
<1>. QED
  BY <1>1 DEF BudgetInv, FlagHolds

\* Every step of the budget keeps the invariant.
LEMMA BudgetStep == ASSUME B!BudgetAssumption, BudgetInv, B!Next PROVE BudgetInv'
<1>1. BudgetTyped /\ CallsBounded /\ Told /\ Near /\ Past /\ Within /\ FlagHolds
  BY DEF BudgetInv
<1>2. /\ spent \in Nat /\ ledger \in Nat /\ paid \in Nat /\ bLost \in Nat
      /\ Limit \in Nat /\ 1 <= Limit /\ Size \in Nat /\ 1 <= Size /\ MaxCalls \in Nat
      /\ Cardinality(Returned) \in Nat /\ Cardinality(Calling) \in Nat /\ Cardinality(Checked) \in Nat
  BY <1>1, BudgetNumbers, CountsTyped DEF BudgetTyped
<1>3. fresh \in BOOLEAN /\ tripped \in BOOLEAN /\ open \in BOOLEAN /\ bCrossed \in BOOLEAN
      /\ month \in 0 .. MaxMonths /\ bStarts \in 0 .. MaxRestarts
  BY <1>1, Zenon DEF BudgetTyped
<1>4. B!MayCall => paid + Cardinality(Checked) + 1 <= MaxCalls
  BY <1>2, BCardinality DEF B!MayCall, Checked
\* What every move of one worker gives.
<1>5. ASSUME NEW w \in Workers, NEW c \in B!States, B!Goes(w, c)
      PROVE  /\ worker' \in [Workers -> B!States]
             /\ Cardinality(Returned') = Cardinality(Returned) + One(Back(c)) - One(Back(worker[w]))
             /\ Cardinality(Calling') = Cardinality(Calling) + One(c.at \in {"resolving", "calling"})
                                          - One(worker[w].at \in {"resolving", "calling"})
             /\ Cardinality(Checked') = Cardinality(Checked) + One(c.at \in {"reading", "storing"})
                                          - One(worker[w].at \in {"reading", "storing"})
  BY <1>1, <1>5, WorkerMoves, WorkersCounted
<1>6. B!At("idle") \in B!States /\ B!At("reading") \in B!States /\ B!At("calling") \in B!States
      /\ B!At("returned") \in B!States
      /\ B!At("resolving") \in B!States
  BY StatesAre
<1>7. \A at \in STRING : B!At(at).at = at /\ B!At(at).then = "idle"
  BY DEF B!At
<1>8. ASSUME NEW w \in Workers, B!ReadCached(w) PROVE BudgetInv'
  <2>1. worker[w].at = "idle" /\ paid + Cardinality(Checked) + 1 <= MaxCalls
    BY <1>4, <1>8 DEF B!ReadCached, B!At
  <2>2. B!Check(w, spent) /\ spent' = spent /\ fresh' = TRUE /\ UNCHANGED <<ledger, open, month, bStarts, bLost>>
    BY <1>8 DEF B!ReadCached
  <2>3. ledger + Cardinality(Returned) <= spent + Size - 1
    BY <1>1, <1>8 DEF B!ReadCached, Near
  <2>. QED
    BY <1>2, <2>1, <2>2, <2>3, Checks DEF One
<1>9. ASSUME NEW w \in Workers, B!Store(w) PROVE BudgetInv'
  <2>1. worker[w].at = "storing" /\ worker[w] \in B!States
    BY <1>1, <1>9 DEF B!Store, BudgetTyped
  <2>2. worker[w].sum \in Nat /\ worker[w].others \subseteq Workers
    BY <2>1 DEF B!States
  <2>3. Cardinality(worker[w].others) \in Nat
    BY <2>2, BudgetNumbers, FS_Subset, FS_CardinalityType
  <2>4. ledger + Cardinality(Returned) <= worker[w].sum + Size - 1
    BY <1>1, <1>2, <2>1, <2>2, <2>3 DEF Past
  <2>5. B!Check(w, worker[w].sum) /\ spent' = worker[w].sum /\ fresh' = TRUE
        /\ UNCHANGED <<ledger, open, month, bStarts, bLost>>
    BY <1>9 DEF B!Store
  <2>6. paid + Cardinality(Checked) + One(worker[w].at = "idle") <= MaxCalls
    BY <1>1, <1>2, <2>1 DEF CallsBounded, One
  <2>. QED
    BY <2>1, <2>2, <2>4, <2>5, <2>6, Checks
<1>10. ASSUME NEW w \in Workers, B!ReadStale(w) PROVE BudgetInv'
  <2>1. /\ worker[w].at = "idle" /\ B!Goes(w, B!At("reading")) /\ paid + Cardinality(Checked) + 1 <= MaxCalls
        /\ UNCHANGED <<spent, fresh, tripped, ledger, open, month, bStarts, paid, bLost, bCrossed>>
    BY <1>4, <1>10 DEF B!ReadStale, B!At, B!memory
  <2>2. B!At("reading").at = "reading" /\ ~Back(B!At("reading")) /\ ~Back(worker[w])
    BY <2>1 DEF B!At, Back
  <2>3. /\ worker' \in [Workers -> B!States]
        /\ Cardinality(Returned') = Cardinality(Returned) /\ Cardinality(Calling') = Cardinality(Calling)
        /\ Cardinality(Checked') = Cardinality(Checked) + 1
    BY <1>2, <1>5, <1>6, <2>1, <2>2 DEF One
  <2>4. BudgetTyped'
    BY <1>1, <2>1, <2>3, Zenon DEF BudgetTyped
  <2>5. Past'
    BY <1>2, <1>6, <2>1, <2>2, <2>3, PastStays
  <2>6. FlagHolds'
    BY <1>6, <2>1, <2>2, FlagStays
  <2>. QED
    BY <1>1, <1>2, <2>1, <2>3, <2>4, <2>5, <2>6 DEF BudgetInv, CallsBounded, Told, Near, Within, Size
<1>11. ASSUME NEW w \in Workers, B!SumProposalTokensSince(w) PROVE BudgetInv'
  <2> DEFINE others == {v \in Workers \ {w} : worker[v].at = "calling"}
             c == [at |-> "storing", sum |-> ledger, others |-> others]
  <2>1. /\ worker[w].at = "reading" /\ B!Goes(w, c)
        /\ UNCHANGED <<spent, fresh, tripped, ledger, open, month, bStarts, paid, bLost, bCrossed>>
    BY <1>11 DEF B!SumProposalTokensSince, B!memory
  <2>2. c \in B!States /\ c.at = "storing" /\ c.sum = ledger /\ c.others = others
    BY <1>2 DEF B!States
  <2> HIDE DEF c
  <2>3. ~Back(c) /\ ~Back(worker[w])
    BY <2>1, <2>2 DEF Back
  <2>4. /\ worker' \in [Workers -> B!States]
        /\ Cardinality(Returned') = Cardinality(Returned) /\ Cardinality(Calling') = Cardinality(Calling)
        /\ Cardinality(Checked') = Cardinality(Checked)
    BY <1>2, <1>5, <2>1, <2>2, <2>3 DEF One
  <2>5. BudgetTyped'
    BY <1>1, <2>1, <2>4, Zenon DEF BudgetTyped
  <2>6. Cardinality(Returned) + Cardinality(others) <= Size - 1
    <3>1. Returned \subseteq Workers \ {w} /\ others \subseteq Workers \ {w} /\ Returned \cap others = {}
      BY <2>3 DEF Returned, Back
    <3>2. IsFiniteSet(Workers \ {w}) /\ Cardinality(Workers \ {w}) = Size - 1
      BY BudgetNumbers, FS_RemoveElement DEF Size
    <3>3. IsFiniteSet(Returned) /\ IsFiniteSet(others)
      BY <3>1, <3>2, FS_Subset
    <3>4. Cardinality(Returned \cup others) = Cardinality(Returned) + Cardinality(others)
      <4>1. Cardinality(Returned \cup others)
              = Cardinality(Returned) + Cardinality(others) - Cardinality(Returned \cap others)
        BY <3>3, FS_Union
      <4>2. Cardinality(Returned \cap others) = 0 /\ Cardinality(Returned) \in Nat /\ Cardinality(others) \in Nat
        BY <3>1, <3>3, FS_EmptySet, FS_CardinalityType
      <4> HIDE DEF others
      <4>. QED
        BY <4>1, <4>2
    <3>5. Cardinality(Returned \cup others) <= Size - 1
      BY <3>1, <3>2, FS_Subset
    <3>. QED
      BY <3>4, <3>5
  <2>7. Cardinality(others) \in Nat
    BY BudgetNumbers, FS_Subset, FS_CardinalityType
  <2>8. Past'
    <3>. SUFFICES ASSUME NEW v \in Workers, worker'[v].at = "storing"
                  PROVE  ledger' + Cardinality(Returned') + Cardinality(worker'[v].others)
                           <= worker'[v].sum + Size - 1
      BY DEF Past, Size
    <3>1. CASE v = w
      <4>1. worker'[v] = c
        BY <1>1, <2>1, <2>2, <3>1, WorkerMoves
      <4>2. worker'[v].others = others /\ worker'[v].sum = ledger
        BY <2>2, <4>1
      <4> HIDE DEF others
      <4>. QED
        BY <1>2, <2>1, <2>4, <2>6, <2>7, <4>2
    <3>2. CASE v # w
      <4>1. worker[v].at = "storing" /\ worker'[v].sum = worker[v].sum /\ worker'[v].others = worker[v].others
        BY <1>1, <2>1, <2>2, <3>2, WorkerMoves
      <4>. QED
        BY <1>1, <2>1, <2>4, <4>1 DEF Past
    <3>. QED
      BY <3>1, <3>2
  <2>9. FlagHolds'
    BY <2>1, <2>2, FlagStays
  <2>. QED
    BY <1>1, <1>2, <2>1, <2>4, <2>5, <2>8, <2>9 DEF BudgetInv, CallsBounded, Told, Near, Within, Size
<1>12. ASSUME NEW w \in Workers, B!ReadFails(w) PROVE BudgetInv'
  <2>1. /\ worker[w].at = "reading" /\ B!Goes(w, B!At("calling")) /\ paid' = paid + 1 /\ bLost' = bLost + 1
        /\ UNCHANGED <<spent, fresh, tripped, ledger, open, month, bStarts, bCrossed>>
    BY <1>12 DEF B!ReadFails, B!memory
  <2>2. B!At("calling").at = "calling" /\ ~Back(B!At("calling")) /\ ~Back(worker[w])
    BY <2>1 DEF B!At, Back
  <2>3. /\ worker' \in [Workers -> B!States]
        /\ Cardinality(Returned') = Cardinality(Returned) /\ Cardinality(Calling') = Cardinality(Calling) + 1
        /\ Cardinality(Checked') = Cardinality(Checked) - 1
    BY <1>2, <1>5, <1>6, <2>1, <2>2 DEF One
  <2>4. BudgetTyped'
    <3>1. paid' \in Nat /\ bLost' \in Nat
      BY <1>2, <2>1
    <3>. QED
      BY <1>1, <2>1, <2>3, <3>1, Zenon DEF BudgetTyped
  <2>5. Past'
    BY <1>2, <1>6, <2>1, <2>2, <2>3, PastStays
  <2>6. FlagHolds'
    BY <1>6, <2>1, <2>2, FlagStays
  <2>. QED
    BY <1>1, <1>2, <2>1, <2>3, <2>4, <2>5, <2>6 DEF BudgetInv, CallsBounded, Told, Near, Within, Size
<1>13. ASSUME NEW w \in Workers, B!Publish(w) PROVE BudgetInv'
  <2> DEFINE c == B!At(worker[w].then)
  <2>1. /\ worker[w].at = "publishing" /\ B!Goes(w, c)
        /\ (open' = TRUE /\ bCrossed' = bCrossed) \/ (bCrossed' = TRUE /\ open' = open)
        /\ UNCHANGED <<spent, fresh, tripped, ledger, month, bStarts, paid, bLost>>
    BY <1>13 DEF B!Publish, B!memory
  <2>2. worker[w].then \in {"idle", "returned"}
    BY <1>1, <2>1 DEF BudgetTyped, B!States
  <2>3. c \in B!States /\ c.at = worker[w].then /\ (Back(c) <=> Back(worker[w]))
    BY <2>1, <2>2, StatesAre DEF B!At, Back
  <2> HIDE DEF c
  <2>4. /\ worker' \in [Workers -> B!States]
        /\ Cardinality(Returned') = Cardinality(Returned) /\ Cardinality(Calling') = Cardinality(Calling)
        /\ Cardinality(Checked') = Cardinality(Checked)
    BY <1>2, <1>5, <2>1, <2>2, <2>3 DEF One
  <2>5. BudgetTyped'
    <3>1. open' \in BOOLEAN /\ bCrossed' \in BOOLEAN
      BY <1>3, <2>1, Zenon
    <3>. QED
      BY <1>1, <2>1, <2>4, <3>1, Zenon DEF BudgetTyped
  <2>6. Past'
    BY <1>2, <2>1, <2>2, <2>3, <2>4, PastStays
  <2>7. FlagHolds'
    <3>1. /\ B!Some("publishing") /\ (B!Some("publishing")' => B!Some("publishing"))
          /\ (B!Some("resolving")' <=> B!Some("resolving"))
      BY <1>1, <2>1, <2>2, <2>3, SomeMoves
    <3>. QED
      BY <1>1, <2>1, <3>1 DEF FlagHolds
  <2>. QED
    BY <1>1, <1>2, <2>1, <2>4, <2>5, <2>6, <2>7 DEF BudgetInv, CallsBounded, Told, Near, Within, Size
<1>14. ASSUME NEW w \in Workers, B!Resolve(w) PROVE BudgetInv'
  <2>1. /\ worker[w].at = "resolving" /\ B!Goes(w, B!At("calling"))
        /\ (open' = FALSE /\ bCrossed' = bCrossed) \/ (bCrossed' = TRUE /\ open' = open)
        /\ UNCHANGED <<spent, fresh, tripped, ledger, month, bStarts, paid, bLost>>
    BY <1>14 DEF B!Resolve, B!memory
  <2>2. B!At("calling").at = "calling" /\ ~Back(B!At("calling")) /\ ~Back(worker[w])
    BY <2>1 DEF B!At, Back
  <2>3. /\ worker' \in [Workers -> B!States]
        /\ Cardinality(Returned') = Cardinality(Returned) /\ Cardinality(Calling') = Cardinality(Calling)
        /\ Cardinality(Checked') = Cardinality(Checked)
    BY <1>2, <1>5, <1>6, <2>1, <2>2 DEF One
  <2>4. BudgetTyped'
    <3>1. open' \in BOOLEAN /\ bCrossed' \in BOOLEAN
      BY <1>3, <2>1, Zenon
    <3>. QED
      BY <1>1, <2>1, <2>3, <3>1, Zenon DEF BudgetTyped
  <2>5. Past'
    BY <1>2, <1>6, <2>1, <2>2, <2>3, PastStays
  <2>6. FlagHolds'
    <3>1. /\ B!Some("resolving") /\ (B!Some("resolving")' => B!Some("resolving"))
          /\ (B!Some("publishing")' <=> B!Some("publishing"))
      BY <1>1, <1>6, <2>1, <2>2, SomeMoves
    <3>. QED
      BY <1>1, <2>1, <3>1 DEF FlagHolds
  <2>. QED
    BY <1>1, <1>2, <2>1, <2>3, <2>4, <2>5, <2>6 DEF BudgetInv, CallsBounded, Told, Near, Within, Size
<1>15. ASSUME NEW w \in Workers, B!Generate(w) PROVE BudgetInv'
  <2>1. /\ worker[w].at = "calling" /\ B!MayReturn(w) /\ spent' = spent + 1
        /\ UNCHANGED <<fresh, ledger, open, month, bStarts, paid, bLost>>
    BY <1>15 DEF B!Generate, B!Spend, B!At
  <2>2. PICK c \in B!States :
          /\ B!Goes(w, c) /\ Back(c) /\ c.at \in {"publishing", "returned"}
          /\ \/ /\ tripped' = TRUE /\ c.at = (IF tripped THEN "returned" ELSE "publishing")
                /\ bCrossed' = (bCrossed \/ (~tripped /\ B!Some("resolving")))
             \/ c.at = "returned" /\ tripped' = tripped /\ bCrossed' = bCrossed
    <3>1. CASE B!SwitchOn(w, "returned")
      <4> DEFINE c == IF tripped THEN B!At("returned") ELSE [at |-> "publishing", then |-> "returned"]
      <4>1. c \in B!States /\ c.at = (IF tripped THEN "returned" ELSE "publishing") /\ Back(c)
        BY StatesAre DEF B!At, Back
      <4>. QED
        BY <3>1, <4>1 DEF B!SwitchOn
    <3>2. CASE B!Goes(w, B!At("returned")) /\ UNCHANGED <<tripped, bCrossed>>
      <4>1. B!At("returned") \in B!States /\ B!At("returned").at = "returned" /\ Back(B!At("returned"))
        BY StatesAre DEF B!At, Back
      <4>. QED
        BY <3>2, <4>1
    <3>. QED
      BY <1>15, <3>1, <3>2 DEF B!Generate, B!Spend
  <2>3. ~Back(worker[w])
    BY <2>1 DEF Back
  <2>4. /\ worker' \in [Workers -> B!States]
        /\ Cardinality(Returned') = Cardinality(Returned) + 1 /\ Cardinality(Calling') = Cardinality(Calling) - 1
        /\ Cardinality(Checked') = Cardinality(Checked)
    BY <1>2, <1>5, <2>1, <2>2, <2>3 DEF One
  <2>5. BudgetTyped'
    <3>1. spent' \in Nat
      BY <1>2, <2>1
    <3>2. tripped' \in BOOLEAN /\ bCrossed' \in BOOLEAN
      BY <1>3, <2>2, Zenon
    <3>. QED
      BY <1>1, <2>1, <2>4, <3>1, <3>2, Zenon DEF BudgetTyped
  <2>6. Past'
    BY <1>2, <2>1, <2>2, <2>4, PastStays
  <2>7. FlagHolds'
    <3>1. /\ B!Some("publishing")' <=> c.at = "publishing" \/ \E v \in Workers \ {w} : worker[v].at = "publishing"
          /\ B!Some("publishing") <=> \E v \in Workers \ {w} : worker[v].at = "publishing"
          /\ B!Some("resolving")' <=> B!Some("resolving")
      BY <1>1, <2>1, <2>2, SomeMoves
    <3>2. CASE /\ tripped' = TRUE /\ c.at = (IF tripped THEN "returned" ELSE "publishing")
               /\ bCrossed' = (bCrossed \/ (~tripped /\ B!Some("resolving")))
      <4>1. CASE tripped
        BY <1>1, <2>1, <3>1, <3>2, <4>1 DEF FlagHolds
      <4>2. CASE ~tripped
        BY <1>1, <2>1, <3>1, <3>2, <4>2 DEF FlagHolds
      <4>. QED
        BY <4>1, <4>2
    <3>3. CASE c.at = "returned" /\ tripped' = tripped /\ bCrossed' = bCrossed
      BY <1>1, <2>1, <3>1, <3>3 DEF FlagHolds
    <3>. QED
      BY <2>2, <3>2, <3>3
  <2>. QED
    BY <1>1, <1>2, <2>1, <2>4, <2>5, <2>6, <2>7 DEF BudgetInv, CallsBounded, Told, Near, Within, Size
<1>16. ASSUME NEW w \in Workers, B!GenerateFails(w) PROVE BudgetInv'
  <2>1. /\ worker[w].at = "calling" /\ B!Goes(w, B!At("idle")) /\ bLost' = bLost + 1
        /\ UNCHANGED <<spent, fresh, tripped, ledger, open, month, bStarts, paid, bCrossed>>
    BY <1>16 DEF B!GenerateFails, B!memory, B!At
  <2>2. B!At("idle").at = "idle" /\ ~Back(B!At("idle")) /\ ~Back(worker[w])
    BY <2>1 DEF B!At, Back
  <2>3. /\ worker' \in [Workers -> B!States]
        /\ Cardinality(Returned') = Cardinality(Returned) /\ Cardinality(Calling') = Cardinality(Calling) - 1
        /\ Cardinality(Checked') = Cardinality(Checked)
    BY <1>2, <1>5, <1>6, <2>1, <2>2 DEF One
  <2>4. BudgetTyped'
    <3>1. bLost' \in Nat
      BY <1>2, <2>1
    <3>. QED
      BY <1>1, <2>1, <2>3, <3>1, Zenon DEF BudgetTyped
  <2>5. Past'
    BY <1>2, <1>6, <2>1, <2>2, <2>3, PastStays
  <2>6. FlagHolds'
    BY <1>6, <2>1, <2>2, FlagStays
  <2>. QED
    BY <1>1, <1>2, <2>1, <2>3, <2>4, <2>5, <2>6 DEF BudgetInv, CallsBounded, Told, Near, Within, Size
<1>17. ASSUME NEW w \in Workers, B!CreateProposal(w) \/ B!WriteElsewhere(w) PROVE BudgetInv'
  <2>1. /\ worker[w].at = "returned" /\ B!Goes(w, B!At("idle"))
        /\ (ledger' = ledger + 1 /\ bLost' = bLost) \/ (ledger' = ledger /\ bLost' = bLost + 1)
        /\ UNCHANGED <<spent, fresh, tripped, open, month, bStarts, paid, bCrossed>>
    BY <1>17 DEF B!CreateProposal, B!WriteElsewhere, B!memory, B!At
  <2>2. B!At("idle").at = "idle" /\ ~Back(B!At("idle")) /\ Back(worker[w])
    BY <2>1 DEF B!At, Back
  <2>3. /\ worker' \in [Workers -> B!States]
        /\ Cardinality(Returned') = Cardinality(Returned) - 1 /\ Cardinality(Calling') = Cardinality(Calling)
        /\ Cardinality(Checked') = Cardinality(Checked)
    BY <1>2, <1>5, <1>6, <2>1, <2>2 DEF One
  <2>4. ledger' \in Nat /\ bLost' \in Nat
    BY <1>2, <2>1
  <2>5. BudgetTyped'
    BY <1>1, <2>1, <2>3, <2>4, Zenon DEF BudgetTyped
  <2>6. Past'
    BY <1>2, <1>6, <2>1, <2>2, <2>3, <2>4, PastStays
  <2>7. FlagHolds'
    BY <1>6, <2>1, <2>2, FlagStays
  <2>. QED
    BY <1>1, <1>2, <2>1, <2>3, <2>4, <2>5, <2>6, <2>7 DEF BudgetInv, CallsBounded, Told, Near, Within, Size
<1>18. CASE B!Minute
  <2>1. fresh' = FALSE /\ UNCHANGED <<spent, tripped, ledger, open, worker, month, bStarts, paid, bLost, bCrossed>>
    BY <1>18 DEF B!Minute
  <2>2. BudgetTyped'
    BY <1>1, <2>1, Zenon DEF BudgetTyped
  <2>3. Near'
    BY <2>1 DEF Near
  <2>4. CallsBounded' /\ Told' /\ Past' /\ Within' /\ FlagHolds'
    BY <1>1, <2>1 DEF CallsBounded, Told, Past, Within, FlagHolds, Returned, Calling, Checked, B!Some, Size
  <2>. QED
    BY <2>2, <2>3, <2>4 DEF BudgetInv
<1>19. CASE B!MonthTurns
  <2>1. /\ month < MaxMonths /\ month' = month + 1 /\ ledger' = 0 /\ fresh' = FALSE /\ paid' = 0 /\ bLost' = 0
        /\ UNCHANGED <<spent, tripped, open, worker, bStarts, bCrossed>>
    BY <1>19 DEF B!MonthTurns
  <2>2. BudgetTyped'
    <3>1. month' \in 0 .. MaxMonths
      BY <1>3, <2>1, BudgetNumbers
    <3>2. ledger' \in Nat /\ paid' \in Nat /\ bLost' \in Nat /\ fresh' \in BOOLEAN
      BY <2>1
    <3>. QED
      BY <1>1, <2>1, <3>1, <3>2, Zenon DEF BudgetTyped
  <2>3. Returned' = Returned /\ Calling' = Calling /\ Checked' = Checked
    BY <2>1 DEF Returned, Calling, Checked
  <2>4. CallsBounded' /\ Told' /\ Within' /\ Near'
    BY <1>1, <1>2, <2>1, <2>3 DEF CallsBounded, Told, Within, Near, Size
  <2>5. Past'
    <3>. SUFFICES ASSUME NEW v \in Workers, worker'[v].at = "storing"
                  PROVE  ledger' + Cardinality(Returned') + Cardinality(worker'[v].others)
                           <= worker'[v].sum + Size - 1
      BY DEF Past, Size
    <3>1. worker[v].at = "storing" /\ worker'[v] = worker[v]
      BY <2>1
    <3>2. worker[v].others \subseteq Workers /\ worker[v].sum \in Nat
      BY <1>1, <3>1 DEF BudgetTyped, B!States
    <3>3. Cardinality(worker[v].others) \in Nat
      BY <3>2, BudgetNumbers, FS_Subset, FS_CardinalityType
    <3>4. ledger + Cardinality(Returned) + Cardinality(worker[v].others) <= worker[v].sum + Size - 1
      BY <1>1, <3>1 DEF Past
    <3>. QED
      BY <1>2, <2>1, <2>3, <3>1, <3>2, <3>3, <3>4
  <2>6. FlagHolds'
    BY <1>1, <2>1 DEF FlagHolds, B!Some
  <2>. QED
    BY <2>2, <2>4, <2>5, <2>6 DEF BudgetInv
<1>20. CASE B!Restart
  <2> DEFINE going == {w \in Workers : worker[w].at \in {"calling", "returned", "resolving"}
                                         \/ worker[w] = [at |-> "publishing", then |-> "returned"]}
  <2>1. /\ bStarts < MaxRestarts /\ bStarts' = bStarts + 1 /\ spent' = 0 /\ fresh' = FALSE /\ tripped' = FALSE
        /\ bLost' = bLost + Cardinality(going) /\ worker' = [w \in Workers |-> B!At("idle")]
        /\ UNCHANGED <<ledger, open, month, paid, bCrossed>>
    BY <1>20, BCardinality DEF B!Restart
  <2>2. Cardinality(going) = Cardinality(Returned) + Cardinality(Calling)
    <3>1. \A w \in Workers : worker[w] \in B!States
      BY <1>1 DEF BudgetTyped
    <3>2. \A w \in Workers : worker[w] = [at |-> "publishing", then |-> "returned"]
                               <=> worker[w].at = "publishing" /\ worker[w].then = "returned"
      BY <3>1 DEF B!States
    <3>3. going = Returned \cup Calling
      BY <3>2 DEF Returned, Calling, Back
    <3>4. Returned \cap Calling = {}
      BY DEF Returned, Calling, Back
    <3>. QED
      <4>1. Cardinality(Returned \cup Calling)
              = Cardinality(Returned) + Cardinality(Calling) - Cardinality(Returned \cap Calling)
        BY CountsTyped, FS_Union
      <4>2. Cardinality(Returned \cap Calling) = 0
        BY <3>4, FS_EmptySet
      <4> HIDE DEF going
      <4>. QED
        BY <1>2, <3>3, <4>1, <4>2
  <2>3. Cardinality(Returned') = 0 /\ Cardinality(Calling') = 0 /\ Cardinality(Checked') = 0
    <3>1. \A w \in Workers : worker'[w].at = "idle"
      BY <2>1 DEF B!At
    <3>2. Returned' = {} /\ Calling' = {} /\ Checked' = {}
      BY <3>1 DEF Returned, Back, Calling, Checked
    <3>. QED
      BY <3>2, FS_EmptySet
  <2>4. BudgetTyped'
    <3>1. bStarts' \in 0 .. MaxRestarts
      BY <1>3, <2>1, BudgetNumbers
    <3>2. bLost' \in Nat
      <4>1. bLost' = bLost + (Cardinality(Returned) + Cardinality(Calling))
        BY <2>1, <2>2
      <4>. QED
        BY <1>2, <4>1
    <3>4. spent' \in Nat /\ fresh' \in BOOLEAN /\ tripped' \in BOOLEAN
      BY <2>1
    <3>3. worker' \in [Workers -> B!States]
      BY <1>6, <2>1
    <3>. QED
      BY <1>1, <2>1, <3>1, <3>2, <3>3, <3>4, Zenon DEF BudgetTyped
  <2>5. CallsBounded' /\ Told' /\ Within' /\ Near'
    BY <1>1, <1>2, <2>1, <2>2, <2>3 DEF CallsBounded, Told, Within, Near, Size
  <2>6. Past'
    BY <2>1 DEF Past, B!At
  <2>7. FlagHolds'
    <3>1. bStarts' # 0
      BY <1>3, <2>1, BudgetNumbers
    <3>2. ~B!Some("publishing")' /\ ~B!Some("resolving")'
      BY <2>1 DEF B!Some, B!At
    <3>. QED
      BY <2>1, <3>1, <3>2 DEF FlagHolds
  <2>. QED
    BY <2>4, <2>5, <2>6, <2>7 DEF BudgetInv
<1>. QED
  BY <1>8, <1>9, <1>10, <1>11, <1>12, <1>13, <1>14, <1>15, <1>16, <1>17, <1>18, <1>19, <1>20 DEF B!Next

\* A step of another part keeps it.
LEMMA BudgetStays == ASSUME BudgetInv, UNCHANGED B!vars PROVE BudgetInv'
<1>1. UNCHANGED <<spent, fresh, tripped, ledger, open, worker, month, bStarts, paid, bLost, bCrossed>>
  BY DEF B!vars, B!memory
<1>2. BudgetTyped'
  BY <1>1, Zenon DEF BudgetInv, BudgetTyped
<1>3. CallsBounded' /\ Told' /\ Near' /\ Past' /\ Within' /\ FlagHolds'
  BY <1>1 DEF BudgetInv, CallsBounded, Told, Near, Past, Within, FlagHolds, Returned, Calling, Checked, B!Some, Size
<1>. QED
  BY <1>2, <1>3 DEF BudgetInv

-----------------------------------------------------------------------------
(* The paired chat.                                                        *)

\* The instance counts as this module does.
LEMMA PCardinality ==
  ASSUME NEW set
  PROVE  P!Cardinality(set) = Cardinality(set) /\ (P!IsFiniteSet(set) <=> IsFiniteSet(set))
BY DEF P!Cardinality, Cardinality, P!IsFiniteSet, IsFiniteSet

\* Whoever is on the way to a code has one left.
AtIt == {i \in Issuers : issuing[i].at # "idle"}
\* They are counted with the codes there are.
CodesLeft == pIssued + Cardinality(AtIt) <= MaxCodes

\* A handler has an update in hand, and one that pairs a code.
Handled ==
  \A u \in P!Updates : /\ handling[u].at # "idle" => u <= Len(said)
                       /\ handling[u].at = "pairing" => said[u].code # 0

\* The code on the row was written since the last unpairing, and paired nobody.
CodeIsFresh ==
  P!State.code # 0 => /\ P!State.code <= pIssued /\ since[P!State.code] = unpairs
                      /\ \A p \in pairings : p.code # P!State.code

\* Who paired did so once, in time, and by a code of the time.
PairedInTime ==
  /\ \A p \in pairings : p.code <= pIssued /\ p.unpairs <= unpairs /\ ~p.late /\ since[p.code] = p.unpairs
  /\ \A p, q \in pairings : p.code = q.code \/ p.unpairs = q.unpairs => p = q

\* A chat is on the row when somebody paired since the last unpairing.
ChatPaired ==
  IF P!State.chat = P!Nobody THEN \A p \in pairings : p.unpairs # unpairs
                             ELSE \E p \in pairings : p.chat = P!State.chat /\ p.unpairs = unpairs

\* What every step of the pairing keeps.
PairingInv == P!TypeOK /\ CodesLeft /\ Handled /\ CodeIsFresh /\ PairedInTime /\ ChatPaired

\* The rows there may be.
OnFileRows == [chat : Chats \cup {P!Nobody}, cursor : 0 .. MaxUpdates, code : 0 .. MaxCodes, expires : P!Days]

\* The bounds, and what tells a row from none.
LEMMA PairingNumbers ==
  ASSUME P!PairingAssumption
  PROVE  /\ MaxCodes \in Nat /\ MaxUpdates \in Nat /\ MaxUnpairs \in Nat /\ MaxRestarts \in Nat
         /\ LastPairingDay \in Nat
         /\ P!Nobody \notin Chats /\ P!Fresh \in OnFileRows /\ P!Fresh # P!None
         /\ \A r \in OnFileRows : r # P!None
<1>1. /\ MaxCodes \in Nat /\ MaxUpdates \in Nat /\ MaxUnpairs \in Nat /\ MaxRestarts \in Nat /\ LastPairingDay \in Nat
      /\ P!Nobody \notin Chats
  BY DEF P!PairingAssumption
<1>2. \A r \in OnFileRows : r # P!None
  BY DEF OnFileRows, P!None
<1>3. P!Fresh \in OnFileRows
  BY <1>1 DEF OnFileRows, P!Fresh, P!Days, P!TTL
<1>. QED
  BY <1>1, <1>2, <1>3

\* The number of those on the way to a code.
LEMMA AtItNumber ==
  ASSUME P!PairingAssumption
  PROVE  IsFiniteSet(AtIt) /\ Cardinality(AtIt) \in Nat
<1>1. IsFiniteSet(AtIt)
  BY PCardinality, FS_Subset DEF P!PairingAssumption, AtIt
<1>. QED
  BY <1>1, FS_CardinalityType

\* What State reads is a row.
LEMMA StateIsRow ==
  ASSUME P!PairingAssumption, P!TypeOK
  PROVE  P!State \in OnFileRows /\ (pRow # P!None => pRow \in OnFileRows /\ P!State = pRow)
BY PairingNumbers DEF P!TypeOK, P!State, OnFileRows

\* It holds before there is a row.
LEMMA PairingInit == P!PairingAssumption /\ P!Init => PairingInv
<1>. SUFFICES ASSUME P!PairingAssumption, P!Init
              PROVE  PairingInv
  OBVIOUS
<1>1. P!State = P!Fresh
  BY DEF P!Init, P!State
<1>2. AtIt = {}
  BY DEF P!Init, AtIt
<1>3. CodesLeft
  BY <1>2, PairingNumbers, FS_EmptySet DEF P!Init, CodesLeft
<1>4. P!TypeOK
  <2>1. said \in Seq([chat : Chats, code : 0 .. MaxCodes]) /\ Len(said) = 0
    BY DEF P!Init
  <2>2. pRow = P!None /\ pToday = 0 /\ pIssued = 0 /\ offset = 0 /\ pStarts = 0 /\ unpairs = 0 /\ pairings = {}
    BY DEF P!Init
  <2>3. /\ issuing \in [Issuers -> [at : {"idle"}] \cup [at : {"ensured", "unpaired"}, day : 0 .. LastPairingDay]]
        /\ handling \in [P!Updates -> [at : {"idle", "begun", "pairing"}]
                                      \cup [at : {"read"}, chat : Chats \cup {P!Nobody}]]
    BY DEF P!Init
  <2>4. since \in [P!Codes -> 0 .. MaxUnpairs]
    BY PairingNumbers DEF P!Init
  <2>. QED
    BY <2>1, <2>2, <2>3, <2>4, PairingNumbers DEF P!TypeOK
<1>5. Handled
  BY DEF P!Init, Handled
<1>6. CodeIsFresh /\ PairedInTime /\ ChatPaired
  BY <1>1 DEF P!Init, CodeIsFresh, PairedInTime, ChatPaired, P!Fresh
<1>. QED
  BY <1>3, <1>4, <1>5, <1>6 DEF PairingInv

\* It gives the property.
LEMMA PairingInvImplies == ASSUME P!PairingAssumption, PairingInv PROVE P!PairedOnce
<1>1. P!State.chat # P!Nobody => pRow # P!None /\ P!State = pRow
  BY DEF P!State, P!Fresh
<1>2. P!State.chat # P!Nobody => \E p \in pairings : p.chat = pRow.chat /\ p.unpairs = unpairs
  BY <1>1 DEF PairingInv, ChatPaired
<1>. QED
  BY <1>2 DEF PairingInv, PairedInTime, P!PairedOnce

\* Steps that leave the row and the pairings alone.
LEMMA RowStays ==
  ASSUME PairingInv, UNCHANGED <<pRow, unpairs, since, pairings, pIssued>>
  PROVE  CodeIsFresh' /\ PairedInTime' /\ ChatPaired'
<1>1. P!State' = P!State
  BY DEF P!State, P!Fresh
<1>. QED
  BY <1>1 DEF PairingInv, CodeIsFresh, PairedInTime, ChatPaired

\* A row that is written with the chat and the code it had.
LEMMA RowWritten ==
  ASSUME PairingInv, UNCHANGED <<unpairs, since, pairings, pIssued>>,
         P!State'.chat = P!State.chat, P!State'.code = P!State.code
  PROVE  CodeIsFresh' /\ PairedInTime' /\ ChatPaired'
BY DEF PairingInv, CodeIsFresh, PairedInTime, ChatPaired

\* Every step of the pairing keeps the invariant.
LEMMA PairingStep ==
  ASSUME P!PairingAssumption, PairingInv, P!Next
  PROVE  PairingInv'
<1>1. P!TypeOK /\ CodesLeft /\ Handled /\ CodeIsFresh /\ PairedInTime /\ ChatPaired
  BY DEF PairingInv
<1>2. /\ pIssued \in Nat /\ unpairs \in Nat /\ Len(said) \in Nat /\ offset \in Nat /\ pToday \in Nat
  BY PairingNumbers DEF PairingInv, P!TypeOK
<1>3. CASE P!Midnight
  <2>1. /\ pToday' \in 0 .. LastPairingDay
        /\ UNCHANGED <<pRow, issuing, pIssued, said, offset, handling, pStarts, unpairs, since, pairings>>
    BY <1>1, <1>3, PairingNumbers DEF P!Midnight, P!TypeOK
  <2>2. P!TypeOK' /\ CodesLeft' /\ Handled'
    BY <1>1, <2>1 DEF P!TypeOK, CodesLeft, AtIt, Handled
  <2>. QED
    BY <2>1, <2>2, RowStays DEF PairingInv
<1>4. ASSUME NEW i \in Issuers, P!ensure(i)
      PROVE  PairingInv'
  <2> DEFINE at == [at |-> "ensured", day |-> pToday]
  <2>1. /\ issuing[i].at = "idle" /\ pRow' = P!State /\ issuing' = [issuing EXCEPT ![i] = at]
        /\ UNCHANGED <<pToday, pIssued, said, offset, handling, pStarts, unpairs, since, pairings>>
        /\ pIssued + Cardinality(AtIt) < MaxCodes
    BY <1>4, PCardinality DEF P!ensure, AtIt
  <2>2. P!State' = P!State
    BY <2>1, StateIsRow, PairingNumbers DEF PairingInv, P!State
  <2>3. P!State \in OnFileRows
    BY <1>1, StateIsRow
  <2>4. issuing' \in [Issuers -> [at : {"idle"}] \cup [at : {"ensured", "unpaired"}, day : 0 .. LastPairingDay]]
    BY <1>1, <2>1 DEF P!TypeOK
  <2>5. P!TypeOK'
    BY <1>1, <2>1, <2>3, <2>4 DEF P!TypeOK, OnFileRows
  <2>6. CodesLeft'
    <3>1. AtIt' = AtIt \cup {i} /\ i \notin AtIt
      BY <1>1, <2>1 DEF AtIt, P!TypeOK
    <3>2. Cardinality(AtIt') = Cardinality(AtIt) + 1
      BY <3>1, AtItNumber, FS_AddElement
    <3>. QED
      BY <1>2, <2>1, <3>2, AtItNumber, PairingNumbers DEF CodesLeft
  <2>7. Handled'
    BY <1>1, <2>1 DEF Handled
  <2>. QED
    BY <2>1, <2>2, <2>5, <2>6, <2>7, RowWritten DEF PairingInv
<1>5. ASSUME NEW i \in Issuers, P!IssuePairingCode(i)
      PROVE  PairingInv'
  <2>1. /\ issuing[i].at = "ensured"
        /\ UNCHANGED <<pRow, pToday, pIssued, said, offset, handling, pStarts, unpairs, since, pairings>>
    BY <1>5 DEF P!IssuePairingCode
  <2>2. PICK at \in [at : {"idle"}] \cup [at : {"ensured", "unpaired"}, day : 0 .. LastPairingDay] :
          issuing' = [issuing EXCEPT ![i] = at]
    <3>1. issuing[i] \in [at : {"ensured", "unpaired"}, day : 0 .. LastPairingDay]
      BY <1>1, <2>1 DEF P!TypeOK
    <3>2. [issuing[i] EXCEPT !.at = "unpaired"] \in [at : {"ensured", "unpaired"}, day : 0 .. LastPairingDay]
      BY <3>1
    <3>3. CASE P!State.chat = P!Nobody
      BY <1>5, <3>2, <3>3 DEF P!IssuePairingCode
    <3>4. CASE P!State.chat # P!Nobody
      BY <1>5, <3>4 DEF P!IssuePairingCode
    <3>. QED
      BY <3>3, <3>4
  <2>3. P!TypeOK'
    BY <1>1, <2>1, <2>2 DEF P!TypeOK
  <2>4. CodesLeft'
    <3>1. AtIt' \subseteq AtIt
      BY <1>1, <2>1, <2>2 DEF AtIt, P!TypeOK
    <3>2. Cardinality(AtIt') <= Cardinality(AtIt) /\ Cardinality(AtIt') \in Nat
      BY <3>1, AtItNumber, FS_Subset, FS_CardinalityType
    <3>. QED
      BY <1>1, <1>2, <2>1, <3>2, AtItNumber, PairingNumbers DEF CodesLeft
  <2>5. Handled'
    BY <1>1, <2>1 DEF Handled
  <2>. QED
    BY <2>1, <2>3, <2>4, <2>5, RowStays DEF PairingInv
<1>6. ASSUME NEW i \in Issuers, P!SetTelegramPairingCode(i)
      PROVE  PairingInv'
  <2> DEFINE n   == pIssued + 1
             new == [pRow EXCEPT !.code = n, !.expires = issuing[i].day + P!TTL]
  <2>1. /\ issuing[i].at = "unpaired" /\ pIssued' = n
        /\ pRow' = IF pRow = P!None THEN P!None ELSE new
        /\ issuing' = [issuing EXCEPT ![i] = [at |-> "idle"]] /\ since' = [since EXCEPT ![n] = unpairs]
        /\ UNCHANGED <<pToday, said, offset, handling, pStarts, unpairs, pairings>>
    BY <1>6 DEF P!SetTelegramPairingCode, P!Update
  <2>2. AtIt' = AtIt \ {i} /\ i \in AtIt
    BY <1>1, <2>1 DEF AtIt, P!TypeOK
  <2>3. Cardinality(AtIt') = Cardinality(AtIt) - 1 /\ Cardinality(AtIt) - 1 \in Nat
    <3>1. Cardinality(AtIt') = Cardinality(AtIt) - 1
      BY <2>2, AtItNumber, FS_RemoveElement
    <3>2. Cardinality(AtIt') \in Nat
      BY <2>2, AtItNumber, FS_RemoveElement, FS_CardinalityType
    <3>. QED
      BY <3>1, <3>2
  <2>4. CodesLeft' /\ n \in P!Codes /\ n \in 0 .. MaxCodes
    BY <1>1, <1>2, <2>1, <2>3, AtItNumber, PairingNumbers DEF CodesLeft, P!Codes
  <2>5. issuing[i].day + P!TTL \in P!Days
    <3>1. issuing[i].day \in 0 .. LastPairingDay
      BY <1>1, <2>1 DEF P!TypeOK
    <3>. QED
      BY <3>1, PairingNumbers DEF P!Days, P!TTL
  <2> HIDE DEF n
  <2>6. pRow # P!None => new \in OnFileRows /\ new.chat = pRow.chat /\ new.code = n
    <3>. SUFFICES ASSUME pRow # P!None
                  PROVE  new \in OnFileRows /\ new.chat = pRow.chat /\ new.code = n
      OBVIOUS
    <3> DEFINE r == [pRow EXCEPT !.code = n]
    <3>1. r \in OnFileRows /\ r.chat = pRow.chat /\ r.code = n
      BY <1>1, <2>4, StateIsRow DEF OnFileRows
    <3>2. \A q \in OnFileRows : LET m == [q EXCEPT !.expires = issuing[i].day + P!TTL] IN
            m \in OnFileRows /\ m.chat = q.chat /\ m.code = q.code
      BY <2>5 DEF OnFileRows
    <3>3. new = [r EXCEPT !.expires = issuing[i].day + P!TTL]
      OBVIOUS
    <3> HIDE DEF new, r
    <3>. QED
      BY <3>1, <3>2, <3>3, Zenon
  <2> HIDE DEF new
  <2>7. P!TypeOK'
    <3>1. pRow' \in OnFileRows \cup {P!None}
      BY <2>1, <2>6
    <3>2. since' \in [P!Codes -> 0 .. MaxUnpairs]
      BY <1>1, <2>1, <2>4 DEF P!TypeOK
    <3>3. issuing' \in [Issuers -> [at : {"idle"}] \cup [at : {"ensured", "unpaired"}, day : 0 .. LastPairingDay]]
      BY <1>1, <2>1 DEF P!TypeOK
    <3>. QED
      BY <1>1, <2>1, <2>4, <3>1, <3>2, <3>3 DEF P!TypeOK, OnFileRows
  <2>8. Handled'
    BY <1>1, <2>1 DEF Handled
  <2>9. /\ since'[n] = unpairs
        /\ \A c \in P!Codes : c # n => since'[c] = since[c]
        /\ \A p \in pairings : p.code \in P!Codes /\ p.code # n
    BY <1>1, <1>2, <2>1, <2>4 DEF P!TypeOK, PairedInTime, n, P!Codes
  <2>10. PairedInTime'
    BY <1>1, <1>2, <2>1, <2>9 DEF PairedInTime, n, P!TypeOK, P!Codes
  <2>11. P!State'.chat = P!State.chat /\ (P!State'.code = n \/ P!State' = P!Fresh)
    <3>1. CASE pRow = P!None
      BY <2>1, <3>1 DEF P!State
    <3>2. CASE pRow # P!None
      BY <1>1, <2>1, <2>6, <3>2, PairingNumbers DEF P!State
    <3>. QED
      BY <3>1, <3>2
  <2>12. ChatPaired'
    BY <1>1, <2>1, <2>11 DEF ChatPaired
  <2>13. CodeIsFresh'
    BY <2>1, <2>9, <2>11 , <1>2 DEF CodeIsFresh, P!Fresh, n
  <2>. QED
    BY <2>4, <2>7, <2>8, <2>10, <2>12, <2>13 DEF PairingInv
<1>7. ASSUME NEW chat \in Chats, NEW code \in 0 .. pIssued, P!Say(chat, code)
      PROVE  PairingInv'
  <2> DEFINE s == [chat |-> chat, code |-> code]
  <2>1. /\ Len(said) < MaxUpdates /\ said' = Append(said, s)
        /\ UNCHANGED <<pRow, pToday, issuing, pIssued, offset, handling, pStarts, unpairs, since, pairings>>
    BY <1>7 DEF P!Say
  <2>2. s \in [chat : Chats, code : 0 .. MaxCodes]
    BY <1>1, <1>2, PairingNumbers DEF P!TypeOK
  <2>3. /\ said' \in Seq([chat : Chats, code : 0 .. MaxCodes]) /\ Len(said') = Len(said) + 1
        /\ \A u \in 1 .. Len(said) : said'[u] = said[u]
    BY <1>1, <2>1, <2>2 DEF P!TypeOK
  <2>4. P!TypeOK' /\ CodesLeft'
    BY <1>1, <1>2, <2>1, <2>3, PairingNumbers DEF P!TypeOK, CodesLeft, AtIt
  <2>5. Handled'
    BY <1>1, <1>2, <2>1, <2>3 DEF Handled, P!Updates
  <2>. QED
    BY <2>1, <2>4, <2>5, RowStays DEF PairingInv
\* A handler moves, and what else there is stays.
<1>8. ASSUME NEW u \in P!Updates, u <= Len(said),
             NEW at \in [at : {"idle", "begun", "pairing"}] \cup [at : {"read"}, chat : Chats \cup {P!Nobody}],
             at.at = "pairing" => said[u].code # 0, handling' = [handling EXCEPT ![u] = at],
             offset' \in 0 .. Len(said), UNCHANGED <<pToday, issuing, pIssued, said, pStarts, unpairs, since>>
      PROVE  CodesLeft' /\ Handled' /\ (pRow' \in OnFileRows \cup {P!None} /\ UNCHANGED pairings => P!TypeOK')
  <2>1. CodesLeft' /\ Handled'
    BY <1>1, <1>8 DEF CodesLeft, AtIt, Handled, P!TypeOK
  <2>2. handling' \in [P!Updates -> [at : {"idle", "begun", "pairing"}]
                                    \cup [at : {"read"}, chat : Chats \cup {P!Nobody}]]
    BY <1>1, <1>8 DEF P!TypeOK
  <2>. QED
    BY <1>1, <1>8, <2>1, <2>2 DEF P!TypeOK, OnFileRows
<1>9. CASE P!getUpdates
  <2>1. /\ offset < Len(said) /\ offset' = offset + 1
        /\ handling' = [handling EXCEPT ![offset + 1] = [at |-> "begun"]]
        /\ UNCHANGED <<pRow, pToday, issuing, pIssued, said, pStarts, unpairs, since, pairings>>
    BY <1>9 DEF P!getUpdates
  <2>2. offset + 1 \in P!Updates /\ offset + 1 <= Len(said) /\ offset' \in 0 .. Len(said)
    BY <1>1, <1>2, <2>1, PairingNumbers DEF P!TypeOK, P!Updates
  <2>3. CodesLeft' /\ Handled' /\ P!TypeOK'
    BY <1>1, <1>8, <2>1, <2>2 DEF P!TypeOK, OnFileRows
  <2>. QED
    BY <2>1, <2>3, RowStays DEF PairingInv
<1>10. ASSUME NEW u \in P!Updates, P!handle(u)
       PROVE  PairingInv'
  <2>1. /\ handling[u].at = "begun" /\ u <= Len(said) /\ offset' \in 0 .. Len(said)
        /\ UNCHANGED <<pRow, pToday, issuing, pIssued, said, offset, pStarts, unpairs, since, pairings>>
    BY <1>1, <1>10 DEF P!handle, Handled, P!TypeOK
  <2>2. PICK at \in [at : {"idle", "begun", "pairing"}] \cup [at : {"read"}, chat : Chats \cup {P!Nobody}] :
          at.at # "pairing" /\ handling' = [handling EXCEPT ![u] = at]
    <3>1. CASE u <= P!State.cursor
      BY <1>10, <3>1 DEF P!handle
    <3>2. CASE ~(u <= P!State.cursor)
      <4>1. P!State.chat \in Chats \cup {P!Nobody}
        BY <1>1, StateIsRow DEF OnFileRows
      <4>. QED
        BY <1>10, <3>2, <4>1 DEF P!handle
    <3>. QED
      BY <3>1, <3>2
  <2>3. CodesLeft' /\ Handled' /\ P!TypeOK'
    BY <1>1, <1>8, <2>1, <2>2 DEF P!TypeOK, OnFileRows
  <2>. QED
    BY <2>1, <2>3, RowStays DEF PairingInv
<1>11. ASSUME NEW u \in P!Updates, P!SetCursor(u)
       PROVE  PairingInv'
  <2>1. /\ handling[u].at = "read" /\ u <= Len(said) /\ offset' \in 0 .. Len(said)
        /\ UNCHANGED <<pToday, issuing, pIssued, said, offset, pStarts, unpairs, since, pairings>>
    BY <1>1, <1>11 DEF P!SetCursor, Handled, P!TypeOK
  <2>2. PICK at \in [at : {"idle", "begun", "pairing"}] \cup [at : {"read"}, chat : Chats \cup {P!Nobody}] :
          /\ at.at = "pairing" => said[u].code # 0
          /\ handling' = [handling EXCEPT ![u] = at]
    <3>1. CASE handling[u].chat = P!Nobody /\ said[u].code # 0
      <4>1. handling' = [handling EXCEPT ![u] = [at |-> "pairing"]]
        BY <1>11, <3>1 DEF P!SetCursor
      <4>. QED
        BY <3>1, <4>1
    <3>2. CASE ~(handling[u].chat = P!Nobody /\ said[u].code # 0)
      <4>1. handling' = [handling EXCEPT ![u] = [at |-> "idle"]]
        BY <1>11, <3>2 DEF P!SetCursor
      <4>. QED
        BY <4>1
    <3>. QED
      BY <3>1, <3>2
  <2>3. /\ pRow' \in OnFileRows \cup {P!None}
        /\ P!State'.chat = P!State.chat /\ P!State'.code = P!State.code
    <3>1. CASE pRow = P!None \/ pRow' = pRow
      <4>1. pRow' = pRow
        BY <1>11, <3>1 DEF P!SetCursor, P!SetTelegramCursor, P!Update
      <4>. QED
        BY <1>1, <4>1 DEF P!State, P!Fresh, P!TypeOK, OnFileRows
    <3>2. CASE pRow # P!None /\ pRow' # pRow
      <4>1. pRow' = [pRow EXCEPT !.cursor = u]
        BY <1>11, <3>2 DEF P!SetCursor, P!SetTelegramCursor, P!Update
      <4>2. u \in 0 .. MaxUpdates
        BY PairingNumbers DEF P!Updates
      <4>3. pRow' \in OnFileRows /\ pRow'.chat = pRow.chat /\ pRow'.code = pRow.code
        BY <1>1, <3>2, <4>1, <4>2, StateIsRow DEF OnFileRows
      <4>. QED
        BY <3>2, <4>3, PairingNumbers DEF P!State
    <3>. QED
      BY <3>1, <3>2
  <2>4. CodesLeft' /\ Handled' /\ P!TypeOK'
    BY <1>1, <1>8, <2>1, <2>2, <2>3
  <2>. QED
    BY <2>1, <2>3, <2>4, RowWritten DEF PairingInv
<1>12. ASSUME NEW u \in P!Updates, P!Pair(u)
       PROVE  PairingInv'
  <2> DEFINE s    == said[u]
             idle == [at |-> "idle"]
             new  == [pRow EXCEPT !.chat = s.chat, !.code = 0, !.expires = 0]
             pair == [chat |-> s.chat, code |-> s.code, unpairs |-> unpairs, late |-> pRow.expires <= pToday]
  <2>1. /\ handling[u].at = "pairing" /\ u <= Len(said) /\ s.code # 0 /\ offset' \in 0 .. Len(said)
        /\ handling' = [handling EXCEPT ![u] = idle]
        /\ UNCHANGED <<pToday, issuing, pIssued, said, offset, pStarts, unpairs, since>>
    BY <1>1, <1>12 DEF P!Pair, Handled, P!TypeOK
  <2>2. CodesLeft' /\ Handled' /\ (pRow' \in OnFileRows \cup {P!None} /\ UNCHANGED pairings => P!TypeOK')
    BY <1>8, <2>1
  <2>3. CASE UNCHANGED <<pRow, pairings>>
    <3>1. P!TypeOK'
      BY <1>1, <2>2, <2>3 DEF P!TypeOK, OnFileRows
    <3>. QED
      BY <2>1, <2>2, <2>3, <3>1, RowStays DEF PairingInv
  <2>4. CASE /\ pRow # P!None /\ P!PairTelegram(s.chat, s.code)
             /\ pRow' = new /\ pairings' = pairings \cup {pair}
    <3>1. s.chat \in Chats /\ s.code \in 0 .. MaxCodes
      <4>1. u \in 1 .. Len(said) /\ said \in Seq([chat : Chats, code : 0 .. MaxCodes])
        BY <1>1, <1>2, <2>1, PairingNumbers DEF P!TypeOK, P!Updates
      <4>2. \A T : \A q \in Seq(T) : \A v \in 1 .. Len(q) : q[v] \in T
        OBVIOUS
      <4>3. said[u] \in [chat : Chats, code : 0 .. MaxCodes]
        BY <4>1, <4>2, Zenon
      <4>. QED
        BY <4>3
    <3>2. pRow \in OnFileRows /\ P!State = pRow /\ pRow.chat = P!Nobody /\ pRow.code = s.code /\ pRow.expires > pToday
      BY <1>1, <2>4, StateIsRow DEF P!PairTelegram
    <3>3. new \in OnFileRows /\ new.chat = s.chat /\ new.code = 0
      <4> DEFINE r == [pRow EXCEPT !.chat = s.chat]
                 q == [r EXCEPT !.code = 0]
      <4>1. r \in OnFileRows /\ r.chat = s.chat
        BY <3>1, <3>2 DEF OnFileRows
      <4>2. \A m \in OnFileRows : LET n == [m EXCEPT !.code = 0] IN
              n \in OnFileRows /\ n.chat = m.chat /\ n.code = 0
        BY PairingNumbers DEF OnFileRows
      <4>3. \A m \in OnFileRows : LET n == [m EXCEPT !.expires = 0] IN
              n \in OnFileRows /\ n.chat = m.chat /\ n.code = m.code
        BY PairingNumbers DEF OnFileRows, P!Days, P!TTL
      <4>4. q \in OnFileRows /\ q.chat = s.chat /\ q.code = 0
        <5> HIDE DEF r
        <5>. QED
          BY <4>1, <4>2, Zenon
      <4>5. new = [q EXCEPT !.expires = 0]
        OBVIOUS
      <4> HIDE DEF q, new
      <4>. QED
        BY <4>3, <4>4, <4>5, Zenon
    <3> HIDE DEF new
    <3>4. P!State' = new
      BY <2>4, <3>3, PairingNumbers DEF P!State
    <3>5. ~(pRow.expires <= pToday)
      BY <1>2, <3>2, PairingNumbers DEF OnFileRows, P!Days, P!TTL
    <3>6. /\ pair \in [chat : Chats, code : P!Codes, unpairs : 0 .. MaxUnpairs, late : BOOLEAN]
          /\ ~pair.late /\ pair.chat = s.chat /\ pair.code = s.code /\ pair.unpairs = unpairs
      <4>1. s.code \in P!Codes /\ unpairs \in 0 .. MaxUnpairs /\ (pRow.expires <= pToday) = FALSE
        BY <1>1, <2>1, <3>1, <3>5, PairingNumbers DEF P!Codes, P!TypeOK
      <4> HIDE DEF s
      <4>. QED
        BY <3>1, <4>1
    <3> HIDE DEF pair
    <3>7. /\ s.code <= pIssued /\ since[s.code] = unpairs
          /\ \A p \in pairings : p.code # s.code /\ p.unpairs # unpairs
      BY <1>1, <2>1, <3>2 DEF CodeIsFresh, ChatPaired
    <3>8. P!TypeOK'
      <4>1. pRow' \in OnFileRows
        BY <2>4, <3>3
      <4>2. pairings' \subseteq [chat : Chats, code : P!Codes, unpairs : 0 .. MaxUnpairs, late : BOOLEAN]
        BY <1>1, <2>4, <3>6 DEF P!TypeOK
      <4>3. handling' \in [P!Updates -> [at : {"idle", "begun", "pairing"}]
                                        \cup [at : {"read"}, chat : Chats \cup {P!Nobody}]]
        BY <1>1, <2>1 DEF P!TypeOK
      <4>. QED
        BY <1>1, <2>1, <4>1, <4>2, <4>3 DEF P!TypeOK, OnFileRows
    <3>9. CodeIsFresh'
      BY <3>3, <3>4 DEF CodeIsFresh
    <3>10. PairedInTime'
      BY <1>1, <1>2, <2>1, <2>4, <3>6, <3>7 DEF PairedInTime
    <3>11. ChatPaired'
      <4>1. P!State'.chat = s.chat /\ s.chat # P!Nobody
        BY <3>1, <3>3, <3>4, PairingNumbers
      <4>2. pair \in pairings' /\ pair.chat = P!State'.chat /\ pair.unpairs = unpairs'
        BY <2>1, <2>4, <3>6, <4>1
      <4>. QED
        BY <4>1, <4>2 DEF ChatPaired
    <3>. QED
      BY <2>2, <3>8, <3>9, <3>10, <3>11 DEF PairingInv
  <2>. QED
    BY <1>12, <2>3, <2>4 DEF P!Pair
<1>13. CASE P!Unpair
  <2>1. /\ unpairs' = unpairs + 1 /\ unpairs' \in 0 .. MaxUnpairs /\ pRow' = P!None
        /\ UNCHANGED <<pToday, issuing, pIssued, said, offset, handling, pStarts, since, pairings>>
    BY <1>2, <1>13, PairingNumbers DEF P!Unpair, P!DeleteTelegramState
  <2>2. P!State' = P!Fresh
    BY <2>1 DEF P!State, P!Fresh
  <2>3. P!TypeOK' /\ CodesLeft' /\ Handled'
    BY <1>1, <2>1 DEF P!TypeOK, CodesLeft, AtIt, Handled
  <2>4. \A p \in pairings : p.unpairs \in Nat /\ p.unpairs <= unpairs
    BY <1>1, PairingNumbers DEF P!TypeOK, PairedInTime
  <2>5. PairedInTime'
    BY <1>1, <1>2, <2>1, <2>4 DEF PairedInTime
  <2>6. CodeIsFresh' /\ ChatPaired'
    BY <1>2, <2>1, <2>2, <2>4 DEF CodeIsFresh, ChatPaired, P!Fresh
  <2>. QED
    BY <2>3, <2>5, <2>6 DEF PairingInv
<1>14. CASE P!Restart
  <2>1. /\ pStarts' \in 0 .. MaxRestarts /\ offset' \in 0 .. offset
        /\ issuing' = [i \in Issuers |-> [at |-> "idle"]]
        /\ handling' = [u \in P!Updates |-> [at |-> "idle"]]
        /\ UNCHANGED <<pRow, pToday, pIssued, said, unpairs, since, pairings>>
    BY <1>1, <1>14, PairingNumbers DEF P!Restart, P!TypeOK
  <2>2. issuing' \in [Issuers -> [at : {"idle"}] \cup [at : {"ensured", "unpaired"}, day : 0 .. LastPairingDay]]
    BY <2>1
  <2>3. handling' \in [P!Updates -> [at : {"idle", "begun", "pairing"}]
                                    \cup [at : {"read"}, chat : Chats \cup {P!Nobody}]]
    BY <2>1
  <2>4. offset' \in 0 .. Len(said)
    BY <1>1, <1>2, <2>1 DEF P!TypeOK
  <2>5. P!TypeOK'
    BY <1>1, <2>1, <2>2, <2>3, <2>4 DEF P!TypeOK
  <2>6. CodesLeft'
    <3>1. AtIt' = {}
      BY <2>1 DEF AtIt
    <3>2. Cardinality(AtIt') = 0
      BY <3>1, FS_EmptySet
    <3>. QED
      BY <1>1, <2>1, <3>2, PairingNumbers DEF CodesLeft, P!TypeOK
  <2>7. Handled'
    BY <2>1 DEF Handled
  <2>. QED
    BY <2>1, <2>5, <2>6, <2>7, RowStays DEF PairingInv
<1>. QED
  BY <1>3, <1>4, <1>5, <1>6, <1>7, <1>9, <1>10, <1>11, <1>12, <1>13, <1>14 DEF P!Next

\* A step of another part keeps it.
LEMMA PairingStays ==
  ASSUME PairingInv, UNCHANGED P!vars
  PROVE  PairingInv'
<1>1. UNCHANGED <<pRow, pToday, issuing, pIssued, said, offset, handling, pStarts, unpairs, since, pairings>>
  BY DEF P!vars
<1>2. P!TypeOK' /\ CodesLeft' /\ Handled'
  BY <1>1 DEF PairingInv, P!TypeOK, CodesLeft, AtIt, Handled
<1>. QED
  BY <1>1, <1>2, RowStays DEF PairingInv

-----------------------------------------------------------------------------
(* The connected mailbox.                                                  *)

\* The state of an actor, of its type and with a token Google has made.
Holds(c, n) ==
  c \in G!States /\ (c.at \in {"connecting", "revoking", "using", "rotated"} => c.token \in 1 .. n)

\* The types, and that no token is of a number Google has not come to.
AccountTyped ==
  /\ gRow \in G!Rows \cup {G!None} /\ (gRow # G!None => gRow.token \in 1 .. made)
  /\ live \subseteq 1 .. made /\ made \in 0 .. MaxTokens
  /\ box \in [1 .. made -> Boxes]
  /\ actor \in [Actors -> G!States] /\ \A a \in Actors : Holds(actor[a], made)
  /\ gStarts \in 0 .. MaxRestarts
  /\ gLost \subseteq 1 .. made /\ gCrossed \in BOOLEAN

\* Nobody need have it: it is known to be lost, or does not work.
LetGo(t) == t \in gLost \/ t \notin live

\* A token that works is on the row, lost or in somebody's hands.
Covered == \A t \in live : \/ gRow # G!None /\ gRow.token = t
                           \/ t \in gLost
                           \/ \E a \in Actors : t \in G!Held(a)

\* The row is of its token's mailbox, and revoked only when its token is.
RowIsRight == gRow # G!None => /\ box[gRow.token] = gRow.box
                               /\ gRow.status = "revoked" => gRow.token \notin live

\* What an actor has in hand is what the row says, or it was let go of.
Sees(c) ==
  /\ c.at = "using"    => IF gRow # G!None THEN gRow.token = c.token ELSE LetGo(c.token)
  /\ c.at = "rotated"  => IF gRow # G!None
                            THEN box[c.token] = gRow.box /\ gRow.token \notin live /\ gRow.status # "revoked"
                            ELSE LetGo(c.token)
  /\ c.at = "failed" /\ c.status = "revoked" /\ c.use # "stop" /\ gRow # G!None => gRow.token \notin live
  /\ c.at = "revoking" /\ gRow # G!None => gRow.token = c.token
  /\ c.at = "deleting" /\ gRow # G!None => LetGo(gRow.token)

\* Who has a rotated token to write down has the row to himself.
RotatesAlone ==
  \A a, b \in Actors : a # b /\ actor[a].at = "rotated" => actor[b].at \in {"idle", "connecting", "disconnecting"}

\* What holds until somebody makes a token under another's hands.
Kept == Covered /\ RowIsRight /\ RotatesAlone /\ \A a \in Actors : Sees(actor[a])

\* What every step of the mailbox keeps.
AccountInv == AccountTyped /\ (~gCrossed => Kept)

\* What a state has besides its place.
LEMMA StateFields ==
  ASSUME NEW c \in G!States
  PROVE  /\ c.at \in {"connecting", "revoking", "using", "rotated"} => c.token \in G!Tokens
         /\ c.at \in {"using", "rotated", "served", "failed"} => c.use \in G!Uses
         /\ c.at = "failed" => c.status \in {"degraded", "revoked"}
BY DEF G!States, G!Idle

\* The states there are.
LEMMA StatesHold ==
  ASSUME NEW n, NEW t \in G!Tokens, t \in 1 .. n, NEW use \in G!Uses
  PROVE  /\ Holds([at |-> "connecting", token |-> t], n) /\ Holds([at |-> "revoking", token |-> t], n)
         /\ Holds([at |-> "using", token |-> t, use |-> use], n)
         /\ Holds([at |-> "rotated", token |-> t, use |-> use], n)
BY DEF Holds, G!States
\* ... and the ones without a token.
LEMMA OtherStatesHold ==
  ASSUME NEW n, NEW use \in G!Uses, NEW status \in {"degraded", "revoked"}
  PROVE  /\ Holds(G!Idle, n) /\ Holds([at |-> "disconnecting"], n) /\ Holds([at |-> "deleting"], n)
         /\ Holds([at |-> "served", use |-> use], n)
         /\ Holds([at |-> "failed", status |-> status, use |-> use], n)
<1>1. G!Idle \in G!States /\ [at |-> "disconnecting"] \in G!States /\ [at |-> "deleting"] \in G!States
  BY DEF G!States
<1>2. [at |-> "served", use |-> use] \in G!States
  BY DEF G!States
<1>3. [at |-> "failed", status |-> status, use |-> use] \in G!States
  BY DEF G!States
<1>. QED
  BY <1>1, <1>2, <1>3 DEF Holds, G!Idle

\* One actor moves, the others stay where they are.
LEMMA ActorMoves ==
  ASSUME AccountTyped, NEW a \in Actors, NEW state, G!Goes(a, state), Holds(state, made'),
         made' \in Nat, made <= made'
  PROVE  /\ actor' \in [Actors -> G!States] /\ \A b \in Actors : Holds(actor'[b], made')
         /\ actor'[a] = state /\ \A b \in Actors \ {a} : actor'[b] = actor[b]
<1>1. actor'[a] = state /\ \A b \in Actors \ {a} : actor'[b] = actor[b]
  BY DEF G!Goes, AccountTyped
<1>2. actor' \in [Actors -> G!States]
  BY DEF G!Goes, AccountTyped, Holds
<1>3. \A b \in Actors \ {a} : Holds(actor[b], made')
  BY DEF AccountTyped, Holds
<1>. QED
  BY <1>1, <1>2, <1>3

\* Google's next token.
LEMMA TokenMade ==
  ASSUME G!AccountAssumption, AccountTyped, NEW b \in Boxes, G!Make(b)
  PROVE  /\ made' = made + 1 /\ made' \in 0 .. MaxTokens
         /\ made + 1 \in G!Tokens /\ made + 1 \in 1 .. made'
         /\ box' \in [1 .. made + 1 -> Boxes] /\ box'[made + 1] = b
         /\ \A t \in 1 .. made : box'[t] = box[t]
BY DEF G!Make, AccountTyped, G!AccountAssumption, G!Tokens

\* It holds before a mailbox is connected.
LEMMA AccountInit == G!AccountAssumption /\ G!Init => AccountInv
<1>. SUFFICES ASSUME G!AccountAssumption, G!Init
              PROVE  AccountInv
  OBVIOUS
<1>1. AccountTyped
  <2>1. Holds(G!Idle, 0)
    BY OtherStatesHold DEF G!Uses
  <2>2. actor \in [Actors -> G!States] /\ \A a \in Actors : Holds(actor[a], made)
    BY <2>1 DEF G!Init, Holds
  <2>3. 1 .. made = {} /\ box \in [1 .. made -> Boxes]
    BY DEF G!Init
  <2>. QED
    <3>1. gRow = G!None /\ live = {} /\ made = 0 /\ gStarts = 0 /\ gLost = {} /\ gCrossed = FALSE
      BY DEF G!Init
    <3>2. made \in 0 .. MaxTokens /\ gStarts \in 0 .. MaxRestarts
      BY <3>1 DEF G!AccountAssumption
    <3>3. gRow \in G!Rows \cup {G!None} /\ ~(gRow # G!None)
      BY <3>1
    <3>4. live \subseteq 1 .. made /\ gLost \subseteq 1 .. made /\ gCrossed \in BOOLEAN
      BY <3>1
    <3>. QED
      BY <2>2, <2>3, <3>2, <3>3, <3>4 DEF AccountTyped
<1>2. Kept
  BY DEF G!Init, Kept, Covered, RowIsRight, RotatesAlone, Sees, G!None, G!Idle
<1>. QED
  BY <1>1, <1>2 DEF AccountInv

\* It gives the property.
LEMMA AccountInvImplies == ASSUME AccountInv PROVE G!AccountKeeps
<1>1. G!TypeOK
  BY DEF AccountInv, AccountTyped, G!TypeOK
<1>. QED
  BY <1>1 DEF AccountInv, Kept, Covered, RowIsRight, G!AccountKeeps

\* Every step of the mailbox keeps the invariant.
LEMMA AccountStep ==
  ASSUME G!AccountAssumption, AccountInv, G!Next
  PROVE  AccountInv'
<1>1. /\ AccountTyped /\ (~gCrossed => Kept)
      /\ \A a \in Actors : actor[a] \in G!States /\ Holds(actor[a], made)
      /\ made \in Nat
  BY DEF AccountInv, AccountTyped, G!AccountAssumption
<1>2. ASSUME NEW a \in Actors, NEW b \in Boxes, G!handleGmailCallback(a, b)
      PROVE  AccountInv'
  <2> DEFINE state == [at |-> "connecting", token |-> made + 1]
  <2>1. /\ made' = made + 1 /\ made' \in 0 .. MaxTokens
        /\ live' = live \cup {made + 1}
        /\ box' \in [1 .. made + 1 -> Boxes] /\ made + 1 \in G!Tokens /\ made + 1 \in 1 .. made'
        /\ \A t \in 1 .. made : box'[t] = box[t]
        /\ G!Goes(a, state) /\ actor[a] = G!Idle /\ UNCHANGED <<gRow, gStarts, gLost, gCrossed>>
    BY <1>2, <1>1, TokenMade DEF G!handleGmailCallback
  <2>2. Holds(state, made')
    BY <1>1, <2>1, StatesHold DEF G!Uses
  <2>3. /\ actor' \in [Actors -> G!States] /\ \A c \in Actors : Holds(actor'[c], made')
        /\ actor'[a] = state /\ \A c \in Actors \ {a} : actor'[c] = actor[c]
    BY <1>1, <2>1, <2>2, ActorMoves
  <2>4. AccountTyped'
    BY <1>1, <2>1, <2>3 DEF AccountTyped
  <2>5. ASSUME Kept PROVE Kept'
    <3>1. Covered'
      BY <2>1, <2>3, <2>5 DEF Kept, Covered, G!Held, G!Idle
    <3>2. RowIsRight'
      BY <1>1, <2>1, <2>5 DEF Kept, RowIsRight, AccountTyped
    <3>3. RotatesAlone'
      BY <2>1, <2>3, <2>5 DEF Kept, RotatesAlone, G!Idle
    <3>4. Sees(actor[a])'
      BY <2>1, <2>3 DEF Sees
    <3>5. ASSUME NEW c \in Actors \ {a} PROVE Sees(actor[c])'
      BY <1>1, <2>1, <2>3, <2>5 DEF Kept, Sees, LetGo, Holds, AccountTyped
    <3>. QED
      BY <3>1, <3>2, <3>3, <3>4, <3>5 DEF Kept
  <2>. QED
    BY <1>1, <2>1, <2>4, <2>5 DEF AccountInv
<1>3. ASSUME NEW a \in Actors, G!ConnectFails(a)
      PROVE  AccountInv'
  <2>1. /\ actor[a].at = "connecting" /\ gLost' = gLost \cup {actor[a].token}
        /\ G!Goes(a, G!Idle) /\ UNCHANGED <<gRow, live, box, made, gStarts, gCrossed>>
    BY <1>3 DEF G!ConnectFails
  <2>2. Holds(G!Idle, made')
    BY OtherStatesHold DEF G!Uses
  <2>3. /\ actor' \in [Actors -> G!States] /\ \A c \in Actors : Holds(actor'[c], made')
        /\ actor'[a] = G!Idle /\ \A c \in Actors \ {a} : actor'[c] = actor[c]
    BY <1>1, <2>1, <2>2, ActorMoves
  <2>4. AccountTyped'
    BY <1>1, <2>1, <2>3 DEF AccountTyped, Holds
  <2>5. ASSUME Kept PROVE Kept'
    <3>1. Covered'
      BY <2>1, <2>3, <2>5 DEF Kept, Covered, G!Held
    <3>2. RowIsRight'
      BY <2>1, <2>5 DEF Kept, RowIsRight
    <3>3. RotatesAlone'
      BY <2>1, <2>3, <2>5 DEF Kept, RotatesAlone, G!Idle
    <3>4. Sees(actor[a])'
      BY <2>3 DEF Sees, G!Idle
    <3>5. ASSUME NEW c \in Actors \ {a} PROVE Sees(actor[c])'
      BY <2>1, <2>3, <2>5 DEF Kept, Sees, LetGo
    <3>. QED
      BY <3>1, <3>2, <3>3, <3>4, <3>5 DEF Kept
  <2>. QED
    BY <1>1, <2>1, <2>4, <2>5 DEF AccountInv
<1>4. ASSUME NEW a \in Actors, G!SaveGmailAccount(a)
      PROVE  AccountInv'
  <2> DEFINE new == [box |-> box[actor[a].token], token |-> actor[a].token, opens |-> TRUE,
                     watch |-> FALSE, status |-> "connected"]
  <2>1. /\ actor[a].at = "connecting" /\ gRow' = new
        /\ gLost' = IF gRow = G!None THEN gLost ELSE gLost \cup {gRow.token}
        /\ gCrossed' = (gCrossed \/ ~G!Alone(a))
        /\ G!Goes(a, G!Idle) /\ UNCHANGED <<live, box, made, gStarts>>
    BY <1>4 DEF G!SaveGmailAccount, G!Crosses
  <2>2. Holds(G!Idle, made')
    BY OtherStatesHold DEF G!Uses
  <2>3. /\ actor' \in [Actors -> G!States] /\ \A c \in Actors : Holds(actor'[c], made')
        /\ actor'[a] = G!Idle /\ \A c \in Actors \ {a} : actor'[c] = actor[c]
    BY <1>1, <2>1, <2>2, ActorMoves
  <2>4. actor[a].token \in 1 .. made /\ actor[a].token \in G!Tokens
    BY <1>1, <2>1, StateFields DEF Holds
  <2>5. new \in G!Rows /\ new # G!None
    BY <1>1, <2>4 DEF G!Rows, G!None, AccountTyped
  <2>6. AccountTyped'
    BY <1>1, <2>1, <2>3, <2>4, <2>5 DEF AccountTyped
  <2>7. ASSUME Kept, G!Alone(a) PROVE Kept'
    <3>1. Covered'
      BY <2>1, <2>3, <2>5, <2>7 DEF Kept, Covered, G!Held
    <3>2. RowIsRight'
      BY <2>1 DEF RowIsRight
    <3>3. RotatesAlone'
      BY <2>1, <2>3, <2>7 DEF Kept, RotatesAlone, G!Idle
    <3>4. Sees(actor[a])'
      BY <2>3 DEF Sees, G!Idle
    <3>5. ASSUME NEW c \in Actors \ {a} PROVE Sees(actor[c])'
      BY <2>3, <2>7 DEF G!Alone, Sees
    <3>. QED
      BY <3>1, <3>2, <3>3, <3>4, <3>5 DEF Kept
  <2>. QED
    BY <1>1, <2>1, <2>6, <2>7 DEF AccountInv
<1>5. ASSUME NEW a \in Actors, NEW use \in G!Uses, G!Client(a, use)
      PROVE  AccountInv'
  <2> DEFINE state == [at |-> "using", token |-> gRow.token, use |-> use]
  <2>1. /\ actor[a] = G!Idle /\ gRow # G!None /\ G!Goes(a, state)
        /\ gCrossed' = (gCrossed \/ \E b \in Actors \ {a} : actor[b].at = "rotated")
        /\ UNCHANGED <<gRow, live, box, made, gStarts, gLost>>
    BY <1>5 DEF G!Client, G!Opens, G!Reads
  <2>2. Holds(state, made')
    BY <1>1, <2>1, StatesHold DEF AccountTyped, G!Rows
  <2>3. /\ actor' \in [Actors -> G!States] /\ \A c \in Actors : Holds(actor'[c], made')
        /\ actor'[a] = state /\ \A c \in Actors \ {a} : actor'[c] = actor[c]
    BY <1>1, <2>1, <2>2, ActorMoves
  <2>4. AccountTyped'
    BY <1>1, <2>1, <2>3 DEF AccountTyped
  <2>5. ASSUME Kept, \A b \in Actors \ {a} : actor[b].at # "rotated" PROVE Kept'
    <3>1. Covered'
      BY <2>1, <2>3, <2>5 DEF Kept, Covered, G!Held, G!Idle
    <3>2. RowIsRight'
      BY <2>1, <2>5 DEF Kept, RowIsRight
    <3>3. RotatesAlone'
      BY <2>3, <2>5 DEF RotatesAlone
    <3>4. Sees(actor[a])'
      BY <2>1, <2>3 DEF Sees
    <3>5. ASSUME NEW c \in Actors \ {a} PROVE Sees(actor[c])'
      BY <2>1, <2>3, <2>5 DEF Kept, Sees, LetGo
    <3>. QED
      BY <3>1, <3>2, <3>3, <3>4, <3>5 DEF Kept
  <2>. QED
    BY <1>1, <2>1, <2>4, <2>5 DEF AccountInv
<1>6. ASSUME NEW a \in Actors, G!Serve(a)
      PROVE  AccountInv'
  <2> DEFINE c == actor[a]
  <2>1. /\ c.at = "using" /\ c.use \in G!Uses
        /\ UNCHANGED <<gRow, live, box, made, gStarts, gLost, gCrossed>>
    BY <1>1, <1>6, StateFields DEF G!Serve
  <2>2. PICK state :
          /\ G!Goes(a, state) /\ Holds(state, made') /\ state.at \in {"served", "failed"}
          /\ state.at = "failed" /\ state.status = "revoked" => c.token \notin live
    <3>0. /\ Holds([at |-> "served", use |-> c.use], made')
          /\ \A s \in {"degraded", "revoked"} : Holds([at |-> "failed", status |-> s, use |-> c.use], made')
      BY <2>1, OtherStatesHold
    <3>1. CASE G!Goes(a, [at |-> "served", use |-> c.use])
      BY <3>0, <3>1
    <3>2. CASE c.token \notin live /\ G!Goes(a, [at |-> "failed", status |-> "revoked", use |-> c.use])
      BY <3>0, <3>2
    <3>3. CASE G!Goes(a, [at |-> "failed", status |-> "degraded", use |-> c.use])
      BY <3>0, <3>3
    <3>. QED
      BY <1>6, <3>1, <3>2, <3>3 DEF G!Serve
  <2>3. /\ actor' \in [Actors -> G!States] /\ \A b \in Actors : Holds(actor'[b], made')
        /\ actor'[a] = state /\ \A b \in Actors \ {a} : actor'[b] = actor[b]
    BY <1>1, <2>1, <2>2, ActorMoves
  <2>4. AccountTyped'
    BY <1>1, <2>1, <2>3 DEF AccountTyped
  <2>5. ASSUME Kept PROVE Kept'
    <3>1. Covered'
      BY <2>1, <2>3, <2>5 DEF Kept, Covered, G!Held
    <3>2. RowIsRight'
      BY <2>1, <2>5 DEF Kept, RowIsRight
    <3>3. RotatesAlone'
      BY <2>1, <2>2, <2>3, <2>5 DEF Kept, RotatesAlone
    <3>4. Sees(actor[a])'
      BY <2>1, <2>2, <2>3, <2>5 DEF Kept, Sees
    <3>5. ASSUME NEW b \in Actors \ {a} PROVE Sees(actor[b])'
      BY <2>1, <2>3, <2>5 DEF Kept, Sees, LetGo
    <3>. QED
      BY <3>1, <3>2, <3>3, <3>4, <3>5 DEF Kept
  <2>. QED
    BY <1>1, <2>1, <2>4, <2>5 DEF AccountInv
<1>7. ASSUME NEW a \in Actors, G!Rotate(a)
      PROVE  AccountInv'
  <2> DEFINE c     == actor[a]
             state == [at |-> "rotated", token |-> made + 1, use |-> c.use]
  <2>1. /\ c.at = "using" /\ c.use \in G!Uses /\ c.token \in live
        /\ made' = made + 1 /\ made' \in 0 .. MaxTokens
        /\ box' \in [1 .. made + 1 -> Boxes] /\ box'[made + 1] = box[c.token]
        /\ \A t \in 1 .. made : box'[t] = box[t]
        /\ live' = (live \ {c.token}) \cup {made + 1}
        /\ gLost' = IF c.token \in gLost THEN gLost \cup {made + 1} ELSE gLost
        /\ gCrossed' = (gCrossed \/ ~G!Alone(a))
        /\ G!Goes(a, state) /\ UNCHANGED <<gRow, gStarts>>
    <3>1. c.at = "using" /\ c.use \in G!Uses /\ c.token \in live /\ G!Make(box[c.token])
      BY <1>1, <1>7, StateFields DEF G!Rotate
    <3>2. box[c.token] \in Boxes
      BY <1>1, <3>1 DEF AccountTyped
    <3>3. /\ made' = made + 1 /\ made' \in 0 .. MaxTokens
          /\ box' \in [1 .. made + 1 -> Boxes] /\ box'[made + 1] = box[c.token]
          /\ \A t \in 1 .. made : box'[t] = box[t]
      BY <1>1, <3>1, <3>2, TokenMade
    <3>. QED
      BY <1>7, <3>1, <3>3 DEF G!Rotate, G!Crosses
  <2>2. Holds(state, made')
    <3>1. made + 1 \in G!Tokens /\ made + 1 \in 1 .. made'
      BY <1>1, <2>1 DEF G!Tokens, G!AccountAssumption
    <3>. QED
      BY <2>1, <3>1, StatesHold
  <2>3. /\ actor' \in [Actors -> G!States] /\ \A b \in Actors : Holds(actor'[b], made')
        /\ actor'[a] = state /\ \A b \in Actors \ {a} : actor'[b] = actor[b]
    BY <1>1, <2>1, <2>2, ActorMoves
  <2>4. AccountTyped'
    BY <1>1, <2>1, <2>3 DEF AccountTyped
  <2>5. ASSUME Kept, G!Alone(a) PROVE Kept'
    <3>0. IF gRow # G!None THEN gRow.token = c.token ELSE c.token \in gLost
      BY <2>1, <2>5 DEF Kept, Sees, LetGo
    <3>1. Covered'
      BY <2>1, <2>3, <2>5, <3>0 DEF Kept, Covered, G!Held
    <3>2. RowIsRight'
      BY <1>1, <2>1, <2>5 DEF Kept, RowIsRight, AccountTyped
    <3>3. RotatesAlone'
      BY <2>3, <2>5 DEF G!Alone, RotatesAlone
    <3>4. Sees(actor[a])'
      BY <1>1, <2>1, <2>3, <2>5, <3>0 DEF Kept, RowIsRight, Sees, LetGo, AccountTyped
    <3>5. ASSUME NEW b \in Actors \ {a} PROVE Sees(actor[b])'
      BY <2>3, <2>5 DEF G!Alone, Sees
    <3>. QED
      BY <3>1, <3>2, <3>3, <3>4, <3>5 DEF Kept
  <2>. QED
    BY <1>1, <2>1, <2>4, <2>5 DEF AccountInv
<1>8. ASSUME NEW a \in Actors, G!SetGmailRefreshToken(a)
      PROVE  AccountInv'
  <2> DEFINE c     == actor[a]
             state == [at |-> "served", use |-> c.use]
  <2>1. /\ c.at = "rotated" /\ c.use \in G!Uses /\ c.token \in 1 .. made /\ c.token \in G!Tokens
        /\ G!Goes(a, state) /\ UNCHANGED <<live, box, made, gStarts, gCrossed>>
    BY <1>1, <1>8, StateFields DEF G!SetGmailRefreshToken, Holds
  <2>2. Holds(state, made')
    BY <2>1, OtherStatesHold
  <2>3. /\ actor' \in [Actors -> G!States] /\ \A b \in Actors : Holds(actor'[b], made')
        /\ actor'[a] = state /\ \A b \in Actors \ {a} : actor'[b] = actor[b]
    BY <1>1, <2>1, <2>2, ActorMoves
  <2>4. \/ /\ gRow # G!None /\ gRow' \in G!Rows /\ gRow'.token = c.token /\ gRow'.box = gRow.box
           /\ gRow'.status = gRow.status /\ gRow' # G!None /\ gLost' = gLost
        \/ gRow = G!None /\ gRow' = G!None /\ gLost' = gLost
        \/ gRow' = gRow /\ gLost' = gLost \cup {c.token}
    <3>1. CASE G!Update([gRow EXCEPT !.token = c.token, !.opens = TRUE]) /\ UNCHANGED gLost
      <4>1. CASE gRow = G!None
        BY <3>1, <4>1 DEF G!Update
      <4>2. CASE gRow # G!None
        <5> DEFINE r == [gRow EXCEPT !.token = c.token]
        <5>1. gRow \in G!Rows
          BY <1>1, <4>2 DEF AccountTyped
        <5>2. r \in G!Rows /\ r.token = c.token /\ r.box = gRow.box /\ r.status = gRow.status
          BY <2>1, <5>1 DEF G!Rows
        <5>3. \A q \in G!Rows : LET n == [q EXCEPT !.opens = TRUE] IN
                n \in G!Rows /\ n.token = q.token /\ n.box = q.box /\ n.status = q.status /\ n # G!None
          BY DEF G!Rows, G!None
        <5>4. gRow' = [r EXCEPT !.opens = TRUE]
          BY <3>1, <4>2 DEF G!Update
        <5>. QED
          BY <3>1, <4>2, <5>2, <5>3, <5>4, Zenon
      <4>. QED
        BY <4>1, <4>2
    <3>. QED
      BY <1>8, <3>1 DEF G!SetGmailRefreshToken
  <2>5. AccountTyped'
    BY <1>1, <2>1, <2>3, <2>4 DEF AccountTyped
  <2>6. ASSUME Kept PROVE Kept'
    <3>0. /\ Sees(c) /\ \A b \in Actors \ {a} : actor[b].at \in {"idle", "connecting", "disconnecting"}
      BY <2>1, <2>6 DEF Kept, RotatesAlone
    <3>1. Covered'
      BY <2>1, <2>3, <2>4, <2>6, <3>0 DEF Kept, Covered, G!Held, Sees, LetGo
    <3>2. RowIsRight'
      BY <2>1, <2>4, <2>6, <3>0 DEF Kept, RowIsRight, Sees
    <3>3. RotatesAlone'
      BY <2>3, <3>0 DEF RotatesAlone
    <3>4. Sees(actor[a])'
      BY <2>3 DEF Sees
    <3>5. ASSUME NEW b \in Actors \ {a} PROVE Sees(actor[b])'
      BY <2>3, <3>0 DEF Sees
    <3>. QED
      BY <3>1, <3>2, <3>3, <3>4, <3>5 DEF Kept
  <2>. QED
    BY <1>1, <2>1, <2>5, <2>6 DEF AccountInv
\* The row's status or watch is set, or none of it.
<1>9. ASSUME NEW a \in Actors, actor[a].at \in {"served", "failed"},
             NEW state \in {G!Idle, [at |-> "disconnecting"]}, G!Goes(a, state),
             UNCHANGED <<live, box, made, gStarts, gLost, gCrossed>>,
             gRow' \in G!Rows \cup {G!None}, gRow' = G!None <=> gRow = G!None,
             gRow # G!None => /\ gRow'.token = gRow.token /\ gRow'.box = gRow.box
                              /\ gRow'.status = "revoked" =>
                                   \/ gRow.status = "revoked"
                                   \/ actor[a].at = "failed" /\ actor[a].status = "revoked" /\ actor[a].use # "stop"
      PROVE  AccountInv'
  <2>1. Holds(state, made')
    BY <1>9, OtherStatesHold DEF G!Uses
  <2>2. /\ actor' \in [Actors -> G!States] /\ \A b \in Actors : Holds(actor'[b], made')
        /\ actor'[a] = state /\ \A b \in Actors \ {a} : actor'[b] = actor[b]
    BY <1>1, <1>9, <2>1, ActorMoves
  <2>3. AccountTyped'
    BY <1>1, <1>9, <2>2 DEF AccountTyped
  <2>4. ASSUME Kept PROVE Kept'
    <3>0. gRow # G!None => (gRow'.status = "revoked" => gRow.token \notin live)
      BY <1>9, <2>4 DEF Kept, RowIsRight, Sees
    <3>1. Covered'
      BY <1>9, <2>2, <2>4 DEF Kept, Covered, G!Held
    <3>2. RowIsRight'
      BY <1>9, <2>4, <3>0 DEF Kept, RowIsRight
    <3>3. RotatesAlone'
      BY <1>9, <2>2, <2>4 DEF Kept, RotatesAlone, G!Idle
    <3>4. Sees(actor[a])'
      BY <1>9, <2>2 DEF Sees, G!Idle
    <3>5. ASSUME NEW b \in Actors \ {a} PROVE Sees(actor[b])'
      <4>1. actor[b].at # "rotated"
        BY <1>9, <2>4 DEF Kept, RotatesAlone
      <4>. QED
        BY <1>9, <2>2, <2>4, <4>1 DEF Kept, Sees, LetGo
    <3>. QED
      BY <3>1, <3>2, <3>3, <3>4, <3>5 DEF Kept
  <2>. QED
    BY <1>1, <1>9, <2>3, <2>4 DEF AccountInv
<1>10. ASSUME NEW a \in Actors, G!Record(a)
       PROVE  AccountInv'
  <2>1. /\ actor[a].at = "served"
        /\ UNCHANGED <<live, box, made, gStarts, gLost, gCrossed>>
        /\ \/ G!Goes(a, G!Idle)
           \/ G!Goes(a, [at |-> "disconnecting"])
    BY <1>10 DEF G!Record
  <2>2. /\ gRow' \in G!Rows \cup {G!None} /\ (gRow' = G!None <=> gRow = G!None)
        /\ gRow # G!None => /\ gRow'.token = gRow.token /\ gRow'.box = gRow.box
                            /\ gRow'.status = "revoked" => gRow.status = "revoked"
    BY <1>1, <1>10 DEF G!Record, G!Update, G!SetGmailCursor, G!SetGmailWatch, AccountTyped, G!Rows, G!None
  <2>. QED
    BY <1>9, <2>1, <2>2
<1>11. ASSUME NEW a \in Actors, G!RecordFailure(a)
       PROVE  AccountInv'
  <2>1. /\ actor[a].at = "failed" /\ actor[a].status \in {"degraded", "revoked"}
        /\ UNCHANGED <<live, box, made, gStarts, gLost, gCrossed>>
        /\ \/ G!Goes(a, G!Idle)
           \/ G!Goes(a, [at |-> "disconnecting"])
    BY <1>1, <1>11, StateFields DEF G!RecordFailure
  <2>2. /\ gRow' \in G!Rows \cup {G!None} /\ (gRow' = G!None <=> gRow = G!None)
        /\ gRow # G!None => /\ gRow'.token = gRow.token /\ gRow'.box = gRow.box
                            /\ gRow'.status = "revoked" =>
                                 \/ gRow.status = "revoked"
                                 \/ actor[a].status = "revoked" /\ actor[a].use # "stop"
    BY <1>1, <1>11, <2>1 DEF G!RecordFailure, G!Update, G!SetGmailStatus, AccountTyped, G!Rows, G!None
  <2>. QED
    BY <1>9, <2>1, <2>2
<1>12. ASSUME NEW a \in Actors, G!handleGmailDisconnect(a)
       PROVE  AccountInv'
  <2> DEFINE state == [at |-> "disconnecting"]
  <2>1. actor[a] = G!Idle /\ G!Goes(a, state) /\ UNCHANGED <<gRow, live, box, made, gStarts, gLost, gCrossed>>
    BY <1>12 DEF G!handleGmailDisconnect
  <2>2. Holds(state, made')
    BY OtherStatesHold DEF G!Uses
  <2>3. /\ actor' \in [Actors -> G!States] /\ \A c \in Actors : Holds(actor'[c], made')
        /\ actor'[a] = state /\ \A c \in Actors \ {a} : actor'[c] = actor[c]
    BY <1>1, <2>1, <2>2, ActorMoves
  <2>4. AccountTyped'
    BY <1>1, <2>1, <2>3 DEF AccountTyped
  <2>5. ASSUME Kept PROVE Kept'
    <3>1. Covered'
      BY <2>1, <2>3, <2>5 DEF Kept, Covered, G!Held, G!Idle
    <3>2. RowIsRight'
      BY <2>1, <2>5 DEF Kept, RowIsRight
    <3>3. RotatesAlone'
      BY <2>3, <2>5 DEF Kept, RotatesAlone
    <3>4. Sees(actor[a])'
      BY <2>3 DEF Sees
    <3>5. ASSUME NEW c \in Actors \ {a} PROVE Sees(actor[c])'
      BY <2>1, <2>3, <2>5 DEF Kept, Sees, LetGo
    <3>. QED
      BY <3>1, <3>2, <3>3, <3>4, <3>5 DEF Kept
  <2>. QED
    BY <1>1, <2>1, <2>4, <2>5 DEF AccountInv
<1>13. ASSUME NEW a \in Actors, G!refreshToken(a)
       PROVE  AccountInv'
  <2>1. /\ actor[a].at = "disconnecting" /\ UNCHANGED <<gRow, live, box, made, gStarts>>
        /\ gCrossed' = (gCrossed \/ \E b \in Actors \ {a} : actor[b].at = "rotated")
    BY <1>13 DEF G!refreshToken, G!Reads
  <2>2. PICK state :
          /\ G!Goes(a, state) /\ Holds(state, made')
          /\ \/ gRow # G!None /\ gLost' = gLost /\ state = [at |-> "revoking", token |-> gRow.token]
             \/ /\ gLost' = IF gRow = G!None THEN gLost ELSE gLost \cup {gRow.token}
                /\ state = [at |-> "deleting"]
    <3>1. CASE G!Opens /\ G!Goes(a, [at |-> "revoking", token |-> gRow.token]) /\ UNCHANGED gLost
      <4>1. gRow # G!None /\ gRow.token \in G!Tokens /\ gRow.token \in 1 .. made'
        BY <1>1, <2>1, <3>1 DEF G!Opens, AccountTyped, G!Rows
      <4>2. Holds([at |-> "revoking", token |-> gRow.token], made')
        BY <4>1, StatesHold DEF G!Uses
      <4>. QED
        BY <3>1, <4>1, <4>2
    <3>2. CASE /\ G!Goes(a, [at |-> "deleting"])
               /\ gLost' = IF gRow = G!None THEN gLost ELSE gLost \cup {gRow.token}
      <4>1. Holds([at |-> "deleting"], made')
        BY OtherStatesHold DEF G!Uses
      <4>. QED
        BY <3>2, <4>1
    <3>. QED
      BY <1>13, <3>1, <3>2 DEF G!refreshToken
  <2>3. /\ actor' \in [Actors -> G!States] /\ \A c \in Actors : Holds(actor'[c], made')
        /\ actor'[a] = state /\ \A c \in Actors \ {a} : actor'[c] = actor[c]
    BY <1>1, <2>1, <2>2, ActorMoves
  <2>4. AccountTyped'
    BY <1>1, <2>1, <2>2, <2>3 DEF AccountTyped
  <2>5. ASSUME Kept, \A b \in Actors \ {a} : actor[b].at # "rotated" PROVE Kept'
    <3>1. Covered'
      BY <2>1, <2>2, <2>3, <2>5 DEF Kept, Covered, G!Held
    <3>2. RowIsRight'
      BY <2>1, <2>5 DEF Kept, RowIsRight
    <3>3. RotatesAlone'
      BY <2>2, <2>3, <2>5 DEF RotatesAlone
    <3>4. Sees(actor[a])'
      BY <2>1, <2>2, <2>3 DEF Sees, LetGo
    <3>5. ASSUME NEW c \in Actors \ {a} PROVE Sees(actor[c])'
      BY <2>1, <2>2, <2>3, <2>5 DEF Kept, Sees, LetGo
    <3>. QED
      BY <3>1, <3>2, <3>3, <3>4, <3>5 DEF Kept
  <2>. QED
    BY <1>1, <2>1, <2>4, <2>5 DEF AccountInv
<1>14. ASSUME NEW a \in Actors, G!Disconnect(a)
       PROVE  AccountInv'
  <2> DEFINE c == actor[a]
  <2>1. c.at = "revoking" /\ UNCHANGED <<gRow, box, made, gStarts, gLost, gCrossed>>
    BY <1>14 DEF G!Disconnect
  <2>2. PICK state :
          /\ G!Goes(a, state) /\ Holds(state, made') /\ state.at \in {"deleting", "idle"}
          /\ live' \subseteq live /\ (state.at = "deleting" => live' = live \ {c.token})
    <3>0. Holds(G!Idle, made') /\ Holds([at |-> "deleting"], made')
      BY OtherStatesHold DEF G!Uses
    <3>1. CASE live' = live \ {c.token} /\ G!Goes(a, [at |-> "deleting"])
      BY <3>0, <3>1
    <3>2. CASE live' = live /\ G!Goes(a, G!Idle)
      BY <3>0, <3>2 DEF G!Idle
    <3>. QED
      BY <1>14, <3>1, <3>2 DEF G!Disconnect, G!revoke
  <2>3. /\ actor' \in [Actors -> G!States] /\ \A b \in Actors : Holds(actor'[b], made')
        /\ actor'[a] = state /\ \A b \in Actors \ {a} : actor'[b] = actor[b]
    BY <1>1, <2>1, <2>2, ActorMoves
  <2>4. AccountTyped'
    BY <1>1, <2>1, <2>2, <2>3 DEF AccountTyped
  <2>5. ASSUME Kept PROVE Kept'
    <3>1. Covered'
      BY <2>1, <2>2, <2>3, <2>5 DEF Kept, Covered, G!Held
    <3>2. RowIsRight'
      BY <2>1, <2>2, <2>5 DEF Kept, RowIsRight
    <3>3. RotatesAlone'
      BY <2>1, <2>2, <2>3, <2>5 DEF Kept, RotatesAlone
    <3>4. Sees(actor[a])'
      BY <2>1, <2>2, <2>3, <2>5 DEF Kept, Sees, LetGo
    <3>5. ASSUME NEW b \in Actors \ {a} PROVE Sees(actor[b])'
      BY <2>1, <2>2, <2>3, <2>5 DEF Kept, Sees, LetGo
    <3>. QED
      BY <3>1, <3>2, <3>3, <3>4, <3>5 DEF Kept
  <2>. QED
    BY <1>1, <2>1, <2>4, <2>5 DEF AccountInv
<1>15. ASSUME NEW a \in Actors, G!DeleteGmailAccount(a)
       PROVE  AccountInv'
  <2>1. /\ actor[a].at = "deleting" /\ gRow' = G!None /\ G!Goes(a, G!Idle)
        /\ UNCHANGED <<live, box, made, gStarts, gLost, gCrossed>>
    BY <1>15 DEF G!DeleteGmailAccount
  <2>2. Holds(G!Idle, made')
    BY OtherStatesHold DEF G!Uses
  <2>3. /\ actor' \in [Actors -> G!States] /\ \A c \in Actors : Holds(actor'[c], made')
        /\ actor'[a] = G!Idle /\ \A c \in Actors \ {a} : actor'[c] = actor[c]
    BY <1>1, <2>1, <2>2, ActorMoves
  <2>4. AccountTyped'
    BY <1>1, <2>1, <2>3 DEF AccountTyped
  <2>5. ASSUME Kept PROVE Kept'
    <3>0. gRow # G!None => LetGo(gRow.token)
      BY <2>1, <2>5 DEF Kept, Sees
    <3>1. Covered'
      BY <2>1, <2>3, <2>5, <3>0 DEF Kept, Covered, G!Held, LetGo
    <3>2. RowIsRight'
      BY <2>1 DEF RowIsRight
    <3>3. RotatesAlone'
      BY <2>1, <2>3, <2>5 DEF Kept, RotatesAlone, G!Idle
    <3>4. Sees(actor[a])'
      BY <2>3 DEF Sees, G!Idle
    <3>5. ASSUME NEW c \in Actors \ {a} PROVE Sees(actor[c])'
      <4>1. actor[c].at # "rotated"
        BY <2>1, <2>5 DEF Kept, RotatesAlone
      <4>. QED
        BY <2>1, <2>3, <2>5, <3>0, <4>1 DEF Kept, Sees, LetGo
    <3>. QED
      BY <3>1, <3>2, <3>3, <3>4, <3>5 DEF Kept
  <2>. QED
    BY <1>1, <2>1, <2>4, <2>5 DEF AccountInv
<1>16. ASSUME G!Withdraw
       PROVE  AccountInv'
  <2>1. live' \subseteq live /\ UNCHANGED <<gRow, box, made, actor, gStarts, gLost, gCrossed>>
    BY <1>16 DEF G!Withdraw
  <2>2. AccountTyped'
    BY <1>1, <2>1 DEF AccountTyped, Holds
  <2>3. ASSUME Kept PROVE Kept'
    <3>1. Covered'
      BY <2>1, <2>3 DEF Kept, Covered, G!Held
    <3>2. RowIsRight' /\ RotatesAlone'
      BY <2>1, <2>3 DEF Kept, RowIsRight, RotatesAlone
    <3>3. ASSUME NEW c \in Actors PROVE Sees(actor[c])'
      BY <2>1, <2>3 DEF Kept, Sees, LetGo
    <3>. QED
      BY <3>1, <3>2, <3>3 DEF Kept
  <2>. QED
    BY <1>1, <2>1, <2>2, <2>3 DEF AccountInv
<1>17. ASSUME G!Restart
       PROVE  AccountInv'
  <2>1. /\ gStarts' \in 0 .. MaxRestarts /\ UNCHANGED <<live, box, made, gCrossed>>
        /\ gLost' = gLost \cup UNION {G!Held(a) : a \in Actors}
        /\ actor' = [a \in Actors |-> G!Idle]
    BY <1>1, <1>17 DEF G!Restart, AccountTyped, G!AccountAssumption
  <2>2. /\ gRow' \in G!Rows \cup {G!None} /\ (gRow' = G!None <=> gRow = G!None)
        /\ gRow # G!None => gRow'.token = gRow.token /\ gRow'.box = gRow.box /\ gRow'.status = gRow.status
    BY <1>1, <1>17 DEF G!Restart, G!Update, AccountTyped, G!Rows, G!None
  <2>3. Holds(G!Idle, made')
    BY OtherStatesHold DEF G!Uses
  <2>4. UNION {G!Held(a) : a \in Actors} \subseteq 1 .. made
    BY <1>1 DEF G!Held, Holds
  <2>5. AccountTyped'
    BY <1>1, <2>1, <2>2, <2>3, <2>4 DEF AccountTyped, Holds
  <2>6. ASSUME Kept PROVE Kept'
    <3>1. Covered'
      BY <2>1, <2>2, <2>6 DEF Kept, Covered
    <3>2. RowIsRight'
      BY <2>1, <2>2, <2>6 DEF Kept, RowIsRight
    <3>3. RotatesAlone'
      BY <2>1 DEF RotatesAlone, G!Idle
    <3>4. ASSUME NEW c \in Actors PROVE Sees(actor[c])'
      BY <2>1 DEF Sees, G!Idle
    <3>. QED
      BY <3>1, <3>2, <3>3, <3>4 DEF Kept
  <2>. QED
    BY <1>1, <2>1, <2>5, <2>6 DEF AccountInv
<1>. QED
  BY <1>2, <1>3, <1>4, <1>5, <1>6, <1>7, <1>8, <1>10, <1>11, <1>12, <1>13, <1>14, <1>15, <1>16, <1>17 DEF G!Next

\* A step of another part keeps it.
LEMMA AccountStays ==
  ASSUME AccountInv, UNCHANGED G!vars
  PROVE  AccountInv'
<1>1. UNCHANGED <<gRow, live, box, made, actor, gStarts, gLost, gCrossed>>
  BY DEF G!vars
<1>2. AccountTyped => AccountTyped'
  BY <1>1 DEF AccountTyped, Holds
<1>3. Kept => Kept'
  BY <1>1 DEF Kept, Covered, G!Held, RowIsRight, RotatesAlone, Sees, LetGo
<1>. QED
  BY <1>1, <1>2, <1>3 DEF AccountInv

-----------------------------------------------------------------------------
(* The schema.                                                             *)

\* A process that is not down.
OnFoot == [at : {"starting", "migrating", "serving"}, release : Releases,
           applied : SUBSET M!Files, left : SUBSET M!Files]

\* What is recorded is what the schema has, each version once.
FilesRight ==
  /\ recorded \subseteq M!Files
  /\ recorded = schema
  /\ \A f, g \in schema : f.version = g.version => f = g

\* A process that is past its one read has behind it files that are in the
\* schema: those it found there, which nothing takes out again, and those it applied.
OnItsWay(state, found) ==
  state # M!Down =>
    /\ state.left \subseteq state.release
    /\ state.applied \subseteq found
    /\ state.release \ state.left \subseteq found
    /\ state.at = "serving" => state.left = {}

\* So has every process.
Walks ==
  /\ process \in [Processes -> {M!Down} \cup OnFoot]
  /\ \A p \in Processes : OnItsWay(process[p], schema)

\* The starts, within their bound.
StartsCounted == mStarts \in 0 .. MaxStarts

\* What every step of a migration keeps.
SchemaInv == FilesRight /\ Walks /\ StartsCounted

\* A set of files that has one has a first one.
LEMMA FirstIsThere ==
  ASSUME M!MigrationAssumption, NEW files \in SUBSET M!Files, files # {}
  PROVE  M!First(files) \in files
<1> DEFINE numbers == {f.version : f \in files}
<1>1. numbers \subseteq Nat /\ numbers # {}
  BY DEF M!MigrationAssumption
<1>2. PICK x \in numbers : \A y \in numbers : x <= y
  BY <1>1, LeastIsThere
<1>3. PICK f \in files : f.version = x
  BY <1>2
<1>4. \A g \in files : f.version <= g.version
  BY <1>2, <1>3
<1>. QED
  BY <1>4 DEF M!First

\* A row more breaks no walk, and a step is its own process's only.
LEMMA WalksOn ==
  ASSUME Walks, NEW p \in Processes, NEW state \in {M!Down} \cup OnFoot, M!Goes(p, state),
         schema \subseteq schema', OnItsWay(state, schema')
  PROVE  Walks'
<1>1. process' \in [Processes -> {M!Down} \cup OnFoot]
  BY DEF Walks, M!Goes
<1>2. ASSUME NEW q \in Processes
      PROVE  OnItsWay(process'[q], schema')
  <2>1. CASE q = p
    BY <2>1 DEF Walks, M!Goes
  <2>2. CASE q # p
    <3>1. process'[q] = process[q] /\ OnItsWay(process[q], schema)
      BY <2>2 DEF Walks, M!Goes
    <3>. QED
      BY <3>1 DEF OnItsWay
  <2>. QED
    BY <2>1, <2>2
<1>. QED
  BY <1>1, <1>2 DEF Walks

\* It holds with no schema.
LEMMA SchemaInit == M!MigrationAssumption /\ M!Init => SchemaInv
BY DEF M!MigrationAssumption, M!Init, SchemaInv, FilesRight, Walks, OnItsWay, StartsCounted

\* Every step of a migration keeps the invariant.
LEMMA SchemaStep ==
  ASSUME M!MigrationAssumption, SchemaInv, M!Next
  PROVE  SchemaInv'
<1>. USE DEF SchemaInv
<1>. SUFFICES ASSUME NEW p \in Processes,
                     \/ \E release \in Releases : M!Start(p, release)
                     \/ M!appliedByVersion(p) \/ M!Skip(p) \/ M!Migrate(p) \/ M!Serve(p) \/ M!Stop(p)
              PROVE  SchemaInv'
  BY DEF M!Next
<1>2. ASSUME process[p].at \in {"starting", "migrating", "serving"}
      PROVE  process[p] \in OnFoot /\ process[p] # M!Down /\ OnItsWay(process[p], schema)
  BY <1>2 DEF Walks, M!Down, OnFoot
<1>3. ASSUME UNCHANGED <<recorded, schema>>
      PROVE  FilesRight' /\ schema \subseteq schema'
  BY <1>3 DEF FilesRight
<1>4. ASSUME NEW release \in Releases, M!Start(p, release)
      PROVE  SchemaInv'
  <2> DEFINE state == [at |-> "starting", release |-> release, applied |-> {}, left |-> release]
  <2>1. state \in OnFoot /\ OnItsWay(state, schema')
    BY DEF OnFoot, M!Files, OnItsWay
  <2>2. M!Goes(p, state) /\ UNCHANGED <<recorded, schema>>
    BY <1>4 DEF M!Start
  <2>3. Walks'
    BY <1>3, <2>1, <2>2, WalksOn
  <2>4. StartsCounted'
    BY <1>4 DEF M!Start, StartsCounted, M!MigrationAssumption
  <2>. QED
    BY <1>3, <2>2, <2>3, <2>4
<1>5. ASSUME M!appliedByVersion(p)
      PROVE  SchemaInv'
  <2> DEFINE state == [process[p] EXCEPT !.at = "migrating", !.applied = recorded]
             known == [at |-> "migrating", release |-> process[p].release,
                       applied |-> recorded, left |-> process[p].left]
  <2>1. process[p].at = "starting" /\ M!Goes(p, state) /\ UNCHANGED <<recorded, schema, mStarts>>
    BY <1>5 DEF M!appliedByVersion
  <2>2. process[p] \in OnFoot /\ process[p] # M!Down /\ OnItsWay(process[p], schema)
    BY <1>2, <2>1
  <2>3. state = known
    <3>1. \A r \in OnFoot : /\ [r EXCEPT !.at = "migrating"] \in OnFoot
                           /\ [r EXCEPT !.at = "migrating"].at = "migrating"
                           /\ [r EXCEPT !.at = "migrating"].release = r.release
                           /\ [r EXCEPT !.at = "migrating"].left = r.left
      BY DEF OnFoot
    <3>2. \A r \in OnFoot : [r EXCEPT !.applied = recorded] =
             [at |-> r.at, release |-> r.release, applied |-> recorded, left |-> r.left]
      BY DEF OnFoot
    <3>. QED
      BY <2>2, <3>1, <3>2, Zenon
  <2>4. known \in OnFoot
    BY <2>2 DEF OnFoot, FilesRight
  <2>5. OnItsWay(known, schema')
    BY <2>1, <2>2 DEF OnItsWay, FilesRight
  <2>. QED
    BY <1>3, <2>1, <2>3, <2>4, <2>5, WalksOn DEF StartsCounted
\* A file less, one that is in the schema by now.
<1>6. ASSUME process[p].at = "migrating", process[p].left # {},
             M!Goes(p, [process[p] EXCEPT !.left = @ \ {M!First(@)}]),
             schema \subseteq schema', M!First(process[p].left) \in schema'
      PROVE  Walks'
  <2> DEFINE file  == M!First(process[p].left)
             state == [at |-> "migrating", release |-> process[p].release,
                       applied |-> process[p].applied, left |-> process[p].left \ {file}]
  <2>1. process[p] \in OnFoot /\ process[p] # M!Down /\ OnItsWay(process[p], schema)
    BY <1>2, <1>6
  <2>2. [process[p] EXCEPT !.left = @ \ {M!First(@)}] = state
    BY <1>6, <2>1 DEF OnFoot
  <2>3. state \in OnFoot
    BY <2>1 DEF OnFoot
  <2>4. OnItsWay(state, schema')
    BY <1>6, <2>1 DEF OnItsWay
  <2>. QED
    BY <1>6, <2>2, <2>3, <2>4, WalksOn
<1>7. ASSUME process[p].at = "migrating", process[p].left # {}
      PROVE  M!First(process[p].left) \in process[p].left /\ process[p].left \subseteq M!Files
  BY <1>2, <1>7, FirstIsThere DEF OnFoot
<1>8. ASSUME M!Skip(p)
      PROVE  SchemaInv'
  <2>1. M!First(process[p].left) \in schema
    BY <1>2, <1>8 DEF M!Skip, M!Applied, OnItsWay
  <2>. QED
    BY <1>3, <1>6, <1>8, <2>1 DEF M!Skip, StartsCounted
<1>9. ASSUME M!Migrate(p)
      PROVE  SchemaInv'
  <2> DEFINE file == M!First(process[p].left)
  <2>1. file \in M!Files
    BY <1>7, <1>9 DEF M!Migrate
  <2>2. /\ file.version \notin M!Versions(recorded)
        /\ recorded' = recorded \cup {file} /\ schema' = schema \cup {file}
    BY <1>9 DEF M!Migrate, M!apply
  <2>3. FilesRight'
    BY <2>1, <2>2 DEF FilesRight, M!Versions
  <2>4. Walks'
    BY <1>6, <1>9, <2>2 DEF M!Migrate
  <2>. QED
    BY <1>9, <2>3, <2>4 DEF M!Migrate, StartsCounted
<1>10. ASSUME M!Serve(p)
       PROVE  SchemaInv'
  <2> DEFINE state == [at |-> "serving", release |-> process[p].release,
                       applied |-> process[p].applied, left |-> process[p].left]
  <2>1. process[p] \in OnFoot /\ process[p] # M!Down /\ OnItsWay(process[p], schema)
    BY <1>2, <1>10 DEF M!Serve
  <2>2. M!Goes(p, state) /\ UNCHANGED <<recorded, schema, mStarts>>
    BY <1>10, <2>1 DEF M!Serve, OnFoot
  <2>3. state \in OnFoot
    BY <2>1 DEF OnFoot
  <2>4. OnItsWay(state, schema')
    BY <1>10, <2>1, <2>2 DEF M!Serve, OnItsWay
  <2>. QED
    BY <1>3, <2>2, <2>3, <2>4, WalksOn DEF StartsCounted
<1>11. ASSUME M!Stop(p)
       PROVE  SchemaInv'
  BY <1>3, <1>11, WalksOn DEF M!Stop, OnItsWay, StartsCounted
<1>. QED
  BY <1>4, <1>5, <1>8, <1>9, <1>10, <1>11

\* A step of another part keeps it.
LEMMA SchemaStays == ASSUME SchemaInv, UNCHANGED M!vars PROVE SchemaInv'
BY DEF M!vars, SchemaInv, FilesRight, Walks, OnItsWay, StartsCounted

\* It gives the property.
LEMMA SchemaInvImplies == ASSUME SchemaInv PROVE M!MigratedOnce
<1>1. M!TypeOK
  BY DEF SchemaInv, FilesRight, Walks, OnItsWay, StartsCounted, M!TypeOK, OnFoot
<1>2. \A p \in Processes : process[p].at = "serving" => process[p].release \subseteq schema
  BY DEF SchemaInv, Walks, OnItsWay, M!Down
<1>. QED
  BY <1>1, <1>2 DEF SchemaInv, FilesRight, M!MigratedOnce

-----------------------------------------------------------------------------
(* The matching of addresses.                                              *)

\* A row of a property: an address of its building, and the key of that address.
RowInPlace(r) ==
  /\ r.building \in Buildings
  /\ r.address \in Addresses[r.building]
  /\ r.key = A!NormalizeAddress(r.address)

\* The keys are those of the addresses as they are now, and an answer not yet
\* written down is one the matcher would still give.
MatchingInv ==
  /\ A!TypeOK
  /\ \A i \in DOMAIN rows : RowInPlace(rows[i])
  /\ asked # A!Nothing /\ asked.read =>
       /\ asked.doc \in Documents
       /\ A!Answer(asked.id, asked.outcome) \in A!MatchProperty(asked.doc.parts)

\* Where nothing is found, one row is, or several are.
LEMMA OnlyOne ==
  ASSUME NEW F, NEW h
  PROVE  /\ F = {} => A!only(F, h) = A!Answer(A!None, "unmatched")
         /\ \A i : F = {i} => A!only(F, h) = A!Answer(i, h)
         /\ \A i, j \in F : i # j => A!only(F, h) = A!Answer(A!None, "ambiguous")
<1>1. F = {} => A!only(F, h) = A!Answer(A!None, "unmatched")
  BY DEF A!only
<1>2. ASSUME NEW i, F = {i}
      PROVE  A!only(F, h) = A!Answer(i, h)
  <2>1. (CHOOSE k \in F : TRUE) = i
    BY <1>2
  <2>2. F # {} /\ i \in F
    BY <1>2
  <2>. QED
    BY <1>2, <2>1, <2>2 DEF A!only
<1>3. ASSUME NEW i \in F, NEW j \in F, i # j
      PROVE  A!only(F, h) = A!Answer(A!None, "ambiguous")
  <2>1. F # {} /\ ~(\E k \in F : F = {k})
    BY <1>3
  <2>. QED
    BY <2>1 DEF A!only
<1>. QED
  BY <1>1, <1>2, <1>3

\* What is hit is one row, or nothing is.
LEMMA OnlyAnswers ==
  ASSUME NEW F, NEW h, h \notin {"unmatched", "ambiguous"}
  PROVE  A!only(F, h).outcome = h => F = {A!only(F, h).id}
<1>1. CASE F = {}
  BY <1>1, OnlyOne DEF A!Answer
<1>2. CASE \E i \in F : F = {i}
  <2>1. PICK i \in F : F = {i}
    BY <1>2
  <2>. QED
    BY <2>1, OnlyOne DEF A!Answer
<1>3. CASE F # {} /\ ~(\E i \in F : F = {i})
  <2>1. PICK i \in F, j \in F : i # j
    BY <1>3
  <2>2. A!only(F, h) = A!Answer(A!None, "ambiguous")
    BY <2>1, OnlyOne
  <2>. QED
    BY <2>2 DEF A!Answer
<1>. QED
  BY <1>1, <1>2, <1>3

\* The first tier, where a document has a key: one row of that key is the answer,
\* several are ambiguous, and an exact answer is the one row of the key.
LEMMA FirstTier ==
  ASSUME NEW d, A!KeyOf(d) # <<>>, NEW x \in A!MatchProperty(d.parts)
  PROVE  LET F == {i \in DOMAIN rows : rows[i].key = A!KeyOf(d)}
         IN  /\ \A i : F = {i} => x = A!Answer(i, "exact")
             /\ \A i, j \in F : i # j => x.outcome = "ambiguous"
             /\ x.outcome = "exact" => F = {x.id}
<1> DEFINE F == {i \in DOMAIN rows : rows[i].key = A!KeyOf(d)}
           street == A!streetKey(A!ParseFreeAddress(d.parts))
           R == {i \in DOMAIN rows : A!streetKey(rows[i].address) = street}
           exact == A!only(F, "exact")
           onStreet == IF street = <<>> THEN exact ELSE A!only(R, "street")
           like == {A!Answer(A!None, "unmatched")}
                     \cup {A!Answer(i, "approximate") : i \in DOMAIN rows}
                     \cup {A!Answer(A!None, "ambiguous") :
                             i \in {j \in DOMAIN rows : DOMAIN rows # {j}}}
<1>1. x \in IF exact.outcome # "unmatched" THEN {exact}
            ELSE IF onStreet.outcome # "unmatched" THEN {onStreet} ELSE like
  BY Zenon DEF A!MatchProperty, A!KeyOf
<1>2. ASSUME NEW y \in like
      PROVE  y.outcome # "exact"
  <2>1. \E i, o : y = A!Answer(i, o) /\ o \in {"unmatched", "approximate", "ambiguous"}
    BY Zenon
  <2>. QED
    BY <2>1 DEF A!Answer
<1>3. A!only(R, "street").outcome # "exact"
  <2>1. CASE R = {}
    BY <2>1, OnlyOne DEF A!Answer
  <2>2. CASE \E i \in R : R = {i}
    <3>1. PICK i \in R : R = {i}
      BY <2>2
    <3>. HIDE DEF R
    <3>. QED
      BY <3>1, OnlyOne DEF A!Answer
  <2>3. CASE R # {} /\ ~(\E i \in R : R = {i})
    <3>1. PICK i \in R, j \in R : i # j
      BY <2>3
    <3>. HIDE DEF R
    <3>. QED
      BY <3>1, OnlyOne DEF A!Answer
  <2>. QED
    BY <2>1, <2>2, <2>3
<1> HIDE DEF F, street, R, like
<1>4. ASSUME NEW i, F = {i}
      PROVE  x = A!Answer(i, "exact")
  <2>1. exact = A!Answer(i, "exact")
    BY <1>4, OnlyOne
  <2>. QED
    BY <1>1, <2>1 DEF A!Answer
<1>5. ASSUME NEW i \in F, NEW j \in F, i # j
      PROVE  x.outcome = "ambiguous"
  <2>1. exact = A!Answer(A!None, "ambiguous")
    BY <1>5, OnlyOne
  <2>. QED
    BY <1>1, <2>1 DEF A!Answer
<1>6. ASSUME x.outcome = "exact"
      PROVE  F = {x.id}
  <2>1. x = exact
    BY <1>1, <1>2, <1>3, <1>6
  <2>. QED
    BY <1>6, <2>1, OnlyAnswers
<1>. QED
  BY <1>4, <1>5, <1>6 DEF F

\* Every answer is one: a row on file or none, and why.
LEMMA AnswersAre ==
  ASSUME NEW parts, NEW x \in A!MatchProperty(parts)
  PROVE  /\ x = A!Answer(x.id, x.outcome)
         /\ x.id \in DOMAIN rows \cup {A!None} /\ x.outcome \in A!Outcomes
<1> DEFINE address == A!ParseFreeAddress(parts)
           key == A!NormalizeAddress(address)
           street == A!streetKey(address)
           exact == A!only({i \in DOMAIN rows : rows[i].key = key}, "exact")
           found == A!only({i \in DOMAIN rows : A!streetKey(rows[i].address) = street}, "street")
           onStreet == IF street = <<>> THEN exact ELSE found
           like == {A!Answer(A!None, "unmatched")}
                     \cup {A!Answer(i, "approximate") : i \in DOMAIN rows}
                     \cup {A!Answer(A!None, "ambiguous") :
                             i \in {j \in DOMAIN rows : DOMAIN rows # {j}}}
<1>1. x \in IF key = <<>> THEN {A!Answer(A!None, "none")}
            ELSE IF exact.outcome # "unmatched" THEN {exact}
            ELSE IF onStreet.outcome # "unmatched" THEN {onStreet} ELSE like
  BY Zenon DEF A!MatchProperty
<1> DEFINE ids == DOMAIN rows \cup {A!None}
<1>2. ASSUME NEW F \in SUBSET DOMAIN rows, NEW h \in A!Outcomes
      PROVE  \E i \in ids, o \in A!Outcomes : A!only(F, h) = A!Answer(i, o)
  <2>1. CASE F = {}
    BY <2>1, OnlyOne DEF A!Outcomes
  <2>2. CASE \E i \in F : F = {i}
    BY <2>2, OnlyOne
  <2>3. CASE F # {} /\ ~(\E i \in F : F = {i})
    <3>1. PICK i \in F, j \in F : i # j
      BY <2>3
    <3>. QED
      BY <3>1, OnlyOne DEF A!Outcomes
  <2>. QED
    BY <2>1, <2>2, <2>3
<1>3. /\ \E i \in ids, o \in A!Outcomes : exact = A!Answer(i, o)
      /\ \E i \in ids, o \in A!Outcomes : found = A!Answer(i, o)
  <2>1. "exact" \in A!Outcomes /\ "street" \in A!Outcomes
    BY DEF A!Outcomes
  <2>. HIDE DEF ids
  <2>. QED
    BY <1>2, <2>1, Zenon
<1>4. \A y \in like : \E i \in ids, o \in A!Outcomes : y = A!Answer(i, o)
  <2>1. {"unmatched", "approximate", "ambiguous", "none"} \subseteq A!Outcomes
    BY DEF A!Outcomes
  <2>. QED
    BY <2>1, Zenon
<1>5. A!None \in ids /\ "none" \in A!Outcomes
  BY DEF A!Outcomes
<1> HIDE DEF address, key, street, exact, found, like, ids
<1>6. \E i \in ids, o \in A!Outcomes : x = A!Answer(i, o)
  BY <1>1, <1>3, <1>4, <1>5
<1>. QED
  BY <1>6 DEF A!Answer, ids

\* Without a key there is no match at all.
LEMMA NoKey ==
  ASSUME NEW d, A!KeyOf(d) = <<>>, NEW x \in A!MatchProperty(d.parts)
  PROVE  x.outcome = "none"
<1>1. A!MatchProperty(d.parts) = {A!Answer(A!None, "none")}
  BY Zenon DEF A!MatchProperty, A!KeyOf
<1>. QED
  BY <1>1 DEF A!Answer

\* It holds of an empty portfolio.
LEMMA MatchingInit == A!Init => MatchingInv
BY DEF A!Init, A!NoRows, A!TypeOK, MatchingInv

\* A row written is in its place, and the others stay where they were.
LEMMA RowsWritten ==
  ASSUME MatchingInv, NEW i \in PropertyIds, NEW b \in Buildings, NEW a \in Addresses[b],
         rows' = A!With(rows, i, A!Row(b, a)), asked = A!Nothing, asked' = asked
  PROVE  MatchingInv'
<1>1. RowInPlace(A!Row(b, a))
  BY DEF RowInPlace, A!Row
<1>2. ASSUME NEW j \in DOMAIN rows'
      PROVE  RowInPlace(rows'[j])
  BY <1>1, <1>2 DEF A!With, MatchingInv
<1>3. DOMAIN rows' \subseteq PropertyIds
  BY DEF A!With, MatchingInv, A!TypeOK
<1>. QED
  BY <1>2, <1>3 DEF MatchingInv, RowInPlace, A!TypeOK

\* Every step of the matching keeps it.
LEMMA MatchingStep == ASSUME MatchingInv, A!Next PROVE MatchingInv'
<1>1. ASSUME NEW b \in Buildings, NEW a \in Addresses[b], A!handleCreateProperty(b, a)
      PROVE  MatchingInv'
  BY <1>1, RowsWritten DEF A!handleCreateProperty
<1>2. ASSUME NEW b \in Buildings, NEW a \in Addresses[b], NEW i \in PropertyIds,
             A!handleUpdateProperty(i, b, a)
      PROVE  MatchingInv'
  BY <1>2, RowsWritten DEF A!handleUpdateProperty
<1>3. ASSUME NEW i \in PropertyIds, A!handleDeleteProperty(i)
      PROVE  MatchingInv'
  BY <1>3 DEF A!handleDeleteProperty, A!Without, MatchingInv, RowInPlace, A!TypeOK
<1>4. ASSUME NEW d \in Documents, A!match(d)
      PROVE  MatchingInv'
  <2>1. PICK x \in A!MatchProperty(d.parts) :
          asked' = [doc |-> d, id |-> x.id, outcome |-> x.outcome, read |-> TRUE]
    BY <1>4 DEF A!match
  <2>2. /\ x = A!Answer(x.id, x.outcome)
        /\ x.id \in DOMAIN rows \cup {A!None} /\ x.outcome \in A!Outcomes
    BY AnswersAre
  <2>3. rows' = rows
    BY <1>4 DEF A!match
  <2>4. A!MatchProperty(d.parts)' = A!MatchProperty(d.parts)
    BY <2>3 DEF A!MatchProperty
  <2>5. asked'.doc = d /\ asked'.id = x.id /\ asked'.outcome = x.outcome
    BY <2>1
  <2>6. A!Answer(asked'.id, asked'.outcome) \in A!MatchProperty(d.parts)
    BY <2>2, <2>5
  <2>7. A!TypeOK'
    BY <2>2, <2>3, <2>5 DEF MatchingInv, A!TypeOK
  <2>. QED
    BY <2>3, <2>4, <2>5, <2>6, <2>7 DEF MatchingInv, RowInPlace, A!MatchProperty
<1>5. ASSUME NEW d \in Documents, A!Unread(d)
      PROVE  MatchingInv'
  BY <1>5 DEF A!Unread, MatchingInv, RowInPlace, A!TypeOK, A!Outcomes
<1>6. ASSUME A!CreateProposal
      PROVE  MatchingInv'
  BY <1>6 DEF A!CreateProposal, MatchingInv, RowInPlace, A!TypeOK
<1>. QED
  BY <1>1, <1>2, <1>3, <1>4, <1>5, <1>6 DEF A!Next

\* A step of another part keeps it.
LEMMA MatchingStays == ASSUME MatchingInv, UNCHANGED A!vars PROVE MatchingInv'
BY DEF A!vars, MatchingInv, RowInPlace, A!MatchProperty, A!TypeOK

\* It gives the property.
LEMMA MatchingInvImplies == ASSUME A!MatchingAssumption, MatchingInv PROVE A!MatchedAsStated
<1> SUFFICES ASSUME asked # A!Nothing, asked.read
             PROVE  LET b == asked.doc.of
                        here == {i \in A!Of(b) : A!Placed(i)}
                    IN  /\ A!Whole(asked.doc) /\ (\E i \in here : here = {i}) =>
                             asked.outcome = "exact" /\ asked.id \in here
                        /\ A!Whole(asked.doc) /\ (\E i, j \in here : i # j) =>
                             asked.outcome = "ambiguous"
                        /\ asked.outcome = "exact" =>
                             /\ A!Whole(asked.doc) => rows[asked.id].building = b
                             /\ ~A!Whole(asked.doc) => ~A!Placed(asked.id)
  BY DEF A!MatchedAsStated, MatchingInv
<1> DEFINE d == asked.doc
           x == A!Answer(asked.id, asked.outcome)
           here == {i \in A!Of(d.of) : A!Placed(i)}
           F == {i \in DOMAIN rows : rows[i].key = A!KeyOf(d)}
<1>1. d \in Documents /\ x \in A!MatchProperty(d.parts)
  BY DEF MatchingInv
<1>2. x.id = asked.id /\ x.outcome = asked.outcome
  BY DEF A!Answer
<1>3. \A i \in DOMAIN rows : /\ rows[i].building \in Buildings
                             /\ rows[i].address \in Addresses[rows[i].building]
                             /\ rows[i].key = A!NormalizeAddress(rows[i].address)
  BY DEF MatchingInv, RowInPlace
<1>4. /\ A!Whole(d) => A!KeyOf(d) # <<>> /\ F = here
      /\ ~A!Whole(d) => \A i \in F : ~A!Placed(i)
  <2>1. \A i \in DOMAIN rows :
          /\ A!Whole(d) =>
               (A!KeyOf(d) = rows[i].key <=> rows[i].building = d.of /\ A!Placed(i))
          /\ ~A!Whole(d) /\ A!Placed(i) => A!KeyOf(d) # rows[i].key
    BY <1>1, <1>3 DEF A!MatchingAssumption, A!FoldTells, A!Placed
  <2>2. A!Whole(d) => A!KeyOf(d) # <<>>
    BY <1>1 DEF A!MatchingAssumption, A!FoldTells
  <2>3. here = {i \in DOMAIN rows : rows[i].building = d.of /\ A!Placed(i)}
    BY DEF A!Of
  <2>. QED
    BY <2>1, <2>2, <2>3
<1> HIDE DEF d, x, here, F
<1>5. CASE A!KeyOf(d) # <<>>
  <2>1. /\ \A i : F = {i} => x = A!Answer(i, "exact")
        /\ \A i, j \in F : i # j => x.outcome = "ambiguous"
        /\ x.outcome = "exact" => F = {x.id}
    BY <1>1, <1>5, FirstTier DEF F
  <2>2. ASSUME A!Whole(d), NEW i \in here, here = {i}
        PROVE  asked.outcome = "exact" /\ asked.id \in here
    <3>1. x = A!Answer(i, "exact")
      BY <1>4, <2>1, <2>2
    <3>. QED
      BY <1>2, <2>2, <3>1 DEF A!Answer
  <2>3. A!Whole(d) /\ (\E i, j \in here : i # j) => asked.outcome = "ambiguous"
    BY <1>2, <1>4, <2>1
  <2>4. ASSUME asked.outcome = "exact"
        PROVE  /\ A!Whole(d) => rows[asked.id].building = d.of
               /\ ~A!Whole(d) => ~A!Placed(asked.id)
    BY <1>2, <1>4, <2>1, <2>4 DEF here, A!Of
  <2>. QED
    BY <2>2, <2>3, <2>4 DEF d, here
<1>6. CASE A!KeyOf(d) = <<>>
  <2>1. asked.outcome = "none" /\ ~A!Whole(d)
    BY <1>1, <1>2, <1>4, <1>6, NoKey
  <2>. QED
    BY <2>1 DEF d
<1>. QED
  BY <1>5, <1>6

-----------------------------------------------------------------------------
(* The parts together.                                                     *)

\* The invariant of signing in holds throughout.
THEOREM SessionsInvariant == Spec => []SessionsInv
<1>1. Init => SessionsInv
  BY ConsoleAssumption, SessionsInit DEF Init
<1>2. SessionsInv /\ [Next]_vars => SessionsInv'
  <2>. SUFFICES ASSUME SessionsInv, [Next]_vars
                PROVE  SessionsInv'
    OBVIOUS
  <2>1. CASE S!Next
    BY <2>1, ConsoleAssumption, SessionsStep
  <2>2. CASE UNCHANGED sVars
    <3>1. UNCHANGED S!vars
      BY <2>2 DEF sVars, S!vars, S!user
    <3>. QED
      BY <3>1, SessionsStay
  <2>. QED
    BY <2>1, <2>2 DEF Next, SStep, BStep, PStep, GStep, MStep, AStep, vars
<1>. QED
  BY <1>1, <1>2, PTL DEF Spec

\* Whoever signs in, signs out, is let in or times out in whatever order, and
\* wherever a reset of the password stops: no two sessions have one token, one that
\* ended is gone, and one that has not is on file for as long as was promised.
THEOREM SessionsHoldHolds == Spec => []SessionsHold
<1>1. SessionsInv => SessionsHold
  BY ConsoleAssumption, SessionsInvImplies DEF SessionsHold
<1>. QED
  BY <1>1, SessionsInvariant, PTL

\* The invariant of the budget holds throughout.
THEOREM BudgetInvariant == Spec => []BudgetInv
<1>1. Init => BudgetInv
  BY ConsoleAssumption, BudgetInit DEF Init
<1>2. BudgetInv /\ [Next]_vars => BudgetInv'
  <2>. SUFFICES ASSUME BudgetInv, [Next]_vars
                PROVE  BudgetInv'
    OBVIOUS
  <2>1. CASE B!Next
    BY <2>1, ConsoleAssumption, BudgetStep
  <2>2. CASE UNCHANGED bVars
    <3>1. UNCHANGED B!vars
      BY <2>2 DEF bVars, B!vars, B!memory
    <3>. QED
      BY <3>1, BudgetStays
  <2>. QED
    BY <2>1, <2>2 DEF Next, SStep, BStep, PStep, GStep, MStep, AStep, vars
<1>. QED
  BY <1>1, <1>2, PTL DEF Spec

\* However the workers interleave and whatever month it is, a month costs at most
\* the limit and two calls of each worker, besides the ones no proposal tells of,
\* and the flag goes with the alert when nobody is between the two.
THEOREM BreakerHoldsHolds == Spec => []BreakerHolds
<1>1. BudgetInv => BreakerHolds
  BY ConsoleAssumption, BudgetInvImplies DEF BreakerHolds
<1>. QED
  BY <1>1, BudgetInvariant, PTL

\* The invariant of the pairing holds throughout.
THEOREM PairingInvariant == Spec => []PairingInv
<1>1. Init => PairingInv
  BY ConsoleAssumption, PairingInit DEF Init
<1>2. PairingInv /\ [Next]_vars => PairingInv'
  <2>. SUFFICES ASSUME PairingInv, [Next]_vars
                PROVE  PairingInv'
    OBVIOUS
  <2>1. CASE P!Next
    BY <2>1, ConsoleAssumption, PairingStep
  <2>2. CASE UNCHANGED pVars
    <3>1. UNCHANGED P!vars
      BY <2>2 DEF pVars, P!vars
    <3>. QED
      BY <3>1, PairingStays
  <2>. QED
    BY <2>1, <2>2 DEF Next, SStep, BStep, PStep, GStep, MStep, AStep, vars
<1>. QED
  BY <1>1, <1>2, PTL DEF Spec

\* However codes are issued, sent, delivered twice and crossed with an unpairing: a
\* code pairs one chat, in its time, and an unpairing ends what was written before it.
THEOREM PairedOnceHolds == Spec => []PairedOnce
<1>1. PairingInv => PairedOnce
  BY ConsoleAssumption, PairingInvImplies DEF PairedOnce
<1>. QED
  BY <1>1, PairingInvariant, PTL

\* The invariant of the mailbox holds throughout.
THEOREM AccountInvariant == Spec => []AccountInv
<1>1. Init => AccountInv
  BY ConsoleAssumption, AccountInit DEF Init
<1>2. AccountInv /\ [Next]_vars => AccountInv'
  <2>. SUFFICES ASSUME AccountInv, [Next]_vars
                PROVE  AccountInv'
    OBVIOUS
  <2>1. CASE G!Next
    BY <2>1, ConsoleAssumption, AccountStep
  <2>2. CASE UNCHANGED gVars
    <3>1. UNCHANGED G!vars
      BY <2>2 DEF gVars, G!vars
    <3>. QED
      BY <3>1, AccountStays
  <2>. QED
    BY <2>1, <2>2 DEF Next, SStep, BStep, PStep, GStep, MStep, AStep, vars
<1>. QED
  BY <1>1, <1>2, PTL DEF Spec

\* Whoever connects, disconnects, rotates or fails at once and wherever the process
\* stops: while nobody made a token under another's hands, a token that works is on
\* the row, in somebody's hands or known to be lost, and the row is of its mailbox.
THEOREM AccountKeepsHolds == Spec => []AccountKeeps
<1>1. AccountInv => AccountKeeps
  BY ConsoleAssumption, AccountInvImplies DEF AccountKeeps
<1>. QED
  BY <1>1, AccountInvariant, PTL

\* The invariant of the schema holds throughout.
THEOREM SchemaInvariant == Spec => []SchemaInv
<1>1. Init => SchemaInv
  BY ConsoleAssumption, SchemaInit DEF Init
<1>2. SchemaInv /\ [Next]_vars => SchemaInv'
  <2>. SUFFICES ASSUME SchemaInv, [Next]_vars
                PROVE  SchemaInv'
    OBVIOUS
  <2>1. CASE M!Next
    BY <2>1, ConsoleAssumption, SchemaStep
  <2>2. CASE UNCHANGED mVars
    <3>1. UNCHANGED M!vars
      BY <2>2 DEF mVars, M!vars
    <3>. QED
      BY <3>1, SchemaStays
  <2>. QED
    BY <2>1, <2>2 DEF Next, SStep, BStep, PStep, GStep, MStep, AStep, vars
<1>. QED
  BY <1>1, <1>2, PTL DEF Spec

\* Whatever releases start at once and wherever one is stopped: what is recorded is
\* what the schema has, no version twice, and who serves has every migration of its
\* release applied as it came with it.
THEOREM MigratedOnceHolds == Spec => []MigratedOnce
<1>1. SchemaInv => MigratedOnce
  BY ConsoleAssumption, SchemaInvImplies DEF MigratedOnce
<1>. QED
  BY <1>1, SchemaInvariant, PTL

\* The invariant of the matching holds throughout.
THEOREM MatchingInvariant == Spec => []MatchingInv
<1>1. Init => MatchingInv
  BY MatchingInit DEF Init
<1>2. MatchingInv /\ [Next]_vars => MatchingInv'
  <2>. SUFFICES ASSUME MatchingInv, [Next]_vars
                PROVE  MatchingInv'
    OBVIOUS
  <2>1. CASE A!Next
    BY <2>1, MatchingStep
  <2>2. CASE UNCHANGED aVars
    <3>1. UNCHANGED A!vars
      BY <2>2 DEF aVars, A!vars
    <3>. QED
      BY <3>1, MatchingStays
  <2>. QED
    BY <2>1, <2>2 DEF Next, SStep, BStep, PStep, GStep, MStep, AStep, vars
<1>. QED
  BY <1>1, <1>2, PTL DEF Spec

\* However a portfolio is edited before a document arrives: one that names the town
\* is matched exactly to the one property that is its building, is ambiguous where
\* two are, and goes to no other building exactly; as long as the fold tells the
\* buildings apart (FoldTells).
THEOREM MatchedAsStatedHolds == Spec => []MatchedAsStated
<1>1. MatchingInv => MatchedAsStated
  BY ConsoleAssumption, MatchingInvImplies DEF MatchedAsStated
<1>. QED
  BY <1>1, MatchingInvariant, PTL
==============================================================================
