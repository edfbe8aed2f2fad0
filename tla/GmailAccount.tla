---------------------------- MODULE GmailAccount ----------------------------
(***************************************************************************)
(* The connected mailbox (internal/gmail/token.go, the Watcher of          *)
(* handlers.go and the handlers of httpapi/intake.go): one row holding the *)
(* only copy of a refresh token, written by id by whoever connects a       *)
(* mailbox, uses the token, has it rotated, or disconnects.                *)
(*                                                                         *)
(* Google is external: an exchange makes a token, a use may rotate it,     *)
(* which ends the one before, and a revocation ends the one it names.  The *)
(* cursor is GmailSync's; the state parameter, the scopes and the access   *)
(* tokens are left out.                                                    *)
(***************************************************************************)
EXTENDS Naturals, FiniteSets

CONSTANTS
  Actors,      \* requests and workers under way
  Boxes,       \* mailboxes
  MaxTokens,   \* bound: tokens Google makes
  MaxStarts    \* bound: restarts

AccountAssumption == IsFiniteSet(Actors) /\ {MaxTokens, MaxStarts} \subseteq Nat

Tokens == 1 .. MaxTokens
Uses   == {"sync", "renew", "stop"}
None   == [none |-> TRUE]
Idle   == [at |-> "idle"]
Rows   == [box : Boxes, token : Tokens, opens : BOOLEAN, watch : BOOLEAN,
           status : {"connected", "degraded", "revoked"}]
States ==
  {Idle} \cup [at : {"disconnecting", "deleting"}]
    \cup [at : {"connecting", "revoking"}, token : Tokens]
    \cup [at : {"using", "rotated"}, token : Tokens, use : Uses]
    \cup [at : {"served"}, use : Uses]
    \cup [at : {"failed"}, status : {"degraded", "revoked"}, use : Uses]

VARIABLES
  row,       \* gmail_account, or none
  live,      \* Google: the tokens that work
  box,       \* Google: the mailbox of each
  made,      \* how many tokens there were
  actor,
  starts,
  lost,      \* history: tokens known to have been let go of
  crossed    \* history: a token was made or written down while somebody was using the row

vars == <<row, live, box, made, actor, starts, lost, crossed>>

TypeOK ==
  /\ row \in Rows \cup {None}
  /\ live \subseteq 1 .. made /\ made \in 0 .. MaxTokens
  /\ box \in [1 .. made -> Boxes]
  /\ actor \in [Actors -> States]
  /\ starts \in 0 .. MaxStarts
  /\ lost \subseteq 1 .. made /\ crossed \in BOOLEAN

Init ==
  /\ row = None
  /\ live = {} /\ box = [t \in {} |-> 0] /\ made = 0
  /\ actor = [a \in Actors |-> Idle]
  /\ starts = 0 /\ lost = {} /\ crossed = FALSE

Goes(a, state) == actor' = [actor EXCEPT ![a] = state]
Alone(a) == \A b \in Actors \ {a} : actor[b].at \in {"idle", "connecting"}
Crosses(a) == crossed' = (crossed \/ ~Alone(a))
Reads(a) == crossed' = (crossed \/ \E b \in Actors \ {a} : actor[b].at = "rotated")
Update(new) == row' = IF row = None THEN None ELSE new
Opens == row # None /\ row.opens

\* Google's next token, for box b.
Make(b) ==
  /\ made < MaxTokens /\ made' = made + 1
  /\ box' = [t \in 1 .. made + 1 |-> IF t = made + 1 THEN b ELSE box[t]]

-----------------------------------------------------------------------------
(* Connect, from the callback.                                             *)

handleGmailCallback(a, b) ==
  /\ actor[a] = Idle
  /\ Make(b)
  /\ live' = live \cup {made + 1}
  /\ Goes(a, [at |-> "connecting", token |-> made + 1])
  /\ UNCHANGED <<row, starts, lost, crossed>>

\* The profile cannot be read, or the token not sealed or saved.
ConnectFails(a) ==
  /\ actor[a].at = "connecting"
  /\ lost' = lost \cup {actor[a].token}
  /\ Goes(a, Idle)
  /\ UNCHANGED <<row, live, box, made, starts, crossed>>

\* Whatever was connected is overwritten, and not revoked.
SaveGmailAccount(a) ==
  /\ actor[a].at = "connecting"
  /\ row' = [box |-> box[actor[a].token], token |-> actor[a].token, opens |-> TRUE,
             watch |-> FALSE, status |-> "connected"]
  /\ lost' = IF row = None THEN lost ELSE lost \cup {row.token}
  /\ Crosses(a)
  /\ Goes(a, Idle)
  /\ UNCHANGED <<live, box, made, starts>>

-----------------------------------------------------------------------------
(* Using the token.                                                        *)

Client(a, use) ==
  /\ actor[a] = Idle
  /\ Opens
  /\ Goes(a, [at |-> "using", token |-> row.token, use |-> use])
  /\ Reads(a)
  /\ UNCHANGED <<row, live, box, made, starts, lost>>

Serve(a) ==
  LET c == actor[a] IN
  /\ c.at = "using"
  /\ \/ c.token \in live /\ Goes(a, [at |-> "served", use |-> c.use])
     \/ c.token \notin live /\ Goes(a, [at |-> "failed", status |-> "revoked", use |-> c.use])
     \/ Goes(a, [at |-> "failed", status |-> "degraded", use |-> c.use])
  /\ UNCHANGED <<row, live, box, made, starts, lost, crossed>>

\* Token, where Google hands out a new refresh token with the access token.
Rotate(a) ==
  LET c == actor[a] IN
  /\ c.at = "using" /\ c.token \in live
  /\ Make(box[c.token])
  /\ live' = (live \ {c.token}) \cup {made + 1}
  /\ lost' = IF c.token \in lost THEN lost \cup {made + 1} ELSE lost
  /\ Crosses(a)
  /\ Goes(a, [at |-> "rotated", token |-> made + 1, use |-> c.use])
  /\ UNCHANGED <<row, starts>>

\* The request goes on where the write fails.
SetGmailRefreshToken(a) ==
  LET c == actor[a] IN
  /\ c.at = "rotated"
  /\ \/ Update([row EXCEPT !.token = c.token, !.opens = TRUE]) /\ UNCHANGED lost
     \/ lost' = lost \cup {c.token} /\ UNCHANGED row
  /\ Goes(a, [at |-> "served", use |-> c.use])
  /\ UNCHANGED <<live, box, made, starts, crossed>>

SetGmailCursor         == Update([row EXCEPT !.status = "connected"])
SetGmailWatch(expires) == Update([row EXCEPT !.watch = expires])
SetGmailStatus(status) == Update([row EXCEPT !.status = status])

\* RecordSync and RecordWatch; a watch that was stopped is on the way to Disconnect.
Record(a) ==
  /\ actor[a].at = "served"
  /\ IF actor[a].use = "sync" THEN SetGmailCursor ELSE SetGmailWatch(actor[a].use = "renew")
  /\ Goes(a, IF actor[a].use = "stop" THEN [at |-> "disconnecting"] ELSE Idle)
  /\ UNCHANGED <<live, box, made, starts, lost, crossed>>

\* Whatever stopping the watch fails of is logged and no more.
RecordFailure(a) ==
  LET c == actor[a] IN
  /\ c.at = "failed"
  /\ IF c.use = "stop" THEN UNCHANGED row ELSE SetGmailStatus(c.status)
  /\ Goes(a, IF c.use = "stop" THEN [at |-> "disconnecting"] ELSE Idle)
  /\ UNCHANGED <<live, box, made, starts, lost, crossed>>

-----------------------------------------------------------------------------
(* Disconnect, which begins with a client that stops the watch.            *)

\* ... or with none, where there is no row or no key to it.
handleGmailDisconnect(a) ==
  /\ actor[a] = Idle
  /\ ~Opens
  /\ Goes(a, [at |-> "disconnecting"])
  /\ UNCHANGED <<row, live, box, made, starts, lost, crossed>>

\* A token that cannot be read is forgotten without being revoked.
refreshToken(a) ==
  /\ actor[a].at = "disconnecting"
  /\ \/ /\ Opens
        /\ Goes(a, [at |-> "revoking", token |-> row.token])
        /\ UNCHANGED lost
     \/ /\ Goes(a, [at |-> "deleting"])
        /\ lost' = IF row = None THEN lost ELSE lost \cup {row.token}
  /\ Reads(a)
  /\ UNCHANGED <<row, live, box, made, starts>>

RevokeOrNot(a) ==     \* mutant: the row goes whatever Google says
  /\ live' \in {live, live \ {actor[a].token}}
  /\ Goes(a, [at |-> "deleting"])
\* A token Google has forgotten is as good as revoked; an outage is an error.
revoke(a) ==
  \/ live' = live \ {actor[a].token} /\ Goes(a, [at |-> "deleting"])
  \/ live' = live /\ Goes(a, Idle)

Disconnect(a) ==
  /\ actor[a].at = "revoking"
  /\ revoke(a)
  /\ UNCHANGED <<row, box, made, starts, lost, crossed>>

DeleteGmailAccount(a) ==
  /\ actor[a].at = "deleting"
  /\ row' = None
  /\ Goes(a, Idle)
  /\ UNCHANGED <<live, box, made, starts, lost, crossed>>

-----------------------------------------------------------------------------
\* The mailbox's owner withdraws a grant.
Withdraw ==
  /\ \E t \in live : live' = live \ {t}
  /\ UNCHANGED <<row, box, made, actor, starts, lost, crossed>>

Held(a) == IF actor[a].at \in {"connecting", "rotated"} THEN {actor[a].token} ELSE {}

\* With the key it had, or with another, which opens nothing.
Restart ==
  /\ starts < MaxStarts /\ starts' = starts + 1
  /\ \E opens \in BOOLEAN : Update([row EXCEPT !.opens = opens /\ @])
  /\ lost' = lost \cup UNION {Held(a) : a \in Actors}
  /\ actor' = [a \in Actors |-> Idle]
  /\ UNCHANGED <<live, box, made, crossed>>

Next ==
  \/ \E a \in Actors :
       \/ \E b \in Boxes : handleGmailCallback(a, b)
       \/ ConnectFails(a) \/ SaveGmailAccount(a)
       \/ \E use \in Uses : Client(a, use)
       \/ Serve(a) \/ Rotate(a) \/ SetGmailRefreshToken(a) \/ Record(a) \/ RecordFailure(a)
       \/ handleGmailDisconnect(a) \/ refreshToken(a) \/ Disconnect(a) \/ DeleteGmailAccount(a)
  \/ Withdraw \/ Restart

Spec == Init /\ [][Next]_vars

-----------------------------------------------------------------------------
\* Unless the token changed under a request that was using it, what works at
\* Google is on the row, in somebody's hands or known to have been let go of: a
\* disconnection leaves no grant behind that nobody can retire.  The row's token
\* is of the row's mailbox, and a row is called revoked only when it is.
AccountKeeps ==
  /\ TypeOK
  /\ ~crossed =>
       /\ \A t \in live :
            \/ row # None /\ row.token = t
            \/ t \in lost
            \/ \E a \in Actors : t \in Held(a)
       /\ row # None => /\ box[row.token] = row.box
                        /\ row.status = "revoked" => row.token \notin live

\* token.go: to forget the token "after a failed revocation would leave a live
\* grant on the mailbox that nobody can retire".  One that cannot be decrypted is
\* forgotten without a revocation.
NothingForgotten ==
  [][\A a \in Actors : actor[a].at = "deleting" /\ ~crossed /\ actor'[a] = Idle
       => row = None \/ row.token \notin live]_vars
=============================================================================
