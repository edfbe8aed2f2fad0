------------------------------ MODULE GmailSync ------------------------------
(***************************************************************************)
(* internal/gmail, the way in: one account row with a history cursor, a    *)
(* sync that walks the mailbox forward from it, and the filing of each     *)
(* message found (sync.go, token.go), while mail arrives, Gmail forgets    *)
(* old history, the operator connects another mailbox and the process dies.*)
(*                                                                         *)
(* A mailbox's messages are numbered as they arrive, and a history id is   *)
(* the number of the last message it covers; a real mailbox's ids begin    *)
(* above 0, the code's mark for no cursor, which NoHistory stands for.     *)
(* Whether a message is too large, unreadable or unwanted is decided when  *)
(* it is fetched.  A time is the number of messages arrived by then.       *)
(*                                                                         *)
(* Left out: the account's token, watch, status and error text, labels,    *)
(* and the counts a sync reports.                                          *)
(***************************************************************************)
EXTENDS Integers, FiniteSets

CONSTANTS
  Mailboxes,    \* mailboxes the operator may connect
  MaxMail,      \* bound: messages that arrive in each mailbox
  MaxInAll,     \* bound: messages that arrive, in all mailboxes together
  PageSize,     \* messages on a page of history or of a listing
  MaxPages,     \* maxHistoryPages
  MaxConnects,  \* bound: how often the operator connects a mailbox
  MaxDeaths     \* bound: how often the process dies during a sync

ASSUME SyncAssumption ==
  /\ {MaxMail, MaxInAll, MaxConnects, MaxDeaths} \subseteq Nat
  /\ {PageSize, MaxPages} \subseteq Nat \ {0}

Numbers  == 1 .. MaxMail
Ids      == 0 .. MaxMail
NoHistory == -1
Messages == Mailboxes \X Numbers
Causes   == {"error", "cap", "jump", "race"}

\* The account row.  `since` is when the next listing by time must begin at the
\* latest; `grant`, which the row does not have, is when the mailbox was
\* connected, and `mixed` that its cursor was written by a sync of another one.
Accounts  == [box : Mailboxes, history : Ids \cup {NoHistory}, since : Ids,
              synced : BOOLEAN, grant : Ids, mixed : BOOLEAN]
NoAccount == [box |-> "none"]
NoMessage == <<"none", 0>>

VARIABLES
  arrived,    \* by mailbox, how many messages have arrived
  forgotten,  \* by mailbox, up to where Gmail has let its history go
  row,        \* the account row
  filed,      \* what the database holds of each message
  archived,   \* messages whose bytes are in the raw archive
  queued,     \* whether a message was queued for reading, and how it was then
  at,         \* where the sync is
  account,    \* the account it read when it began
  began,      \* when it began
  seen,       \* up to where it has looked
  pages,      \* pages it has walked
  cursor,     \* the cursor it is to store
  ids,        \* messages it found and has still to ingest
  doing,      \* the one it is ingesting
  missed,     \* history: messages a sync let go of, by cause
  connects,   \* history: how often a mailbox was connected
  deaths      \* history: how often the process died

world   == <<arrived, forgotten>>
store   == <<filed, archived, queued>>
walking == <<account, began, seen, pages, cursor>>
sync    == <<at, walking, ids, doing>>
past    == <<missed, connects, deaths>>
vars    == <<world, row, store, sync, past>>

TypeOK ==
  /\ arrived \in [Mailboxes -> Ids]
  /\ forgotten \in [Mailboxes -> Ids]
  /\ row \in Accounts \cup {NoAccount}
  /\ filed \in [Messages -> {"no", "oversize", "refused", "bare", "whole"}]
  /\ archived \subseteq Messages
  /\ queued \in [Messages -> {"no", "bare", "whole"}]
  /\ at \in {"idle", "walk", "profile", "next", "insert", "attach", "tell"}
  /\ account \in Accounts \cup {NoAccount}
  /\ at # "idle" => account \in Accounts
  /\ began \in [Mailboxes -> Ids]
  /\ {seen, cursor} \subseteq Ids \cup {NoHistory}
  /\ pages \in 0 .. MaxPages
  /\ at = "walk" => pages < MaxPages
  /\ ids \subseteq Messages
  /\ doing \in Messages \cup {NoMessage}
  /\ at \in {"insert", "attach", "tell"} => doing \in ids
  /\ missed \in [Causes -> SUBSET Messages]
  /\ connects \in 0 .. MaxConnects
  /\ deaths \in 0 .. MaxDeaths

Init ==
  /\ arrived   = [b \in Mailboxes |-> 0]
  /\ forgotten = [b \in Mailboxes |-> 0]
  /\ row = NoAccount
  /\ filed    = [m \in Messages |-> "no"]
  /\ archived = {}
  /\ queued   = [m \in Messages |-> "no"]
  /\ at = "idle" /\ account = NoAccount
  /\ began = [b \in Mailboxes |-> 0]
  /\ seen = 0 /\ pages = 0 /\ cursor = 0
  /\ ids = {} /\ doing = NoMessage
  /\ missed = [c \in Causes |-> {}]
  /\ connects = 0 /\ deaths = 0

\* The messages of a mailbox after the first number and up to the second.
Span(b, low, high) == {b} \X {n \in Numbers : low < n /\ n <= high}
OnFile == {m \in Messages : filed[m] # "no"}
Missed == UNION {missed[c] : c \in Causes}
Later(n, k) == IF n < k THEN k ELSE n

-----------------------------------------------------------------------------
(* The world, and the operator: Connect and Disconnect run in their own    *)
(* requests, beside a sync.  A revocation that fails changes nothing.      *)

Arrive(b) ==
  /\ arrived[b] < MaxMail
  /\ Cardinality({m \in Messages : m[2] <= arrived[m[1]]}) < MaxInAll
  /\ arrived' = [arrived EXCEPT ![b] = @ + 1]
  /\ UNCHANGED <<forgotten, row, store, sync, past>>

Forget(b) ==
  /\ forgotten[b] < arrived[b]
  /\ forgotten' = [forgotten EXCEPT ![b] = arrived[b]]
  /\ UNCHANGED <<arrived, row, store, sync, past>>

Connect(b) ==
  /\ connects < MaxConnects
  /\ connects' = connects + 1
  /\ row' = [box |-> b, history |-> arrived[b], since |-> arrived[b],
             synced |-> FALSE, grant |-> arrived[b], mixed |-> FALSE]
  /\ UNCHANGED <<world, store, sync, missed, deaths>>

Disconnect ==
  /\ row # NoAccount
  /\ row' = NoAccount
  /\ UNCHANGED <<world, store, sync, past>>

-----------------------------------------------------------------------------
(* The walk.  The mutex lets one sync run at a time.                       *)

Begin ==
  /\ at = "idle" /\ row # NoAccount
  /\ at' = "walk" /\ account' = row /\ began' = arrived
  /\ seen' = row.history /\ pages' = 0 /\ cursor' = row.history
  /\ UNCHANGED <<world, row, store, ids, doing, past>>

\* What a sync knew is gone when it returns, or dies.
End ==
  /\ at' = "idle" /\ account' = NoAccount
  /\ began' = [b \in Mailboxes |-> 0]
  /\ seen' = 0 /\ pages' = 0 /\ cursor' = 0
  /\ ids' = {} /\ doing' = NoMessage

MissAs(cause, S) == missed' = [missed EXCEPT ![cause] = @ \cup (S \ OnFile)]
NoCursor == account.history = NoHistory \/ account.history < forgotten[account.box]

\* One page of history.  The id that comes with it is that of its last record
\* or already the mailbox's: which one, is Gmail's business.
ListHistory ==
  LET b    == account.box
      to   == Later(seen, IF arrived[b] < seen + PageSize THEN arrived[b] ELSE seen + PageSize)
      done == arrived[b] <= to \/ pages + 1 = MaxPages
  IN  /\ at = "walk" /\ ~NoCursor
      /\ ids' = ids \cup Span(b, seen, to)
      /\ seen' = to /\ pages' = pages + 1
      /\ \E h \in {to, arrived[b]} : cursor' = Later(cursor, h)
      /\ IF done THEN at' = "next" /\ MissAs("cap", Span(b, to, cursor'))
                 ELSE UNCHANGED <<at, missed>>
      /\ UNCHANGED <<world, row, store, account, began, doing, connects, deaths>>

\* Without a usable cursor: the newest pages of what arrived after a time,
\* which after a recorded sync lies a day, and so more than a sync, before it.
listSince ==
  LET b   == account.box
      end == arrived[b]
  IN  /\ at = "walk" /\ NoCursor
      /\ \E k \in (IF account.synced THEN 0 .. account.since ELSE {account.since}) :
           LET low == Later(k, end - PageSize * MaxPages)
           IN  /\ ids' = Span(b, low, end)
               /\ missed' = [missed EXCEPT
                    !["jump"] = @ \cup (Span(b, account.history, k) \ OnFile),
                    !["cap"]  = @ \cup (Span(b, k, low) \ OnFile)]
      /\ seen' = end /\ at' = "profile"
      /\ UNCHANGED <<world, row, store, account, began, pages, cursor, doing, connects, deaths>>

currentHistoryID ==
  /\ at = "profile"
  /\ cursor' = arrived[account.box]
  /\ MissAs("race", Span(account.box, seen, arrived[account.box]))
  /\ at' = "next"
  /\ UNCHANGED <<world, row, store, account, began, seen, pages, ids, doing, connects, deaths>>

NoHistoryID ==
  /\ at = "profile"
  /\ cursor' = NoHistory /\ at' = "next"
  /\ UNCHANGED <<world, row, store, account, began, seen, pages, ids, doing, past>>

WalkFails ==
  /\ at = "walk"
  /\ End /\ UNCHANGED <<world, row, store, past>>

-----------------------------------------------------------------------------
(* ingest, for one message after the other.                                *)

Leave(m) == at' = "next" /\ ids' = ids \ {m} /\ doing' = NoMessage
Keep     == UNCHANGED <<world, row, walking, connects, deaths>>

Skip(m) ==
  /\ at = "next" /\ m \in ids /\ m \in OnFile
  /\ Leave(m) /\ Keep /\ UNCHANGED <<store, missed>>

Oversize(m) ==
  /\ at = "next" /\ m \in ids \ OnFile
  /\ filed' = [filed EXCEPT ![m] = "oversize"]
  /\ Leave(m) /\ Keep /\ UNCHANGED <<archived, queued, missed>>

FetchUnarchived(m) ==                \* mutant: the archive is written later
  /\ at = "next" /\ m \in ids \ OnFile
  /\ at' = "insert" /\ doing' = m
  /\ Keep /\ UNCHANGED <<filed, archived, queued, ids, missed>>
Fetch(m) ==
  /\ at = "next" /\ m \in ids \ OnFile
  /\ archived' = archived \cup {m}
  /\ at' = "insert" /\ doing' = m
  /\ Keep /\ UNCHANGED <<filed, queued, ids, missed>>

\* The lookup, the download or the archive fails, or the row is not written.
IngestFails(m) ==
  /\ (at = "next" /\ m \in ids \ OnFile) \/ (at = "insert" /\ m = doing)
  /\ MissAs("error", {m})
  /\ Leave(m) /\ Keep /\ UNCHANGED store

\* Unreadable, or from a sender not on the list.
Refuse ==
  /\ at = "insert"
  /\ filed' = [filed EXCEPT ![doing] = "refused"]
  /\ Leave(doing) /\ Keep /\ UNCHANGED <<archived, queued, missed>>

Insert ==
  /\ at = "insert"
  /\ filed' = [filed EXCEPT ![doing] = "bare"]
  /\ at' = "attach"
  /\ Keep /\ UNCHANGED <<archived, queued, ids, doing, missed>>

fileAttachments ==
  /\ at = "attach"
  /\ filed' = [filed EXCEPT ![doing] = "whole"]
  /\ at' = "tell"
  /\ Keep /\ UNCHANGED <<archived, queued, ids, doing, missed>>

AttachFails ==
  /\ at = "attach"
  /\ Leave(doing) /\ Keep /\ UNCHANGED <<store, missed>>

\* The callback queues the message for reading, or cannot.
onFiled ==
  /\ at = "tell"
  /\ \/ queued' = [queued EXCEPT ![doing] = IF @ = "no" THEN "whole" ELSE @]
     \/ UNCHANGED queued
  /\ Leave(doing) /\ Keep /\ UNCHANGED <<filed, archived, missed>>

\* The reading pipeline's own sweep of messages received and not yet read.
SweepWhole(m) ==                     \* mutant: waits for attachments that never come
  /\ filed[m] = "whole" /\ queued[m] = "no"
  /\ queued' = [queued EXCEPT ![m] = filed[m]]
  /\ UNCHANGED <<world, row, filed, archived, sync, past>>
Sweep(m) ==
  /\ filed[m] \in {"bare", "whole"} /\ queued[m] = "no"
  /\ queued' = [queued EXCEPT ![m] = filed[m]]
  /\ UNCHANGED <<world, row, filed, archived, sync, past>>

-----------------------------------------------------------------------------
(* RecordSync, and the ways a sync ends without it.  The update names the  *)
(* row and not the mailbox.                                                *)

Stored == IF cursor = NoHistory \/ row = NoAccount THEN row
          ELSE [row EXCEPT !.history = cursor, !.since = began[row.box], !.synced = TRUE,
                           !.mixed = @ \/ account.mixed \/ account.box # row.box]

RecordEarly ==                       \* mutant: before the messages are in
  /\ at = "next"
  /\ row' = Stored
  /\ End /\ UNCHANGED <<world, store, past>>
RecordSync ==
  /\ at = "next" /\ ids = {}
  /\ row' = Stored
  /\ End /\ UNCHANGED <<world, store, past>>

RecordFails ==
  /\ at = "next" /\ ids = {}
  /\ End /\ UNCHANGED <<world, row, store, past>>

Die ==
  /\ at # "idle" /\ deaths < MaxDeaths
  /\ deaths' = deaths + 1
  /\ End /\ UNCHANGED <<world, row, store, missed, connects>>

Ingest ==
  \/ \E m \in ids : Skip(m) \/ Oversize(m) \/ Fetch(m) \/ IngestFails(m)
  \/ Refuse \/ Insert \/ fileAttachments \/ AttachFails \/ onFiled

Sync ==
  \/ Begin \/ ListHistory \/ listSince \/ currentHistoryID \/ NoHistoryID \/ WalkFails
  \/ Ingest \/ RecordSync \/ RecordFails

Next ==
  \/ \E b \in Mailboxes : Arrive(b) \/ Forget(b) \/ Connect(b)
  \/ \E m \in Messages : Sweep(m)
  \/ Disconnect \/ Sync \/ Die

Spec == Init /\ [][Next]_vars

\* The poller begins a sync again and again and a sync goes on; history and
\* listings are served and the cursor stored now and then; the sweep runs.
Fairness ==
  /\ WF_vars(Sync)
  /\ \A i \in 0 .. MaxPages - 1 : SF_vars(ListHistory /\ pages = i)
  /\ SF_vars(listSince)
  /\ SF_vars(RecordSync)
  /\ \A m \in Messages : WF_vars(Sweep(m))

FairSpec == Spec /\ Fairness

-----------------------------------------------------------------------------
(* Properties.                                                             *)

Own(r) == r # NoAccount /\ ~r.mixed

\* The cursor leaves nothing behind unseen: every message between the day the
\* mailbox was connected and the cursor is on file, or a sync let go of it in
\* one of the four known ways.  Whatever fails, dies or is connected between
\* the walk and the record of it (Sync, walk, RecordSync).
CursorAccounted ==
  Own(row) => Span(row.box, row.grant, row.history) \subseteq OnFile \cup Missed

\* A row that claims an archived message has one, and nothing is queued for
\* reading as whole whose attachments are not stored (ingest's order of steps).
FiledIsOnDisk ==
  \A m \in Messages :
    /\ filed[m] \in {"refused", "bare", "whole"} => m \in archived
    /\ queued[m] = "whole" => filed[m] = "whole"

\* Mail that reaches the connected mailbox is in the end queued for reading or
\* put on file as refused, unless a sync let go of it in a known way or the
\* operator connected another mailbox (the poller, Sync, OnFiled, the sweep).
Settled(m) ==
  \/ filed[m] \in {"oversize", "refused"} \/ queued[m] # "no" \/ m \in Missed
  \/ ~Own(row) \/ row.box # m[1] \/ m[2] <= row.grant
MailSettles ==
  \A m \in Messages : m[2] <= arrived[m[1]] ~> Settled(m)

-----------------------------------------------------------------------------
(* What the comments promise and the code does not do.                     *)

Passed == IF Own(row) THEN Span(row.box, row.grant, row.history) \ OnFile ELSE {}

\* A message that would not come down keeps the cursor from passing it, so the
\* next run tries it again (the comment in Sync).
FailureIsTriedAgain == Passed \cap missed["error"] = {}

\* After the page cap the next run resumes where this one stopped
\* (maxHistoryPages).
CapResumes == Passed \cap missed["cap"] = {}

\* The listing by time finds all the mail the cursor lost, and its new cursor
\* is not ahead of it (currentHistoryID: "slow rather than wrong").
ResyncIsComplete == Passed \cap missed["race"] = {}

\* A cursor belongs with the account whose cursor it is (docs/DESIGN.md 4.1).
CursorIsOwn == row = NoAccount \/ ~row.mixed

\* What is queued for reading has its attachments (OnFiled).
ReadWhole == \A m \in Messages : queued[m] # "bare"
=============================================================================
