--------------------------- MODULE GmailSyncProofs ---------------------------
(***************************************************************************)
(* Theorems of GmailSync, for any mailboxes, any number of messages,       *)
(* connections and deaths, and any sizes of page and walk.                 *)
(***************************************************************************)
EXTENDS GmailSync, TLAPS

(***************************************************************************)
(* The invariant behind them.  What a sync has walked past is covered: on  *)
(* file, let go of, or among the messages it is still to ingest; and the   *)
(* account it read was connected no later than the row of the same mailbox *)
(* that it will write to, so what it walked covers that row's span too.    *)
(***************************************************************************)

Working == at \in {"next", "insert", "attach", "tell"}
Covered == OnFile \cup Missed

OnDisk ==
  /\ FiledIsOnDisk
  /\ at = "insert" => doing \in archived /\ filed[doing] = "no"
  /\ at = "attach" => filed[doing] = "bare"
  /\ at = "tell" => filed[doing] = "whole"

Granted ==
  /\ row # NoAccount => row.grant <= arrived[row.box]
  /\ at # "idle" => account.grant <= arrived[account.box]
  /\ at # "idle" /\ row # NoAccount /\ account.box = row.box => account.grant <= row.grant

WalkCovered ==
  at # "idle" /\ ~account.mixed =>
    /\ Span(account.box, account.grant, account.history) \subseteq Covered
    /\ at \in {"walk", "profile"} =>
         Span(account.box, account.grant, seen) \subseteq Covered \cup ids
    /\ Working => Span(account.box, account.grant, cursor) \subseteq Covered \cup ids

IInv == TypeOK /\ OnDisk /\ Granted /\ CursorAccounted /\ WalkCovered

\* A span ends where the next one begins.
LEMMA SpanSplits ==
  ASSUME NEW b, NEW x \in Int, NEW y \in Int, NEW z \in Int
  PROVE  Span(b, x, z) \subseteq Span(b, x, y) \cup Span(b, y, z)
BY SyncAssumption DEF Span, Numbers

\* A span shrinks with its bounds.
LEMMA SpanShrinks ==
  ASSUME NEW b, NEW x \in Int, NEW y \in Int, NEW z \in Int
  PROVE  /\ x <= y => Span(b, y, z) \subseteq Span(b, x, z)
         /\ y <= x => Span(b, x, y) = {}
BY SyncAssumption DEF Span, Numbers

\* A span holds messages of its mailbox.
LEMMA SpanMessages ==
  ASSUME NEW b \in Mailboxes, NEW x, NEW y
  PROVE  Span(b, x, y) \subseteq Messages
BY DEF Span, Messages

LEMMA Bounds == /\ MaxMail \in Nat /\ 0 \in Ids /\ Ids \subseteq Int /\ NoHistory \in Int
                /\ PageSize \in Nat /\ MaxPages \in Nat
                /\ 0 \in 0 .. MaxPages /\ 0 \in 0 .. MaxConnects /\ 0 \in 0 .. MaxDeaths
BY SyncAssumption DEF Ids, NoHistory

-----------------------------------------------------------------------------
(* Type correctness.                                                       *)

\* The end of a sync leaves all its variables in their types.
LEMMA EndTypes ==
  ASSUME End
  PROVE  /\ at' = "idle" /\ account' = NoAccount
         /\ began' \in [Mailboxes -> Ids] /\ {seen', cursor'} \subseteq Ids \cup {NoHistory}
         /\ pages' \in 0 .. MaxPages /\ ids' \subseteq Messages
         /\ doing' \in Messages \cup {NoMessage}
BY Bounds DEF End

\* Every step of the walk keeps the types.
LEMMA WalkTypes ==
  ASSUME TypeOK, ListHistory \/ listSince \/ currentHistoryID \/ NoHistoryID
  PROVE  TypeOK'
<1>1. CASE ListHistory
  <2>0. /\ at = "walk" /\ account \in Accounts
        /\ account.box \in Mailboxes /\ arrived[account.box] \in Ids
    BY <1>1 DEF ListHistory, TypeOK, Accounts
  <2>1. seen' \in Ids \cup {NoHistory} /\ cursor' \in Ids \cup {NoHistory}
    BY <1>1, <2>0, Bounds DEF ListHistory, Later, TypeOK, Ids, NoHistory
  <2>2. ids' \subseteq Messages
    BY <1>1, <2>0 DEF ListHistory, TypeOK, Span, Messages
  <2>3. pages' \in 0 .. MaxPages /\ (at' = "walk" => pages' < MaxPages)
    BY <1>1, <2>0, Bounds DEF ListHistory, TypeOK
  <2>4. missed' \in [Causes -> SUBSET Messages] /\ at' \in {"walk", "next"}
    <3>1. CASE UNCHANGED <<at, missed>>
      BY <2>0, <3>1 DEF TypeOK
    <3>2. CASE at' = "next" /\ \E x, y : MissAs("cap", Span(account.box, x, y))
      <4>1. PICK x, y : MissAs("cap", Span(account.box, x, y))
        BY <3>2
      <4>2. Span(account.box, x, y) \subseteq Messages
        BY <2>0, SpanMessages
      <4> QED BY <3>2, <4>1, <4>2 DEF MissAs, TypeOK
    <3> QED BY <1>1, <3>1, <3>2 DEF ListHistory
  <2>5. UNCHANGED <<world, row, store, account, began, doing, connects, deaths>>
    BY <1>1 DEF ListHistory
  <2> QED BY <2>0, <2>1, <2>2, <2>3, <2>4, <2>5 DEF TypeOK, world, store
<1>2. CASE listSince
  <2>0. /\ at = "walk" /\ account \in Accounts
        /\ account.box \in Mailboxes /\ arrived[account.box] \in Ids
    BY <1>2 DEF listSince, TypeOK, Accounts
  <2>1. ids' \subseteq Messages /\ missed' \in [Causes -> SUBSET Messages]
    <3>1. PICK k, low : /\ ids' = Span(account.box, low, arrived[account.box])
                        /\ missed' = [missed EXCEPT
                             !["jump"] = @ \cup (Span(account.box, account.history, k) \ OnFile),
                             !["cap"]  = @ \cup (Span(account.box, k, low) \ OnFile)]
      BY <1>2 DEF listSince
    <3>2. \A x, y : Span(account.box, x, y) \subseteq Messages
      BY <2>0, SpanMessages
    <3> QED BY <3>1, <3>2 DEF TypeOK
  <2>2. /\ at' = "profile" /\ seen' = arrived[account.box]
        /\ UNCHANGED <<world, row, store, account, began, pages, cursor, doing, connects, deaths>>
    BY <1>2 DEF listSince
  <2> QED BY <2>0, <2>1, <2>2 DEF TypeOK, world, store
<1>3. CASE currentHistoryID
  <2>0. /\ at = "profile" /\ account \in Accounts
        /\ account.box \in Mailboxes /\ arrived[account.box] \in Ids
    BY <1>3 DEF currentHistoryID, TypeOK, Accounts
  <2>1. missed' \in [Causes -> SUBSET Messages]
    BY <1>3, <2>0 DEF currentHistoryID, TypeOK, MissAs, Span, Messages
  <2>2. /\ at' = "next" /\ cursor' = arrived[account.box]
        /\ UNCHANGED <<world, row, store, account, began, seen, pages, ids, doing, connects, deaths>>
    BY <1>3 DEF currentHistoryID
  <2> QED BY <2>0, <2>1, <2>2 DEF TypeOK, world, store
<1>4. CASE NoHistoryID
  BY <1>4 DEF NoHistoryID, TypeOK, world, store, past
<1> QED BY <1>1, <1>2, <1>3, <1>4

\* Every step of the filing keeps the types.
LEMMA IngestTypes ==
  ASSUME TypeOK, Ingest
  PROVE  TypeOK'
<1>1. CASE \E m \in ids : Skip(m) \/ Oversize(m) \/ Fetch(m) \/ IngestFails(m)
  <2>1. PICK m \in ids : Skip(m) \/ Oversize(m) \/ Fetch(m) \/ IngestFails(m)
    BY <1>1
  <2>2. m \in Messages /\ account \in Accounts
    BY <2>1 DEF TypeOK, Skip, Oversize, Fetch, IngestFails
  <2>3. missed' \in [Causes -> SUBSET Messages]
    BY <2>1, <2>2 DEF TypeOK, Skip, Oversize, Fetch, IngestFails, MissAs
  <2>4. filed' \in [Messages -> {"no", "oversize", "refused", "bare", "whole"}]
    BY <2>1, <2>2 DEF TypeOK, Skip, Oversize, Fetch, IngestFails, store
  <2> QED BY <2>1, <2>2, <2>3, <2>4
          DEF TypeOK, Skip, Oversize, Fetch, IngestFails, Leave, Keep, world, store, walking
<1>2. CASE Refuse \/ Insert \/ fileAttachments \/ AttachFails \/ onFiled
  <2>1. doing \in Messages /\ doing \in ids /\ account \in Accounts
    BY <1>2 DEF TypeOK, Refuse, Insert, fileAttachments, AttachFails, onFiled
  <2>2. filed' \in [Messages -> {"no", "oversize", "refused", "bare", "whole"}]
    BY <1>2, <2>1 DEF TypeOK, Refuse, Insert, fileAttachments, AttachFails, onFiled, store
  <2>3. queued' \in [Messages -> {"no", "bare", "whole"}]
    BY <1>2, <2>1 DEF TypeOK, Refuse, Insert, fileAttachments, AttachFails, onFiled, store
  <2> QED BY <1>2, <2>1, <2>2, <2>3
          DEF TypeOK, Refuse, Insert, fileAttachments, AttachFails, onFiled,
              Leave, Keep, world, store, walking
<1> QED BY <1>1, <1>2 DEF Ingest

\* What RecordSync stores is an account row.
LEMMA StoredTypes ==
  ASSUME TypeOK, at # "idle"
  PROVE  Stored \in Accounts \cup {NoAccount}
<1>1. CASE cursor = NoHistory \/ row = NoAccount
  BY <1>1 DEF Stored, TypeOK
<1>2. CASE cursor # NoHistory /\ row # NoAccount
  <2>1. row \in Accounts /\ account \in Accounts /\ cursor \in Ids
    BY <1>2 DEF TypeOK
  <2>2. began[row.box] \in Ids /\ account.mixed \in BOOLEAN
    BY <2>1 DEF TypeOK, Accounts
  <2> QED BY <1>2, <2>1, <2>2 DEF Stored, Accounts
<1> QED BY <1>1, <1>2

\* Every step keeps the types.
LEMMA TypeStep ==
  ASSUME TypeOK, [Next]_vars
  PROVE  TypeOK'
<1>1. CASE UNCHANGED vars
  BY <1>1 DEF vars, world, store, sync, walking, past, TypeOK
<1>2. ASSUME NEW b \in Mailboxes, Arrive(b) \/ Forget(b) \/ Connect(b)
      PROVE  TypeOK'
  <2>1. arrived[b] \in Ids
    BY DEF TypeOK
  <2>2. CASE Arrive(b)
    BY <2>1, <2>2, Bounds DEF Arrive, TypeOK, store, sync, walking, past, Ids
  <2>3. CASE Forget(b)
    BY <2>1, <2>3 DEF Forget, TypeOK, store, sync, walking, past
  <2>4. CASE Connect(b)
    <3>1. row' \in Accounts
      BY <2>1, <2>4 DEF Connect, Accounts
    <3>2. connects' \in 0 .. MaxConnects
      BY <2>4, SyncAssumption DEF Connect, TypeOK
    <3> QED BY <2>4, <3>1, <3>2 DEF Connect, TypeOK, world, store, sync, walking
  <2> QED BY <1>2, <2>2, <2>3, <2>4
<1>3. ASSUME NEW m \in Messages, Sweep(m) PROVE TypeOK'
  <2>1. queued' \in [Messages -> {"no", "bare", "whole"}]
    BY <1>3 DEF Sweep, TypeOK
  <2> QED BY <1>3, <2>1 DEF Sweep, TypeOK, world, sync, walking, past
<1>4. CASE Disconnect
  BY <1>4 DEF Disconnect, TypeOK, world, store, sync, walking, past
<1>5. CASE Begin
  <2>1. row \in Accounts /\ row.history \in Ids \cup {NoHistory}
    BY <1>5 DEF Begin, TypeOK, Accounts
  <2> QED BY <1>5, <2>1, SyncAssumption DEF Begin, TypeOK, world, store, past
<1>6. CASE ListHistory \/ listSince \/ currentHistoryID \/ NoHistoryID
  BY <1>6, WalkTypes
<1>7. CASE Ingest
  BY <1>7, IngestTypes
<1>8. CASE WalkFails \/ RecordFails
  BY <1>8, EndTypes DEF WalkFails, RecordFails, TypeOK, world, store, past
<1>9. CASE RecordSync
  <2>1. row' \in Accounts \cup {NoAccount}
    BY <1>9, StoredTypes DEF RecordSync
  <2> QED BY <1>9, <2>1, EndTypes DEF RecordSync, TypeOK, world, store, past
<1>10. CASE Die
  <2>1. deaths' \in 0 .. MaxDeaths
    BY <1>10, SyncAssumption DEF Die, TypeOK
  <2> QED BY <1>10, <2>1, EndTypes DEF Die, TypeOK, world, store
<1> QED BY <1>1, <1>2, <1>3, <1>4, <1>5, <1>6, <1>7, <1>8, <1>9, <1>10 DEF Next, Sync

-----------------------------------------------------------------------------
(* What is filed, and what is covered, stays so.                           *)

\* No step takes a message off file or forgets that it was let go of.
LEMMA CoveredGrows ==
  ASSUME TypeOK, [Next]_vars
  PROVE  OnFile \subseteq OnFile' /\ Covered \subseteq Covered'
<1>1. SUFFICES /\ \A m \in Messages : filed[m] # "no" => filed'[m] # "no"
               /\ \A c \in Causes : missed[c] \subseteq missed'[c]
  BY DEF Covered, OnFile, Missed
<1>2. CASE UNCHANGED <<filed, missed>>
  BY <1>2
<1>3. CASE ListHistory \/ listSince \/ currentHistoryID \/ NoHistoryID
  <2>1. UNCHANGED filed
    BY <1>3 DEF ListHistory, listSince, currentHistoryID, NoHistoryID, store
  <2>2. \A c \in Causes : missed[c] \subseteq missed'[c]
    BY <1>3 DEF TypeOK, ListHistory, listSince, currentHistoryID, NoHistoryID, MissAs, past, Causes
  <2> QED BY <2>1, <2>2
<1>4. CASE Ingest
  <2>1. CASE \E m \in ids : Skip(m) \/ Oversize(m) \/ Fetch(m) \/ IngestFails(m)
    <3>1. PICK m \in ids : Skip(m) \/ Oversize(m) \/ Fetch(m) \/ IngestFails(m)
      BY <2>1
    <3>2. \A n \in Messages : filed[n] # "no" => filed'[n] # "no"
      BY <3>1 DEF TypeOK, Skip, Oversize, Fetch, IngestFails, store
    <3>3. \A c \in Causes : missed[c] \subseteq missed'[c]
      BY <3>1 DEF TypeOK, Skip, Oversize, Fetch, IngestFails, MissAs, Causes
    <3> QED BY <3>2, <3>3
  <2>2. CASE Refuse \/ Insert \/ fileAttachments \/ AttachFails \/ onFiled
    BY <2>2 DEF TypeOK, Refuse, Insert, fileAttachments, AttachFails, onFiled, store, Causes
  <2> QED BY <1>4, <2>1, <2>2 DEF Ingest
<1> QED BY <1>2, <1>3, <1>4 DEF vars, store, past, Next, Arrive, Forget, Connect, Disconnect, Sweep,
           Sync, Begin, WalkFails, RecordSync, RecordFails, Die

-----------------------------------------------------------------------------
(* What the rows say is on disk.                                           *)

\* Every step keeps the register true to what is stored.
LEMMA OnDiskStep ==
  ASSUME TypeOK, OnDisk, [Next]_vars
  PROVE  OnDisk'
<1>1. CASE /\ UNCHANGED store
           /\ UNCHANGED <<at, doing>> \/ at' \in {"idle", "walk", "profile", "next"}
  BY <1>1 DEF OnDisk, FiledIsOnDisk, store
<1>2. CASE \E m \in Messages : Sweep(m)
  <2>1. PICK m \in Messages : Sweep(m)
    BY <1>2
  <2> QED BY <2>1 DEF Sweep, OnDisk, FiledIsOnDisk, TypeOK, sync
<1>3. CASE \E m \in ids : Oversize(m) \/ Fetch(m)
  <2>1. PICK m \in ids : Oversize(m) \/ Fetch(m)
    BY <1>3
  <2>2. m \in Messages /\ filed[m] = "no"
    BY <2>1 DEF Oversize, Fetch, OnFile, TypeOK
  <2> QED BY <2>1, <2>2 DEF Oversize, Fetch, Leave, OnDisk, FiledIsOnDisk, TypeOK
<1>4. CASE Refuse \/ Insert \/ fileAttachments \/ onFiled
  <2>1. doing \in Messages
    BY <1>4 DEF Refuse, Insert, fileAttachments, onFiled, TypeOK
  <2> QED BY <1>4, <2>1 DEF Refuse, Insert, fileAttachments, onFiled, Leave, OnDisk,
             FiledIsOnDisk, TypeOK
<1>5. CASE \E m \in ids : Skip(m) \/ IngestFails(m)
  BY <1>1, <1>5 DEF Skip, IngestFails, Leave
<1>6. CASE ListHistory \/ listSince \/ currentHistoryID \/ NoHistoryID
  BY <1>1, <1>6 DEF ListHistory, listSince, currentHistoryID, NoHistoryID
<1>7. CASE AttachFails \/ Begin \/ WalkFails \/ RecordSync \/ RecordFails \/ Die
  BY <1>1, <1>7 DEF AttachFails, Leave, Begin, WalkFails, RecordSync, RecordFails, Die, End
<1>8. CASE UNCHANGED vars \/ Disconnect \/ \E b \in Mailboxes : Arrive(b) \/ Forget(b) \/ Connect(b)
  BY <1>1, <1>8 DEF vars, Disconnect, Arrive, Forget, Connect, sync
<1> QED BY <1>2, <1>3, <1>4, <1>5, <1>6, <1>7, <1>8 DEF Next, Sync, Ingest

-----------------------------------------------------------------------------
(* When a mailbox was connected.                                           *)

\* Every step keeps it that an account was connected in the past, and the one a
\* sync works for no later than the row of the same mailbox.
LEMMA GrantedStep ==
  ASSUME TypeOK, Granted, [Next]_vars
  PROVE  Granted'
<1>0. /\ row # NoAccount => row \in Accounts /\ row.box \in Mailboxes /\ row.grant \in Int
      /\ at # "idle" => account.box \in Mailboxes /\ account.grant \in Int
      /\ \A b \in Mailboxes : arrived[b] \in Int
  BY Bounds DEF TypeOK, Accounts
<1>1. CASE UNCHANGED <<arrived, row>> /\ (at' = "idle" \/ (at # "idle" /\ UNCHANGED account))
  BY <1>1 DEF Granted
<1>2. CASE \E b \in Mailboxes : Arrive(b)
  <2>1. PICK b \in Mailboxes : Arrive(b)
    BY <1>2
  <2>2. /\ UNCHANGED <<row, at, account>>
        /\ \A c \in Mailboxes : arrived[c] <= arrived'[c] /\ arrived'[c] \in Int
    BY <1>0, <2>1 DEF Arrive, TypeOK, sync, walking
  <2> QED BY <1>0, <2>2 DEF Granted
<1>3. CASE \E b \in Mailboxes : Connect(b)
  <2>1. PICK b \in Mailboxes : Connect(b)
    BY <1>3
  <2>2. /\ UNCHANGED <<arrived, at, account>> /\ row'.box = b /\ row'.grant = arrived[b]
    BY <2>1 DEF Connect, world, sync, walking
  <2> QED BY <1>0, <2>2 DEF Granted
<1>4. CASE Disconnect
  BY <1>4 DEF Disconnect, Granted, world, sync, walking
<1>5. CASE Begin
  BY <1>0, <1>5 DEF Begin, Granted, world
<1>6. CASE RecordSync
  <2>1. row' = row \/ (row # NoAccount /\ row'.box = row.box /\ row'.grant = row.grant)
    BY <1>0, <1>6 DEF RecordSync, Stored, Accounts
  <2>2. row' # NoAccount => row # NoAccount
    BY <1>6 DEF RecordSync, Stored
  <2> QED BY <1>6, <2>1, <2>2 DEF RecordSync, End, Granted, world
<1>7. CASE ListHistory \/ listSince \/ currentHistoryID \/ NoHistoryID
  BY <1>1, <1>7 DEF ListHistory, listSince, currentHistoryID, NoHistoryID, world
<1>8. CASE Ingest
  <2>1. at # "idle" /\ Keep
    BY <1>8 DEF Ingest, Skip, Oversize, Fetch, IngestFails, Refuse, Insert, fileAttachments,
       AttachFails, onFiled
  <2> QED BY <1>1, <2>1 DEF Keep, world, walking
<1>9. CASE WalkFails \/ RecordFails \/ Die
  BY <1>1, <1>9 DEF WalkFails, RecordFails, Die, End, world
<1>10. CASE UNCHANGED vars \/ (\E b \in Mailboxes : Forget(b)) \/ \E m \in Messages : Sweep(m)
  BY <1>0, <1>10 DEF vars, Forget, Sweep, world, sync, walking, Granted
<1> QED BY <1>2, <1>3, <1>4, <1>5, <1>6, <1>7, <1>8, <1>9, <1>10 DEF Next, Sync
-----------------------------------------------------------------------------
(* Nothing is passed over unseen.                                          *)

\* One page of history covers what it walks past; at the end of the walk what
\* lies between it and the cursor is let go of.
LEMMA PageCovers ==
  ASSUME TypeOK, WalkCovered, ListHistory, Covered \subseteq Covered'
  PROVE  WalkCovered'
<1>1. /\ at = "walk" /\ account \in Accounts /\ account' = account
      /\ account.box \in Mailboxes /\ account.grant \in Int /\ account.history \in Int
      /\ arrived[account.box] \in Int /\ seen \in Int /\ cursor \in Int
  BY Bounds DEF ListHistory, TypeOK, Accounts
<1>2. SUFFICES ASSUME ~account.mixed
               PROVE  /\ Span(account.box, account.grant, seen') \subseteq Covered' \cup ids'
                      /\ at' = "next" =>
                           Span(account.box, account.grant, cursor') \subseteq Covered' \cup ids'
  <2>1. at' \in {"walk", "next"}
    BY <1>1 DEF ListHistory
  <2>2. ~account.mixed => Span(account.box, account.grant, account.history) \subseteq Covered'
    BY <1>1 DEF WalkCovered
  <2> QED BY <1>1, <1>2, <2>1, <2>2 DEF WalkCovered, Working
<1>3. /\ seen' \in Int /\ cursor' \in Int
      /\ ids' = ids \cup Span(account.box, seen, seen')
  BY <1>1, Bounds DEF ListHistory, Later
<1>4. Span(account.box, account.grant, seen) \subseteq Covered' \cup ids
  BY <1>1, <1>2 DEF WalkCovered
<1>5. Span(account.box, account.grant, seen') \subseteq Covered' \cup ids'
  BY <1>1, <1>3, <1>4, SpanSplits
<1>6. at' = "next" => Span(account.box, seen', cursor') \subseteq Covered'
  <2>1. at' = "next" => missed' = [missed EXCEPT !["cap"] =
                                   @ \cup (Span(account.box, seen', cursor') \ OnFile)]
    BY <1>1 DEF ListHistory, MissAs
  <2>2. at' = "next" => Span(account.box, seen', cursor') \ OnFile \subseteq missed'["cap"]
    BY <2>1 DEF TypeOK, Causes
  <2>3. missed'["cap"] \subseteq Covered' /\ OnFile \subseteq Covered
    BY DEF Covered, Missed, Causes
  <2> QED BY <2>2, <2>3
<1> QED BY <1>1, <1>3, <1>5, <1>6, SpanSplits

\* A listing by time covers the rest of the mailbox: what it does not list lies
\* before where it begins, or before its newest pages.
LEMMA ListingCovers ==
  ASSUME TypeOK, WalkCovered, listSince, Covered \subseteq Covered'
  PROVE  WalkCovered'
<1>1. /\ at = "walk" /\ at' = "profile" /\ account \in Accounts /\ account' = account
      /\ account.box \in Mailboxes /\ account.grant \in Int /\ account.history \in Int
      /\ account.since \in Int
      /\ arrived[account.box] \in Int /\ seen' = arrived[account.box]
  BY Bounds DEF listSince, TypeOK, Accounts
<1>2. PICK k \in Int, low \in Int :
        /\ ids' = Span(account.box, low, seen')
        /\ missed' = [missed EXCEPT
             !["jump"] = @ \cup (Span(account.box, account.history, k) \ OnFile),
             !["cap"]  = @ \cup (Span(account.box, k, low) \ OnFile)]
  <2>1. PICK k \in (IF account.synced THEN 0 .. account.since ELSE {account.since}) :
          LET low == Later(k, arrived[account.box] - PageSize * MaxPages)
          IN  /\ ids' = Span(account.box, low, arrived[account.box])
              /\ missed' = [missed EXCEPT
                   !["jump"] = @ \cup (Span(account.box, account.history, k) \ OnFile),
                   !["cap"]  = @ \cup (Span(account.box, k, low) \ OnFile)]
    BY DEF listSince
  <2>2. k \in Int /\ PageSize * MaxPages \in Int
    BY <1>1, Bounds
  <2>3. Later(k, arrived[account.box] - PageSize * MaxPages) \in Int
    BY <1>1, <2>2 DEF Later
  <2> QED BY <1>1, <2>1, <2>2, <2>3
<1>3. /\ Span(account.box, account.history, k) \ OnFile \subseteq missed'["jump"]
      /\ Span(account.box, k, low) \ OnFile \subseteq missed'["cap"]
  BY <1>2 DEF TypeOK, Causes
<1>4. /\ Span(account.box, account.history, k) \subseteq Covered'
      /\ Span(account.box, k, low) \subseteq Covered'
  <2>1. /\ missed'["jump"] \subseteq Covered' /\ missed'["cap"] \subseteq Covered'
        /\ OnFile \subseteq Covered
    BY DEF Covered, Missed, Causes
  <2> QED BY <1>3, <2>1
<1>5. ~account.mixed => Span(account.box, account.grant, account.history) \subseteq Covered'
  BY <1>1 DEF WalkCovered
<1>6. ~account.mixed => Span(account.box, account.grant, seen') \subseteq Covered' \cup ids'
  <2>1. Span(account.box, account.grant, seen') \subseteq
          Span(account.box, account.grant, account.history) \cup
          Span(account.box, account.history, k) \cup Span(account.box, k, low) \cup
          Span(account.box, low, seen')
    BY <1>1, <1>2, SpanSplits
  <2> QED BY <1>2, <1>4, <1>5, <2>1
<1> QED BY <1>1, <1>5, <1>6 DEF WalkCovered, Working

\* The profile's cursor covers what was listed, and what came since is let go
\* of; without a profile there is no cursor to cover.
LEMMA ProfileCovers ==
  ASSUME TypeOK, WalkCovered, currentHistoryID \/ NoHistoryID, Covered \subseteq Covered'
  PROVE  WalkCovered'
<1>1. /\ at = "profile" /\ at' = "next" /\ account \in Accounts
      /\ account' = account /\ ids' = ids
      /\ account.box \in Mailboxes /\ account.grant \in Int
      /\ arrived[account.box] \in Int /\ seen \in Int
  BY Bounds DEF currentHistoryID, NoHistoryID, TypeOK, Accounts
<1>2. ~account.mixed =>
        /\ Span(account.box, account.grant, account.history) \subseteq Covered'
        /\ Span(account.box, account.grant, seen) \subseteq Covered' \cup ids
  BY <1>1 DEF WalkCovered
<1>3. CASE currentHistoryID
  <2>1. Span(account.box, seen, cursor') \ OnFile \subseteq missed'["race"]
    BY <1>3 DEF currentHistoryID, MissAs, TypeOK, Causes
  <2>2. missed'["race"] \subseteq Covered' /\ OnFile \subseteq Covered
    BY DEF Covered, Missed, Causes
  <2>3. cursor' \in Int
    BY <1>1, <1>3 DEF currentHistoryID
  <2>4. ~account.mixed => Span(account.box, account.grant, cursor') \subseteq Covered' \cup ids
    BY <1>1, <1>2, <2>1, <2>2, <2>3, SpanSplits
  <2> QED BY <1>1, <1>2, <2>4 DEF WalkCovered, Working
<1>4. CASE NoHistoryID
  <2>1. account.grant \in Ids /\ cursor' = -1
    BY <1>1, <1>4 DEF NoHistoryID, NoHistory, Accounts
  <2>2. Span(account.box, account.grant, cursor') = {}
    BY <2>1, SyncAssumption, SpanShrinks DEF Ids
  <2> QED BY <1>1, <1>2, <2>2 DEF WalkCovered, Working
<1> QED BY <1>3, <1>4

\* What leaves the list of messages to ingest is on file or let go of.
LEMMA IngestCovers ==
  ASSUME TypeOK, OnDisk, WalkCovered, Ingest, Covered \subseteq Covered'
  PROVE  WalkCovered'
<1>1. Working /\ at \in {"next", "insert", "attach", "tell"} /\ at' \in {"next", "insert", "attach", "tell"}
  BY DEF Ingest, Skip, Oversize, Fetch, IngestFails, Refuse, Insert, fileAttachments,
     AttachFails, onFiled, Leave, Working
<1>2. UNCHANGED <<account, seen, cursor>>
  BY DEF Ingest, Skip, Oversize, Fetch, IngestFails, Refuse, Insert, fileAttachments,
     AttachFails, onFiled, Keep, walking
<1>3. ids \subseteq Covered' \cup ids'
  <2>1. CASE \E m \in ids : Skip(m) \/ Oversize(m) \/ Fetch(m) \/ IngestFails(m)
    <3>1. PICK m \in ids : Skip(m) \/ Oversize(m) \/ Fetch(m) \/ IngestFails(m)
      BY <2>1
    <3>2. m \in Messages
      BY DEF TypeOK
    <3>3. CASE Fetch(m)
      BY <3>3 DEF Fetch
    <3>4. CASE Skip(m)
      BY <3>4 DEF Skip, Leave, Covered
    <3>5. CASE Oversize(m)
      <4>1. filed'[m] = "oversize"
        BY <3>2, <3>5 DEF Oversize, TypeOK
      <4>2. m \in OnFile'
        BY <3>2, <4>1 DEF OnFile
      <4> QED BY <3>5, <4>2 DEF Oversize, Leave, Covered
    <3>6. CASE IngestFails(m)
      <4>1. m \in OnFile \/ m \in missed'["error"]
        BY <3>6 DEF IngestFails, MissAs, TypeOK, Causes
      <4>2. m \in Covered'
        BY <4>1 DEF Covered, Missed, Causes
      <4> QED BY <3>6, <4>2 DEF IngestFails, Leave
    <3> QED BY <3>1, <3>3, <3>4, <3>5, <3>6
  <2>2. CASE Refuse \/ Insert \/ fileAttachments \/ AttachFails \/ onFiled
    <3>1. doing \in Messages
      BY <2>2 DEF Refuse, Insert, fileAttachments, AttachFails, onFiled, TypeOK
    <3>2. CASE Refuse
      <4>1. filed'[doing] = "refused"
        BY <3>1, <3>2 DEF Refuse, TypeOK
      <4>2. doing \in OnFile'
        BY <3>1, <4>1 DEF OnFile
      <4> QED BY <3>2, <4>2 DEF Refuse, Leave, Covered
    <3>3. CASE Insert \/ fileAttachments
      BY <3>3 DEF Insert, fileAttachments
    <3>4. CASE AttachFails \/ onFiled
      <4>1. doing \in Covered
        BY <3>1, <3>4 DEF AttachFails, onFiled, OnDisk, Covered, OnFile
      <4> QED BY <3>4, <4>1 DEF AttachFails, onFiled, Leave
    <3> QED BY <2>2, <3>2, <3>3, <3>4
  <2> QED BY <2>1, <2>2 DEF Ingest
<1> QED BY <1>1, <1>2, <1>3 DEF WalkCovered, Working

\* Every step keeps it that the cursor and the walk leave nothing behind.
LEMMA CoverStep ==
  ASSUME IInv, [Next]_vars
  PROVE  CursorAccounted' /\ WalkCovered'
<1>0. Covered \subseteq Covered'
  BY CoveredGrows DEF IInv
<1>1. /\ TypeOK /\ Granted /\ CursorAccounted /\ WalkCovered
  BY DEF IInv
<1>2. ASSUME UNCHANGED row PROVE CursorAccounted'
  BY <1>0, <1>1, <1>2 DEF CursorAccounted, Covered, Own
<1>3. ASSUME at' = "idle" PROVE WalkCovered'
  BY <1>3 DEF WalkCovered
<1>4. ASSUME UNCHANGED sync PROVE WalkCovered'
  BY <1>0, <1>1, <1>4 DEF WalkCovered, Working, sync, walking
<1>5. CASE UNCHANGED vars \/ (\E b \in Mailboxes : Arrive(b) \/ Forget(b)) \/ \E m \in Messages : Sweep(m)
  BY <1>2, <1>4, <1>5 DEF vars, Arrive, Forget, Sweep
<1>6. CASE Disconnect
  BY <1>4, <1>6 DEF Disconnect, CursorAccounted, Own
<1>7. CASE \E b \in Mailboxes : Connect(b)
  <2>1. PICK b \in Mailboxes : Connect(b)
    BY <1>7
  <2>2. arrived[b] \in Int /\ row'.grant = arrived[b] /\ row'.history = arrived[b]
    BY <1>1, <2>1, Bounds DEF Connect, TypeOK
  <2>3. Span(row'.box, row'.grant, row'.history) = {}
    BY <2>2, SpanShrinks
  <2> QED BY <1>4, <2>1, <2>3 DEF Connect, CursorAccounted
<1>8. CASE Begin
  <2>1. /\ at' = "walk" /\ account' = row /\ seen' = row.history /\ UNCHANGED row
        /\ row # NoAccount
    BY <1>8 DEF Begin
  <2>2. ~row.mixed => Span(row.box, row.grant, row.history) \subseteq Covered'
    BY <1>0, <1>1, <2>1 DEF CursorAccounted, Own, Covered
  <2> QED BY <1>2, <2>1, <2>2 DEF WalkCovered, Working
<1>9. CASE ListHistory \/ listSince \/ currentHistoryID \/ NoHistoryID
  <2>1. UNCHANGED row
    BY <1>9 DEF ListHistory, listSince, currentHistoryID, NoHistoryID
  <2> QED BY <1>0, <1>1, <1>2, <1>9, <2>1, PageCovers, ListingCovers, ProfileCovers
<1>10. CASE Ingest
  <2>1. UNCHANGED row
    BY <1>10 DEF Ingest, Skip, Oversize, Fetch, IngestFails, Refuse, Insert, fileAttachments,
       AttachFails, onFiled, Keep
  <2> QED BY <1>0, <1>1, <1>2, <1>10, <2>1, IngestCovers DEF IInv
<1>11. CASE WalkFails \/ RecordFails \/ Die
  BY <1>2, <1>3, <1>11 DEF WalkFails, RecordFails, Die, End
<1>12. CASE RecordSync
  <2>1. at = "next" /\ ids = {} /\ at' = "idle" /\ row' = Stored
    BY <1>12 DEF RecordSync, End
  <2>2. CASE UNCHANGED row
    BY <1>2, <1>3, <2>1, <2>2
  <2>3. CASE row' # row
    <3>1. /\ cursor \in Int /\ row \in Accounts /\ row # NoAccount
          /\ row'.box = row.box /\ row'.grant = row.grant /\ row'.history = cursor
          /\ row'.mixed = (row.mixed \/ account.mixed \/ account.box # row.box)
      BY <1>1, <2>1, <2>3, Bounds DEF Stored, TypeOK, Accounts
    <3>2. account \in Accounts /\ account.grant \in Int /\ row.grant \in Int
      BY <1>1, <2>1, <3>1, Bounds DEF TypeOK, Accounts
    <3>3. ~row'.mixed => Span(row.box, row.grant, cursor) \subseteq Covered
      <4>1. SUFFICES ASSUME ~account.mixed, account.box = row.box
                     PROVE  Span(row.box, row.grant, cursor) \subseteq Covered
        BY <3>1
      <4>2. Span(account.box, account.grant, cursor) \subseteq Covered
        BY <1>1, <2>1, <4>1 DEF WalkCovered, Working
      <4>3. account.grant <= row.grant
        BY <1>1, <2>1, <3>1, <4>1 DEF Granted
      <4>4. \A x, y, z \in Int : x <= y => Span(row.box, y, z) \subseteq Span(row.box, x, z)
        BY SpanShrinks
      <4>5. Span(row.box, row.grant, cursor) \subseteq Span(row.box, account.grant, cursor)
        BY <3>1, <3>2, <4>3, <4>4
      <4> QED BY <4>1, <4>2, <4>5
    <3> QED BY <1>0, <1>3, <2>1, <3>1, <3>3 DEF CursorAccounted, Own, Covered
  <2> QED BY <2>2, <2>3
<1> QED BY <1>5, <1>6, <1>7, <1>8, <1>9, <1>10, <1>11, <1>12 DEF Next, Sync

-----------------------------------------------------------------------------
(* The theorems.                                                           *)

LEMMA InitInv == Init => IInv
<1> SUFFICES ASSUME Init PROVE IInv
  OBVIOUS
<1>1. TypeOK
  BY Bounds DEF Init, TypeOK
<1>2. OnDisk /\ Granted /\ CursorAccounted /\ WalkCovered
  BY DEF Init, OnDisk, FiledIsOnDisk, Granted, CursorAccounted, Own, WalkCovered
<1> QED BY <1>1, <1>2 DEF IInv

\* Every step keeps the invariant.
LEMMA NextInv == IInv /\ [Next]_vars => IInv'
BY TypeStep, OnDiskStep, GrantedStep, CoverStep DEF IInv

\* The invariant holds in every reachable state.
THEOREM InductiveInvariant == Spec => []IInv
BY InitInv, NextInv, PTL DEF Spec

\* Every variable keeps to its type, for any mailboxes and any bounds.
THEOREM TypeCorrect == Spec => []TypeOK
<1>1. IInv => TypeOK
  BY DEF IInv
<1> QED BY <1>1, InductiveInvariant, PTL

\* The cursor never passes a message that is not on file, but for those a sync
\* let go of in one of the four known ways.
THEOREM NothingPassedUnseen == Spec => []CursorAccounted
<1>1. IInv => CursorAccounted
  BY DEF IInv
<1> QED BY <1>1, InductiveInvariant, PTL

\* The register claims no bytes that are not in the archive, and queues nothing
\* as whole that is not.
THEOREM RegisterTrue == Spec => []FiledIsOnDisk
<1>1. IInv => FiledIsOnDisk
  BY DEF IInv, OnDisk
<1> QED BY <1>1, InductiveInvariant, PTL
=============================================================================
