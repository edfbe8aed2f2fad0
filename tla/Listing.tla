------------------------------ MODULE Listing -------------------------------
(***************************************************************************)
(* The registers of the console a page at a time (internal/httpapi,        *)
(* pagination.go and the list handlers): every list is ordered by a key    *)
(* and then by id, a page reads one row more than it shows, and the cursor *)
(* it hands out names the last row shown.  Between two pages rows are      *)
(* added, removed, renamed or redated, and moved in or out of the filter.  *)
(*                                                                         *)
(* One table stands for the one that is being walked.  A key is a name, a  *)
(* date or a time; what a filter compares is one bit of the row.           *)
(***************************************************************************)
EXTENDS Integers, FiniteSets, Tables

CONSTANTS
  Ids,    \* bound: rowids in use
  Keys,   \* the sort keys
  Size    \* the page size

ListingAssumption ==
  /\ Ids \subseteq Nat \ {0} /\ Keys \subseteq Nat
  /\ Size \in Nat \ {0}

Lists == {"properties", "transactions", "documents", "proposals", "messages", "notifications"}
Row   == [key : Keys, in : BOOLEAN]
Start == [id |-> 0]                       \* no cursor
Cursors == [key : Keys, id : Ids]

VARIABLES
  rows,
  list,     \* the list being walked, or "none"
  cursor,   \* where the next page begins
  steady,   \* history: rows in the list since the walk began, and not amended
  shown,    \* history: rows shown on this walk
  again     \* history: rows shown on it twice

walk == <<list, cursor, steady, shown, again>>
vars == <<rows, walk>>

TypeOK ==
  /\ DOMAIN rows \subseteq Ids /\ \A i \in DOMAIN rows : rows[i] \in Row
  /\ list \in Lists \cup {"none", "over"}
  /\ cursor \in Cursors \cup {Start}
  /\ steady \subseteq DOMAIN rows
  /\ again \subseteq shown /\ shown \subseteq Ids

Init ==
  /\ rows = NoRows
  /\ list = "none" /\ cursor = Start /\ steady = {} /\ shown = {} /\ again = {}

-----------------------------------------------------------------------------
(* Order, limit and cursor.                                                *)

At(i) == [key |-> rows[i].key, id |-> i]
Up(a, b)   == a.key < b.key \/ (a.key = b.key /\ a.id < b.id)
Down(a, b) == Up(b, a)

\* The first n of some rows in an order: ORDER BY and LIMIT.
First(n, some, Before(_, _)) ==
  {i \in some : Cardinality({j \in some : Before(At(j), At(i))}) < n}

Last(page, Before(_, _)) == CHOOSE i \in page : \A j \in page : i = j \/ Before(At(j), At(i))

Filtered == {i \in DOMAIN rows : rows[i].in}

encodeCursor(i) == At(i)

-----------------------------------------------------------------------------
(* The queries: the rows of a page.                                        *)

ListPropertiesFirstPage(n) == First(n, DOMAIN rows, Up)
ListPropertiesAfter(after, n) == First(n, {i \in DOMAIN rows : Up(after, At(i))}, Up)

ListTransactionsFirstPage(n) == First(n, Filtered, Down)
ListTransactionsBelow(after, n) ==    \* mutant: the date alone is compared
  First(n, {i \in Filtered : rows[i].key < after.key}, Down)
ListTransactionsAfter(after, n) == First(n, {i \in Filtered : Down(after, At(i))}, Down)

ListDocumentsByPropertyFirstPage(n) == First(n, Filtered, Down)
ListDocumentsByPropertyAfter(after, n) == First(n, {i \in Filtered : Down(after, At(i))}, Down)

ListProposalsFirstPage(n) == First(n, Filtered, Down)
ListProposalsAfter(after, n) == First(n, {i \in Filtered : Down(after, At(i))}, Down)

ListEmailMessagesFirstPage(n) == First(n, DOMAIN rows, Down)
ListEmailMessagesAfter(after, n) == First(n, {i \in DOMAIN rows : Down(after, At(i))}, Down)

ListChannelNotificationsFirstPage(n) == First(n, Filtered, Down)
ListChannelNotificationsAfter(after, n) == First(n, {i \in Filtered : Down(after, At(i))}, Down)

listPage(c, n) ==
  IF c = Start THEN ListPropertiesFirstPage(n) ELSE ListPropertiesAfter(c, n)
ledgerPage(c, n) ==
  IF c = Start THEN ListTransactionsFirstPage(n) ELSE ListTransactionsAfter(c, n)
documentPage(c, n) ==
  IF c = Start THEN ListDocumentsByPropertyFirstPage(n) ELSE ListDocumentsByPropertyAfter(c, n)
proposalPage(c, n) ==
  IF c = Start THEN ListProposalsFirstPage(n) ELSE ListProposalsAfter(c, n)
emailMessagePage(c, n) ==
  IF c = Start THEN ListEmailMessagesFirstPage(n) ELSE ListEmailMessagesAfter(c, n)
notificationPage(c, n) ==
  IF c = Start THEN ListChannelNotificationsFirstPage(n) ELSE ListChannelNotificationsAfter(c, n)

-----------------------------------------------------------------------------
(* A reader walks a list to its end.                                       *)

\* The rows of a list, by its filter.
RowsOf(l) == IF l \in {"properties", "messages"} THEN DOMAIN rows ELSE Filtered

Walk(l) ==
  /\ list \notin Lists
  /\ list' = l /\ cursor' = Start
  /\ steady' = RowsOf(l) /\ shown' = {} /\ again' = {}
  /\ UNCHANGED rows

\* A page that came back with a row too many shows all but that one, and the
\* last it shows is where the next begins.
Show(page, Before(_, _)) ==
  LET seen == First(Size, page, Before)
  IN  /\ shown' = shown \cup seen
      /\ again' = again \cup (seen \cap shown)
      /\ \/ /\ Cardinality(page) > Size
            /\ cursor' = encodeCursor(Last(seen, Before))
            /\ UNCHANGED list
         \/ /\ Cardinality(page) <= Size
            /\ cursor' = Start /\ list' = "over"
      /\ UNCHANGED <<rows, steady>>

handleListProperties == list = "properties" /\ Show(listPage(cursor, Size + 1), Up)
handleListTransactions == list = "transactions" /\ Show(ledgerPage(cursor, Size + 1), Down)
handleListDocuments == list = "documents" /\ Show(documentPage(cursor, Size + 1), Down)
handleListProposals == list = "proposals" /\ Show(proposalPage(cursor, Size + 1), Down)
handleListEmailMessages == list = "messages" /\ Show(emailMessagePage(cursor, Size + 1), Down)
handleListNotifications == list = "notifications" /\ Show(notificationPage(cursor, Size + 1), Down)

-----------------------------------------------------------------------------
(* What others do meanwhile.  Only properties are renamed and only entries *)
(* of the ledger redated; the other keys are times of writing.             *)

Amended(i) == /\ steady' = steady \ {i}
              /\ UNCHANGED <<list, cursor, shown, again>>

Add(row) ==
  /\ NextId(rows) \in Ids
  /\ rows' = With(rows, NextId(rows), row)
  /\ UNCHANGED walk

Remove(i) ==
  /\ i \in DOMAIN rows
  /\ rows' = Without(rows, {i})
  /\ Amended(i)

handleUpdateProperty(i, nickname) ==
  /\ list = "properties"
  /\ i \in DOMAIN rows
  /\ rows' = [rows EXCEPT ![i].key = nickname]
  /\ Amended(i)

\* A PATCH of an entry: its date, its category, or both.
handleUpdateTransaction(i, row) ==
  /\ list = "transactions"
  /\ i \in DOMAIN rows
  /\ rows' = With(rows, i, row)
  /\ Amended(i)

\* A proposal is decided, a document moves to another property.
Refile(i) ==
  /\ list \in {"proposals", "documents"}
  /\ i \in DOMAIN rows
  /\ rows' = [rows EXCEPT ![i].in = ~@]
  /\ Amended(i)

Next ==
  \/ \E l \in Lists : Walk(l)
  \/ handleListProperties \/ handleListTransactions \/ handleListDocuments
  \/ handleListProposals \/ handleListEmailMessages \/ handleListNotifications
  \/ \E row \in Row : Add(row)
  \/ \E i \in Ids :
       \/ Remove(i) \/ Refile(i)
       \/ \E k \in Keys : handleUpdateProperty(i, k)
       \/ \E row \in Row : handleUpdateTransaction(i, row)

Spec == Init /\ [][Next]_vars

-----------------------------------------------------------------------------
\* A row nobody touched is shown once on a walk through its list: not twice,
\* and not never, whatever was added, removed and moved around it.
ListedOnce ==
  /\ TypeOK
  /\ again \cap steady = {}
  /\ list = "over" => steady \subseteq shown
=============================================================================
