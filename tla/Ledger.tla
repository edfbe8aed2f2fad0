------------------------------- MODULE Ledger -------------------------------
(***************************************************************************)
(* What was spent and on what: repairs and their timelines, vendors and    *)
(* the ledger of a property (internal/httpapi repairs.go, vendors.go,      *)
(* transactions.go), and the entry a receipt becomes when its proposal is  *)
(* approved (internal/ingest/apply.go).                                    *)
(*                                                                         *)
(* A create reads its property, or its repair, on the read pool and writes *)
(* in a second step: the row may be gone, or its id given away, by then.   *)
(* A foreign key a caller got wrong refuses the write.  The references to  *)
(* units, leases and documents are cleared like those to a vendor and are  *)
(* left out, with names, notes, categories, estimates, warranties and the  *)
(* flag for review.                                                        *)
(***************************************************************************)
EXTENDS Integers, FiniteSets, Tables

CONSTANTS
  PropertyIds, VendorIds, RepairIds, EventIds, EntryIds,  \* bounds: rowids in use
  Cents,     \* the amounts an entry may carry
  LastDay    \* bound: the days dates range over

LedgerAssumption ==
  /\ PropertyIds \subseteq Nat /\ VendorIds \subseteq Nat \ {0}
  /\ RepairIds \subseteq Nat \ {0} /\ EventIds \subseteq Nat /\ EntryIds \subseteq Nat
  /\ Cents \subseteq Int
  /\ LastDay \in Nat \ {0}

Days == 1 .. LastDay
Null == 0
closedStatuses == {"closed"}              \* completed or cancelled
repairStatuses == closedStatuses \cup {"open"}

Repair == [property : PropertyIds, vendor : VendorIds \cup {Null}, status : repairStatuses,
           opened : Days, closed : Days \cup {Null}]
Entry  == [property : PropertyIds, vendor : VendorIds \cup {Null}, repair : RepairIds \cup {Null},
           cents : Cents, source : {"manual", "email"}]
Idle   == [what |-> "nothing"]
Asking == {Idle} \cup [what : {"repair", "entry"}, property : PropertyIds]
            \cup [what : {"event"}, repair : RepairIds]

VARIABLES
  today,
  properties,  \* the ids on file
  vendors,     \* the ids on file
  repairs,
  events,      \* id -> the repair it is a line of
  entries,     \* the transactions table
  asking       \* the handler between its read and its write

vars == <<today, properties, vendors, repairs, events, entries, asking>>

TypeOK ==
  /\ today \in Days
  /\ properties \subseteq PropertyIds /\ vendors \subseteq VendorIds
  /\ DOMAIN repairs \subseteq RepairIds /\ \A r \in DOMAIN repairs : repairs[r] \in Repair
  /\ DOMAIN events \subseteq EventIds   /\ \A e \in DOMAIN events : events[e] \in RepairIds
  /\ DOMAIN entries \subseteq EntryIds  /\ \A e \in DOMAIN entries : entries[e] \in Entry
  /\ asking \in Asking

Init ==
  /\ today = 1
  /\ properties = {} /\ vendors = {}
  /\ repairs = NoRows /\ events = NoRows /\ entries = NoRows
  /\ asking = Idle

Midnight ==
  /\ today < LastDay
  /\ today' = today + 1
  /\ UNCHANGED <<properties, vendors, repairs, events, entries, asking>>

-----------------------------------------------------------------------------
(* The queries, with what the foreign keys of the schema do to them.       *)

\* ON DELETE CASCADE to the timeline, SET NULL in the ledger.
DeleteRepair(rs) ==
  /\ repairs' = Without(repairs, rs)
  /\ events'  = Without(events, {e \in DOMAIN events : events[e] \in rs})

Forgetting(rs, e) == [e EXCEPT !.repair = IF @ \in rs THEN Null ELSE @]

DeleteProperty(p) ==
  LET gone == {r \in DOMAIN repairs : repairs[r].property = p}
      kept == {e \in DOMAIN entries : entries[e].property # p}
  IN  /\ properties' = properties \ {p}
      /\ DeleteRepair(gone)
      /\ entries' = [e \in kept |-> Forgetting(gone, entries[e])]

PurgeVendor(v) ==                    \* mutant: its entries go with it
  /\ vendors' = vendors \ {v}
  /\ repairs' = [r \in DOMAIN repairs |->
                   [repairs[r] EXCEPT !.vendor = IF @ = v THEN Null ELSE @]]
  /\ entries' = Without(entries, {e \in DOMAIN entries : entries[e].vendor = v})
DeleteVendor(v) ==
  /\ vendors' = vendors \ {v}
  /\ repairs' = [r \in DOMAIN repairs |->
                   [repairs[r] EXCEPT !.vendor = IF @ = v THEN Null ELSE @]]
  /\ entries' = [e \in DOMAIN entries |->
                   [entries[e] EXCEPT !.vendor = IF @ = v THEN Null ELSE @]]

CreateRepair(row) ==
  /\ NextId(repairs) \in RepairIds
  /\ repairs' = With(repairs, NextId(repairs), row)

UpdateRepair(r, row) == repairs' = With(repairs, r, row)

CreateRepairEvent(r) ==
  /\ NextId(events) \in EventIds
  /\ events' = With(events, NextId(events), r)

CreateTransaction(row) ==
  /\ NextId(entries) \in EntryIds
  /\ entries' = With(entries, NextId(entries), row)

UpdateTransaction(e, row) == entries' = With(entries, e, row)

\* The foreign keys of a row: all it names is on file.
RefersOnFile(row) ==
  /\ row.property \in properties
  /\ row.vendor \in vendors \cup {Null}
  /\ "repair" \in DOMAIN row => row.repair \in DOMAIN repairs \cup {Null}

-----------------------------------------------------------------------------
(* Properties and vendors.                                                 *)

CreateProperty ==
  LET p == NextId([i \in properties |-> i])
  IN  /\ p \in PropertyIds
      /\ properties' = properties \cup {p}
      /\ UNCHANGED <<today, vendors, repairs, events, entries, asking>>

handleDeleteProperty(p) ==
  /\ p \in properties
  /\ DeleteProperty(p)
  /\ UNCHANGED <<today, vendors, asking>>

handleCreateVendor ==
  LET v == NextId([i \in vendors |-> i])
  IN  /\ v \in VendorIds
      /\ vendors' = vendors \cup {v}
      /\ UNCHANGED <<today, properties, repairs, events, entries, asking>>

handleDeleteVendor(v) ==
  /\ v \in vendors
  /\ DeleteVendor(v)
  /\ UNCHANGED <<today, properties, events, asking>>

-----------------------------------------------------------------------------
(* Repairs.                                                                *)

\* The closing date of a repair put on file as finished; none for an open one.
reconcileClosing(status, closed) ==
  IF status \notin closedStatuses THEN Null
  ELSE IF closed = Null THEN today ELSE closed

\* The same across an amendment that did not name a date.
reconcileClosingTransition(status, wasClosed, closed) ==
  IF status \notin closedStatuses THEN Null
  ELSE IF wasClosed THEN closed ELSE today

validateRepair(row) == row.closed = Null \/ row.closed >= row.opened

\* The property is read; the repair is validated before that, and written after.
handleCreateRepair(p) ==
  /\ asking = Idle
  /\ p \in properties
  /\ asking' = [what |-> "repair", property |-> p]
  /\ UNCHANGED <<today, properties, vendors, repairs, events, entries>>

RepairWrittenUnread(vendor, status, opened, closed) ==  \* mutant: the date filled in is not looked at
  LET sent == [property |-> asking.property, vendor |-> vendor, status |-> status,
               opened |-> opened, closed |-> closed]
      row  == [sent EXCEPT !.closed = reconcileClosing(status, closed)]
  IN  /\ asking.what = "repair"
      /\ validateRepair(sent)
      /\ asking' = Idle
      /\ \/ RefersOnFile(row) /\ CreateRepair(row)
         \/ ~RefersOnFile(row) /\ UNCHANGED repairs
      /\ UNCHANGED <<today, properties, vendors, events, entries>>

RepairWritten(vendor, status, opened, closed) ==
  LET row == [property |-> asking.property, vendor |-> vendor, status |-> status,
              opened |-> opened, closed |-> reconcileClosing(status, closed)]
  IN  /\ asking.what = "repair"
      /\ validateRepair(row)
      /\ asking' = Idle
      /\ \/ RefersOnFile(row) /\ CreateRepair(row)
         \/ ~RefersOnFile(row) /\ UNCHANGED repairs
      /\ UNCHANGED <<today, properties, vendors, events, entries>>

\* closed is the date named in the PATCH, where it names one.
handleUpdateRepair(r, vendor, status, opened, named, closed) ==
  /\ r \in DOMAIN repairs
  /\ LET old == repairs[r]
         wasClosed == old.status \in closedStatuses
         row == [old EXCEPT
                   !.vendor = vendor, !.status = status, !.opened = opened,
                   !.closed = IF named THEN closed
                              ELSE reconcileClosingTransition(status, wasClosed, @)]
     IN  /\ validateRepair(row)
         /\ RefersOnFile(row)
         /\ UpdateRepair(r, row)
  /\ UNCHANGED <<today, properties, vendors, events, entries, asking>>

handleDeleteRepair(r) ==
  /\ r \in DOMAIN repairs
  /\ DeleteRepair({r})
  /\ entries' = [e \in DOMAIN entries |-> Forgetting({r}, entries[e])]
  /\ UNCHANGED <<today, properties, vendors, asking>>

\* The repair is read; then the line is written to whatever has that id.
handleCreateRepairEvent(r) ==
  /\ asking = Idle
  /\ r \in DOMAIN repairs
  /\ asking' = [what |-> "event", repair |-> r]
  /\ UNCHANGED <<today, properties, vendors, repairs, events, entries>>

EventWritten ==
  /\ asking.what = "event"
  /\ asking' = Idle
  /\ \/ asking.repair \in DOMAIN repairs /\ CreateRepairEvent(asking.repair)
     \/ asking.repair \notin DOMAIN repairs /\ UNCHANGED events
  /\ UNCHANGED <<today, properties, vendors, repairs, entries>>

handleDeleteRepairEvent(e) ==
  /\ e \in DOMAIN events
  /\ events' = Without(events, {e})
  /\ UNCHANGED <<today, properties, vendors, repairs, entries, asking>>

-----------------------------------------------------------------------------
(* The ledger.                                                             *)

handleCreateTransaction(p) ==
  /\ asking = Idle
  /\ p \in properties
  /\ asking' = [what |-> "entry", property |-> p]
  /\ UNCHANGED <<today, properties, vendors, repairs, events, entries>>

EntryWritten(vendor, repair, cents) ==
  LET row == [property |-> asking.property, vendor |-> vendor, repair |-> repair,
              cents |-> cents, source |-> "manual"]
  IN  /\ asking.what = "entry"
      /\ asking' = Idle
      /\ \/ RefersOnFile(row) /\ CreateTransaction(row)
         \/ ~RefersOnFile(row) /\ UNCHANGED entries
      /\ UNCHANGED <<today, properties, vendors, repairs, events>>

\* What a PATCH of an entry may not name stays: its property and its source.
handleUpdateTransaction(e, vendor, repair, cents) ==
  /\ e \in DOMAIN entries
  /\ LET row == [entries[e] EXCEPT !.vendor = vendor, !.repair = repair,
                                   !.cents = cents]
     IN  RefersOnFile(row) /\ UpdateTransaction(e, row)
  /\ UNCHANGED <<today, properties, vendors, repairs, events, asking>>

handleDeleteTransaction(e) ==
  /\ e \in DOMAIN entries
  /\ entries' = Without(entries, {e})
  /\ UNCHANGED <<today, properties, vendors, repairs, events, asking>>

\* Inside the transaction of Apply.  The reading gives a magnitude; only here
\* it gets its sign.  A total of nothing is refused.
fileReceipt(p, total) ==
  /\ p \in properties
  /\ total > 0
  /\ CreateTransaction([property |-> p, vendor |-> Null, repair |-> Null,
                        cents |-> -total, source |-> "email"])
  /\ UNCHANGED <<today, properties, vendors, repairs, events, asking>>

-----------------------------------------------------------------------------
Next ==
  \/ Midnight \/ CreateProperty \/ handleCreateVendor
  \/ \E p \in PropertyIds :
       \/ handleDeleteProperty(p) \/ handleCreateRepair(p) \/ handleCreateTransaction(p)
       \/ \E total \in {-c : c \in Cents} : fileReceipt(p, total)
  \/ \E v \in VendorIds : handleDeleteVendor(v)
  \/ \E vendor \in VendorIds \cup {Null}, status \in repairStatuses, opened \in Days,
        closed \in Days \cup {Null} :
       \/ RepairWritten(vendor, status, opened, closed)
       \/ \E r \in RepairIds, named \in BOOLEAN :
            handleUpdateRepair(r, vendor, status, opened, named, closed)
  \/ \E r \in RepairIds : handleDeleteRepair(r) \/ handleCreateRepairEvent(r)
  \/ EventWritten \/ \E e \in EventIds : handleDeleteRepairEvent(e)
  \/ \E vendor \in VendorIds \cup {Null}, repair \in RepairIds \cup {Null},
        cents \in Cents :
       \/ EntryWritten(vendor, repair, cents)
       \/ \E e \in EntryIds : handleUpdateTransaction(e, vendor, repair, cents)
  \/ \E e \in EntryIds : handleDeleteTransaction(e)

Spec == Init /\ [][Next]_vars

-----------------------------------------------------------------------------
\* Every row is of its type and names only what is on file, however a delete
\* falls between the read of a create and its write; and no repair closed
\* before it opened, whichever of its dates was amended last.
LedgerHangsTogether ==
  /\ TypeOK
  /\ \A r \in DOMAIN repairs : RefersOnFile(repairs[r]) /\ validateRepair(repairs[r])
  /\ \A e \in DOMAIN entries : RefersOnFile(entries[e])
  /\ \A e \in DOMAIN events : events[e] \in DOMAIN repairs

\* The payment happened: what tidying up a vendor or a repair may touch of an
\* entry is the reference to it.  An entry goes only alone or with its
\* property, and how it arrived is not rewritten while it is there.
MoneyStays ==
  [][\A e \in DOMAIN entries :
       /\ e \in DOMAIN entries' => /\ entries'[e].source = entries[e].source
                                  /\ entries'[e].property = entries[e].property
       /\ /\ vendors' # vendors \/ DOMAIN repairs' # DOMAIN repairs
          /\ entries[e].property \in properties'
          => /\ e \in DOMAIN entries'
             /\ entries'[e].cents = entries[e].cents]_vars

\* repairs.go: closed_on and status never tell different stories.
OneStory == \A r \in DOMAIN repairs : (repairs[r].closed # Null) <=> (repairs[r].status \in closedStatuses)
=============================================================================
