------------------------------ MODULE Tenancies ------------------------------
(***************************************************************************)
(* Who may live where: properties, their units, the leases on them and the *)
(* tenants on a lease (internal/httpapi properties.go, units.go, leases.go,*)
(* tenants.go), and the lease a proposal becomes when it is approved       *)
(* (internal/ingest/apply.go).                                             *)
(*                                                                         *)
(* A handler whose work is one write transaction is one step: there is one *)
(* write connection.  Handlers that read on the read pool first and write  *)
(* afterwards are two, with anything in between.  Rents, notes, addresses  *)
(* and contact details are left out: no rule compares them.  Days are      *)
(* numbers; an end_date of NULL is Open.                                   *)
(***************************************************************************)
EXTENDS Integers, FiniteSets, Sequences, Tables

CONSTANTS
  PropertyIds, UnitIds, LeaseIds, TenantIds,   \* bounds: rowids in use
  Labels,    \* unit labels; ImplicitLabel is the one given when none is sent
  ImplicitLabel,
  Names,     \* tenants' names
  LastDay    \* bound: the days dates range over

TenancyAssumption ==
  /\ PropertyIds \subseteq Nat /\ UnitIds \subseteq Nat
  /\ LeaseIds \subseteq Nat /\ TenantIds \subseteq Nat
  /\ ImplicitLabel \in Labels
  /\ LastDay \in Nat \ {0}

Days == 1 .. LastDay
Open == 0
Live == {"pending", "active"}
Statuses == Live \cup {"ended"}   \* ended, or terminated: history either way

Unit   == [property : PropertyIds, label : Labels]
Lease  == [unit : UnitIds, start : Days, end : Days \cup {Open}, status : Statuses]
Idle   == [what |-> "nothing"]
Asking == [what : {"create unit"}, property : PropertyIds]
            \cup [what : {"add tenant"}, lease : LeaseIds]

VARIABLES
  properties,  \* the ids on file
  units,
  leases,
  tenants,     \* id -> name
  onLease,     \* lease_tenants: pairs of lease and tenant
  asking       \* the handler between its read and what follows it

vars == <<properties, units, leases, tenants, onLease, asking>>

TypeOK ==
  /\ properties \subseteq PropertyIds
  /\ DOMAIN units \subseteq UnitIds     /\ \A u \in DOMAIN units : units[u] \in Unit
  /\ DOMAIN leases \subseteq LeaseIds   /\ \A l \in DOMAIN leases : leases[l] \in Lease
  /\ DOMAIN tenants \subseteq TenantIds /\ \A t \in DOMAIN tenants : tenants[t] \in Names
  /\ onLease \subseteq LeaseIds \X TenantIds
  /\ asking \in Asking \cup {Idle}

Init ==
  /\ properties = {} /\ onLease = {}
  /\ units = NoRows /\ leases = NoRows /\ tenants = NoRows
  /\ asking = Idle

-----------------------------------------------------------------------------
(* The queries.                                                            *)

ListUnitsByProperty(p) == {u \in DOMAIN units : units[u].property = p}

CountUnitsByProperty(p) == Cardinality(ListUnitsByProperty(p))

\* UNIQUE (property_id, label), for a unit that is not yet on file or that
\* is u itself.
LabelFree(p, label, u) ==
  \A v \in DOMAIN units \ {u} : units[v] # [property |-> p, label |-> label]

CreateUnit(p, label) ==
  /\ NextId(units) \in UnitIds
  /\ units' = With(units, NextId(units), [property |-> p, label |-> label])

UpdateUnit(u, label) == units' = [units EXCEPT ![u].label = label]

\* ON DELETE CASCADE, from units to leases to the tenants on them.
DeleteLease(ls) ==
  /\ leases'  = Without(leases, ls)
  /\ onLease' = {x \in onLease : x[1] \notin ls}

DeleteUnit(us) ==
  /\ units' = Without(units, us)
  /\ DeleteLease({l \in DOMAIN leases : leases[l].unit \in us})

DeleteProperty(p) ==
  /\ properties' = properties \ {p}
  /\ DeleteUnit(ListUnitsByProperty(p))

CountLongerOverlaps(u, except, start, end) ==   \* mutant: a shared last day is none
  Cardinality({l \in DOMAIN leases \ {except} :
                 /\ leases[l].unit = u
                 /\ leases[l].status \in Live
                 /\ end = Open \/ leases[l].start < end
                 /\ leases[l].end = Open \/ leases[l].end > start})
CountOverlappingLeases(u, except, start, end) ==
  Cardinality({l \in DOMAIN leases \ {except} :
                 /\ leases[l].unit = u
                 /\ leases[l].status \in Live
                 /\ end = Open \/ leases[l].start <= end
                 /\ leases[l].end = Open \/ leases[l].end >= start})

CreateLease(row) ==
  /\ NextId(leases) \in LeaseIds
  /\ leases' = With(leases, NextId(leases), row)

UpdateLease(l, row) == leases' = With(leases, l, row)

AddLeaseTenant(l, t) == onLease' = onLease \cup {<<l, t>>}

Covers(row, day) == row.start <= day /\ (row.end = Open \/ row.end >= day)

\* The leases that make a unit let today.
ListUnitsWithOccupancy(p, today) ==
  {x \in ListUnitsByProperty(p) \X DOMAIN leases :
     /\ leases[x[2]].unit = x[1]
     /\ leases[x[2]].status = "active"
     /\ Covers(leases[x[2]], today)}

\* ORDER BY id LIMIT 1
FindTenantByName(name) ==
  {t \in DOMAIN tenants : tenants[t] = name
       /\ \A o \in DOMAIN tenants : tenants[o] = name => t <= o}

CreateTenant(name) ==
  /\ NextId(tenants) \in TenantIds
  /\ tenants' = With(tenants, NextId(tenants), name)

-----------------------------------------------------------------------------
(* Properties and units.                                                   *)

\* The labels sent with a new property; none sent: one implicit unit.
validateUnits(labels) ==
  /\ labels # << >>
  /\ \A i, j \in DOMAIN labels : i # j => labels[i] # labels[j]

handleCreateProperty(labels) ==
  LET p     == NextId([i \in properties |-> i])
      first == NextId(units)
      made  == first .. first + Len(labels) - 1
  IN  /\ validateUnits(labels)
      /\ p \in PropertyIds /\ made \subseteq UnitIds
      /\ properties' = properties \cup {p}
      /\ units' = [u \in DOMAIN units \cup made |->
                     IF u \in made THEN [property |-> p, label |-> labels[u - first + 1]]
                                   ELSE units[u]]
      /\ UNCHANGED <<leases, tenants, onLease, asking>>

handleDeleteProperty(p) ==
  /\ p \in properties
  /\ DeleteProperty(p)
  /\ UNCHANGED <<tenants, asking>>

\* The property is read on the read pool; then the unit is written.
handleCreateUnit(p) ==
  /\ asking = Idle
  /\ p \in properties
  /\ asking' = [what |-> "create unit", property |-> p]
  /\ UNCHANGED <<properties, units, leases, tenants, onLease>>

UnitCreated(label) ==
  /\ asking.what = "create unit"
  /\ asking' = Idle
  /\ \/ /\ asking.property \in properties
        /\ LabelFree(asking.property, label, 0)
        /\ CreateUnit(asking.property, label)
     \/ /\ \/ asking.property \notin properties
           \/ ~LabelFree(asking.property, label, 0)
        /\ UNCHANGED units
  /\ UNCHANGED <<properties, leases, tenants, onLease>>

handleUpdateUnit(u, label) ==
  /\ u \in DOMAIN units
  /\ LabelFree(units[u].property, label, u)
  /\ UpdateUnit(u, label)
  /\ UNCHANGED <<properties, leases, tenants, onLease, asking>>

DeleteLastUnit(u) ==                 \* mutant: off by one
  /\ u \in DOMAIN units
  /\ CountUnitsByProperty(units[u].property) > 0
  /\ DeleteUnit({u})
  /\ UNCHANGED <<properties, tenants, asking>>
handleDeleteUnit(u) ==
  /\ u \in DOMAIN units
  /\ CountUnitsByProperty(units[u].property) > 1
  /\ DeleteUnit({u})
  /\ UNCHANGED <<properties, tenants, asking>>

-----------------------------------------------------------------------------
(* Leases and the tenants on them.                                         *)

\* A lease that a hand writes does not end before it starts.
validateLease(row) == row.end = Open \/ row.end >= row.start

checkOverlap(row, except) ==
  row.status \in Live =>
    CountOverlappingLeases(row.unit, except, row.start, row.end) = 0

handleCreateLease(p, row) ==
  /\ validateLease(row)
  /\ row.unit \in DOMAIN units
  /\ units[row.unit].property = p
  /\ checkOverlap(row, 0)
  /\ CreateLease(row)
  /\ UNCHANGED <<properties, units, tenants, onLease, asking>>

MoveLease(l, row) ==                 \* mutant: any unit will do
  /\ l \in DOMAIN leases
  /\ validateLease(row)
  /\ row.unit \in DOMAIN units
  /\ checkOverlap(row, l)
  /\ UpdateLease(l, row)
  /\ UNCHANGED <<properties, units, tenants, onLease, asking>>

\* row is the lease on file with the fields of the PATCH written over it.
handleUpdateLease(l, row) ==
  /\ l \in DOMAIN leases
  /\ validateLease(row)
  /\ row.unit \in DOMAIN units
  /\ units[row.unit].property = units[leases[l].unit].property
  /\ checkOverlap(row, l)
  /\ UpdateLease(l, row)
  /\ UNCHANGED <<properties, units, tenants, onLease, asking>>

handleDeleteLease(l) ==
  /\ l \in DOMAIN leases
  /\ DeleteLease({l})
  /\ UNCHANGED <<properties, units, tenants, asking>>

\* The lease is read on the read pool; then the pair is written.
handleAddLeaseTenant(l) ==
  /\ asking = Idle
  /\ l \in DOMAIN leases
  /\ asking' = [what |-> "add tenant", lease |-> l]
  /\ UNCHANGED <<properties, units, leases, tenants, onLease>>

LeaseTenantAdded(t) ==
  /\ asking.what = "add tenant"
  /\ asking' = Idle
  /\ \/ /\ asking.lease \in DOMAIN leases /\ t \in DOMAIN tenants
        /\ AddLeaseTenant(asking.lease, t)
     \/ /\ asking.lease \notin DOMAIN leases \/ t \notin DOMAIN tenants
        /\ UNCHANGED onLease
  /\ UNCHANGED <<properties, units, leases, tenants>>

handleRemoveLeaseTenant(l, t) ==
  /\ <<l, t>> \in onLease
  /\ onLease' = onLease \ {<<l, t>>}
  /\ UNCHANGED <<properties, units, leases, tenants, asking>>

handleCreateTenant(name) ==
  /\ CreateTenant(name)
  /\ UNCHANGED <<properties, units, leases, onLease, asking>>

handleUpdateTenant(t, name) ==
  /\ t \in DOMAIN tenants
  /\ tenants' = [tenants EXCEPT ![t] = name]
  /\ UNCHANGED <<properties, units, leases, onLease, asking>>

\* The leases stay: the tenancy happened.
handleDeleteTenant(t) ==
  /\ t \in DOMAIN tenants
  /\ tenants' = Without(tenants, {t})
  /\ onLease' = {x \in onLease : x[2] # t}
  /\ UNCHANGED <<properties, units, leases, asking>>

-----------------------------------------------------------------------------
(* Approving a lease that came by mail, inside the transaction of Apply.   *)

\* The units a lease calling its unit label may hang off; "" is not a label.
unitFor(p, label) ==
  IF CountUnitsByProperty(p) = 1 THEN ListUnitsByProperty(p)
  ELSE {u \in ListUnitsByProperty(p) : units[u].label = label}

\* The model reads a start, an end that is nowhere compared with it, and a
\* tenant at most.
fileLease(p, label, start, end, who) ==
  \E u \in unitFor(p, label) :
    LET l == NextId(leases)
    IN  /\ CountOverlappingLeases(u, 0, start, end) = 0
        /\ CreateLease([unit |-> u, start |-> start, end |-> end, status |-> "pending"])
        /\ \/ who = {} /\ UNCHANGED <<tenants, onLease>>
           \/ \E name \in who : \E t \in FindTenantByName(name) :
                AddLeaseTenant(l, t) /\ UNCHANGED tenants
           \/ \E name \in who :
                /\ FindTenantByName(name) = {}
                /\ CreateTenant(name)
                /\ AddLeaseTenant(l, NextId(tenants))
        /\ UNCHANGED <<properties, units, asking>>

-----------------------------------------------------------------------------
\* Bound: a new property names at most two units.
LabelLists == {<<ImplicitLabel>>} \cup (Labels \X Labels)

Next ==
  \/ \E labels \in LabelLists : handleCreateProperty(labels)
  \/ \E p \in PropertyIds :
       \/ handleDeleteProperty(p) \/ handleCreateUnit(p)
       \/ \E row \in Lease : handleCreateLease(p, row)
       \/ \E label \in Labels, start \in Days, end \in Days \cup {Open},
             who \in {{}} \cup {{n} : n \in Names} : fileLease(p, label, start, end, who)
  \/ \E label \in Labels : UnitCreated(label)
  \/ \E u \in UnitIds : handleDeleteUnit(u) \/ \E label \in Labels : handleUpdateUnit(u, label)
  \/ \E l \in LeaseIds :
       \/ handleDeleteLease(l) \/ handleAddLeaseTenant(l)
       \/ \E row \in Lease : handleUpdateLease(l, row)
       \/ \E t \in TenantIds : handleRemoveLeaseTenant(l, t)
  \/ \E t \in TenantIds :
       \/ LeaseTenantAdded(t) \/ handleDeleteTenant(t)
       \/ \E name \in Names : handleUpdateTenant(t, name)
  \/ \E name \in Names : handleCreateTenant(name)

Spec == Init /\ [][Next]_vars

-----------------------------------------------------------------------------
\* "Is this unit let" has one answer on every day: a unit is never under two
\* leases, whichever hand or proposal wrote, moved, redated or revived them.
OneLetPerDay ==
  /\ \A p \in properties : \A day \in Days :
       \A x, y \in ListUnitsWithOccupancy(p, day) : x[1] = y[1] => x = y
  /\ \A l, m \in DOMAIN leases : \A day \in Days :
       /\ l # m /\ leases[l].unit = leases[m].unit
       /\ {leases[l].status, leases[m].status} \subseteq Live
       => ~(Covers(leases[l], day) /\ Covers(leases[m], day))

\* Every row is of its type, none points at one that is gone, a property keeps
\* a unit for its leases to hang off, and no property names two units alike.
RegisterHangsTogether ==
  /\ TypeOK
  /\ \A u \in DOMAIN units : units[u].property \in properties
  /\ \A l \in DOMAIN leases : leases[l].unit \in DOMAIN units
  /\ \A x \in onLease : x[1] \in DOMAIN leases /\ x[2] \in DOMAIN tenants
  /\ \A p \in properties : ListUnitsByProperty(p) # {}
  /\ \A u, v \in DOMAIN units : units[u] = units[v] => u = v

\* A lease keeps to its property: no correction moves it to another one's unit.
LeaseKeepsProperty ==
  [][\A l \in DOMAIN leases \cap DOMAIN leases' :
       units'[leases'[l].unit].property = units[leases[l].unit].property]_vars

\* leases.go: a lease cannot end before it starts.
EndsAfterStart == \A l \in DOMAIN leases : validateLease(leases[l])
=============================================================================
