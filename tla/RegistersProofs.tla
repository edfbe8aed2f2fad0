-------------------------- MODULE RegistersProofs ---------------------------
(***************************************************************************)
(* Theorems of Registers, for any properties, amounts, dates and bounds:   *)
(* tenancies, ledger, policies and documents.  A reader's walk through a   *)
(* list is in ListingProofs.                                               *)
(***************************************************************************)
EXTENDS Registers, Sequences, Tables, FiniteSetTheorems, WellFoundedInduction, TLAPS

-----------------------------------------------------------------------------
(* Tables.                                                                 *)

\* The ids of a table: numbers from 1, and a last one.
Rowids(S) == S \subseteq Nat \ {0} /\ \E n \in Nat : \A i \in S : i <= n

\* A table that is not empty has a largest id.
LEMMA LargestIsThere ==
  ASSUME NEW S, Rowids(S), S # {}
  PROVE  \E m \in S : \A i \in S : i <= m
<1> DEFINE Less   == {s \in Nat \X Nat : s[1] < s[2]}
           Bounds == {n \in Nat : \A i \in S : i <= n}
<1>1. S \subseteq Nat \ {0} /\ Bounds # {} /\ Bounds \subseteq Nat
  BY DEF Rowids
<1>2. IsWellFoundedOn(Less, Nat)
  BY NatLessThanWellFounded DEF OpToRel
<1>3. PICK m \in Bounds : \A n \in Bounds : ~(<<n, m>> \in Less)
  BY <1>1, <1>2, WFMin
<1>4. \A n \in Bounds : m <= n
  <2>. SUFFICES ASSUME NEW n \in Bounds
                PROVE  m <= n
    OBVIOUS
  <2>1. n \in Nat /\ m \in Nat /\ ~(<<n, m>> \in Less)
    BY <1>1, <1>3
  <2>. QED
    BY <2>1
<1>5. m \in Nat /\ \A i \in S : i <= m
  OBVIOUS
<1>6. CASE m \in S
  BY <1>5, <1>6
<1>7. CASE m \notin S
  <2>1. \A i \in S : i <= m - 1 /\ 0 < i
    BY <1>1, <1>5, <1>7
  <2>2. m - 1 \in Nat
    <3>1. PICK i \in S : TRUE
      OBVIOUS
    <3>. QED
      BY <1>1, <1>5, <2>1, <3>1
  <2>3. m - 1 \in Bounds
    BY <2>1, <2>2
  <2>. QED
    BY <1>4, <1>5, <2>2, <2>3
<1>. QED
  BY <1>6, <1>7

\* A table is finite.
LEMMA RowidsFinite ==
  ASSUME NEW S, Rowids(S)
  PROVE  IsFiniteSet(S)
<1>1. PICK n \in Nat : \A i \in S : i <= n
  BY DEF Rowids
<1>2. S \subseteq 0 .. n
  BY <1>1 DEF Rowids
<1>. QED
  <2>1. IsFiniteSet(0 .. n)
    BY FS_Interval
  <2>. QED
    BY <1>2, <2>1, FS_Subset

\* A table with a row more is a table.
LEMMA RowidsMore ==
  ASSUME NEW S, Rowids(S), NEW i \in Nat \ {0}
  PROVE  Rowids(S \cup {i})
<1>1. PICK n \in Nat : \A j \in S : j <= n
  BY DEF Rowids
<1>2. \A j \in S \cup {i} : j <= n + i
  BY <1>1 DEF Rowids
<1>. QED
  BY <1>2 DEF Rowids

\* A table with rows less is a table.
LEMMA RowidsLess ==
  ASSUME NEW S, Rowids(S), NEW R \in SUBSET S
  PROVE  Rowids(R)
BY DEF Rowids

\* A table that is not empty has a least id.
LEMMA LeastIsThere ==
  ASSUME NEW S, Rowids(S), S # {}
  PROVE  \E m \in S : \A i \in S : m <= i
<1> DEFINE Less == {s \in Nat \X Nat : s[1] < s[2]}
<1>1. S \subseteq Nat
  BY DEF Rowids
<1>2. IsWellFoundedOn(Less, Nat)
  BY NatLessThanWellFounded DEF OpToRel
<1>3. PICK m \in S : \A i \in S : ~(<<i, m>> \in Less)
  BY <1>1, <1>2, WFMin
<1>4. \A i \in S : m <= i
  <2>. SUFFICES ASSUME NEW i \in S
                PROVE  m <= i
    OBVIOUS
  <2>1. i \in Nat /\ m \in Nat /\ ~(<<i, m>> \in Less)
    BY <1>1, <1>3
  <2>. QED
    BY <2>1
<1>. QED
  BY <1>4

\* The id SQLite gives a new row is past every id on file.
LEMMA NextIdIsNew ==
  ASSUME NEW t, Rowids(DOMAIN t)
  PROVE  /\ NextId(t) \in Nat \ {0}
         /\ \A i \in DOMAIN t : i < NextId(t)
<1>1. CASE DOMAIN t = {}
  BY <1>1 DEF NextId
<1>2. CASE DOMAIN t # {}
  <2> DEFINE largest == CHOOSE m \in DOMAIN t : \A i \in DOMAIN t : i <= m
  <2>1. largest \in DOMAIN t /\ \A i \in DOMAIN t : i <= largest
    BY <1>2, LargestIsThere
  <2>2. NextId(t) = 1 + largest
    BY <1>2 DEF NextId
  <2> HIDE DEF largest
  <2>. QED
    BY <2>1, <2>2 DEF Rowids
<1>. QED
  BY <1>1, <1>2

\* The ids of a table, within the bound on them.
OnFile(S, bound) == Rowids(S) /\ S \subseteq bound

-----------------------------------------------------------------------------
(* Tenancies.                                                              *)

\* The id of a new row is past every id on file.
LEMMA TNextId ==
  ASSUME NEW t, Rowids(DOMAIN t)
  PROVE  T!NextId(t) \in Nat \ {0} /\ \A i \in DOMAIN t : i < T!NextId(t)
BY NextIdIsNew DEF NextId, T!NextId

\* The module's Cardinality is the one the library's theorems are about.
LEMMA TCardinality ==
  ASSUME NEW S
  PROVE  T!Cardinality(S) = Cardinality(S)
BY DEF T!Cardinality, Cardinality

\* Properties and units: each property keeps a unit, no label twice on one.
UnitsHang(ps, us) ==
  /\ Rowids(ps) /\ ps \subseteq PropertyIds
  /\ Rowids(DOMAIN us) /\ DOMAIN us \subseteq UnitIds
  /\ \A u \in DOMAIN us : us[u] \in T!Unit /\ us[u].property \in ps
  /\ \A p \in ps : \E u \in DOMAIN us : us[u].property = p
  /\ \A u, v \in DOMAIN us : us[u] = us[v] => u = v

\* Two rows that never cover one day of one unit, as far as they are live.
Apart(a, b) ==
  /\ a.unit = b.unit /\ a.status \in T!Live /\ b.status \in T!Live
  => \A day \in T!Days : ~(T!Covers(a, day) /\ T!Covers(b, day))

\* Leases are of units that are on file, and apart.
LeasesHang(us, ls) ==
  /\ Rowids(DOMAIN ls) /\ DOMAIN ls \subseteq LeaseIds
  /\ \A l \in DOMAIN ls : ls[l] \in T!Lease /\ ls[l].unit \in DOMAIN us
  /\ \A l, m \in DOMAIN ls : l # m => Apart(ls[l], ls[m])

\* Tenants are of their type.
TenantsHang(ts) ==
  /\ Rowids(DOMAIN ts) /\ DOMAIN ts \subseteq TenantIds
  /\ \A t \in DOMAIN ts : ts[t] \in Names

\* A tenant is on a lease only while both are on file.
PairsHang(ls, ts, pairs) == pairs \subseteq (DOMAIN ls) \X (DOMAIN ts)

\* The inductive invariant of the tenancies.
TenanciesInv ==
  /\ UnitsHang(tProperties, units)
  /\ LeasesHang(units, leases)
  /\ TenantsHang(tenants)
  /\ PairsHang(leases, tenants, onLease)
  /\ tAsking \in T!Asking \cup {T!Idle}

\* What a step may not do to a lease: move it to another property's unit.
LeasesKeep ==
  \A l \in DOMAIN leases \cap DOMAIN leases' :
    units'[leases'[l].unit].property = units[leases[l].unit].property

\* Nothing is on file at first.
LEMMA TenanciesInit == T!Init => TenanciesInv
BY DEF T!Init, T!NoRows, TenanciesInv, UnitsHang, LeasesHang, TenantsHang, PairsHang, Rowids

\* What hangs together as the invariant says has the two properties.
LEMMA TenanciesInvImplies ==
  ASSUME TenanciesInv
  PROVE  RegisterHangsTogether /\ OneLetPerDay
<1>1. RegisterHangsTogether
  <2>1. T!TypeOK
    BY DEF TenanciesInv, UnitsHang, LeasesHang, TenantsHang, PairsHang, T!TypeOK
  <2>2. \A p \in tProperties : T!ListUnitsByProperty(p) # {}
    BY DEF TenanciesInv, UnitsHang, T!ListUnitsByProperty
  <2>3. \A x \in onLease : x[1] \in DOMAIN leases /\ x[2] \in DOMAIN tenants
    BY DEF TenanciesInv, PairsHang
  <2>. QED
    BY <2>1, <2>2, <2>3 DEF TenanciesInv, UnitsHang, LeasesHang, RegisterHangsTogether, T!RegisterHangsTogether
<1>2. \A l, m \in DOMAIN leases : \A day \in T!Days :
        /\ l # m /\ leases[l].unit = leases[m].unit
        /\ {leases[l].status, leases[m].status} \subseteq T!Live
        => ~(T!Covers(leases[l], day) /\ T!Covers(leases[m], day))
  BY DEF TenanciesInv, LeasesHang, Apart
<1>3. \A p \in tProperties : \A day \in T!Days :
        \A x, y \in T!ListUnitsWithOccupancy(p, day) : x[1] = y[1] => x = y
  <2>. SUFFICES ASSUME NEW p \in tProperties, NEW day \in T!Days,
                       NEW x \in T!ListUnitsWithOccupancy(p, day),
                       NEW y \in T!ListUnitsWithOccupancy(p, day), x[1] = y[1]
                PROVE  x = y
    OBVIOUS
  <2>1. x[2] \in DOMAIN leases /\ y[2] \in DOMAIN leases
    BY DEF T!ListUnitsWithOccupancy
  <2>2. x[2] = y[2]
    BY <1>2, <2>1 DEF T!ListUnitsWithOccupancy, T!Live
  <2>. QED
    BY <2>2 DEF T!ListUnitsWithOccupancy
<1>. QED
  BY <1>1, <1>2, <1>3 DEF OneLetPerDay, T!OneLetPerDay

\* Rows that go, with all that hangs off them.
LEMMA UnitsDeleted ==
  ASSUME TenanciesInv, NEW us \in SUBSET DOMAIN units, T!DeleteUnit(us)
  PROVE  /\ Rowids(DOMAIN units') /\ DOMAIN units' = DOMAIN units \ us
         /\ \A u \in DOMAIN units' : units'[u] = units[u]
         /\ LeasesHang(units', leases')
         /\ PairsHang(leases', tenants, onLease')
         /\ DOMAIN leases' \subseteq DOMAIN leases
         /\ \A l \in DOMAIN leases' : leases'[l] = leases[l]
<1> DEFINE ls == {l \in DOMAIN leases : leases[l].unit \in us}
<1>1. /\ DOMAIN units' = DOMAIN units \ us
      /\ \A u \in DOMAIN units' : units'[u] = units[u]
      /\ DOMAIN leases' = DOMAIN leases \ ls
      /\ \A l \in DOMAIN leases' : leases'[l] = leases[l]
      /\ onLease' = {x \in onLease : x[1] \notin ls}
  BY DEF T!Without, T!DeleteUnit, T!DeleteLease
<1>2. Rowids(DOMAIN units') /\ Rowids(DOMAIN leases')
  BY <1>1, RowidsLess DEF TenanciesInv, UnitsHang, LeasesHang
<1>3. \A l \in DOMAIN leases' : leases'[l].unit \in DOMAIN units'
  BY <1>1 DEF TenanciesInv, LeasesHang
<1>4. LeasesHang(units', leases')
  BY <1>1, <1>2, <1>3 DEF TenanciesInv, LeasesHang
<1>5. PairsHang(leases', tenants, onLease')
  <2>. SUFFICES ASSUME NEW x \in onLease, x[1] \notin ls
                PROVE  x \in (DOMAIN leases') \X (DOMAIN tenants)
    BY <1>1 DEF PairsHang
  <2>. QED
    BY <1>1 DEF TenanciesInv, PairsHang
<1>. QED
  BY <1>1, <1>2, <1>4, <1>5

\* A lease that is written where nothing overlaps it.
LEMMA LeaseWritten ==
  ASSUME TenanciesInv, NEW l \in LeaseIds, l \in Nat \ {0}, NEW row \in T!Lease, row.unit \in DOMAIN units,
         NEW except, DOMAIN leases \ {except} = DOMAIN leases \ {l},
         row.status \in T!Live => T!CountOverlappingLeases(row.unit, except, row.start, row.end) = 0
  PROVE  LeasesHang(units, T!With(leases, l, row))
<1> DEFINE new == T!With(leases, l, row)
           overlapping == {m \in DOMAIN leases \ {except} :
                             /\ leases[m].unit = row.unit
                             /\ leases[m].status \in T!Live
                             /\ row.end = T!Open \/ leases[m].start <= row.end
                             /\ leases[m].end = T!Open \/ leases[m].end >= row.start}
<1>1. /\ DOMAIN new = DOMAIN leases \cup {l} /\ new[l] = row
      /\ \A m \in DOMAIN leases \ {l} : new[m] = leases[m]
  BY DEF T!With
<1>2. row.status \in T!Live => overlapping = {}
  <2>1. IsFiniteSet(overlapping)
    BY RowidsFinite, FS_Subset DEF TenanciesInv, LeasesHang
  <2>2. row.status \in T!Live => Cardinality(overlapping) = 0
    BY TCardinality DEF T!CountOverlappingLeases
  <2>. QED
    BY <2>1, <2>2, FS_EmptySet
<1>3. ASSUME NEW m \in DOMAIN leases \ {l}
      PROVE  Apart(row, leases[m]) /\ Apart(leases[m], row)
  <2>. SUFFICES ASSUME row.unit = leases[m].unit, row.status \in T!Live, leases[m].status \in T!Live,
                       NEW day \in T!Days, T!Covers(row, day), T!Covers(leases[m], day)
                PROVE  FALSE
    BY DEF Apart
  <2>1. row.start <= day /\ (row.end = T!Open \/ day <= row.end)
    BY DEF T!Covers, T!Lease, T!Days, T!Open
  <2>2. leases[m].start <= day /\ (leases[m].end = T!Open \/ day <= leases[m].end)
    BY DEF T!Covers, T!Lease, T!Days, T!Open, TenanciesInv, LeasesHang
  <2>3. /\ row.start \in Int /\ row.end \in Int /\ day \in Int
        /\ leases[m].start \in Int /\ leases[m].end \in Int
    BY DEF T!Lease, T!Days, T!Open, TenanciesInv, LeasesHang
  <2>4. m \in overlapping
    BY <2>1, <2>2, <2>3
  <2>. QED
    BY <1>2, <2>4
<1>4. Rowids(DOMAIN new) /\ DOMAIN new \subseteq LeaseIds
  BY <1>1, RowidsMore DEF TenanciesInv, LeasesHang
<1>5. \A m \in DOMAIN new : new[m] \in T!Lease /\ new[m].unit \in DOMAIN units
  BY <1>1 DEF TenanciesInv, LeasesHang
<1>6. \A m, n \in DOMAIN new : m # n => Apart(new[m], new[n])
  BY <1>1, <1>3 DEF TenanciesInv, LeasesHang
<1>. QED
  BY <1>4, <1>5, <1>6 DEF LeasesHang

\* One unit more, of a property that is on file, under a label that is free.
LEMMA UnitMade ==
  ASSUME TenanciesInv, NEW p \in tProperties, NEW label \in Labels, T!LabelFree(p, label, 0), T!CreateUnit(p, label)
  PROVE  /\ UnitsHang(tProperties, units')
         /\ DOMAIN units \subseteq DOMAIN units'
         /\ \A u \in DOMAIN units : units'[u] = units[u]
<1> DEFINE u == T!NextId(units)
           row == [property |-> p, label |-> label]
<1>1. u \in Nat \ {0} /\ u \in UnitIds /\ \A v \in DOMAIN units : v < u
  BY TNextId DEF TenanciesInv, UnitsHang, T!CreateUnit
<1>2. u \notin DOMAIN units
  BY <1>1 DEF TenanciesInv, UnitsHang, Rowids
<1> HIDE DEF u
<1>3. /\ DOMAIN units' = DOMAIN units \cup {u} /\ units'[u] = row
      /\ \A v \in DOMAIN units : units'[v] = units[v]
  BY <1>2 DEF T!CreateUnit, T!With, u
<1>4. row \in T!Unit /\ \A v \in DOMAIN units : units[v] # row
  BY DEF T!LabelFree, TenanciesInv, UnitsHang, Rowids, T!Unit
<1>5. Rowids(DOMAIN units') /\ DOMAIN units' \subseteq UnitIds
  BY <1>1, <1>3, RowidsMore DEF TenanciesInv, UnitsHang
<1>. QED
  BY <1>3, <1>4, <1>5 DEF TenanciesInv, UnitsHang

\* A new property comes with its first unit.
LEMMA PropertyCreated ==
  ASSUME TenanciesInv, NEW labels \in T!LabelLists, T!handleCreateProperty(labels)
  PROVE  /\ UnitsHang(tProperties', units')
         /\ DOMAIN units \subseteq DOMAIN units'
         /\ \A u \in DOMAIN units : units'[u] = units[u]
<1> DEFINE p     == T!NextId([i \in tProperties |-> i])
           first == T!NextId(units)
           made  == first .. first + Len(labels) - 1
           name  == [u \in made |-> labels[u - first + 1]]
<1>1. /\ p \in Nat \ {0} /\ p \in PropertyIds /\ \A q \in tProperties : q < p
      /\ tProperties' = tProperties \cup {p}
  BY TNextId DEF TenanciesInv, UnitsHang, T!handleCreateProperty
<1>2. /\ first \in Nat \ {0} /\ made \subseteq UnitIds /\ \A v \in DOMAIN units : v < first
  BY TNextId DEF TenanciesInv, UnitsHang, T!handleCreateProperty
<1>3. /\ labels \in Seq(Labels) /\ Len(labels) \in {1, 2} /\ DOMAIN labels = 1 .. Len(labels)
      /\ \A i, j \in DOMAIN labels : i # j => labels[i] # labels[j]
  <2>1. labels \in Seq(Labels) /\ Len(labels) \in {1, 2}
    <3>1. CASE labels = <<ImplicitLabel>>
      BY <3>1, RegisterAssumption DEF T!TenancyAssumption
    <3>2. CASE labels \in Labels \X Labels
      <4>1. PICK a \in Labels, b \in Labels : labels = <<a, b>>
        BY <3>2
      <4>. QED
        BY <4>1
    <3>. QED
      BY <3>1, <3>2 DEF T!LabelLists
  <2>2. T!validateUnits(labels)
    BY DEF T!handleCreateProperty
  <2>. QED
    BY <2>1, <2>2 DEF T!validateUnits
<1> HIDE DEF p, first
<1>4. p \notin tProperties /\ made \subseteq Nat \ {0} /\ made \cap DOMAIN units = {}
  BY <1>1, <1>2, <1>3 DEF TenanciesInv, UnitsHang, Rowids
<1>5. /\ DOMAIN units' = DOMAIN units \cup made
      /\ \A u \in made : units'[u] = [property |-> p, label |-> name[u]]
      /\ \A u \in DOMAIN units : units'[u] = units[u]
  BY <1>4 DEF T!handleCreateProperty, p, first
<1>6. \A u \in made : name[u] \in Labels
  <2>. SUFFICES ASSUME NEW u \in made
                PROVE  name[u] \in Labels
    OBVIOUS
  <2>1. u - first + 1 \in DOMAIN labels
    BY <1>2, <1>3
  <2>. QED
    BY <1>3, <2>1
<1>7. \A u, v \in made : name[u] = name[v] => u = v
  <2>. SUFFICES ASSUME NEW u \in made, NEW v \in made, u # v
                PROVE  name[u] # name[v]
    OBVIOUS
  <2>1. /\ u - first + 1 \in DOMAIN labels /\ v - first + 1 \in DOMAIN labels
        /\ u - first + 1 # v - first + 1
    BY <1>2, <1>3
  <2>. QED
    BY <1>3, <2>1
<1>8. first \in made
  BY <1>2, <1>3
<1>9. made = {first} \/ made = {first, first + 1}
  BY <1>2, <1>3
<1> HIDE DEF made, name
<1>10. \A u \in DOMAIN units' : units'[u] \in T!Unit /\ units'[u].property \in tProperties'
  BY <1>1, <1>5, <1>6 DEF TenanciesInv, UnitsHang, T!Unit
<1>11. \A u, v \in DOMAIN units' : units'[u] = units'[v] => u = v
  <2>1. ASSUME NEW u \in made, NEW v \in DOMAIN units
        PROVE  units'[u].property # units'[v].property
    BY <1>4, <1>5, <2>1 DEF TenanciesInv, UnitsHang
  <2>2. ASSUME NEW u \in made, NEW v \in made, units'[u] = units'[v]
        PROVE  u = v
    BY <1>5, <1>7, <2>2
  <2>. QED
    BY <1>5, <2>1, <2>2 DEF TenanciesInv, UnitsHang
<1>12. \A q \in tProperties' : \E u \in DOMAIN units' : units'[u].property = q
  <2>1. first \in DOMAIN units' /\ units'[first].property = p
    BY <1>5, <1>8
  <2>. QED
    BY <1>1, <1>5, <2>1 DEF TenanciesInv, UnitsHang
<1>13. Rowids(DOMAIN units') /\ DOMAIN units' \subseteq UnitIds
  <2>2. first + 1 \in Nat \ {0}
    BY <1>2
  <2>3. Rowids(DOMAIN units \cup {first})
    BY <1>2, RowidsMore DEF TenanciesInv, UnitsHang
  <2>4. Rowids((DOMAIN units \cup {first}) \cup {first + 1})
    BY <2>2, <2>3, RowidsMore
  <2>5. \/ DOMAIN units' = DOMAIN units \cup {first}
        \/ DOMAIN units' = (DOMAIN units \cup {first}) \cup {first + 1}
    BY <1>5, <1>9
  <2>6. Rowids(DOMAIN units')
    BY <2>3, <2>4, <2>5
  <2>. QED
    BY <1>2, <1>5, <2>6 DEF TenanciesInv, UnitsHang
<1>14. Rowids(tProperties') /\ tProperties' \subseteq PropertyIds
  BY <1>1, RowidsMore DEF TenanciesInv, UnitsHang
<1>. QED
  BY <1>5, <1>10, <1>11, <1>12, <1>13, <1>14 DEF UnitsHang

\* Where no unit goes or changes hands and no lease is written, all else follows.
LEMMA LeasesFollow ==
  ASSUME TenanciesInv, UnitsHang(tProperties', units'), DOMAIN units \subseteq DOMAIN units',
         \A u \in DOMAIN units : units'[u].property = units[u].property,
         UNCHANGED leases
  PROVE  LeasesHang(units', leases') /\ LeasesKeep
BY DEF TenanciesInv, LeasesHang, LeasesKeep

\* A lease more, where nothing overlaps it.
LEMMA LeaseCreated ==
  ASSUME TenanciesInv, NEW row \in T!Lease, row.unit \in DOMAIN units, T!CreateLease(row),
         row.status \in T!Live => T!CountOverlappingLeases(row.unit, 0, row.start, row.end) = 0
  PROVE  /\ LeasesHang(units, leases')
         /\ DOMAIN leases' = DOMAIN leases \cup {T!NextId(leases)}
         /\ \A l \in DOMAIN leases : leases'[l] = leases[l]
<1> DEFINE l == T!NextId(leases)
<1>1. l \in LeaseIds /\ leases' = T!With(leases, l, row)
  BY DEF T!CreateLease
<1>2. l \in Nat \ {0} /\ \A m \in DOMAIN leases : m < l
  BY TNextId DEF TenanciesInv, LeasesHang
<1> HIDE DEF l
<1>3. DOMAIN leases \ {0} = DOMAIN leases \ {l} /\ l \notin DOMAIN leases
  BY <1>2 DEF TenanciesInv, LeasesHang, Rowids
<1>4. LeasesHang(units, leases')
  BY <1>1, <1>2, <1>3, LeaseWritten
<1>. QED
  BY <1>1, <1>3, <1>4 DEF T!With, l

\* A tenant more.
LEMMA TenantCreated ==
  ASSUME TenanciesInv, NEW name \in Names, T!CreateTenant(name)
  PROVE  /\ TenantsHang(tenants')
         /\ DOMAIN tenants' = DOMAIN tenants \cup {T!NextId(tenants)}
<1> DEFINE t == T!NextId(tenants)
<1>1. t \in Nat \ {0} /\ t \in TenantIds
  BY TNextId DEF TenanciesInv, TenantsHang, T!CreateTenant
<1> HIDE DEF t
<1>2. /\ DOMAIN tenants' = DOMAIN tenants \cup {t} /\ tenants'[t] = name
      /\ \A s \in DOMAIN tenants \ {t} : tenants'[s] = tenants[s]
  BY DEF T!CreateTenant, T!With, t
<1>3. Rowids(DOMAIN tenants')
  BY <1>1, <1>2, RowidsMore DEF TenanciesInv, TenantsHang
<1>. QED
  BY <1>1, <1>2, <1>3 DEF TenanciesInv, TenantsHang, t

\* Every handler keeps the invariant, and every lease its property.
LEMMA TenanciesStep ==
  ASSUME TenanciesInv, T!Next
  PROVE  TenanciesInv' /\ LeasesKeep
<1>1. ASSUME NEW labels \in T!LabelLists, T!handleCreateProperty(labels)
      PROVE  TenanciesInv' /\ LeasesKeep
  BY <1>1, PropertyCreated, LeasesFollow DEF T!handleCreateProperty, TenanciesInv
<1>2. ASSUME NEW p \in PropertyIds, T!handleDeleteProperty(p)
      PROVE  TenanciesInv' /\ LeasesKeep
  <2> DEFINE us == T!ListUnitsByProperty(p)
  <2>1. us \subseteq DOMAIN units /\ T!DeleteUnit(us) /\ tProperties' = tProperties \ {p}
    BY <1>2 DEF T!handleDeleteProperty, T!DeleteProperty, T!ListUnitsByProperty
  <2>2. UNCHANGED <<tenants, tAsking>>
    BY <1>2 DEF T!handleDeleteProperty
  <2>3. \A u \in DOMAIN units : u \in us <=> units[u].property = p
    BY DEF T!ListUnitsByProperty
  <2> HIDE DEF us
  <2>4. /\ Rowids(DOMAIN units') /\ DOMAIN units' = DOMAIN units \ us
        /\ \A u \in DOMAIN units' : units'[u] = units[u]
        /\ LeasesHang(units', leases')
        /\ PairsHang(leases', tenants, onLease')
        /\ DOMAIN leases' \subseteq DOMAIN leases
        /\ \A l \in DOMAIN leases' : leases'[l] = leases[l]
    BY <2>1, UnitsDeleted
  <2>5. Rowids(tProperties')
    BY <2>1, RowidsLess DEF TenanciesInv, UnitsHang
  <2>6. UnitsHang(tProperties', units')
    BY <2>1, <2>3, <2>4, <2>5 DEF TenanciesInv, UnitsHang
  <2>7. LeasesKeep
    BY <2>4 DEF LeasesKeep, LeasesHang
  <2>. QED
    BY <2>2, <2>4, <2>6, <2>7 DEF TenanciesInv
<1>3. ASSUME NEW p \in PropertyIds, T!handleCreateUnit(p)
      PROVE  TenanciesInv' /\ LeasesKeep
  BY <1>3 DEF T!handleCreateUnit, T!Asking, TenanciesInv, LeasesKeep
<1>4. ASSUME NEW p \in PropertyIds, NEW row \in T!Lease, T!handleCreateLease(p, row)
      PROVE  TenanciesInv' /\ LeasesKeep
  <2>1. /\ row.unit \in DOMAIN units /\ T!CreateLease(row)
        /\ row.status \in T!Live => T!CountOverlappingLeases(row.unit, 0, row.start, row.end) = 0
        /\ UNCHANGED <<tProperties, units, tenants, onLease, tAsking>>
    BY <1>4 DEF T!handleCreateLease, T!checkOverlap
  <2>2. /\ LeasesHang(units, leases')
        /\ DOMAIN leases \subseteq DOMAIN leases'
        /\ \A l \in DOMAIN leases : leases'[l] = leases[l]
    BY <2>1, LeaseCreated
  <2>3. PairsHang(leases', tenants, onLease)
    BY <2>2 DEF TenanciesInv, PairsHang
  <2>. QED
    BY <2>1, <2>2, <2>3 DEF TenanciesInv, LeasesKeep
<1>5. ASSUME NEW p \in PropertyIds, NEW label \in Labels, NEW start \in T!Days,
             NEW end \in T!Days \cup {T!Open}, NEW who \in {{}} \cup {{n} : n \in Names},
             T!fileLease(p, label, start, end, who)
      PROVE  TenanciesInv' /\ LeasesKeep
  <2> DEFINE row(u) == [unit |-> u, start |-> start, end |-> end, status |-> "pending"]
             l == T!NextId(leases)
  <2>1. PICK u \in T!unitFor(p, label) :
          /\ T!CountOverlappingLeases(u, 0, start, end) = 0
          /\ T!CreateLease(row(u))
          /\ \/ who = {} /\ UNCHANGED <<tenants, onLease>>
             \/ \E name \in who : \E t \in T!FindTenantByName(name) :
                  T!AddLeaseTenant(l, t) /\ UNCHANGED tenants
             \/ \E name \in who :
                  /\ T!FindTenantByName(name) = {}
                  /\ T!CreateTenant(name)
                  /\ T!AddLeaseTenant(l, T!NextId(tenants))
          /\ UNCHANGED <<tProperties, units, tAsking>>
    BY <1>5 DEF T!fileLease
  <2>2. u \in DOMAIN units
    BY DEF T!unitFor, T!ListUnitsByProperty
  <2>3. row(u) \in T!Lease
    BY <2>2 DEF T!Lease, T!Statuses, T!Live, TenanciesInv, UnitsHang
  <2>4. /\ LeasesHang(units, leases')
        /\ DOMAIN leases' = DOMAIN leases \cup {l}
        /\ \A m \in DOMAIN leases : leases'[m] = leases[m]
    BY <2>1, <2>2, <2>3, LeaseCreated
  <2> HIDE DEF l
  <2>5. TenantsHang(tenants') /\ PairsHang(leases', tenants', onLease')
    <3>1. CASE who = {} /\ UNCHANGED <<tenants, onLease>>
      BY <2>4, <3>1 DEF TenanciesInv, PairsHang
    <3>2. ASSUME NEW name \in who, NEW t \in T!FindTenantByName(name),
                 T!AddLeaseTenant(l, t), UNCHANGED tenants
          PROVE  TenantsHang(tenants') /\ PairsHang(leases', tenants', onLease')
      BY <2>4, <3>2 DEF TenanciesInv, PairsHang, T!AddLeaseTenant, T!FindTenantByName
    <3>3. ASSUME NEW name \in who, T!CreateTenant(name), T!AddLeaseTenant(l, T!NextId(tenants))
          PROVE  TenantsHang(tenants') /\ PairsHang(leases', tenants', onLease')
      <4>1. TenantsHang(tenants') /\ DOMAIN tenants' = DOMAIN tenants \cup {T!NextId(tenants)}
        BY <3>3, TenantCreated
      <4>. QED
        BY <2>4, <3>3, <4>1 DEF TenanciesInv, PairsHang, T!AddLeaseTenant
    <3>. QED
      BY <2>1, <3>1, <3>2, <3>3
  <2>. QED
    BY <2>1, <2>4, <2>5 DEF TenanciesInv, LeasesKeep
<1>6. ASSUME NEW label \in Labels, T!UnitCreated(label)
      PROVE  TenanciesInv' /\ LeasesKeep
  <2>1. UNCHANGED <<tProperties, leases, tenants, onLease>> /\ tAsking' = T!Idle
    BY <1>6 DEF T!UnitCreated
  <2>2. CASE UNCHANGED units
    BY <2>1, <2>2 DEF TenanciesInv, LeasesKeep
  <2>3. CASE \E p \in tProperties : T!LabelFree(p, label, 0) /\ T!CreateUnit(p, label)
    BY <2>1, <2>3, UnitMade, LeasesFollow DEF TenanciesInv
  <2>. QED
    BY <1>6, <2>2, <2>3 DEF T!UnitCreated
<1>7. ASSUME NEW u \in UnitIds, T!handleDeleteUnit(u)
      PROVE  TenanciesInv' /\ LeasesKeep
  <2>1. /\ u \in DOMAIN units /\ T!DeleteUnit({u})
        /\ T!CountUnitsByProperty(units[u].property) > 1
        /\ UNCHANGED <<tProperties, tenants, tAsking>>
    BY <1>7 DEF T!handleDeleteUnit
  <2>2. /\ Rowids(DOMAIN units') /\ DOMAIN units' = DOMAIN units \ {u}
        /\ \A v \in DOMAIN units' : units'[v] = units[v]
        /\ LeasesHang(units', leases')
        /\ PairsHang(leases', tenants, onLease')
        /\ DOMAIN leases' \subseteq DOMAIN leases
        /\ \A l \in DOMAIN leases' : leases'[l] = leases[l]
    BY <2>1, UnitsDeleted
  <2>3. \E v \in DOMAIN units \ {u} : units[v].property = units[u].property
    <3> DEFINE all == T!ListUnitsByProperty(units[u].property)
    <3>1. SUFFICES ASSUME all \subseteq {u}
                   PROVE  FALSE
      BY DEF T!ListUnitsByProperty
    <3>2. Cardinality(all) > 1
      BY <2>1, TCardinality DEF T!CountUnitsByProperty
    <3>3. IsFiniteSet({u}) /\ Cardinality({u}) = 1
      BY FS_Singleton
    <3>4. Cardinality(all) <= 1
      BY <3>1, <3>3, FS_Subset
    <3>5. Cardinality(all) \in Nat
      BY <3>1, <3>3, FS_Subset, FS_CardinalityType
    <3>. QED
      BY <3>2, <3>4, <3>5
  <2>4. UnitsHang(tProperties', units')
    BY <2>1, <2>2, <2>3 DEF TenanciesInv, UnitsHang
  <2>. QED
    BY <2>1, <2>2, <2>4 DEF TenanciesInv, LeasesKeep, LeasesHang
<1>8. ASSUME NEW u \in UnitIds, NEW label \in Labels, T!handleUpdateUnit(u, label)
      PROVE  TenanciesInv' /\ LeasesKeep
  <2> DEFINE row == [units[u] EXCEPT !.label = label]
  <2>1. /\ u \in DOMAIN units /\ T!LabelFree(units[u].property, label, u)
        /\ units' = [units EXCEPT ![u] = row]
        /\ UNCHANGED <<tProperties, leases, tenants, onLease, tAsking>>
    BY <1>8 DEF T!handleUpdateUnit, T!UpdateUnit
  <2>2. row \in T!Unit /\ row.property = units[u].property /\ row = [property |-> units[u].property, label |-> label]
    BY <2>1 DEF TenanciesInv, UnitsHang, T!Unit
  <2>3. \A v \in DOMAIN units \ {u} : units[v] # row
    BY <2>1, <2>2 DEF T!LabelFree
  <2> HIDE DEF row
  <2>4. /\ DOMAIN units' = DOMAIN units /\ units'[u] = row
        /\ \A v \in DOMAIN units \ {u} : units'[v] = units[v]
    BY <2>1
  <2>5. UnitsHang(tProperties', units')
    <3>1. \A v \in DOMAIN units' : units'[v] \in T!Unit /\ units'[v].property = units[v].property
      BY <2>1, <2>2, <2>4 DEF TenanciesInv, UnitsHang
    <3>2. \A v, w \in DOMAIN units' : units'[v] = units'[w] => v = w
      BY <2>1, <2>3, <2>4 DEF TenanciesInv, UnitsHang
    <3>. QED
      BY <2>1, <2>4, <3>1, <3>2 DEF TenanciesInv, UnitsHang
  <2>. QED
    BY <2>1, <2>2, <2>4, <2>5, LeasesFollow DEF TenanciesInv
<1>9. ASSUME NEW l \in LeaseIds, T!handleDeleteLease(l)
      PROVE  TenanciesInv' /\ LeasesKeep
  <2>1. /\ l \in DOMAIN leases /\ T!DeleteLease({l})
        /\ UNCHANGED <<tProperties, units, tenants, tAsking>>
    BY <1>9 DEF T!handleDeleteLease
  <2>2. /\ DOMAIN leases' = DOMAIN leases \ {l}
        /\ \A m \in DOMAIN leases' : leases'[m] = leases[m]
        /\ onLease' = {x \in onLease : x[1] \notin {l}}
    BY <2>1 DEF T!DeleteLease, T!Without
  <2>3. Rowids(DOMAIN leases')
    BY <2>2, RowidsLess DEF TenanciesInv, LeasesHang
  <2>4. LeasesHang(units', leases') /\ LeasesKeep
    BY <2>1, <2>2, <2>3 DEF TenanciesInv, LeasesHang, LeasesKeep
  <2>5. PairsHang(leases', tenants, onLease')
    BY <2>2 DEF TenanciesInv, PairsHang
  <2>. QED
    BY <2>1, <2>4, <2>5 DEF TenanciesInv
<1>10. ASSUME NEW l \in LeaseIds, T!handleAddLeaseTenant(l)
       PROVE  TenanciesInv' /\ LeasesKeep
  BY <1>10 DEF T!handleAddLeaseTenant, T!Asking, TenanciesInv, LeasesKeep
<1>11. ASSUME NEW l \in LeaseIds, NEW row \in T!Lease, T!handleUpdateLease(l, row)
       PROVE  TenanciesInv' /\ LeasesKeep
  <2>1. /\ l \in DOMAIN leases /\ row.unit \in DOMAIN units
        /\ units[row.unit].property = units[leases[l].unit].property
        /\ row.status \in T!Live => T!CountOverlappingLeases(row.unit, l, row.start, row.end) = 0
        /\ leases' = T!With(leases, l, row)
        /\ UNCHANGED <<tProperties, units, tenants, onLease, tAsking>>
    BY <1>11 DEF T!handleUpdateLease, T!checkOverlap, T!UpdateLease
  <2>2. l \in Nat \ {0}
    BY <2>1 DEF TenanciesInv, LeasesHang, Rowids
  <2>3. LeasesHang(units, leases')
    BY <2>1, <2>2, LeaseWritten
  <2>4. /\ DOMAIN leases' = DOMAIN leases /\ leases'[l] = row
        /\ \A m \in DOMAIN leases \ {l} : leases'[m] = leases[m]
    BY <2>1 DEF T!With
  <2>. QED
    BY <2>1, <2>3, <2>4 DEF TenanciesInv, PairsHang, LeasesKeep
<1>12. ASSUME NEW l \in LeaseIds, NEW t \in TenantIds, T!handleRemoveLeaseTenant(l, t)
       PROVE  TenanciesInv' /\ LeasesKeep
  BY <1>12 DEF T!handleRemoveLeaseTenant, TenanciesInv, PairsHang, LeasesKeep
<1>13. ASSUME NEW t \in TenantIds, T!LeaseTenantAdded(t)
       PROVE  TenanciesInv' /\ LeasesKeep
  <2>1. UNCHANGED <<tProperties, units, leases, tenants>> /\ tAsking' = T!Idle
    BY <1>13 DEF T!LeaseTenantAdded
  <2>2. PairsHang(leases, tenants, onLease')
    <3>1. CASE /\ tAsking.lease \in DOMAIN leases /\ t \in DOMAIN tenants
               /\ T!AddLeaseTenant(tAsking.lease, t)
      <4>1. onLease' = onLease \cup {<<tAsking.lease, t>>}
        BY <3>1 DEF T!AddLeaseTenant
      <4>2. <<tAsking.lease, t>> \in (DOMAIN leases) \X (DOMAIN tenants)
        BY <3>1
      <4>. QED
        BY <4>1, <4>2 DEF TenanciesInv, PairsHang
    <3>2. CASE UNCHANGED onLease
      BY <3>2 DEF TenanciesInv, PairsHang
    <3>. QED
      BY <1>13, <3>1, <3>2 DEF T!LeaseTenantAdded
  <2>. QED
    BY <2>1, <2>2 DEF TenanciesInv, LeasesKeep
<1>14. ASSUME NEW t \in TenantIds, T!handleDeleteTenant(t)
       PROVE  TenanciesInv' /\ LeasesKeep
  <2>1. /\ DOMAIN tenants' = DOMAIN tenants \ {t}
        /\ \A s \in DOMAIN tenants' : tenants'[s] = tenants[s]
        /\ onLease' = {x \in onLease : x[2] # t}
        /\ UNCHANGED <<tProperties, units, leases, tAsking>>
    BY <1>14 DEF T!handleDeleteTenant, T!Without
  <2>2. TenantsHang(tenants')
    BY <2>1, RowidsLess DEF TenanciesInv, TenantsHang
  <2>3. PairsHang(leases, tenants', onLease')
    BY <2>1 DEF TenanciesInv, PairsHang
  <2>. QED
    BY <2>1, <2>2, <2>3 DEF TenanciesInv, LeasesKeep
<1>15. ASSUME NEW t \in TenantIds, NEW name \in Names, T!handleUpdateTenant(t, name)
       PROVE  TenanciesInv' /\ LeasesKeep
  <2>1. /\ DOMAIN tenants' = DOMAIN tenants
        /\ \A s \in DOMAIN tenants' : tenants'[s] \in {tenants[s], name}
        /\ UNCHANGED <<tProperties, units, leases, onLease, tAsking>>
    BY <1>15 DEF T!handleUpdateTenant
  <2>2. TenantsHang(tenants') /\ PairsHang(leases, tenants', onLease)
    BY <2>1 DEF TenanciesInv, TenantsHang, PairsHang
  <2>. QED
    BY <2>1, <2>2 DEF TenanciesInv, LeasesKeep
<1>16. ASSUME NEW name \in Names, T!handleCreateTenant(name)
       PROVE  TenanciesInv' /\ LeasesKeep
  <2>1. T!CreateTenant(name) /\ UNCHANGED <<tProperties, units, leases, onLease, tAsking>>
    BY <1>16 DEF T!handleCreateTenant
  <2>2. TenantsHang(tenants') /\ DOMAIN tenants \subseteq DOMAIN tenants'
    BY <2>1, TenantCreated
  <2>3. PairsHang(leases, tenants', onLease)
    BY <2>2 DEF TenanciesInv, PairsHang
  <2>. QED
    BY <2>1, <2>2, <2>3 DEF TenanciesInv, LeasesKeep
<1>. QED
  BY <1>1, <1>2, <1>3, <1>4, <1>5, <1>6, <1>7, <1>8, <1>9, <1>10, <1>11, <1>12, <1>13, <1>14,
     <1>15, <1>16 DEF T!Next

\* A step of another register keeps it.
LEMMA TenanciesStay ==
  ASSUME TenanciesInv, UNCHANGED tVars
  PROVE  TenanciesInv'
BY DEF tVars, TenanciesInv, UnitsHang, LeasesHang, TenantsHang, PairsHang

\* The invariant of the tenancies holds throughout.
THEOREM TenanciesInvariant == Spec => []TenanciesInv
<1>1. Init => TenanciesInv
  BY TenanciesInit DEF Init
<1>2. TenanciesInv /\ [Next]_vars => TenanciesInv'
  BY TenanciesStep, TenanciesStay DEF Next, TStep, LStep, PStep, DStep, WStep, vars
<1>. QED
  BY <1>1, <1>2, PTL DEF Spec

\* Whatever is deleted, moved or renamed between the two steps of a handler, no
\* row names one that is gone, a property keeps a unit and a label is of one unit.
THEOREM RegisterHangsTogetherHolds == Spec => []RegisterHangsTogether
BY TenanciesInvariant, TenanciesInvImplies, PTL

\* However leases are written, redated, moved and revived, by hand or from a
\* proposal, no unit is let twice on any day.
THEOREM OneLetPerDayHolds == Spec => []OneLetPerDay
BY TenanciesInvariant, TenanciesInvImplies, PTL

\* No correction of a lease moves it to a unit of another property.
THEOREM LeaseKeepsPropertyHolds == Spec => LeaseKeepsProperty
<1>1. TenanciesInv /\ [Next]_vars => [LeasesKeep]_(T!vars)
  BY TenanciesStep DEF Next, TStep, LStep, PStep, DStep, WStep, vars, tVars, T!vars
<1>. QED
  BY <1>1, TenanciesInvariant, PTL DEF Spec, LeaseKeepsProperty, T!LeaseKeepsProperty, LeasesKeep

-----------------------------------------------------------------------------
(* Ledger.                                                                 *)

\* The id of a new row is past every id on file.
LEMMA LNextId ==
  ASSUME NEW t, Rowids(DOMAIN t)
  PROVE  L!NextId(t) \in Nat \ {0} /\ \A i \in DOMAIN t : i < L!NextId(t)
BY NextIdIsNew DEF NextId, L!NextId

\* Repairs name what is on file and close no earlier than they open.
RepairsHang(ps, vs, rs) ==
  /\ OnFile(DOMAIN rs, RepairIds)
  /\ \A r \in DOMAIN rs : /\ rs[r] \in L!Repair /\ L!validateRepair(rs[r])
                          /\ rs[r].property \in ps /\ rs[r].vendor \in vs \cup {0}

\* A line of a timeline is of a repair that is on file.
EventsHang(rs, es) == OnFile(DOMAIN es, EventIds) /\ \A e \in DOMAIN es : es[e] \in DOMAIN rs

\* Entries of the ledger name what is on file.
EntriesHang(ps, vs, rs, es) ==
  /\ OnFile(DOMAIN es, EntryIds)
  /\ \A e \in DOMAIN es : /\ es[e] \in L!Entry
                          /\ es[e].property \in ps /\ es[e].vendor \in vs \cup {0}
                          /\ es[e].repair \in DOMAIN rs \cup {0}

\* The inductive invariant of the ledger.
LedgerInv ==
  /\ today \in L!Days
  /\ OnFile(lProperties, PropertyIds) /\ OnFile(vendors, VendorIds)
  /\ RepairsHang(lProperties, vendors, repairs)
  /\ EventsHang(repairs, events)
  /\ EntriesHang(lProperties, vendors, repairs, entries)
  /\ lAsking \in L!Asking

\* What a step may not do to an entry.
EntriesStay ==
  \A e \in DOMAIN entries :
    /\ e \in DOMAIN entries' => /\ entries'[e].source = entries[e].source
                               /\ entries'[e].property = entries[e].property
    /\ /\ vendors' # vendors \/ DOMAIN repairs' # DOMAIN repairs
       /\ entries[e].property \in lProperties'
       => /\ e \in DOMAIN entries'
          /\ entries'[e].cents = entries[e].cents

\* Nothing is on file at first.
LEMMA LedgerInit == L!Init => LedgerInv
BY RegisterAssumption
DEF L!Init, L!NoRows, LedgerInv, OnFile, RepairsHang, EventsHang, EntriesHang, Rowids, L!Asking,
    L!Days, L!LedgerAssumption

\* The invariant says what LedgerHangsTogether does.
LEMMA LedgerInvImplies == LedgerInv => LedgerHangsTogether
<1>. SUFFICES ASSUME LedgerInv
              PROVE  LedgerHangsTogether
  OBVIOUS
<1>1. L!TypeOK
  BY DEF LedgerInv, OnFile, RepairsHang, EventsHang, EntriesHang, L!TypeOK
<1>2. \A r \in DOMAIN repairs : L!RefersOnFile(repairs[r])
  BY DEF LedgerInv, RepairsHang, L!RefersOnFile, L!Repair, L!Null
<1>3. \A e \in DOMAIN entries : L!RefersOnFile(entries[e])
  BY DEF LedgerInv, EntriesHang, L!RefersOnFile, L!Null
<1>. QED
  BY <1>1, <1>2, <1>3 DEF LedgerInv, RepairsHang, EventsHang, LedgerHangsTogether, L!LedgerHangsTogether

\* A new row of the ledger, and one written over.
LEMMA EntryRowWritten ==
  ASSUME LedgerInv, NEW row \in L!Entry, L!RefersOnFile(row), NEW e \in Nat \ {0}, e \in EntryIds,
         entries' = L!With(entries, e, row)
  PROVE  /\ EntriesHang(lProperties, vendors, repairs, entries')
         /\ DOMAIN entries' = DOMAIN entries \cup {e} /\ entries'[e] = row
         /\ \A i \in DOMAIN entries \ {e} : entries'[i] = entries[i]
<1>1. /\ DOMAIN entries' = DOMAIN entries \cup {e} /\ entries'[e] = row
      /\ \A i \in DOMAIN entries \ {e} : entries'[i] = entries[i]
  BY DEF L!With
<1>2. OnFile(DOMAIN entries', EntryIds)
  BY <1>1, RowidsMore DEF LedgerInv, EntriesHang, OnFile
<1>3. row.property \in lProperties /\ row.vendor \in vendors \cup {0} /\ row.repair \in DOMAIN repairs \cup {0}
  BY DEF L!RefersOnFile, L!Entry, L!Null
<1>. QED
  BY <1>1, <1>2, <1>3 DEF LedgerInv, EntriesHang

\* A new entry that names what is on file.
LEMMA EntryRowCreated ==
  ASSUME LedgerInv, NEW row \in L!Entry, L!RefersOnFile(row), L!CreateTransaction(row),
         UNCHANGED <<today, lProperties, vendors, repairs, events>>, lAsking' \in L!Asking
  PROVE  LedgerInv' /\ EntriesStay
<1> DEFINE e == L!NextId(entries)
<1>1. e \in EntryIds /\ entries' = L!With(entries, e, row)
  BY DEF L!CreateTransaction
<1>2. e \in Nat \ {0} /\ \A i \in DOMAIN entries : i < e
  BY LNextId DEF LedgerInv, EntriesHang, OnFile
<1>3. e \notin DOMAIN entries
  BY <1>2
<1> HIDE DEF e
<1>. QED
  BY <1>1, <1>2, <1>3, EntryRowWritten DEF LedgerInv, EntriesStay

\* A repair written, new or over the old one.
LEMMA RepairRowWritten ==
  ASSUME LedgerInv, NEW row \in L!Repair, L!RefersOnFile(row), L!validateRepair(row),
         NEW r \in Nat \ {0}, r \in RepairIds,
         repairs' = L!With(repairs, r, row)
  PROVE  /\ RepairsHang(lProperties, vendors, repairs')
         /\ DOMAIN repairs' = DOMAIN repairs \cup {r}
<1>1. /\ DOMAIN repairs' = DOMAIN repairs \cup {r} /\ repairs'[r] = row
      /\ \A i \in DOMAIN repairs \ {r} : repairs'[i] = repairs[i]
  BY DEF L!With
<1>2. OnFile(DOMAIN repairs', RepairIds)
  BY <1>1, RowidsMore DEF LedgerInv, RepairsHang, OnFile
<1>3. row.property \in lProperties /\ row.vendor \in vendors \cup {0}
  BY DEF L!RefersOnFile, L!Null
<1>. QED
  BY <1>1, <1>2, <1>3 DEF LedgerInv, RepairsHang

\* Every handler keeps the invariant, and what was paid.
LEMMA LedgerStep ==
  ASSUME LedgerInv, L!Next
  PROVE  LedgerInv' /\ EntriesStay
<1>1. CASE L!Midnight
  BY <1>1, RegisterAssumption DEF L!Midnight, LedgerInv, EntriesStay, L!Days, L!LedgerAssumption
<1>2. CASE L!CreateProperty
  <2> DEFINE p == L!NextId([i \in lProperties |-> i])
  <2>1. /\ p \in PropertyIds /\ lProperties' = lProperties \cup {p}
        /\ UNCHANGED <<today, vendors, repairs, events, entries, lAsking>>
    BY <1>2 DEF L!CreateProperty
  <2>2. p \in Nat \ {0}
    BY LNextId DEF LedgerInv, OnFile
  <2> HIDE DEF p
  <2>. QED
    BY <2>1, <2>2, RowidsMore DEF LedgerInv, EntriesStay, OnFile, RepairsHang, EventsHang, EntriesHang
<1>3. CASE L!handleCreateVendor
  <2> DEFINE v == L!NextId([i \in vendors |-> i])
  <2>1. /\ v \in VendorIds /\ vendors' = vendors \cup {v}
        /\ UNCHANGED <<today, lProperties, repairs, events, entries, lAsking>>
    BY <1>3 DEF L!handleCreateVendor
  <2>2. v \in Nat \ {0}
    BY LNextId DEF LedgerInv, OnFile
  <2> HIDE DEF v
  <2>. QED
    BY <2>1, <2>2, RowidsMore DEF LedgerInv, EntriesStay, OnFile, RepairsHang, EventsHang, EntriesHang
<1>4. ASSUME NEW p \in PropertyIds, L!handleDeleteProperty(p)
      PROVE  LedgerInv' /\ EntriesStay
  <2> DEFINE gone == {r \in DOMAIN repairs : repairs[r].property = p}
             kept == {e \in DOMAIN entries : entries[e].property # p}
  <2>1. /\ lProperties' = lProperties \ {p}
        /\ repairs' = L!Without(repairs, gone)
        /\ events' = L!Without(events, {e \in DOMAIN events : events[e] \in gone})
        /\ entries' = [e \in kept |-> L!Forgetting(gone, entries[e])]
        /\ UNCHANGED <<today, vendors, lAsking>>
    BY <1>4 DEF L!handleDeleteProperty, L!DeleteProperty, L!DeleteRepair
  <2>2. OnFile(lProperties', PropertyIds)
    BY <2>1, RowidsLess DEF LedgerInv, OnFile
  <2>3. DOMAIN repairs' = DOMAIN repairs \ gone /\ \A r \in DOMAIN repairs' : repairs'[r] = repairs[r]
    BY <2>1 DEF L!Without
  <2>4. OnFile(DOMAIN repairs', RepairIds)
    BY <2>3, RowidsLess DEF LedgerInv, RepairsHang, OnFile
  <2>5. RepairsHang(lProperties', vendors, repairs')
    BY <2>1, <2>3, <2>4 DEF LedgerInv, RepairsHang
  <2>6. /\ DOMAIN events' \subseteq DOMAIN events
        /\ \A e \in DOMAIN events' : events'[e] = events[e] /\ events[e] \notin gone
    BY <2>1 DEF L!Without
  <2>7. EventsHang(repairs', events')
    BY <2>3, <2>6, RowidsLess DEF LedgerInv, EventsHang, OnFile
  <2>8. /\ DOMAIN entries' = kept
        /\ \A e \in kept : entries'[e] = [entries[e] EXCEPT !.repair = IF @ \in gone THEN 0 ELSE @]
    BY <2>1 DEF L!Forgetting, L!Null
  <2>9. \A e \in kept :
          /\ entries'[e] \in L!Entry
          /\ entries'[e].property = entries[e].property /\ entries'[e].vendor = entries[e].vendor
          /\ entries'[e].source = entries[e].source /\ entries'[e].cents = entries[e].cents
          /\ entries'[e].repair \in {entries[e].repair, 0} \ gone
    <3>. SUFFICES ASSUME NEW e \in kept
                  PROVE  /\ entries'[e] \in L!Entry
                         /\ entries'[e].property = entries[e].property /\ entries'[e].vendor = entries[e].vendor
                         /\ entries'[e].source = entries[e].source /\ entries'[e].cents = entries[e].cents
                         /\ entries'[e].repair \in {entries[e].repair, 0} \ gone
      OBVIOUS
    <3>1. entries[e] \in L!Entry
      BY DEF LedgerInv, EntriesHang
    <3>2. 0 \notin gone
      BY DEF LedgerInv, RepairsHang, OnFile, Rowids
    <3>. HIDE DEF gone
    <3>. QED
      BY <2>8, <3>1, <3>2 DEF L!Entry, L!Null
  <2>10. EntriesHang(lProperties', vendors, repairs', entries')
    <3>1. OnFile(DOMAIN entries', EntryIds)
      BY <2>8, RowidsLess DEF LedgerInv, EntriesHang, OnFile
    <3>2. \A e \in kept : entries'[e].repair \in DOMAIN repairs' \cup {0}
      BY <2>3, <2>9 DEF LedgerInv, EntriesHang
    <3>3. \A e \in kept : entries'[e].property \in lProperties' /\ entries'[e].vendor \in vendors \cup {0}
      BY <2>1, <2>9 DEF LedgerInv, EntriesHang
    <3>. QED
      BY <2>8, <2>9, <3>1, <3>2, <3>3 DEF EntriesHang
  <2>11. EntriesStay
    BY <2>1, <2>8, <2>9 DEF EntriesStay
  <2>. QED
    BY <2>1, <2>2, <2>5, <2>7, <2>10, <2>11 DEF LedgerInv
<1>5. ASSUME NEW v \in VendorIds, L!handleDeleteVendor(v)
      PROVE  LedgerInv' /\ EntriesStay
  <2>1. /\ vendors' = vendors \ {v}
        /\ repairs' = [r \in DOMAIN repairs |-> [repairs[r] EXCEPT !.vendor = IF @ = v THEN 0 ELSE @]]
        /\ entries' = [e \in DOMAIN entries |-> [entries[e] EXCEPT !.vendor = IF @ = v THEN 0 ELSE @]]
        /\ UNCHANGED <<today, lProperties, events, lAsking>>
    BY <1>5 DEF L!handleDeleteVendor, L!DeleteVendor, L!Null
  <2>2. OnFile(vendors', VendorIds)
    BY <2>1, RowidsLess DEF LedgerInv, OnFile
  <2>3. v # 0
    BY RegisterAssumption DEF L!LedgerAssumption
  <2>4. \A r \in DOMAIN repairs :
          /\ repairs'[r] \in L!Repair /\ L!validateRepair(repairs'[r])
          /\ repairs'[r].property = repairs[r].property
          /\ repairs'[r].vendor \in {repairs[r].vendor, 0} \ {v}
    <3>. SUFFICES ASSUME NEW r \in DOMAIN repairs
                  PROVE  /\ repairs'[r] \in L!Repair /\ L!validateRepair(repairs'[r])
                         /\ repairs'[r].property = repairs[r].property
                         /\ repairs'[r].vendor \in {repairs[r].vendor, 0} \ {v}
      OBVIOUS
    <3>1. repairs[r] \in L!Repair /\ L!validateRepair(repairs[r])
      BY DEF LedgerInv, RepairsHang
    <3>2. repairs'[r] = [repairs[r] EXCEPT !.vendor = IF @ = v THEN 0 ELSE @]
      BY <2>1
    <3>. QED
      BY <2>3, <3>1, <3>2 DEF L!Repair, L!Null, L!validateRepair
  <2>5. \A e \in DOMAIN entries :
          /\ entries'[e] \in L!Entry
          /\ entries'[e].property = entries[e].property /\ entries'[e].repair = entries[e].repair
          /\ entries'[e].source = entries[e].source /\ entries'[e].cents = entries[e].cents
          /\ entries'[e].vendor \in {entries[e].vendor, 0} \ {v}
    <3>. SUFFICES ASSUME NEW e \in DOMAIN entries
                  PROVE  /\ entries'[e] \in L!Entry
                         /\ entries'[e].property = entries[e].property /\ entries'[e].repair = entries[e].repair
                         /\ entries'[e].source = entries[e].source /\ entries'[e].cents = entries[e].cents
                         /\ entries'[e].vendor \in {entries[e].vendor, 0} \ {v}
      OBVIOUS
    <3>1. entries[e] \in L!Entry
      BY DEF LedgerInv, EntriesHang
    <3>2. entries'[e] = [entries[e] EXCEPT !.vendor = IF @ = v THEN 0 ELSE @]
      BY <2>1
    <3>. QED
      BY <2>3, <3>1, <3>2 DEF L!Entry, L!Null
  <2>6. DOMAIN repairs' = DOMAIN repairs /\ DOMAIN entries' = DOMAIN entries
    BY <2>1
  <2>7. RepairsHang(lProperties, vendors', repairs')
    <3>1. \A r \in DOMAIN repairs' : repairs'[r].property \in lProperties /\ repairs'[r].vendor \in vendors' \cup {0}
      BY <2>1, <2>4, <2>6 DEF LedgerInv, RepairsHang
    <3>. QED
      BY <2>4, <2>6, <3>1 DEF LedgerInv, RepairsHang
  <2>8. EntriesHang(lProperties, vendors', repairs', entries')
    <3>1. \A e \in DOMAIN entries' : /\ entries'[e].property \in lProperties /\ entries'[e].vendor \in vendors' \cup {0}
                                     /\ entries'[e].repair \in DOMAIN repairs' \cup {0}
      BY <2>1, <2>5, <2>6 DEF LedgerInv, EntriesHang
    <3>. QED
      BY <2>5, <2>6, <3>1 DEF LedgerInv, EntriesHang
  <2>9. EntriesStay
    BY <2>5, <2>6 DEF EntriesStay
  <2>. QED
    BY <2>1, <2>2, <2>6, <2>7, <2>8, <2>9 DEF LedgerInv, EventsHang
<1>6. ASSUME NEW p \in PropertyIds, L!handleCreateRepair(p) \/ L!handleCreateTransaction(p)
      PROVE  LedgerInv' /\ EntriesStay
  <2>1. lAsking' \in L!Asking /\ UNCHANGED <<today, lProperties, vendors, repairs, events, entries>>
    BY <1>6 DEF L!handleCreateRepair, L!handleCreateTransaction, L!Asking
  <2>. QED
    BY <2>1 DEF LedgerInv, EntriesStay
<1>7. ASSUME NEW p \in PropertyIds, NEW total \in {-c : c \in Cents}, L!fileReceipt(p, total)
      PROVE  LedgerInv' /\ EntriesStay
  <2> DEFINE row == [property |-> p, vendor |-> 0, repair |-> 0, cents |-> -total, source |-> "email"]
  <2>1. /\ p \in lProperties /\ L!CreateTransaction(row)
        /\ UNCHANGED <<today, lProperties, vendors, repairs, events, lAsking>>
    BY <1>7 DEF L!fileReceipt, L!Null
  <2>2. -total \in Cents
    <3>1. PICK c \in Cents : total = -c
      OBVIOUS
    <3>2. c \in Int
      BY RegisterAssumption DEF L!LedgerAssumption
    <3>. QED
      BY <3>1, <3>2
  <2>3. row \in L!Entry /\ L!RefersOnFile(row)
    BY <2>1, <2>2 DEF L!Entry, L!RefersOnFile, L!Null
  <2> HIDE DEF row
  <2>. QED
    BY <2>1, <2>3, EntryRowCreated DEF LedgerInv
<1>8. ASSUME NEW vendor \in VendorIds \cup {L!Null}, NEW status \in L!repairStatuses,
             NEW opened \in L!Days, NEW closed \in L!Days \cup {L!Null},
             L!RepairWritten(vendor, status, opened, closed)
      PROVE  LedgerInv' /\ EntriesStay
  <2> DEFINE row == [property |-> lAsking.property, vendor |-> vendor, status |-> status,
                     opened |-> opened, closed |-> L!reconcileClosing(status, closed)]
  <2>1. /\ L!validateRepair(row) /\ lAsking' = L!Idle
        /\ \/ L!RefersOnFile(row) /\ L!CreateRepair(row)
           \/ ~L!RefersOnFile(row) /\ UNCHANGED repairs
        /\ UNCHANGED <<today, lProperties, vendors, events, entries>>
    BY <1>8 DEF L!RepairWritten
  <2>2. lAsking' \in L!Asking
    BY <2>1 DEF L!Asking
  <2>3. CASE UNCHANGED repairs
    BY <2>1, <2>2, <2>3 DEF LedgerInv, EntriesStay
  <2>4. CASE L!RefersOnFile(row) /\ L!CreateRepair(row)
    <3>1. row \in L!Repair
      BY <2>4 DEF L!Repair, L!RefersOnFile, L!reconcileClosing, LedgerInv, OnFile
    <3> HIDE DEF row
    <3> DEFINE r == L!NextId(repairs)
    <3>2. r \in RepairIds /\ repairs' = L!With(repairs, r, row)
      BY <2>4 DEF L!CreateRepair
    <3>3. r \in Nat \ {0}
      BY LNextId DEF LedgerInv, RepairsHang, OnFile
    <3> HIDE DEF r
    <3>4. RepairsHang(lProperties, vendors, repairs') /\ DOMAIN repairs' = DOMAIN repairs \cup {r}
      BY <2>1, <2>4, <3>1, <3>2, <3>3, RepairRowWritten
    <3>. QED
      BY <2>1, <2>2, <3>4 DEF LedgerInv, EventsHang, EntriesHang, EntriesStay
  <2>. QED
    BY <2>1, <2>3, <2>4
<1>9. ASSUME NEW vendor \in VendorIds \cup {L!Null}, NEW status \in L!repairStatuses,
             NEW opened \in L!Days, NEW closed \in L!Days \cup {L!Null},
             NEW r \in RepairIds, NEW named \in BOOLEAN,
             L!handleUpdateRepair(r, vendor, status, opened, named, closed)
      PROVE  LedgerInv' /\ EntriesStay
  <2> DEFINE old == repairs[r]
             date == IF named THEN closed
                     ELSE L!reconcileClosingTransition(status, old.status \in L!closedStatuses, old.closed)
             row == [old EXCEPT !.vendor = vendor, !.status = status, !.opened = opened, !.closed = date]
  <2>1. /\ r \in DOMAIN repairs /\ L!validateRepair(row) /\ L!RefersOnFile(row)
        /\ repairs' = L!With(repairs, r, row)
        /\ UNCHANGED <<today, lProperties, vendors, events, entries, lAsking>>
    BY <1>9 DEF L!handleUpdateRepair, L!UpdateRepair
  <2>2. old \in L!Repair /\ r \in Nat \ {0}
    BY <2>1 DEF LedgerInv, RepairsHang, OnFile, Rowids
  <2>3. date \in L!Days \cup {L!Null}
    BY <2>2 DEF L!Repair, L!reconcileClosingTransition, LedgerInv
  <2> HIDE DEF date, old
  <2>4. row \in L!Repair
    BY <2>2, <2>3 DEF L!Repair
  <2> HIDE DEF row
  <2>5. RepairsHang(lProperties, vendors, repairs') /\ DOMAIN repairs' = DOMAIN repairs \cup {r}
    BY <2>1, <2>2, <2>4, RepairRowWritten
  <2>. QED
    BY <2>1, <2>5 DEF LedgerInv, EventsHang, EntriesHang, EntriesStay
<1>10. ASSUME NEW r \in RepairIds, L!handleDeleteRepair(r)
       PROVE  LedgerInv' /\ EntriesStay
  <2>1. /\ repairs' = L!Without(repairs, {r})
        /\ events' = L!Without(events, {e \in DOMAIN events : events[e] \in {r}})
        /\ entries' = [e \in DOMAIN entries |-> L!Forgetting({r}, entries[e])]
        /\ UNCHANGED <<today, lProperties, vendors, lAsking>>
    BY <1>10 DEF L!handleDeleteRepair, L!DeleteRepair
  <2>2. DOMAIN repairs' = DOMAIN repairs \ {r} /\ \A s \in DOMAIN repairs' : repairs'[s] = repairs[s]
    BY <2>1 DEF L!Without
  <2>3. OnFile(DOMAIN repairs', RepairIds)
    BY <2>2, RowidsLess DEF LedgerInv, RepairsHang, OnFile
  <2>4. RepairsHang(lProperties, vendors, repairs')
    BY <2>2, <2>3 DEF LedgerInv, RepairsHang
  <2>5. /\ DOMAIN events' \subseteq DOMAIN events
        /\ \A e \in DOMAIN events' : events'[e] = events[e] /\ events[e] # r
    BY <2>1 DEF L!Without
  <2>6. EventsHang(repairs', events')
    BY <2>2, <2>5, RowidsLess DEF LedgerInv, EventsHang, OnFile
  <2>7. /\ DOMAIN entries' = DOMAIN entries
        /\ \A e \in DOMAIN entries : entries'[e] = [entries[e] EXCEPT !.repair = IF @ \in {r} THEN 0 ELSE @]
    BY <2>1 DEF L!Forgetting, L!Null
  <2>8. \A e \in DOMAIN entries :
          /\ entries'[e] \in L!Entry
          /\ entries'[e].property = entries[e].property /\ entries'[e].vendor = entries[e].vendor
          /\ entries'[e].source = entries[e].source /\ entries'[e].cents = entries[e].cents
          /\ entries'[e].repair \in {entries[e].repair, 0} \ {r}
    <3>. SUFFICES ASSUME NEW e \in DOMAIN entries
                  PROVE  /\ entries'[e] \in L!Entry
                         /\ entries'[e].property = entries[e].property /\ entries'[e].vendor = entries[e].vendor
                         /\ entries'[e].source = entries[e].source /\ entries'[e].cents = entries[e].cents
                         /\ entries'[e].repair \in {entries[e].repair, 0} \ {r}
      OBVIOUS
    <3>1. entries[e] \in L!Entry
      BY DEF LedgerInv, EntriesHang
    <3>2. r # 0
      BY RegisterAssumption DEF L!LedgerAssumption
    <3>. QED
      BY <2>7, <3>1, <3>2 DEF L!Entry, L!Null
  <2>9. EntriesHang(lProperties, vendors, repairs', entries')
    <3>1. \A e \in DOMAIN entries : entries'[e].repair \in DOMAIN repairs' \cup {0}
      BY <2>2, <2>8 DEF LedgerInv, EntriesHang
    <3>. QED
      BY <2>7, <2>8, <3>1 DEF LedgerInv, EntriesHang
  <2>10. EntriesStay
    BY <2>7, <2>8 DEF EntriesStay
  <2>. QED
    BY <2>1, <2>4, <2>6, <2>9, <2>10 DEF LedgerInv
<1>11. ASSUME NEW r \in RepairIds, L!handleCreateRepairEvent(r)
       PROVE  LedgerInv' /\ EntriesStay
  BY <1>11 DEF L!handleCreateRepairEvent, L!Asking, LedgerInv, EntriesStay
<1>12. CASE L!EventWritten
  <2>1. lAsking' \in L!Asking /\ UNCHANGED <<today, lProperties, vendors, repairs, entries>>
    BY <1>12 DEF L!EventWritten, L!Asking
  <2>2. EventsHang(repairs, events')
    <3>1. CASE UNCHANGED events
      BY <3>1 DEF LedgerInv
    <3>2. CASE lAsking.repair \in DOMAIN repairs /\ L!CreateRepairEvent(lAsking.repair)
      <4> DEFINE e == L!NextId(events)
      <4>1. e \in EventIds /\ events' = L!With(events, e, lAsking.repair)
        BY <3>2 DEF L!CreateRepairEvent
      <4>2. e \in Nat \ {0}
        BY LNextId DEF LedgerInv, EventsHang, OnFile
      <4> HIDE DEF e
      <4>3. /\ DOMAIN events' = DOMAIN events \cup {e} /\ events'[e] = lAsking.repair
            /\ \A i \in DOMAIN events \ {e} : events'[i] = events[i]
        BY <4>1 DEF L!With
      <4>4. OnFile(DOMAIN events', EventIds)
        BY <4>1, <4>2, <4>3, RowidsMore DEF LedgerInv, EventsHang, OnFile
      <4>. QED
        BY <3>2, <4>3, <4>4 DEF LedgerInv, EventsHang
    <3>. QED
      BY <1>12, <3>1, <3>2 DEF L!EventWritten
  <2>. QED
    BY <2>1, <2>2 DEF LedgerInv, EntriesStay
<1>13. ASSUME NEW e \in EventIds, L!handleDeleteRepairEvent(e)
       PROVE  LedgerInv' /\ EntriesStay
  <2>1. /\ DOMAIN events' = DOMAIN events \ {e} /\ \A i \in DOMAIN events' : events'[i] = events[i]
        /\ UNCHANGED <<today, lProperties, vendors, repairs, entries, lAsking>>
    BY <1>13 DEF L!handleDeleteRepairEvent, L!Without
  <2>. QED
    BY <2>1, RowidsLess DEF LedgerInv, EntriesStay, EventsHang, OnFile
<1>14. ASSUME NEW vendor \in VendorIds \cup {L!Null}, NEW repair \in RepairIds \cup {L!Null},
              NEW cents \in Cents, L!EntryWritten(vendor, repair, cents)
       PROVE  LedgerInv' /\ EntriesStay
  <2> DEFINE row == [property |-> lAsking.property, vendor |-> vendor, repair |-> repair,
                     cents |-> cents, source |-> "manual"]
  <2>1. /\ lAsking' = L!Idle
        /\ \/ L!RefersOnFile(row) /\ L!CreateTransaction(row)
           \/ ~L!RefersOnFile(row) /\ UNCHANGED entries
        /\ UNCHANGED <<today, lProperties, vendors, repairs, events>>
    BY <1>14 DEF L!EntryWritten
  <2>2. lAsking' \in L!Asking
    BY <2>1 DEF L!Asking
  <2>3. CASE UNCHANGED entries
    BY <2>1, <2>2, <2>3 DEF LedgerInv, EntriesStay
  <2>4. CASE L!RefersOnFile(row) /\ L!CreateTransaction(row)
    <3>1. row \in L!Entry
      BY <2>4 DEF L!Entry, L!RefersOnFile, LedgerInv, OnFile
    <3> HIDE DEF row
    <3>. QED
      BY <2>1, <2>2, <2>4, <3>1, EntryRowCreated
  <2>. QED
    BY <2>1, <2>3, <2>4
<1>15. ASSUME NEW vendor \in VendorIds \cup {L!Null}, NEW repair \in RepairIds \cup {L!Null},
              NEW cents \in Cents, NEW e \in EntryIds,
              L!handleUpdateTransaction(e, vendor, repair, cents)
       PROVE  LedgerInv' /\ EntriesStay
  <2> DEFINE old == entries[e]
             row == [old EXCEPT !.vendor = vendor, !.repair = repair, !.cents = cents]
  <2>1. /\ e \in DOMAIN entries /\ L!RefersOnFile(row)
        /\ entries' = L!With(entries, e, row)
        /\ UNCHANGED <<today, lProperties, vendors, repairs, events, lAsking>>
    BY <1>15 DEF L!handleUpdateTransaction, L!UpdateTransaction
  <2>2. old \in L!Entry /\ e \in Nat \ {0}
    BY <2>1 DEF LedgerInv, EntriesHang, OnFile, Rowids
  <2>. HIDE DEF old
  <2>3. row \in L!Entry /\ row.source = old.source /\ row.property = old.property
    BY <2>2 DEF L!Entry
  <2>. HIDE DEF row
  <2>4. /\ EntriesHang(lProperties, vendors, repairs, entries')
        /\ DOMAIN entries' = DOMAIN entries \cup {e} /\ entries'[e] = row
        /\ \A i \in DOMAIN entries \ {e} : entries'[i] = entries[i]
    BY <2>1, <2>2, <2>3, EntryRowWritten
  <2>. QED
    BY <2>1, <2>3, <2>4 DEF LedgerInv, EntriesStay, old
<1>16. ASSUME NEW e \in EntryIds, L!handleDeleteTransaction(e)
       PROVE  LedgerInv' /\ EntriesStay
  <2>1. /\ DOMAIN entries' = DOMAIN entries \ {e} /\ \A i \in DOMAIN entries' : entries'[i] = entries[i]
        /\ UNCHANGED <<today, lProperties, vendors, repairs, events, lAsking>>
    BY <1>16 DEF L!handleDeleteTransaction, L!Without
  <2>. QED
    BY <2>1, RowidsLess DEF LedgerInv, EntriesStay, EntriesHang, OnFile
<1>. QED
  BY <1>1, <1>2, <1>3, <1>4, <1>5, <1>6, <1>7, <1>8, <1>9, <1>10, <1>11, <1>12, <1>13, <1>14,
     <1>15, <1>16 DEF L!Next

\* A step of another register keeps it.
LEMMA LedgerStays ==
  ASSUME LedgerInv, UNCHANGED lVars
  PROVE  LedgerInv'
BY DEF lVars, LedgerInv, OnFile, RepairsHang, EventsHang, EntriesHang

\* The invariant of the ledger holds throughout.
THEOREM LedgerInvariant == Spec => []LedgerInv
<1>1. Init => LedgerInv
  BY LedgerInit DEF Init
<1>2. LedgerInv /\ [Next]_vars => LedgerInv'
  BY LedgerStep, LedgerStays DEF Next, TStep, LStep, PStep, DStep, WStep, vars
<1>. QED
  BY <1>1, <1>2, PTL DEF Spec

\* However deletes fall between the read of a create and its write, every row
\* names only what is on file, and no repair closed before it opened.
THEOREM LedgerHangsTogetherHolds == Spec => []LedgerHangsTogether
BY LedgerInvariant, LedgerInvImplies, PTL

\* Tidying up a vendor or a repair touches no entry's amount, and nothing rewrites
\* how an entry arrived or which property it is of.
THEOREM MoneyStaysHolds == Spec => MoneyStays
<1>1. LedgerInv /\ [Next]_vars => [EntriesStay]_(L!vars)
  BY LedgerStep DEF Next, TStep, LStep, PStep, DStep, WStep, vars, lVars, L!vars
<1>. QED
  BY <1>1, LedgerInvariant, PTL DEF Spec, MoneyStays, L!MoneyStays, EntriesStay

-----------------------------------------------------------------------------
(* Policies.                                                               *)

\* The id of a new row is past every id on file.
LEMMA PNextId ==
  ASSUME NEW t, Rowids(DOMAIN t)
  PROVE  P!NextId(t) \in Nat \ {0} /\ \A i \in DOMAIN t : i < P!NextId(t)
BY NextIdIsNew DEF NextId, P!NextId

\* Policies are of properties on file, and a carrier has one without a number.
PoliciesFiled(ps, is) ==
  /\ OnFile(DOMAIN is, PolicyIds)
  /\ \A i \in DOMAIN is : is[i] \in P!Policy /\ is[i].property \in ps
  /\ \A i, j \in DOMAIN is :
       /\ is[i].property = is[j].property /\ is[i].carrier = is[j].carrier
       /\ is[i].number = 0 /\ is[j].number = 0
       => i = j

\* Mortgages are of properties on file, and a lender has one of each property.
MortgagesFiled(ps, ms) ==
  /\ OnFile(DOMAIN ms, MortgageIds)
  /\ \A m \in DOMAIN ms : ms[m] \in P!Mortgage /\ ms[m].property \in ps
  /\ \A m, n \in DOMAIN ms :
       /\ ms[m].property = ms[n].property /\ ms[m].lender = ms[n].lender
       => m = n \/ ms[m].lender = CutLender

\* Statements are of mortgages on file, one a day.
StatementsFiled(ms, ss) ==
  /\ OnFile(DOMAIN ss, StatementIds)
  /\ \A s \in DOMAIN ss : ss[s] \in P!Statement /\ ss[s].mortgage \in DOMAIN ms
  /\ \A s, t \in DOMAIN ss : ss[s].mortgage = ss[t].mortgage /\ ss[s].day = ss[t].day => s = t

\* What BalanceIsNewest says of one mortgage.
Carried(ss, m) == {s \in DOMAIN ss : ss[s].mortgage = m /\ ss[s].balance # 0}

Newest(ss, m, row) ==
  \/ Carried(ss, m) = {} /\ row.asOf = 0
  \/ \E s \in Carried(ss, m) :
       /\ row.asOf = ss[s].day /\ row.balance = ss[s].balance
       /\ \A o \in Carried(ss, m) : ss[o].day <= ss[s].day

\* The inductive invariant of the policies and mortgages.
PoliciesInv ==
  /\ OnFile(pProperties, PropertyIds)
  /\ PoliciesFiled(pProperties, policies)
  /\ MortgagesFiled(pProperties, mortgages)
  /\ StatementsFiled(mortgages, statements)
  /\ \A m \in DOMAIN mortgages : Newest(statements, m, mortgages[m])

\* Nothing is on file at first.
LEMMA PoliciesInit == P!Init => PoliciesInv
BY DEF P!Init, P!NoRows, PoliciesInv, OnFile, PoliciesFiled, MortgagesFiled, StatementsFiled, Rowids

\* The invariant says what the two properties do.
LEMMA PoliciesInvImplies == PoliciesInv => FiledOnce /\ BalanceIsNewest
<1>. SUFFICES ASSUME PoliciesInv
              PROVE  FiledOnce /\ BalanceIsNewest
  OBVIOUS
<1>1. P!TypeOK
  BY DEF PoliciesInv, OnFile, PoliciesFiled, MortgagesFiled, StatementsFiled, P!TypeOK
<1>2. FiledOnce
  BY <1>1 DEF PoliciesInv, PoliciesFiled, MortgagesFiled, StatementsFiled, FiledOnce, P!FiledOnce, P!Null
<1>3. BalanceIsNewest
  <2>1. \A m : P!Carrying(m) = Carried(statements, m)
    BY DEF P!Carrying, Carried
  <2>. QED
    BY <2>1 DEF PoliciesInv, Newest, BalanceIsNewest, P!BalanceIsNewest, P!Null
<1>. QED
  BY <1>2, <1>3

\* What setting a balance does to the row of a mortgage.
LEMMA BalanceSet ==
  ASSUME NEW table, NEW m \in DOMAIN table, table[m] \in P!Mortgage,
         NEW balance \in Balances, NEW day \in P!Days,
         NEW new, new = P!SetMortgageBalance(table, m, balance, day)
  PROVE  /\ DOMAIN new = DOMAIN table
         /\ \A n \in DOMAIN table \ {m} : new[n] = table[n]
         /\ new[m] \in P!Mortgage
         /\ new[m].property = table[m].property /\ new[m].lender = table[m].lender
         /\ table[m].asOf <= day => new[m].asOf = day /\ new[m].balance = balance
         /\ ~(table[m].asOf <= day) => new[m] = table[m]
<1>1. CASE table[m].asOf <= day
  <2> DEFINE row == [table[m] EXCEPT !.balance = balance, !.asOf = day]
  <2>1. new = [table EXCEPT ![m] = row]
    BY <1>1 DEF P!SetMortgageBalance
  <2>2. /\ row \in P!Mortgage /\ row.property = table[m].property /\ row.lender = table[m].lender
        /\ row.asOf = day /\ row.balance = balance
    BY DEF P!Mortgage
  <2>. HIDE DEF row
  <2>. QED
    BY <1>1, <2>1, <2>2
<1>2. CASE ~(table[m].asOf <= day)
  BY <1>2 DEF P!SetMortgageBalance
<1>. QED
  BY <1>1, <1>2

\* A policy read again is written over; one that is new is the only one of its carrier.
LEMMA InsuranceFiled ==
  ASSUME PoliciesInv, NEW p \in PropertyIds, NEW carrier \in Carriers,
         NEW number \in Numbers \cup {P!Null}, NEW from \in P!Days,
         P!fileInsurance(p, carrier, number, from)
  PROVE  PoliciesInv'
<1> DEFINE row == [property |-> p, carrier |-> carrier, number |-> number, from |-> from]
           found == P!FindInsurancePolicy(p, carrier, number)
           i == P!NextId(policies)
<1>1. /\ p \in pProperties /\ UNCHANGED <<pProperties, mortgages, statements>>
      /\ \/ found = {} /\ P!CreateInsurancePolicy(row)
         \/ \E j \in found : P!UpdateInsurancePolicy(j, row)
  BY DEF P!fileInsurance
<1>2. PICK k \in Nat \ {0} :
        /\ k \in PolicyIds /\ policies' = P!With(policies, k, row)
        /\ found = {} \/ k \in found
  <2>1. i \in Nat \ {0}
    BY PNextId DEF PoliciesInv, PoliciesFiled, OnFile
  <2>. HIDE DEF row, i
  <2>2. CASE found = {} /\ P!CreateInsurancePolicy(row)
    BY <2>1, <2>2 DEF P!CreateInsurancePolicy, i
  <2>3. ASSUME NEW j \in found, P!UpdateInsurancePolicy(j, row)
        PROVE  j \in Nat \ {0} /\ j \in PolicyIds /\ policies' = P!With(policies, j, row)
    BY <2>3 DEF P!UpdateInsurancePolicy, P!FindInsurancePolicy, PoliciesInv, PoliciesFiled, OnFile, Rowids
  <2>. QED
    BY <1>1, <2>2, <2>3
<1>3. row \in P!Policy
  BY DEF P!Policy
<1>4. \A j \in DOMAIN policies \ {k} :
        /\ policies[j].property = p /\ policies[j].carrier = carrier
        /\ policies[j].number = 0 /\ number = 0
        => FALSE
  <2>. SUFFICES ASSUME NEW j \in DOMAIN policies \ {k}, policies[j].property = p,
                       policies[j].carrier = carrier, policies[j].number = 0, number = 0
                PROVE  FALSE
    OBVIOUS
  <2>1. j \in found
    BY DEF P!FindInsurancePolicy, P!SameSeal, P!Null
  <2>2. k \in found
    BY <1>2, <2>1
  <2>. QED
    BY <2>1, <2>2 DEF P!FindInsurancePolicy, P!SameSeal, P!Null, PoliciesInv, PoliciesFiled
<1>5. row.property = p /\ row.carrier = carrier /\ row.number = number
  OBVIOUS
<1> HIDE DEF row, found
<1>6. /\ DOMAIN policies' = DOMAIN policies \cup {k} /\ policies'[k] = row
      /\ \A j \in DOMAIN policies \ {k} : policies'[j] = policies[j]
  BY <1>2 DEF P!With
<1>7. OnFile(DOMAIN policies', PolicyIds)
  BY <1>2, <1>6, RowidsMore DEF PoliciesInv, PoliciesFiled, OnFile
<1>8. PoliciesFiled(pProperties, policies')
  BY <1>1, <1>3, <1>4, <1>5, <1>6, <1>7 DEF PoliciesInv, PoliciesFiled
<1>. QED
  BY <1>1, <1>8 DEF PoliciesInv

\* A statement moves the balance when it is the newest, and only then.
LEMMA StatementFiled ==
  ASSUME PoliciesInv, NEW p \in PropertyIds, NEW lender \in Lenders, NEW number \in Numbers \cup {P!Null},
         NEW day \in P!Days, NEW balance \in Balances,
         P!fileMortgageStatement(p, lender, number, day, balance)
  PROVE  PoliciesInv'
<1> DEFINE named == {m \in DOMAIN mortgages : mortgages[m].property = p /\ mortgages[m].lender = lender}
           found == P!FindMortgageByLender(p, lender)
           fresh == found = {}
           m == IF fresh THEN P!NextId(mortgages) ELSE CHOOSE n \in found : TRUE
           blank == [property |-> p, lender |-> P!Clip(lender), balance |-> 0, asOf |-> 0]
           table == IF fresh THEN P!CreateMortgage(blank) ELSE mortgages
           row == [mortgage |-> m, day |-> day, balance |-> balance]
           s == P!NextId(statements)
<1>1. /\ p \in pProperties /\ m \in MortgageIds /\ ~P!Conflict(m, day)
      /\ P!CreateMortgageStatement(row)
      /\ mortgages' = IF balance = 0 THEN table ELSE P!SetMortgageBalance(table, m, balance, day)
      /\ UNCHANGED <<pProperties, policies>>
  BY DEF P!fileMortgageStatement, P!Null
<1>2. fresh => named = {}
  <2>1. SUFFICES ASSUME named # {}
                 PROVE  found # {}
    OBVIOUS
  <2>2. Rowids(named)
    BY RowidsLess DEF PoliciesInv, MortgagesFiled, OnFile
  <2>3. PICK n \in named : \A o \in named : n <= o
    BY <2>1, <2>2, LeastIsThere
  <2>4. n \in found
    BY <2>3 DEF P!FindMortgageByLender
  <2>. QED
    BY <2>4
<1>3. ~fresh => m \in DOMAIN mortgages
  BY DEF P!FindMortgageByLender
<1>4. fresh => m \in Nat \ {0} /\ m \notin DOMAIN mortgages
  <2>. HIDE DEF fresh
  <2>1. P!NextId(mortgages) \in Nat \ {0} /\ \A n \in DOMAIN mortgages : n < P!NextId(mortgages)
    BY PNextId DEF PoliciesInv, MortgagesFiled, OnFile
  <2>2. P!NextId(mortgages) \notin DOMAIN mortgages
    BY <2>1
  <2>. QED
    BY <2>1, <2>2
<1>5. s \in Nat \ {0} /\ s \in StatementIds /\ s \notin DOMAIN statements /\ statements' = P!With(statements, s, row)
  <2>1. s \in Nat \ {0} /\ \A o \in DOMAIN statements : o < s
    BY PNextId DEF PoliciesInv, StatementsFiled, OnFile
  <2>. HIDE DEF row
  <2>2. s \in StatementIds /\ statements' = P!With(statements, s, row)
    BY <1>1 DEF P!CreateMortgageStatement
  <2>. HIDE DEF s
  <2>3. s \notin DOMAIN statements
    BY <2>1
  <2>. QED
    BY <2>1, <2>2, <2>3
<1>6. blank \in P!Mortgage /\ blank.property = p /\ blank.lender \in {lender, CutLender} /\ blank.asOf = 0
  BY RegisterAssumption DEF P!Mortgage, P!Clip, P!PolicyAssumption, P!Null
<1>7. row \in P!Statement /\ row.mortgage = m /\ row.day = day /\ row.balance = balance
  BY <1>1 DEF P!Statement
<1>. HIDE DEF row, blank, s, m, fresh
<1>8. /\ m \in DOMAIN table
      /\ MortgagesFiled(pProperties, table)
      /\ \A n \in DOMAIN table : Newest(statements, n, table[n])
      /\ DOMAIN mortgages \subseteq DOMAIN table
  <2>1. CASE ~fresh
    BY <1>3, <2>1 DEF PoliciesInv
  <2>2. CASE fresh
    <3>1. table = P!With(mortgages, m, blank)
      BY <2>2 DEF P!CreateMortgage, m
    <3>. HIDE DEF table
    <3>2. /\ DOMAIN table = DOMAIN mortgages \cup {m} /\ table[m] = blank
          /\ \A n \in DOMAIN mortgages : table[n] = mortgages[n]
      BY <1>4, <2>2, <3>1 DEF P!With
    <3>3. OnFile(DOMAIN table, MortgageIds)
      BY <1>1, <1>4, <2>2, <3>2, RowidsMore DEF PoliciesInv, MortgagesFiled, OnFile
    <3>4. \A n \in DOMAIN mortgages : ~(mortgages[n].property = p /\ mortgages[n].lender = lender)
      BY <1>2, <2>2
    <3>5. MortgagesFiled(pProperties, table)
      BY <1>1, <1>6, <3>2, <3>3, <3>4 DEF PoliciesInv, MortgagesFiled
    <3>6. Carried(statements, m) = {}
      BY <1>4, <2>2 DEF PoliciesInv, StatementsFiled, Carried
    <3>7. \A n \in DOMAIN table : Newest(statements, n, table[n])
      BY <1>6, <3>2, <3>6 DEF PoliciesInv, Newest
    <3>. QED
      BY <3>2, <3>5, <3>7
  <2>. QED
    BY <2>1, <2>2
<1>. HIDE DEF table
<1>9. table[m] \in P!Mortgage
  BY <1>8 DEF MortgagesFiled
<1>10. /\ DOMAIN mortgages' = DOMAIN table
       /\ \A n \in DOMAIN table \ {m} : mortgages'[n] = table[n]
       /\ mortgages'[m] \in P!Mortgage
       /\ mortgages'[m].property = table[m].property /\ mortgages'[m].lender = table[m].lender
       /\ balance = 0 \/ ~(table[m].asOf <= day) => mortgages'[m] = table[m]
       /\ balance # 0 /\ table[m].asOf <= day => mortgages'[m].asOf = day /\ mortgages'[m].balance = balance
  <2>1. CASE balance = 0
    BY <1>1, <1>9, <2>1
  <2>2. CASE balance # 0
    BY <1>1, <1>8, <1>9, <2>2, BalanceSet
  <2>. QED
    BY <2>1, <2>2
<1>11. MortgagesFiled(pProperties, mortgages')
  BY <1>8, <1>10 DEF MortgagesFiled
<1>12. /\ DOMAIN statements' = DOMAIN statements \cup {s} /\ statements'[s] = row
       /\ \A o \in DOMAIN statements : statements'[o] = statements[o]
  BY <1>5 DEF P!With
<1>13. StatementsFiled(mortgages', statements')
  <2>1. OnFile(DOMAIN statements', StatementIds)
    BY <1>5, <1>12, RowidsMore DEF PoliciesInv, StatementsFiled, OnFile
  <2>2. \A o \in DOMAIN statements : ~(statements[o].mortgage = m /\ statements[o].day = day)
    BY <1>1 DEF P!Conflict
  <2>. QED
    BY <1>7, <1>8, <1>10, <1>12, <2>1, <2>2 DEF PoliciesInv, StatementsFiled
<1>14. \A n \in DOMAIN mortgages' : Newest(statements', n, mortgages'[n])
  <2>1. ASSUME NEW n \in DOMAIN mortgages', n # m
        PROVE  Newest(statements', n, mortgages'[n])
    <3>1. Carried(statements', n) = Carried(statements, n)
      BY <1>5, <1>7, <1>12, <2>1 DEF Carried
    <3>2. \A o \in Carried(statements, n) : statements'[o] = statements[o]
      BY <1>12 DEF Carried
    <3>3. Newest(statements, n, mortgages'[n])
      BY <1>8, <1>10, <2>1
    <3>. QED
      BY <3>1, <3>2, <3>3 DEF Newest
  <2>2. Newest(statements', m, mortgages'[m])
    <3>1. Newest(statements, m, table[m])
      BY <1>8
    <3>2. \A o \in Carried(statements, m) : statements'[o] = statements[o]
      BY <1>12 DEF Carried
    <3>3. CASE balance = 0
      <4>1. Carried(statements', m) = Carried(statements, m)
        BY <1>5, <1>7, <1>12, <3>3 DEF Carried
      <4>. QED
        BY <1>10, <3>1, <3>2, <3>3, <4>1 DEF Newest
    <3>4. CASE balance # 0
      <4>1. Carried(statements', m) = Carried(statements, m) \cup {s}
        BY <1>5, <1>7, <1>12, <3>4 DEF Carried
      <4>2. statements'[s].day = day /\ statements'[s].balance = balance
        BY <1>7, <1>12
      <4>3. day \in Nat \ {0} /\ \A o \in Carried(statements, m) : statements[o].day \in Nat
        BY RegisterAssumption DEF P!Days, P!PolicyAssumption, PoliciesInv, StatementsFiled, Carried, P!Statement
      <4>4. CASE table[m].asOf <= day
        <5>1. \A o \in Carried(statements, m) : statements[o].day <= day
          BY <3>1, <4>3, <4>4 DEF Newest
        <5>. QED
          BY <1>10, <3>2, <3>4, <4>1, <4>2, <4>3, <4>4, <5>1 DEF Newest
      <4>5. CASE ~(table[m].asOf <= day)
        <5>1. PICK o \in Carried(statements, m) :
                /\ table[m].asOf = statements[o].day /\ table[m].balance = statements[o].balance
                /\ \A q \in Carried(statements, m) : statements[q].day <= statements[o].day
          BY <3>1, <4>3, <4>5 DEF Newest
        <5>2. day <= statements[o].day
          BY <4>3, <4>5, <5>1
        <5>. QED
          BY <1>10, <3>2, <4>1, <4>2, <4>5, <5>1, <5>2 DEF Newest
      <4>. QED
        BY <4>4, <4>5
    <3>. QED
      BY <3>3, <3>4
  <2>. QED
    BY <2>1, <2>2
<1>. QED
  BY <1>1, <1>11, <1>13, <1>14 DEF PoliciesInv

\* Every step keeps the invariant.
LEMMA PoliciesStep ==
  ASSUME PoliciesInv, P!Next
  PROVE  PoliciesInv'
<1>1. CASE P!handleCreateProperty
  <2> DEFINE p == P!NextId([i \in pProperties |-> i])
  <2>1. /\ p \in PropertyIds /\ pProperties' = pProperties \cup {p}
        /\ UNCHANGED <<policies, mortgages, statements>>
    BY <1>1 DEF P!handleCreateProperty
  <2>2. p \in Nat \ {0}
    BY PNextId DEF PoliciesInv, OnFile
  <2> HIDE DEF p
  <2>. QED
    BY <2>1, <2>2, RowidsMore DEF PoliciesInv, OnFile, PoliciesFiled, MortgagesFiled
<1>2. ASSUME NEW p \in PropertyIds, P!handleDeleteProperty(p)
      PROVE  PoliciesInv'
  <2> DEFINE gone == {m \in DOMAIN mortgages : mortgages[m].property = p}
  <2>1. /\ pProperties' = pProperties \ {p}
        /\ policies' = P!Without(policies, {i \in DOMAIN policies : policies[i].property = p})
        /\ mortgages' = P!Without(mortgages, gone)
        /\ statements' = P!Without(statements, {s \in DOMAIN statements : statements[s].mortgage \in gone})
    BY <1>2 DEF P!handleDeleteProperty, P!DeleteProperty
  <2>2. OnFile(pProperties', PropertyIds)
    BY <2>1, RowidsLess DEF PoliciesInv, OnFile
  <2>3. PoliciesFiled(pProperties', policies')
    <3>1. /\ DOMAIN policies' \subseteq DOMAIN policies
          /\ \A i \in DOMAIN policies' : policies'[i] = policies[i] /\ policies[i].property # p
      BY <2>1 DEF P!Without
    <3>2. OnFile(DOMAIN policies', PolicyIds)
      BY <3>1, RowidsLess DEF PoliciesInv, PoliciesFiled, OnFile
    <3>3. \A i \in DOMAIN policies' : policies'[i] \in P!Policy /\ policies'[i].property \in pProperties'
      BY <2>1, <3>1 DEF PoliciesInv, PoliciesFiled
    <3>4. \A i, j \in DOMAIN policies' :
            /\ policies'[i].property = policies'[j].property
            /\ policies'[i].carrier = policies'[j].carrier
            /\ policies'[i].number = 0 /\ policies'[j].number = 0
            => i = j
      <4>. SUFFICES ASSUME NEW i \in DOMAIN policies', NEW j \in DOMAIN policies',
                           policies'[i].property = policies'[j].property,
                           policies'[i].carrier = policies'[j].carrier,
                           policies'[i].number = 0, policies'[j].number = 0
                    PROVE  i = j
        OBVIOUS
      <4>1. /\ i \in DOMAIN policies /\ policies'[i] = policies[i]
            /\ j \in DOMAIN policies /\ policies'[j] = policies[j]
        BY <3>1
      <4>. QED
        BY <4>1 DEF PoliciesInv, PoliciesFiled
    <3>. QED
      BY <3>2, <3>3, <3>4 DEF PoliciesFiled
  <2>4. /\ DOMAIN mortgages' = DOMAIN mortgages \ gone
        /\ \A m \in DOMAIN mortgages' : mortgages'[m] = mortgages[m]
    BY <2>1 DEF P!Without
  <2>5. MortgagesFiled(pProperties', mortgages')
    <3>1. OnFile(DOMAIN mortgages', MortgageIds)
      BY <2>4, RowidsLess DEF PoliciesInv, MortgagesFiled, OnFile
    <3>. QED
      BY <2>1, <2>4, <3>1 DEF PoliciesInv, MortgagesFiled
  <2>6. /\ DOMAIN statements' = {s \in DOMAIN statements : statements[s].mortgage \notin gone}
        /\ \A s \in DOMAIN statements' : statements'[s] = statements[s]
    BY <2>1 DEF P!Without
  <2>7. StatementsFiled(mortgages', statements')
    <3>1. OnFile(DOMAIN statements', StatementIds)
      BY <2>6, RowidsLess DEF PoliciesInv, StatementsFiled, OnFile
    <3>. QED
      BY <2>4, <2>6, <3>1 DEF PoliciesInv, StatementsFiled
  <2>8. ASSUME NEW m \in DOMAIN mortgages'
        PROVE  Newest(statements', m, mortgages'[m])
    <3>1. m \in DOMAIN mortgages \ gone /\ mortgages'[m] = mortgages[m]
      BY <2>4
    <3>2. Carried(statements', m) = Carried(statements, m)
      BY <2>6, <3>1 DEF Carried
    <3>3. \A s \in Carried(statements', m) : statements'[s] = statements[s]
      BY <2>6 DEF Carried
    <3>. QED
      BY <3>1, <3>2, <3>3 DEF PoliciesInv, Newest
  <2>. QED
    BY <2>2, <2>3, <2>5, <2>7, <2>8 DEF PoliciesInv
<1>. QED
  BY <1>1, <1>2, InsuranceFiled, StatementFiled DEF P!Next

\* A step of another register keeps it.
LEMMA PoliciesStay ==
  ASSUME PoliciesInv, UNCHANGED pVars
  PROVE  PoliciesInv'
BY DEF pVars, PoliciesInv, OnFile, PoliciesFiled, MortgagesFiled, StatementsFiled, Newest, Carried

\* The invariant of the policies and mortgages holds throughout.
THEOREM PoliciesInvariant == Spec => []PoliciesInv
<1>1. Init => PoliciesInv
  BY PoliciesInit DEF Init
<1>2. PoliciesInv /\ [Next]_vars => PoliciesInv'
  BY PoliciesStep, PoliciesStay DEF Next, TStep, LStep, PStep, DStep, WStep, vars
<1>. QED
  BY <1>1, <1>2, PTL DEF Spec

\* However often a declaration or a statement is read and approved, a lender has
\* one mortgage of a property and a day one statement of it.
THEOREM FiledOnceHolds == Spec => []FiledOnce
BY PoliciesInvariant, PoliciesInvImplies, PTL

\* In whatever order statements are approved, the balance of a mortgage is that
\* of its newest statement which carries one.
THEOREM BalanceIsNewestHolds == Spec => []BalanceIsNewest
BY PoliciesInvariant, PoliciesInvImplies, PTL

-----------------------------------------------------------------------------
(* Documents.                                                              *)

\* The id of a new row is past every id on file.
LEMMA DNextId ==
  ASSUME NEW t, Rowids(DOMAIN t)
  PROVE  D!NextId(t) \in Nat \ {0} /\ \A i \in DOMAIN t : i < D!NextId(t)
BY NextIdIsNew DEF NextId, D!NextId

\* One content has one row, of a property that is on file or of none.
DocumentsFiled(ps, ds) ==
  /\ OnFile(DOMAIN ds, DocumentIds)
  /\ \A d \in DOMAIN ds : ds[d] \in D!Document /\ ds[d].property \in ps \cup {0}
  /\ \A d, e \in DOMAIN ds : ds[d].sha = ds[e].sha => d = e

\* A link is of a document that is on file.
LinksHang(ds, ls) ==
  /\ ls \subseteq DocumentIds \X RecordIds
  /\ \A x \in ls : x[1] \in DOMAIN ds

\* The rows name bytes that are there.
Whole(ds, bs) == \A d \in DOMAIN ds : ds[d].sha \in bs

\* An upload past the rename has its bytes in the tree.
UploadsWhole ==
  /\ at \in [Uploaders -> {"nothing", "copied", "stored", "checked"}]
  /\ DOMAIN form = Uploaders
  /\ \A u \in Uploaders :
       /\ form[u] \in IF at[u] = "nothing" THEN {D!NoForm} ELSE D!Form
       /\ at[u] \in {"stored", "checked"} => form[u].sha \in blobs

\* The inductive invariant of the documents: no byte that counts is unsynced.
DocumentsInv ==
  /\ OnFile(dProperties, OwnerIds) /\ OnFile(records, RecordIds)
  /\ DocumentsFiled(dProperties, documents)
  /\ LinksHang(documents, links)
  /\ Whole(documents, blobs) /\ soft = {} /\ blobs \subseteq Digests
  /\ UploadsWhole
  /\ synced \subseteq Uploaders
  /\ linking \in DocumentIds \cup {0}
  /\ cuts \in 0 .. MaxCuts

\* Nothing is on file at first.
LEMMA DocumentsInit == D!Init => DocumentsInv
BY RegisterAssumption
DEF D!Init, D!NoRows, DocumentsInv, OnFile, DocumentsFiled, LinksHang, Whole, UploadsWhole, Rowids, D!Null,
    D!DocumentAssumption

\* The invariant says what NothingMissing does.
LEMMA DocumentsInvImplies == DocumentsInv => NothingMissing
<1>. SUFFICES ASSUME DocumentsInv
              PROVE  NothingMissing
  OBVIOUS
<1>1. D!TypeOK
  BY DEF DocumentsInv, OnFile, DocumentsFiled, LinksHang, UploadsWhole, D!TypeOK, D!Null
<1>. QED
  BY <1>1 DEF DocumentsInv, DocumentsFiled, LinksHang, Whole, NothingMissing, D!NothingMissing, D!Null

\* A step that leaves the rows and the bytes alone.
LEMMA RowsUntouched ==
  ASSUME DocumentsInv, UNCHANGED <<dProperties, records, documents, links, blobs, soft>>,
         UploadsWhole', synced' \subseteq Uploaders, linking' \in DocumentIds \cup {0},
         cuts' \in 0 .. MaxCuts
  PROVE  DocumentsInv'
BY DEF DocumentsInv, OnFile, DocumentsFiled, LinksHang, Whole

\* A step that leaves the uploads alone.
LEMMA UploadsUntouched ==
  ASSUME DocumentsInv, UNCHANGED <<blobs, soft, at, form, synced, linking, cuts>>,
         OnFile(dProperties', OwnerIds), OnFile(records', RecordIds),
         DocumentsFiled(dProperties', documents'),
         LinksHang(documents', links'),
         Whole(documents', blobs)
  PROVE  DocumentsInv'
BY DEF DocumentsInv, OnFile, UploadsWhole

\* An upload that moves on.
LEMMA UploadMovesOn ==
  ASSUME DocumentsInv, NEW u \in Uploaders, at[u] # "nothing",
         NEW to \in {"copied", "stored", "checked"}, at' = [at EXCEPT ![u] = to],
         blobs \subseteq blobs', to \in {"stored", "checked"} => form[u].sha \in blobs',
         UNCHANGED form
  PROVE  UploadsWhole'
BY DEF DocumentsInv, UploadsWhole

\* An upload that is over leaves the others as they are.
LEMMA UploadOver ==
  ASSUME DocumentsInv, NEW u \in Uploaders, D!Over(u), UNCHANGED blobs
  PROVE  UploadsWhole' /\ synced' \subseteq Uploaders
<1>1. /\ at' = [at EXCEPT ![u] = "nothing"] /\ form' = [form EXCEPT ![u] = D!NoForm]
      /\ synced' = synced \ {u}
  BY DEF D!Over
<1>2. \A v \in Uploaders \ {u} : at'[v] = at[v] /\ form'[v] = form[v]
  BY <1>1 DEF DocumentsInv, UploadsWhole
<1>3. at'[u] = "nothing" /\ form'[u] = D!NoForm
  BY <1>1 DEF DocumentsInv, UploadsWhole
<1>. QED
  BY <1>1, <1>2, <1>3 DEF DocumentsInv, UploadsWhole

\* An upload that is filed finds its row or makes the only one of its digest.
LEMMA UploadFiled ==
  ASSUME DocumentsInv, NEW u \in Uploaders, D!handleUploadDocument(u)
  PROVE  DocumentsInv'
<1> DEFINE f == form[u]
           row == [sha |-> f.sha, property |-> f.property]
           found == D!GetDocumentBySHA(f.sha)
<1>1. /\ at[u] = "checked" /\ D!Over(u)
      /\ UNCHANGED <<dProperties, records, blobs, soft, linking, cuts>>
      /\ \/ \E d \in found : D!CreateDocumentLink(d, f.link) /\ UNCHANGED documents
         \/ /\ found = {} /\ D!CreateDocument(row)
            /\ D!CreateDocumentLink(D!NextId(documents), f.link)
         \/ UNCHANGED <<documents, links>>
  BY DEF D!handleUploadDocument, D!disk
<1>2. UploadsWhole' /\ synced' \subseteq Uploaders
  BY <1>1, UploadOver
<1>3. f \in D!Form /\ f.sha \in blobs
  BY <1>1 DEF DocumentsInv, UploadsWhole
<1>4. row \in D!Document /\ row.sha = f.sha /\ row.property = f.property
  BY <1>3 DEF D!Form, D!Document
<1>5. f.link \in RecordIds \cup {0}
  BY <1>3 DEF D!Form, D!Null
<1>. HIDE DEF f, row
<1>6. DocumentsFiled(dProperties, documents') /\ LinksHang(documents', links') /\ Whole(documents', blobs)
  <2>1. ASSUME NEW d \in found, D!CreateDocumentLink(d, f.link), UNCHANGED documents
        PROVE  /\ DocumentsFiled(dProperties, documents') /\ LinksHang(documents', links')
               /\ Whole(documents', blobs)
    <3>0. DocumentsFiled(dProperties, documents') /\ Whole(documents', blobs)
      BY <2>1 DEF DocumentsInv
    <3>1. d \in DOMAIN documents /\ d \in DocumentIds
      BY DEF D!GetDocumentBySHA, DocumentsInv, DocumentsFiled, OnFile
    <3>2. CASE f.link = D!Null
      BY <2>1, <3>2 DEF DocumentsInv, LinksHang, D!CreateDocumentLink
    <3>3. CASE f.link # D!Null
      <4>1. f.link \in RecordIds /\ links' = links \cup {<<d, f.link>>}
        BY <1>5, <2>1, <3>3 DEF D!CreateDocumentLink, D!Null
      <4>. QED
        BY <2>1, <3>1, <4>1 DEF DocumentsInv, LinksHang
    <3>. QED
      BY <3>0, <3>2, <3>3
  <2>3. CASE /\ found = {} /\ D!CreateDocument(row)
             /\ D!CreateDocumentLink(D!NextId(documents), f.link)
    <3> DEFINE n == D!NextId(documents)
    <3>1. n \in Nat \ {0} /\ n \in DocumentIds /\ documents' = D!With(documents, n, row)
      BY <2>3, DNextId DEF DocumentsInv, DocumentsFiled, OnFile, D!CreateDocument
    <3>2. f.property \in dProperties \cup {0} /\ \A d \in DOMAIN documents : documents[d].sha # f.sha
      BY <1>4, <2>3 DEF D!CreateDocument, D!GetDocumentBySHA, D!Null
    <3>3. \A i \in DOMAIN documents : i < n
      BY DNextId DEF DocumentsInv, DocumentsFiled, OnFile
    <3>4. D!CreateDocumentLink(n, f.link)
      BY <2>3
    <3>. HIDE DEF n
    <3>5. n \notin DOMAIN documents
      BY <3>1, <3>3
    <3>6. /\ DOMAIN documents' = DOMAIN documents \cup {n} /\ documents'[n] = row
          /\ \A d \in DOMAIN documents : documents'[d] = documents[d]
      BY <3>1, <3>5 DEF D!With
    <3>7. OnFile(DOMAIN documents', DocumentIds)
      BY <3>1, <3>6, RowidsMore DEF DocumentsInv, DocumentsFiled, OnFile
    <3>8. DocumentsFiled(dProperties, documents')
      BY <1>4, <3>2, <3>6, <3>7 DEF DocumentsInv, DocumentsFiled
    <3>9. Whole(documents', blobs)
      BY <1>3, <1>4, <3>6 DEF DocumentsInv, Whole
    <3>10. LinksHang(documents', links')
      <4>1. CASE f.link = D!Null
        BY <3>4, <3>6, <4>1 DEF DocumentsInv, LinksHang, D!CreateDocumentLink
      <4>2. CASE f.link # D!Null
        <5>1. f.link \in RecordIds /\ links' = links \cup {<<n, f.link>>}
          BY <1>5, <3>4, <4>2 DEF D!CreateDocumentLink, D!Null
        <5>. QED
          BY <3>1, <3>6, <5>1 DEF DocumentsInv, LinksHang
      <4>. QED
        BY <4>1, <4>2
    <3>. QED
      BY <3>8, <3>9, <3>10
  <2>4. CASE UNCHANGED <<documents, links>>
    BY <2>4 DEF DocumentsInv, DocumentsFiled, LinksHang, Whole
  <2>. QED
    BY <1>1, <2>1, <2>3, <2>4
<1>. QED
  BY <1>1, <1>2, <1>6 DEF DocumentsInv, OnFile

\* Every handler and every power cut keeps the invariant.
LEMMA DocumentsStep ==
  ASSUME DocumentsInv, D!Next
  PROVE  DocumentsInv'
<1>1. ASSUME NEW u \in Uploaders, NEW f \in D!Form, D!Copy(u, f)
      PROVE  DocumentsInv'
  <2>1. /\ at' = [at EXCEPT ![u] = "copied"] /\ form' = [form EXCEPT ![u] = f]
        /\ UNCHANGED <<dProperties, records, documents, links, blobs, soft, synced, linking, cuts>>
    BY <1>1 DEF D!Copy, D!rows, D!disk
  <2>2. \A v \in Uploaders \ {u} : at'[v] = at[v] /\ form'[v] = form[v]
    BY <2>1 DEF DocumentsInv, UploadsWhole
  <2>3. at'[u] = "copied" /\ form'[u] = f
    BY <2>1 DEF DocumentsInv, UploadsWhole
  <2>4. UploadsWhole'
    BY <2>1, <2>2, <2>3 DEF DocumentsInv, UploadsWhole
  <2>. QED
    BY <2>1, <2>4, RowsUntouched DEF DocumentsInv
<1>2. ASSUME NEW u \in Uploaders, D!Sync(u)
      PROVE  DocumentsInv'
  <2>1. /\ synced' = synced \cup {u}
        /\ UNCHANGED <<dProperties, records, documents, links, blobs, soft, at, form, linking, cuts>>
    BY <1>2 DEF D!Sync, D!rows, D!disk
  <2>. QED
    BY <2>1, RowsUntouched DEF DocumentsInv, UploadsWhole
<1>3. ASSUME NEW u \in Uploaders, D!Rename(u)
      PROVE  DocumentsInv'
  <2>1. /\ at[u] = "copied" /\ at' = [at EXCEPT ![u] = "stored"]
        /\ blobs' = blobs \cup {form[u].sha}
        /\ UNCHANGED <<dProperties, records, documents, links, soft, form, synced, linking, cuts>>
    BY <1>3 DEF D!Rename, D!rows
  <2>2. form[u].sha \in Digests
    BY <2>1 DEF DocumentsInv, UploadsWhole, D!Form
  <2>3. UploadsWhole'
    BY <2>1, UploadMovesOn
  <2>. QED
    BY <2>1, <2>2, <2>3 DEF DocumentsInv, OnFile, DocumentsFiled, LinksHang, Whole
<1>4. ASSUME NEW u \in Uploaders, D!Abandon(u)
      PROVE  DocumentsInv'
  <2>1. D!Over(u) /\ UNCHANGED <<dProperties, records, documents, links, blobs, soft, linking, cuts>>
    BY <1>4 DEF D!Abandon, D!rows, D!disk
  <2>. QED
    BY <2>1, UploadOver, RowsUntouched DEF DocumentsInv
<1>5. ASSUME NEW u \in Uploaders, D!UploadChecked(u)
      PROVE  DocumentsInv'
  <2>1. /\ at[u] = "stored" /\ at' = [at EXCEPT ![u] = "checked"]
        /\ UNCHANGED <<dProperties, records, documents, links, blobs, soft, form, synced, linking, cuts>>
    BY <1>5 DEF D!UploadChecked, D!rows, D!disk
  <2>2. form[u].sha \in blobs
    BY <2>1 DEF DocumentsInv, UploadsWhole
  <2>3. UploadsWhole'
    BY <2>1, <2>2, UploadMovesOn
  <2>. QED
    BY <2>1, <2>3, RowsUntouched DEF DocumentsInv
<1>6. CASE D!PowerCut
  <2>1. /\ cuts < MaxCuts /\ cuts' = cuts + 1 /\ blobs' = blobs \ soft /\ soft' = {}
        /\ at' = [u \in Uploaders |-> "nothing"] /\ form' = [u \in Uploaders |-> D!NoForm]
        /\ synced' = {} /\ linking' = 0
        /\ UNCHANGED <<dProperties, records, documents, links>>
    BY <1>6 DEF D!PowerCut, D!rows, D!Null
  <2>2. blobs' = blobs
    BY <2>1 DEF DocumentsInv
  <2>3. UploadsWhole'
    BY <2>1 DEF UploadsWhole
  <2>4. cuts' \in 0 .. MaxCuts
    BY <2>1, RegisterAssumption DEF DocumentsInv, D!DocumentAssumption
  <2>. QED
    BY <2>1, <2>2, <2>3, <2>4, RowsUntouched DEF DocumentsInv
<1>7. CASE D!handleCreateProperty
  <2> DEFINE p == D!NextId([i \in dProperties |-> i])
  <2>1. /\ p \in OwnerIds /\ dProperties' = dProperties \cup {p}
        /\ UNCHANGED <<records, documents, links, blobs, soft, at, form, synced, linking, cuts>>
    BY <1>7 DEF D!handleCreateProperty, D!disk, D!uploads
  <2>2. p \in Nat \ {0}
    BY DNextId DEF DocumentsInv, OnFile
  <2> HIDE DEF p
  <2>3. OnFile(dProperties', OwnerIds) /\ DocumentsFiled(dProperties', documents')
    BY <2>1, <2>2, RowidsMore DEF DocumentsInv, OnFile, DocumentsFiled
  <2>. QED
    BY <2>1, <2>3, UploadsUntouched DEF DocumentsInv
<1>8. CASE D!RecordMade
  <2> DEFINE r == D!NextId([i \in records |-> i])
  <2>1. /\ r \in RecordIds /\ records' = records \cup {r}
        /\ UNCHANGED <<dProperties, documents, links, blobs, soft, at, form, synced, linking, cuts>>
    BY <1>8 DEF D!RecordMade, D!disk, D!uploads
  <2>2. r \in Nat \ {0}
    BY DNextId DEF DocumentsInv, OnFile
  <2> HIDE DEF r
  <2>3. OnFile(records', RecordIds)
    BY <2>1, <2>2, RowidsMore DEF DocumentsInv, OnFile
  <2>. QED
    BY <2>1, <2>3, UploadsUntouched DEF DocumentsInv
<1>9. ASSUME NEW p \in OwnerIds, D!handleDeleteProperty(p)
      PROVE  DocumentsInv'
  <2>1. /\ dProperties' = dProperties \ {p}
        /\ documents' = [d \in DOMAIN documents |-> [documents[d] EXCEPT !.property = IF @ = p THEN 0 ELSE @]]
        /\ UNCHANGED <<records, links, blobs, soft, at, form, synced, linking, cuts>>
    BY <1>9 DEF D!handleDeleteProperty, D!DeleteProperty, D!disk, D!uploads, D!Null
  <2>2. OnFile(dProperties', OwnerIds)
    BY <2>1, RowidsLess DEF DocumentsInv, OnFile
  <2>3. p # 0
    BY RegisterAssumption DEF D!DocumentAssumption
  <2>4. \A d \in DOMAIN documents :
          /\ documents'[d] \in D!Document /\ documents'[d].sha = documents[d].sha
          /\ documents'[d].property \in {documents[d].property, 0} \ {p}
    <3>. SUFFICES ASSUME NEW d \in DOMAIN documents
                  PROVE  /\ documents'[d] \in D!Document /\ documents'[d].sha = documents[d].sha
                         /\ documents'[d].property \in {documents[d].property, 0} \ {p}
      OBVIOUS
    <3>1. documents[d] \in D!Document
      BY DEF DocumentsInv, DocumentsFiled
    <3>2. documents'[d] = [documents[d] EXCEPT !.property = IF @ = p THEN 0 ELSE @]
      BY <2>1
    <3>. QED
      BY <2>3, <3>1, <3>2 DEF D!Document, D!Null
  <2>5. DOMAIN documents' = DOMAIN documents
    BY <2>1
  <2>6. \A d \in DOMAIN documents : documents'[d].property \in dProperties' \cup {0}
    BY <2>1, <2>4 DEF DocumentsInv, DocumentsFiled
  <2>7. DocumentsFiled(dProperties', documents')
    BY <2>4, <2>5, <2>6 DEF DocumentsInv, DocumentsFiled
  <2>. QED
    BY <2>1, <2>2, <2>4, <2>5, <2>7, UploadsUntouched DEF DocumentsInv, LinksHang, Whole
<1>10. ASSUME NEW r \in RecordIds, D!RecordDeleted(r)
       PROVE  DocumentsInv'
  <2>1. /\ records' = records \ {r}
        /\ UNCHANGED <<dProperties, documents, links, blobs, soft, at, form, synced, linking, cuts>>
    BY <1>10 DEF D!RecordDeleted, D!disk, D!uploads
  <2>2. OnFile(records', RecordIds)
    BY <2>1, RowidsLess DEF DocumentsInv, OnFile
  <2>. QED
    BY <2>1, <2>2, UploadsUntouched DEF DocumentsInv
<1>11. ASSUME NEW r \in RecordIds, D!DocumentLinked(r)
       PROVE  DocumentsInv'
  <2>1. /\ linking' = 0
        /\ IF linking \in DOMAIN documents THEN D!CreateDocumentLink(linking, r) ELSE UNCHANGED links
        /\ UNCHANGED <<dProperties, records, documents, blobs, soft, at, form, synced, cuts>>
    BY <1>11 DEF D!DocumentLinked, D!disk, D!uploads, D!Null
  <2>2. CASE UNCHANGED links
    BY <2>1, <2>2, RowsUntouched DEF DocumentsInv, UploadsWhole
  <2>3. CASE linking \in DOMAIN documents /\ links' = links \cup {<<linking, r>>}
    <3>1. LinksHang(documents, links')
      BY <2>3 DEF DocumentsInv, LinksHang, DocumentsFiled, OnFile
    <3>. QED
      BY <2>1, <3>1 DEF DocumentsInv, OnFile, UploadsWhole
  <2>. QED
    BY <2>1, <2>2, <2>3 DEF D!CreateDocumentLink
<1>12. ASSUME NEW d \in DocumentIds, D!handleDeleteDocument(d)
       PROVE  DocumentsInv'
  <2>1. /\ DOMAIN documents' = DOMAIN documents \ {d}
        /\ \A e \in DOMAIN documents' : documents'[e] = documents[e]
        /\ links' = {x \in links : x[1] # d}
        /\ UNCHANGED <<dProperties, records, blobs, soft, at, form, synced, linking, cuts>>
    BY <1>12 DEF D!handleDeleteDocument, D!DeleteDocument, D!Without, D!disk, D!uploads
  <2>2. OnFile(DOMAIN documents', DocumentIds)
    BY <2>1, RowidsLess DEF DocumentsInv, DocumentsFiled, OnFile
  <2>3. DocumentsFiled(dProperties, documents') /\ LinksHang(documents', links') /\ Whole(documents', blobs)
    BY <2>1, <2>2 DEF DocumentsInv, DocumentsFiled, LinksHang, Whole
  <2>. QED
    BY <2>1, <2>3, UploadsUntouched DEF DocumentsInv
<1>13. ASSUME NEW d \in DocumentIds, D!handleLinkDocument(d)
       PROVE  DocumentsInv'
  <2>1. /\ linking' = d
        /\ UNCHANGED <<dProperties, records, documents, links, blobs, soft, at, form, synced, cuts>>
    BY <1>13 DEF D!handleLinkDocument, D!rows, D!disk, D!uploads
  <2>. QED
    BY <2>1, RowsUntouched DEF DocumentsInv, UploadsWhole
<1>14. ASSUME NEW d \in DocumentIds, NEW p \in OwnerIds \cup {D!Null}, D!handleUpdateDocument(d, p)
       PROVE  DocumentsInv'
  <2>1. /\ d \in DOMAIN documents /\ p \in dProperties \cup {0}
        /\ documents' = [documents EXCEPT ![d].property = p]
        /\ UNCHANGED <<dProperties, records, links, blobs, soft, at, form, synced, linking, cuts>>
    BY <1>14 DEF D!handleUpdateDocument, D!disk, D!uploads, D!Null
  <2>2. documents[d] \in D!Document
    BY <2>1 DEF DocumentsInv, DocumentsFiled
  <2>3. /\ DOMAIN documents' = DOMAIN documents
        /\ \A e \in DOMAIN documents \ {d} : documents'[e] = documents[e]
        /\ documents'[d] = [documents[d] EXCEPT !.property = p]
    BY <2>1
  <2>4. documents'[d] \in D!Document /\ documents'[d].sha = documents[d].sha /\ documents'[d].property = p
    BY <2>2, <2>3 DEF D!Document
  <2>5. DocumentsFiled(dProperties, documents') /\ Whole(documents', blobs)
    BY <2>1, <2>3, <2>4 DEF DocumentsInv, DocumentsFiled, Whole
  <2>. QED
    BY <2>1, <2>3, <2>5, UploadsUntouched DEF DocumentsInv, LinksHang
<1>15. ASSUME NEW d \in DocumentIds, NEW r \in RecordIds, D!handleUnlinkDocument(d, r)
       PROVE  DocumentsInv'
  <2>1. /\ links' \subseteq links
        /\ UNCHANGED <<dProperties, records, documents, blobs, soft, at, form, synced, linking, cuts>>
    BY <1>15 DEF D!handleUnlinkDocument, D!disk, D!uploads
  <2>. QED
    BY <2>1, UploadsUntouched DEF DocumentsInv, LinksHang
<1>. QED
  BY <1>1, <1>2, <1>3, <1>4, <1>5, <1>6, <1>7, <1>8, <1>9, <1>10, <1>11, <1>12, <1>13, <1>14,
     <1>15, UploadFiled DEF D!Next

\* A step of another register keeps it.
LEMMA DocumentsStay ==
  ASSUME DocumentsInv, UNCHANGED dVars
  PROVE  DocumentsInv'
BY DEF dVars, DocumentsInv, OnFile, DocumentsFiled, LinksHang, Whole, UploadsWhole

\* The invariant of the documents holds throughout.
THEOREM DocumentsInvariant == Spec => []DocumentsInv
<1>1. Init => DocumentsInv
  BY DocumentsInit DEF Init
<1>2. DocumentsInv /\ [Next]_vars => DocumentsInv'
  BY DocumentsStep, DocumentsStay DEF Next, TStep, LStep, PStep, DStep, WStep, vars
<1>. QED
  BY <1>1, <1>2, PTL DEF Spec

\* However uploads of one content run side by side and wherever the power goes,
\* every row names bytes that are in the store whole.
THEOREM NothingMissingHolds == Spec => []NothingMissing
BY DocumentsInvariant, DocumentsInvImplies, PTL
=============================================================================
