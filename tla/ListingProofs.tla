--------------------------- MODULE ListingProofs ----------------------------
(***************************************************************************)
(* Theorems of the walk through a list in Registers, for any rows, keys    *)
(* and page size.  A page is the first rows of a finite set in a strict    *)
(* order; what is proved of such pages first is about sets and relations   *)
(* alone.                                                                  *)
(***************************************************************************)
EXTENDS RegistersProofs

-----------------------------------------------------------------------------
(* The first rows of a set in an order.                                    *)

\* A strict order of the members of a set, as a set of pairs.
Orders(R, S) ==
  /\ \A i \in S : <<i, i>> \notin R
  /\ \A i, j, k \in S : <<i, j>> \in R /\ <<j, k>> \in R => <<i, k>> \in R
  /\ \A i, j \in S : i = j \/ <<i, j>> \in R \/ <<j, i>> \in R

\* The members before one.
Ahead(S, R, i) == {j \in S : <<j, i>> \in R}

\* The first n members.
FirstOf(n, S, R) == {i \in S : Cardinality(Ahead(S, R, i)) < n}

\* A member that comes later has more before it.
LEMMA AheadGrows ==
  ASSUME NEW S, IsFiniteSet(S), NEW R, Orders(R, S), NEW i \in S, NEW j \in S, <<j, i>> \in R
  PROVE  Cardinality(Ahead(S, R, j)) < Cardinality(Ahead(S, R, i))
<1>1. Ahead(S, R, j) \subseteq Ahead(S, R, i) /\ j \in Ahead(S, R, i) /\ j \notin Ahead(S, R, j)
  BY DEF Ahead, Orders
<1>2. IsFiniteSet(Ahead(S, R, i)) /\ IsFiniteSet(Ahead(S, R, j))
  <2>1. Ahead(S, R, i) \subseteq S /\ Ahead(S, R, j) \subseteq S
    BY DEF Ahead
  <2>. QED
    BY <2>1, FS_Subset
<1>3. /\ Cardinality(Ahead(S, R, j)) <= Cardinality(Ahead(S, R, i))
      /\ Cardinality(Ahead(S, R, i)) = Cardinality(Ahead(S, R, j)) => Ahead(S, R, i) = Ahead(S, R, j)
  BY <1>1, <1>2, FS_Subset
<1>4. Cardinality(Ahead(S, R, i)) \in Nat /\ Cardinality(Ahead(S, R, j)) \in Nat
  BY <1>2, FS_CardinalityType
<1>. QED
  BY <1>1, <1>3, <1>4

\* A finite set that is not empty has a first member.
LEMMA FirstIsThere ==
  ASSUME NEW S, IsFiniteSet(S), S # {}, NEW R, Orders(R, S)
  PROVE  \E i \in S : \A j \in S : <<j, i>> \notin R
<1> DEFINE Less == {s \in Nat \X Nat : s[1] < s[2]}
           ranks == {Cardinality(Ahead(S, R, i)) : i \in S}
<1>1. \A i \in S : Cardinality(Ahead(S, R, i)) \in Nat
  <2>1. \A i \in S : Ahead(S, R, i) \subseteq S
    BY DEF Ahead
  <2>. QED
    BY <2>1, FS_Subset, FS_CardinalityType
<1>2. ranks \subseteq Nat /\ ranks # {}
  BY <1>1
<1>3. IsWellFoundedOn(Less, Nat)
  BY NatLessThanWellFounded DEF OpToRel
<1>4. PICK r \in ranks : \A q \in ranks : ~(<<q, r>> \in Less)
  BY <1>2, <1>3, WFMin
<1>5. PICK i \in S : r = Cardinality(Ahead(S, R, i))
  OBVIOUS
<1>6. ASSUME NEW j \in S, <<j, i>> \in R
      PROVE  FALSE
  <2>1. Cardinality(Ahead(S, R, j)) < r
    BY <1>5, <1>6, AheadGrows
  <2>2. Cardinality(Ahead(S, R, j)) \in ranks
    OBVIOUS
  <2>. QED
    BY <1>2, <1>4, <2>1, <2>2
<1>. QED
  BY <1>6

\* A finite set that is not empty has a last member.
LEMMA LastIsThere ==
  ASSUME NEW S, IsFiniteSet(S), S # {}, NEW R, Orders(R, S)
  PROVE  \E i \in S : \A j \in S : i = j \/ <<j, i>> \in R
<1> DEFINE Turned == {x \in S \X S : <<x[2], x[1]>> \in R}
<1>1. \A i, j \in S : <<i, j>> \in Turned <=> <<j, i>> \in R
  OBVIOUS
<1>. HIDE DEF Turned
<1>2. Orders(Turned, S)
  BY <1>1 DEF Orders
<1>3. PICK i \in S : \A j \in S : <<j, i>> \notin Turned
  BY <1>2, FirstIsThere
<1>. QED
  BY <1>1, <1>3 DEF Orders

\* A page of some rows in an order: it is all that is left when it is short, and
\* when it is not, what it shows has a last row and leaves out none before it.
LEMMA PageCut ==
  ASSUME NEW S, IsFiniteSet(S), NEW R, Orders(R, S), NEW size \in Nat \ {0},
         NEW page, page = FirstOf(size + 1, S, R),
         NEW seen, seen = FirstOf(size, page, R)
  PROVE  /\ seen \subseteq S /\ IsFiniteSet(page)
         /\ Cardinality(page) <= size => seen = S
         /\ Cardinality(page) > size =>
              /\ \E i \in seen : \A j \in seen : i = j \/ <<j, i>> \in R
              /\ \A last \in seen : \A i \in S : <<i, last>> \in R => i \in seen
<1>1. page \subseteq S /\ seen \subseteq page
  BY DEF FirstOf
<1>2. IsFiniteSet(page) /\ IsFiniteSet(seen)
  BY <1>1, FS_Subset
<1>3. Orders(R, page) /\ Orders(R, seen)
  BY <1>1 DEF Orders
<1>4. /\ \A i \in S : Cardinality(Ahead(S, R, i)) \in Nat /\ IsFiniteSet(Ahead(S, R, i))
      /\ \A i \in page : Cardinality(Ahead(page, R, i)) \in Nat /\ IsFiniteSet(Ahead(page, R, i))
  <2>1. (\A i \in S : Ahead(S, R, i) \subseteq S) /\ (\A i \in page : Ahead(page, R, i) \subseteq page)
    BY DEF Ahead
  <2>. QED
    BY <1>2, <2>1, FS_Subset, FS_CardinalityType
<1>5. Cardinality(page) \in Nat
  BY <1>2, FS_CardinalityType
<1>6. ASSUME Cardinality(page) <= size
      PROVE  seen = S
  <2>1. page = S
    <3>1. SUFFICES ASSUME S \ page # {}
                   PROVE  FALSE
      BY <1>1
    <3>2. IsFiniteSet(S \ page) /\ Orders(R, S \ page)
      <4>1. IsFiniteSet(S \ page)
        BY FS_Subset
      <4>. QED
        BY <4>1 DEF Orders
    <3>3. PICK i \in S \ page : \A j \in S \ page : <<j, i>> \notin R
      BY <3>1, <3>2, FirstIsThere
    <3>4. Ahead(S, R, i) \subseteq page
      BY <3>3 DEF Ahead
    <3>5. Cardinality(Ahead(S, R, i)) <= Cardinality(page)
      BY <1>2, <3>4, FS_Subset
    <3>6. Cardinality(Ahead(S, R, i)) \in Nat
      BY <1>4
    <3>7. Cardinality(Ahead(S, R, i)) < size + 1
      BY <1>5, <1>6, <3>5, <3>6
    <3>. QED
      BY <3>7 DEF FirstOf
  <2>2. ASSUME NEW i \in page
        PROVE  i \in seen
    <3>1. Ahead(page, R, i) \subseteq page /\ i \notin Ahead(page, R, i)
      BY <1>3 DEF Ahead, Orders
    <3>2. /\ Cardinality(Ahead(page, R, i)) <= Cardinality(page)
          /\ Cardinality(page) = Cardinality(Ahead(page, R, i)) => page = Ahead(page, R, i)
      BY <1>2, <3>1, FS_Subset
    <3>3. Cardinality(Ahead(page, R, i)) \in Nat
      BY <1>4
    <3>4. Cardinality(Ahead(page, R, i)) < size
      BY <1>5, <1>6, <3>1, <3>2, <3>3
    <3>. QED
      BY <3>4 DEF FirstOf
  <2>. QED
    BY <1>1, <2>1, <2>2
<1>7. ASSUME Cardinality(page) > size
      PROVE  \E i \in seen : \A j \in seen : i = j \/ <<j, i>> \in R
  <2>1. page # {}
    <3>1. SUFFICES ASSUME page = {}
                   PROVE  FALSE
      OBVIOUS
    <3>2. Cardinality(page) = 0
      BY <3>1, FS_EmptySet
    <3>. QED
      BY <1>7, <3>2
  <2>2. PICK i \in page : \A j \in page : <<j, i>> \notin R
    BY <1>2, <1>3, <2>1, FirstIsThere
  <2>3. Ahead(page, R, i) = {}
    BY <2>2 DEF Ahead
  <2>4. Cardinality(Ahead(page, R, i)) = 0
    BY <2>3, FS_EmptySet
  <2>5. i \in seen
    BY <2>4 DEF FirstOf
  <2>. QED
    BY <1>2, <1>3, <2>5, LastIsThere
<1>8. ASSUME NEW last \in seen, NEW i \in S, <<i, last>> \in R
      PROVE  i \in seen
  <2>1. last \in page /\ last \in S
    BY <1>1
  <2>2. Cardinality(Ahead(S, R, i)) < Cardinality(Ahead(S, R, last))
    BY <1>8, <2>1, AheadGrows
  <2>3. Cardinality(Ahead(S, R, last)) < size + 1
    BY <2>1 DEF FirstOf
  <2>4. i \in page
    <3>1. Cardinality(Ahead(S, R, i)) \in Nat /\ Cardinality(Ahead(S, R, last)) \in Nat
      BY <1>4, <2>1
    <3>2. Cardinality(Ahead(S, R, i)) < size + 1
      BY <2>2, <2>3, <3>1
    <3>. QED
      BY <3>2 DEF FirstOf
  <2>5. Cardinality(Ahead(page, R, i)) < Cardinality(Ahead(page, R, last))
    BY <1>2, <1>3, <1>8, <2>1, <2>4, AheadGrows
  <2>6. Cardinality(Ahead(page, R, last)) < size
    BY DEF FirstOf
  <2>7. Cardinality(Ahead(page, R, i)) < size
    <3>1. Cardinality(Ahead(page, R, i)) \in Nat /\ Cardinality(Ahead(page, R, last)) \in Nat
      BY <1>4, <2>1, <2>4
    <3>. QED
      BY <2>5, <2>6, <3>1
  <2>. QED
    BY <2>4, <2>7 DEF FirstOf
<1>. QED
  BY <1>1, <1>2, <1>6, <1>7, <1>8

-----------------------------------------------------------------------------
(* Listing.                                                                *)

\* The id of a new row is past every id on file.
LEMMA WNextId ==
  ASSUME NEW t, Rowids(DOMAIN t)
  PROVE  W!NextId(t) \in Nat \ {0} /\ \A i \in DOMAIN t : i < W!NextId(t)
BY NextIdIsNew DEF NextId, W!NextId

\* The module's Cardinality is the one the library's theorems are about.
LEMMA WCardinality ==
  ASSUME NEW S
  PROVE  W!Cardinality(S) = Cardinality(S)
BY DEF W!Cardinality, Cardinality

\* Where a row stands in a list.
KeyOf(rs, i) == [key |-> rs[i].key, id |-> i]

\* The order a list is in.
Before(l, a, b) == IF l = "properties" THEN W!Up(a, b) ELSE W!Down(a, b)

Order(l, rs) == {x \in (DOMAIN rs) \X (DOMAIN rs) : Before(l, KeyOf(rs, x[1]), KeyOf(rs, x[2]))}

\* The rows a walk has not come to.
Rest == {i \in W!RowsOf(list) : cursor = W!Start \/ Before(list, cursor, KeyOf(rows, i))}

\* What a walk has shown of the steady rows: those its cursor is past, and no others.
Walked ==
  /\ steady \subseteq W!RowsOf(list)
  /\ cursor = W!Start => shown = {}
  /\ cursor # W!Start => \A i \in steady : i \in shown <=> ~Before(list, cursor, KeyOf(rows, i))

\* The inductive invariant of the walk.
ListingInv ==
  /\ Rowids(DOMAIN rows) /\ DOMAIN rows \subseteq Ids
  /\ \A i \in DOMAIN rows : rows[i] \in W!Row
  /\ list \in W!Lists \cup {"none", "over"}
  /\ cursor \in W!Cursors \cup {W!Start}
  /\ steady \subseteq DOMAIN rows
  /\ again \subseteq shown /\ shown \subseteq Ids
  /\ again \cap steady = {}
  /\ list = "over" => steady \subseteq shown
  /\ list \in W!Lists => Walked

\* No walk has begun.
LEMMA ListingInit == W!Init => ListingInv
BY DEF W!Init, W!NoRows, ListingInv, Rowids, W!Lists

\* The invariant says what ListedOnce does.
LEMMA ListingInvImplies == ListingInv => ListedOnce
BY DEF ListingInv, ListedOnce, W!ListedOnce, W!TypeOK

\* Rows are in a strict order, and a cursor has its place in it.
LEMMA BeforeOrders ==
  ASSUME NEW l
  PROVE  /\ \A a \in W!Cursors : ~Before(l, a, a)
         /\ \A a, b, c \in W!Cursors : Before(l, a, b) /\ Before(l, b, c) => Before(l, a, c)
         /\ \A a, b \in W!Cursors : a.id = b.id \/ Before(l, a, b) \/ Before(l, b, a)
<1>1. \A a \in W!Cursors : a.key \in Nat /\ a.id \in Nat
  BY RegisterAssumption DEF W!Cursors, W!ListingAssumption
<1>2. \A a \in W!Cursors : ~Before(l, a, a)
  BY <1>1 DEF Before, W!Up, W!Down
<1>3. \A a, b, c \in W!Cursors : Before(l, a, b) /\ Before(l, b, c) => Before(l, a, c)
  BY <1>1 DEF Before, W!Up, W!Down
<1>4. \A a, b \in W!Cursors : a.id = b.id \/ Before(l, a, b) \/ Before(l, b, a)
  BY <1>1 DEF Before, W!Up, W!Down
<1>. QED
  BY <1>2, <1>3, <1>4

\* Where a row stands is a cursor that names it, and is not the start.
LEMMA KeysAreCursors ==
  ASSUME ListingInv, NEW i \in DOMAIN rows
  PROVE  KeyOf(rows, i) \in W!Cursors /\ KeyOf(rows, i).id = i /\ KeyOf(rows, i) # W!Start
<1>1. rows[i].key \in Keys /\ i \in Ids /\ i # 0
  BY DEF ListingInv, W!Row, Rowids
<1>2. KeyOf(rows, i) \in W!Cursors /\ KeyOf(rows, i).id = i
  BY <1>1 DEF KeyOf, W!Cursors
<1>3. W!Start.id = 0
  BY DEF W!Start
<1>. QED
  BY <1>1, <1>2, <1>3

\* The rows of a table are in a strict order.
LEMMA OrderOrders ==
  ASSUME ListingInv, NEW l, NEW S \in SUBSET DOMAIN rows
  PROVE  Orders(Order(l, rows), S)
<1>1. \A i, j \in S : <<i, j>> \in Order(l, rows) <=> Before(l, KeyOf(rows, i), KeyOf(rows, j))
  BY DEF Order
<1>. QED
  BY <1>1, BeforeOrders, KeysAreCursors DEF Orders

\* A page of the model is the first rows in that order.
LEMMA FirstIsFirst ==
  ASSUME NEW n, NEW S \in SUBSET DOMAIN rows
  PROVE  /\ W!First(n, S, W!Up) = FirstOf(n, S, Order("properties", rows))
         /\ \A l \in W!Lists \ {"properties"} : W!First(n, S, W!Down) = FirstOf(n, S, Order(l, rows))
<1>1. \A i \in S : {j \in S : W!Up(W!At(j), W!At(i))} = Ahead(S, Order("properties", rows), i)
  BY DEF Ahead, Order, Before, KeyOf, W!At
<1>2. \A l \in W!Lists \ {"properties"} : \A i \in S :
        {j \in S : W!Down(W!At(j), W!At(i))} = Ahead(S, Order(l, rows), i)
  BY DEF Ahead, Order, Before, KeyOf, W!At
<1>3. W!First(n, S, W!Up) = {i \in S : Cardinality({j \in S : W!Up(W!At(j), W!At(i))}) < n}
  BY WCardinality DEF W!First
<1>4. W!First(n, S, W!Down) = {i \in S : Cardinality({j \in S : W!Down(W!At(j), W!At(i))}) < n}
  BY WCardinality DEF W!First
<1>. QED
  BY <1>1, <1>2, <1>3, <1>4 DEF FirstOf

\* A page of any of the lists.
PageShown(l) ==
  LET page == FirstOf(Size + 1, Rest, Order(l, rows))
      seen == FirstOf(Size, page, Order(l, rows))
  IN  /\ list = l
      /\ shown' = shown \cup seen
      /\ again' = again \cup (seen \cap shown)
      /\ \/ /\ Cardinality(page) > Size
            /\ \/ ~(\E i \in seen : \A j \in seen : i = j \/ <<j, i>> \in Order(l, rows))
               \/ \E last \in seen : cursor' = KeyOf(rows, last)
                                     /\ \A j \in seen : last = j \/ <<j, last>> \in Order(l, rows)
            /\ UNCHANGED list
         \/ /\ Cardinality(page) <= Size
            /\ cursor' = W!Start /\ list' = "over"
      /\ UNCHANGED <<rows, steady>>

\* A page of the properties.
LEMMA ShownUp ==
  ASSUME ListingInv, list = "properties", W!Show(FirstOf(Size + 1, Rest, Order("properties", rows)), W!Up)
  PROVE  PageShown("properties")
<1> DEFINE page == FirstOf(Size + 1, Rest, Order("properties", rows))
           seen == FirstOf(Size, page, Order("properties", rows))
<1>1. Rest \subseteq DOMAIN rows
  BY DEF Rest, W!RowsOf, W!Filtered
<1>2. page \in SUBSET DOMAIN rows /\ seen \in SUBSET DOMAIN rows
  BY <1>1 DEF FirstOf
<1>3. W!First(Size, page, W!Up) = seen
  BY <1>2, FirstIsFirst
<1>. HIDE DEF page, seen
<1>4. /\ shown' = shown \cup seen /\ again' = again \cup (seen \cap shown)
      /\ \/ /\ Cardinality(page) > Size /\ cursor' = W!encodeCursor(W!Last(seen, W!Up)) /\ UNCHANGED list
         \/ /\ Cardinality(page) <= Size /\ cursor' = W!Start /\ list' = "over"
      /\ UNCHANGED <<rows, steady>>
  BY <1>3, WCardinality DEF W!Show, page
<1>5. ASSUME NEW i \in seen, \A j \in seen : i = j \/ <<j, i>> \in Order("properties", rows)
      PROVE  /\ W!Last(seen, W!Up) \in seen
             /\ \A j \in seen : W!Last(seen, W!Up) = j \/ <<j, W!Last(seen, W!Up)>> \in Order("properties", rows)
  <2>1. \A j, k \in seen : <<j, k>> \in Order("properties", rows) <=> W!Up(W!At(j), W!At(k))
    BY <1>2 DEF Order, Before, KeyOf, W!At
  <2>2. \A j \in seen : i = j \/ W!Up(W!At(j), W!At(i))
    BY <1>5, <2>1
  <2>3. W!Last(seen, W!Up) \in seen /\ \A j \in seen : W!Last(seen, W!Up) = j \/ W!Up(W!At(j), W!At(W!Last(seen, W!Up)))
    BY <2>2 DEF W!Last
  <2>. QED
    BY <2>1, <2>3
<1>. QED
  BY <1>4, <1>5 DEF PageShown, page, seen, W!encodeCursor, W!At, KeyOf

\* A page of any other list.
LEMMA ShownDown ==
  ASSUME ListingInv, NEW l \in W!Lists \ {"properties"}, list = l,
         W!Show(FirstOf(Size + 1, Rest, Order(l, rows)), W!Down)
  PROVE  PageShown(l)
<1> DEFINE page == FirstOf(Size + 1, Rest, Order(l, rows))
           seen == FirstOf(Size, page, Order(l, rows))
<1>1. Rest \subseteq DOMAIN rows
  BY DEF Rest, W!RowsOf, W!Filtered
<1>2. page \in SUBSET DOMAIN rows /\ seen \in SUBSET DOMAIN rows
  BY <1>1 DEF FirstOf
<1>3. W!First(Size, page, W!Down) = seen
  BY <1>2, FirstIsFirst
<1>. HIDE DEF page, seen
<1>4. /\ shown' = shown \cup seen /\ again' = again \cup (seen \cap shown)
      /\ \/ /\ Cardinality(page) > Size /\ cursor' = W!encodeCursor(W!Last(seen, W!Down)) /\ UNCHANGED list
         \/ /\ Cardinality(page) <= Size /\ cursor' = W!Start /\ list' = "over"
      /\ UNCHANGED <<rows, steady>>
  BY <1>3, WCardinality DEF W!Show, page
<1>5. ASSUME NEW i \in seen, \A j \in seen : i = j \/ <<j, i>> \in Order(l, rows)
      PROVE  /\ W!Last(seen, W!Down) \in seen
             /\ \A j \in seen : W!Last(seen, W!Down) = j \/ <<j, W!Last(seen, W!Down)>> \in Order(l, rows)
  <2>1. \A j, k \in seen : <<j, k>> \in Order(l, rows) <=> W!Down(W!At(j), W!At(k))
    BY <1>2 DEF Order, Before, KeyOf, W!At
  <2>2. \A j \in seen : i = j \/ W!Down(W!At(j), W!At(i))
    BY <1>5, <2>1
  <2>3. W!Last(seen, W!Down) \in seen /\ \A j \in seen : W!Last(seen, W!Down) = j \/ W!Down(W!At(j), W!At(W!Last(seen, W!Down)))
    BY <2>2 DEF W!Last
  <2>. QED
    BY <2>1, <2>3
<1>. QED
  BY <1>4, <1>5 DEF PageShown, page, seen, W!encodeCursor, W!At, KeyOf

\* A page shows the steady rows between the old cursor and the new, and no others.
LEMMA PageKeeps ==
  ASSUME ListingInv, NEW l \in W!Lists, PageShown(l)
  PROVE  ListingInv'
<1> DEFINE R == Order(l, rows)
           page == FirstOf(Size + 1, Rest, R)
           seen == FirstOf(Size, page, R)
<1>1. Rest \in SUBSET DOMAIN rows
  BY DEF Rest, W!RowsOf, W!Filtered
<1>2. IsFiniteSet(Rest) /\ Orders(R, Rest) /\ Size \in Nat \ {0}
  <2>1. IsFiniteSet(DOMAIN rows)
    BY RowidsFinite DEF ListingInv
  <2>2. IsFiniteSet(Rest)
    BY <1>1, <2>1, FS_Subset
  <2>. QED
    BY <1>1, <2>2, OrderOrders, RegisterAssumption DEF W!ListingAssumption
<1>. HIDE DEF R
<1>3. /\ seen \subseteq Rest /\ IsFiniteSet(page)
      /\ Cardinality(page) <= Size => seen = Rest
      /\ Cardinality(page) > Size =>
           /\ \E i \in seen : \A j \in seen : i = j \/ <<j, i>> \in R
           /\ \A last \in seen : \A i \in Rest : <<i, last>> \in R => i \in seen
  BY <1>2, PageCut
<1>. HIDE DEF page, seen
<1>4. /\ list = l /\ shown' = shown \cup seen /\ again' = again \cup (seen \cap shown)
      /\ \/ /\ Cardinality(page) > Size
            /\ \/ ~(\E i \in seen : \A j \in seen : i = j \/ <<j, i>> \in R)
               \/ \E last \in seen : cursor' = KeyOf(rows, last)
                                     /\ \A j \in seen : last = j \/ <<j, last>> \in R
            /\ UNCHANGED list
         \/ /\ Cardinality(page) <= Size
            /\ cursor' = W!Start /\ list' = "over"
      /\ UNCHANGED <<rows, steady>>
  BY DEF PageShown, page, seen, R
<1>5. Walked /\ l \notin {"none", "over"}
  BY <1>4 DEF ListingInv, W!Lists
<1>6. \A i \in steady \cap Rest : i \notin shown
  BY <1>4, <1>5 DEF Walked, Rest
<1>7. \A i \in steady \ Rest : i \in shown
  BY <1>4, <1>5 DEF Walked, Rest
<1>8. again' \cap steady' = {} /\ again' \subseteq shown' /\ shown' \subseteq Ids
  BY <1>1, <1>3, <1>4, <1>6 DEF ListingInv
<1>9. CASE Cardinality(page) <= Size /\ cursor' = W!Start /\ list' = "over"
  <2>1. steady \subseteq shown'
    BY <1>3, <1>4, <1>7, <1>9
  <2>. QED
    BY <1>4, <1>8, <1>9, <2>1 DEF ListingInv, W!Lists
<1>10. CASE Cardinality(page) > Size /\ UNCHANGED list
  <2>1. PICK last \in seen : cursor' = KeyOf(rows, last) /\ \A j \in seen : last = j \/ <<j, last>> \in R
    <3>1. \A i : Cardinality(page) > Size => ~(Cardinality(page) <= Size)
      BY <1>3, FS_CardinalityType, <1>2
    <3>. QED
      BY <1>3, <1>4, <1>10, <3>1
  <2>2. last \in DOMAIN rows /\ last \in Rest
    BY <1>1, <1>3
  <2>3. cursor' \in W!Cursors /\ cursor' # W!Start
    BY <2>1, <2>2, KeysAreCursors
  <2>4. ASSUME NEW i \in steady
        PROVE  i \in shown' <=> ~Before(l, cursor', KeyOf(rows, i))
    <3>1. i \in DOMAIN rows /\ KeyOf(rows, i) \in W!Cursors
      BY KeysAreCursors DEF ListingInv
    <3>2. CASE i \in Rest
      <4>1. i \in shown' <=> i \in seen
        BY <1>4, <1>6, <3>2
      <4>2. i \in seen => ~Before(l, cursor', KeyOf(rows, i))
        <5>1. i \in seen => i = last \/ Before(l, KeyOf(rows, i), cursor')
          BY <2>1 DEF R, Order
        <5>. QED
          BY <2>1, <2>3, <3>1, <5>1, BeforeOrders
      <4>3. ~Before(l, cursor', KeyOf(rows, i)) => i \in seen
        <5>1. i = last \/ Before(l, KeyOf(rows, i), KeyOf(rows, last)) \/ Before(l, KeyOf(rows, last), KeyOf(rows, i))
          BY <2>2, <3>1, KeysAreCursors, BeforeOrders
        <5>2. Before(l, KeyOf(rows, i), KeyOf(rows, last)) => <<i, last>> \in R
          BY <2>2, <3>1 DEF R, Order
        <5>. QED
          BY <1>3, <1>10, <2>1, <3>2, <5>1, <5>2
      <4>. QED
        BY <4>1, <4>2, <4>3
    <3>3. CASE i \notin Rest
      <4>1. i \in shown /\ i \in shown'
        BY <1>4, <1>7, <3>3
      <4>2. cursor # W!Start /\ cursor \in W!Cursors /\ ~Before(l, cursor, KeyOf(rows, i))
        BY <1>4, <1>5, <3>3 DEF Rest, Walked, ListingInv
      <4>3. Before(l, cursor, cursor')
        BY <1>4, <2>1, <2>2, <4>2 DEF Rest
      <4>. QED
        BY <2>3, <3>1, <4>1, <4>2, <4>3, BeforeOrders
    <3>. QED
      BY <3>2, <3>3
  <2>5. steady' \subseteq W!RowsOf(list)'
    BY <1>4, <1>5, <1>10 DEF Walked, W!RowsOf, W!Filtered
  <2>6. Walked'
    BY <1>4, <1>10, <2>3, <2>4, <2>5 DEF Walked
  <2>. QED
    BY <1>4, <1>5, <1>8, <1>10, <2>3, <2>6 DEF ListingInv
<1>. QED
  BY <1>4, <1>9, <1>10

\* What others do meanwhile, to rows that are not steady after it.
LEMMA OthersKeep ==
  ASSUME ListingInv, UNCHANGED <<list, cursor, shown, again>>,
         Rowids(DOMAIN rows'), DOMAIN rows' \subseteq Ids, \A i \in DOMAIN rows' : rows'[i] \in W!Row,
         steady' \subseteq steady, \A i \in steady' : i \in DOMAIN rows' /\ rows'[i] = rows[i]
  PROVE  ListingInv'
<1>1. ASSUME Walked
      PROVE  Walked'
  <2>1. steady' \subseteq W!RowsOf(list)'
    BY <1>1 DEF Walked, W!RowsOf, W!Filtered
  <2>2. \A i \in steady' : KeyOf(rows', i) = KeyOf(rows, i)
    BY DEF KeyOf
  <2>. QED
    BY <1>1, <2>1, <2>2 DEF Walked
<1>. QED
  BY <1>1 DEF ListingInv

\* Every page and every change beside the walk keeps the invariant.
LEMMA ListingStep ==
  ASSUME ListingInv, W!Next
  PROVE  ListingInv'
<1>1. ASSUME NEW l \in W!Lists, W!Walk(l)
      PROVE  ListingInv'
  <2>1. /\ list' = l /\ cursor' = W!Start /\ steady' = W!RowsOf(l) /\ shown' = {} /\ again' = {}
        /\ UNCHANGED rows
    BY <1>1 DEF W!Walk
  <2>2. W!RowsOf(l) \subseteq DOMAIN rows
    BY DEF W!RowsOf, W!Filtered
  <2>3. steady' = W!RowsOf(list)'
    BY <2>1 DEF W!RowsOf, W!Filtered
  <2>4. list' # "over"
    BY <2>1 DEF W!Lists
  <2>. QED
    BY <2>1, <2>2, <2>3, <2>4 DEF ListingInv, Walked
<1>2. CASE W!handleListProperties
  <2>1. Rest = IF cursor = W!Start THEN DOMAIN rows ELSE {i \in DOMAIN rows : W!Up(cursor, W!At(i))}
    BY <1>2 DEF W!handleListProperties, Rest, W!RowsOf, Before, KeyOf, W!At
  <2>2. Rest \in SUBSET DOMAIN rows
    BY <2>1
  <2>3. W!listPage(cursor, Size + 1) = FirstOf(Size + 1, Rest, Order("properties", rows))
    <3>1. W!listPage(cursor, Size + 1) = W!First(Size + 1, Rest, W!Up)
      BY <2>1 DEF W!listPage, W!ListPropertiesFirstPage, W!ListPropertiesAfter
    <3>. QED
      BY <2>2, <3>1, FirstIsFirst
  <2>. QED
    BY <1>2, <2>3, ShownUp, PageKeeps DEF W!handleListProperties, W!Lists
<1>3. ASSUME NEW l \in W!Lists \ {"properties", "messages"}, list = l
      PROVE  W!Filtered \in SUBSET DOMAIN rows /\ Rest \in SUBSET DOMAIN rows
             /\ Rest = IF cursor = W!Start THEN W!Filtered ELSE {i \in W!Filtered : W!Down(cursor, W!At(i))}
  BY <1>3 DEF Rest, W!RowsOf, Before, KeyOf, W!At, W!Filtered
<1>4. CASE W!handleListTransactions
  <2>1. list = "transactions" /\ "transactions" \in W!Lists \ {"properties", "messages"}
    BY <1>4 DEF W!handleListTransactions, W!Lists
  <2>2. W!ledgerPage(cursor, Size + 1) = W!First(Size + 1, Rest, W!Down)
    BY <1>3, <2>1 DEF W!ledgerPage, W!ListTransactionsFirstPage, W!ListTransactionsAfter
  <2>3. W!ledgerPage(cursor, Size + 1) = FirstOf(Size + 1, Rest, Order("transactions", rows))
    BY <1>3, <2>1, <2>2, FirstIsFirst
  <2>. QED
    BY <1>4, <2>1, <2>3, ShownDown, PageKeeps DEF W!handleListTransactions
<1>5. CASE W!handleListDocuments
  <2>1. list = "documents" /\ "documents" \in W!Lists \ {"properties", "messages"}
    BY <1>5 DEF W!handleListDocuments, W!Lists
  <2>2. W!documentPage(cursor, Size + 1) = W!First(Size + 1, Rest, W!Down)
    BY <1>3, <2>1 DEF W!documentPage, W!ListDocumentsByPropertyFirstPage, W!ListDocumentsByPropertyAfter
  <2>3. W!documentPage(cursor, Size + 1) = FirstOf(Size + 1, Rest, Order("documents", rows))
    BY <1>3, <2>1, <2>2, FirstIsFirst
  <2>. QED
    BY <1>5, <2>1, <2>3, ShownDown, PageKeeps DEF W!handleListDocuments
<1>6. CASE W!handleListProposals
  <2>1. list = "proposals" /\ "proposals" \in W!Lists \ {"properties", "messages"}
    BY <1>6 DEF W!handleListProposals, W!Lists
  <2>2. W!proposalPage(cursor, Size + 1) = W!First(Size + 1, Rest, W!Down)
    BY <1>3, <2>1 DEF W!proposalPage, W!ListProposalsFirstPage, W!ListProposalsAfter
  <2>3. W!proposalPage(cursor, Size + 1) = FirstOf(Size + 1, Rest, Order("proposals", rows))
    BY <1>3, <2>1, <2>2, FirstIsFirst
  <2>. QED
    BY <1>6, <2>1, <2>3, ShownDown, PageKeeps DEF W!handleListProposals
<1>7. CASE W!handleListEmailMessages
  <2>1. list = "messages" /\ "messages" \in W!Lists \ {"properties"}
    BY <1>7 DEF W!handleListEmailMessages, W!Lists
  <2>2. Rest = IF cursor = W!Start THEN DOMAIN rows ELSE {i \in DOMAIN rows : W!Down(cursor, W!At(i))}
    BY <2>1 DEF Rest, W!RowsOf, Before, KeyOf, W!At
  <2>3. W!emailMessagePage(cursor, Size + 1) = W!First(Size + 1, Rest, W!Down)
    BY <2>2 DEF W!emailMessagePage, W!ListEmailMessagesFirstPage, W!ListEmailMessagesAfter
  <2>4. Rest \in SUBSET DOMAIN rows
    BY <2>2
  <2>5. W!emailMessagePage(cursor, Size + 1) = FirstOf(Size + 1, Rest, Order("messages", rows))
    BY <2>1, <2>3, <2>4, FirstIsFirst
  <2>. QED
    BY <1>7, <2>1, <2>5, ShownDown, PageKeeps DEF W!handleListEmailMessages
<1>8. CASE W!handleListNotifications
  <2>1. list = "notifications" /\ "notifications" \in W!Lists \ {"properties", "messages"}
    BY <1>8 DEF W!handleListNotifications, W!Lists
  <2>2. W!notificationPage(cursor, Size + 1) = W!First(Size + 1, Rest, W!Down)
    BY <1>3, <2>1
    DEF W!notificationPage, W!ListChannelNotificationsFirstPage, W!ListChannelNotificationsAfter
  <2>3. W!notificationPage(cursor, Size + 1) = FirstOf(Size + 1, Rest, Order("notifications", rows))
    BY <1>3, <2>1, <2>2, FirstIsFirst
  <2>. QED
    BY <1>8, <2>1, <2>3, ShownDown, PageKeeps DEF W!handleListNotifications
<1>9. ASSUME NEW row \in W!Row, W!Add(row)
      PROVE  ListingInv'
  <2> DEFINE n == W!NextId(rows)
  <2>1. n \in Ids /\ rows' = W!With(rows, n, row) /\ UNCHANGED <<list, cursor, steady, shown, again>>
    BY <1>9 DEF W!Add, W!walk
  <2>2. n \in Nat \ {0} /\ \A i \in DOMAIN rows : i < n
    BY WNextId DEF ListingInv
  <2>. HIDE DEF n
  <2>3. n \notin DOMAIN rows
    BY <2>2
  <2>4. /\ DOMAIN rows' = DOMAIN rows \cup {n} /\ rows'[n] = row
        /\ \A i \in DOMAIN rows : rows'[i] = rows[i]
    BY <2>1, <2>3 DEF W!With
  <2>5. Rowids(DOMAIN rows')
    BY <2>2, <2>4, RowidsMore DEF ListingInv
  <2>6. DOMAIN rows' \subseteq Ids /\ \A i \in DOMAIN rows' : rows'[i] \in W!Row
    BY <2>1, <2>4 DEF ListingInv
  <2>7. steady' \subseteq steady /\ \A i \in steady' : i \in DOMAIN rows' /\ rows'[i] = rows[i]
    BY <2>1, <2>4 DEF ListingInv
  <2>. QED
    BY <2>1, <2>5, <2>6, <2>7, OthersKeep
<1>10. ASSUME NEW i \in Ids, W!Remove(i)
       PROVE  ListingInv'
  <2>1. /\ DOMAIN rows' = DOMAIN rows \ {i} /\ \A j \in DOMAIN rows' : rows'[j] = rows[j]
        /\ steady' = steady \ {i} /\ UNCHANGED <<list, cursor, shown, again>>
    BY <1>10 DEF W!Remove, W!Amended, W!Without
  <2>2. Rowids(DOMAIN rows') /\ DOMAIN rows' \subseteq Ids /\ \A j \in DOMAIN rows' : rows'[j] \in W!Row
    BY <2>1, RowidsLess DEF ListingInv
  <2>3. steady' \subseteq steady /\ \A j \in steady' : j \in DOMAIN rows' /\ rows'[j] = rows[j]
    BY <2>1 DEF ListingInv
  <2>. QED
    BY <2>1, <2>2, <2>3, OthersKeep
<1>11. ASSUME NEW i \in DOMAIN rows, DOMAIN rows' = DOMAIN rows, rows'[i] \in W!Row,
              \A j \in DOMAIN rows \ {i} : rows'[j] = rows[j], W!Amended(i)
       PROVE  ListingInv'
  <2>1. steady' = steady \ {i} /\ UNCHANGED <<list, cursor, shown, again>>
    BY <1>11 DEF W!Amended
  <2>2. \A j \in DOMAIN rows' : rows'[j] \in W!Row
    BY <1>11 DEF ListingInv
  <2>3. steady' \subseteq steady /\ \A j \in steady' : j \in DOMAIN rows' /\ rows'[j] = rows[j]
    BY <1>11, <2>1 DEF ListingInv
  <2>4. Rowids(DOMAIN rows') /\ DOMAIN rows' \subseteq Ids
    BY <1>11 DEF ListingInv
  <2>. QED
    BY <2>1, <2>2, <2>3, <2>4, OthersKeep
<1>12. ASSUME NEW i \in Ids, NEW k \in Keys, W!handleUpdateProperty(i, k)
       PROVE  ListingInv'
  <2>1. i \in DOMAIN rows /\ rows' = [rows EXCEPT ![i].key = k] /\ W!Amended(i)
    BY <1>12 DEF W!handleUpdateProperty
  <2>2. rows[i] \in W!Row
    BY <2>1 DEF ListingInv
  <2>3. rows'[i] = [rows[i] EXCEPT !.key = k] /\ DOMAIN rows' = DOMAIN rows
        /\ \A j \in DOMAIN rows \ {i} : rows'[j] = rows[j]
    BY <2>1
  <2>4. rows'[i] \in W!Row
    BY <2>2, <2>3 DEF W!Row
  <2>. QED
    BY <1>11, <2>1, <2>3, <2>4
<1>13. ASSUME NEW i \in Ids, NEW row \in W!Row, W!handleUpdateTransaction(i, row)
       PROVE  ListingInv'
  <2>1. i \in DOMAIN rows /\ rows' = W!With(rows, i, row) /\ W!Amended(i)
    BY <1>13 DEF W!handleUpdateTransaction
  <2>2. rows'[i] = row /\ DOMAIN rows' = DOMAIN rows /\ \A j \in DOMAIN rows \ {i} : rows'[j] = rows[j]
    BY <2>1 DEF W!With
  <2>. QED
    BY <1>11, <2>1, <2>2
<1>14. ASSUME NEW i \in Ids, W!Refile(i)
       PROVE  ListingInv'
  <2>1. i \in DOMAIN rows /\ rows' = [rows EXCEPT ![i].in = ~@] /\ W!Amended(i)
    BY <1>14 DEF W!Refile
  <2>2. rows[i] \in W!Row
    BY <2>1 DEF ListingInv
  <2>3. rows'[i] = [rows[i] EXCEPT !.in = ~@] /\ DOMAIN rows' = DOMAIN rows
        /\ \A j \in DOMAIN rows \ {i} : rows'[j] = rows[j]
    BY <2>1
  <2>4. rows'[i] \in W!Row
    BY <2>2, <2>3 DEF W!Row
  <2>. QED
    BY <1>11, <2>1, <2>3, <2>4
<1>. QED
  BY <1>1, <1>2, <1>4, <1>5, <1>6, <1>7, <1>8, <1>9, <1>10, <1>12, <1>13, <1>14 DEF W!Next

\* A step of a register keeps it.
LEMMA ListingStays ==
  ASSUME ListingInv, UNCHANGED wVars
  PROVE  ListingInv'
BY DEF wVars, ListingInv, Walked, W!RowsOf, W!Filtered

\* The invariant of the walk holds throughout.
THEOREM ListingInvariant == Spec => []ListingInv
<1>1. Init => ListingInv
  BY ListingInit DEF Init
<1>2. ListingInv /\ [Next]_vars => ListingInv'
  BY ListingStep, ListingStays DEF Next, TStep, LStep, PStep, DStep, WStep, vars
<1>. QED
  BY <1>1, <1>2, PTL DEF Spec

\* Whatever is added, removed, renamed, redated or refiled between two pages, a
\* row nobody touched is shown exactly once by the time the walk is over.
THEOREM ListedOnceHolds == Spec => []ListedOnce
BY ListingInvariant, ListingInvImplies, PTL
=============================================================================
