------------------------------ MODULE Matching ------------------------------
(***************************************************************************)
(* Which property a document is about: the fold of an address              *)
(* (internal/domain/address.go), the key of it that the console keeps with *)
(* each property (internal/httpapi/properties.go), and the three tiers in  *)
(* which the pipeline compares a document's address with those keys        *)
(* (internal/ingest/match.go).                                             *)
(*                                                                         *)
(* An address is the tokens of its fields, upper case and without          *)
(* punctuation; a document's is one string, here the token sequences       *)
(* between its commas.  Of the four tables of address.go the entries in    *)
(* use are kept.  How like two strings are that differ is left out: the    *)
(* third tier may find any candidate, two alike, or none.                  *)
(*                                                                         *)
(* A match reads the portfolio once; what becomes of its answer while the  *)
(* portfolio changes is IngestPipeline's.  Here the portfolio rests until  *)
(* the answer is written down.                                             *)
(***************************************************************************)
EXTENDS SequencesExt, Tables

CONSTANTS
  PropertyIds,   \* bound: rowids in use
  Buildings,     \* the buildings there are
  Addresses,     \* of each building: the ways the console may be told of it
  Documents      \* [of : Buildings, parts : a seq of token seqs]

VARIABLES
  rows,    \* the properties: [building, address, key]; building is a ghost
  asked    \* [doc, id, outcome, read] of the match in hand, or Nothing; read is a
           \* ghost: whether the portfolio could be read

vars == <<rows, asked>>

Nothing == [outcome |-> "nothing"]
None    == 0

Outcomes == {"exact", "street", "approximate", "ambiguous", "none", "unmatched"}

TypeOK ==
  /\ DOMAIN rows \subseteq PropertyIds
  /\ \A i \in DOMAIN rows : rows[i].address \in Addresses[rows[i].building]
  /\ \/ asked = Nothing
     \/ asked.doc \in Documents /\ asked.outcome \in Outcomes
          /\ asked.id \in DOMAIN rows \cup {None}

Init == rows = NoRows /\ asked = Nothing

-----------------------------------------------------------------------------
(* The tables, as far as they are in use.                                  *)

directionals == [NORTH |-> "N", N |-> "N", NORTHWEST |-> "NW", NW |-> "NW"]

suffixes == [STREET |-> "ST", ST |-> "ST", AVENUE |-> "AVE", AVE |-> "AVE",
             ROAD |-> "RD", RD |-> "RD", MILL |-> "ML", ML |-> "ML"]

unitDesignators == {"APT", "UNIT", "#", "FLOOR", "UPPER", "LOWER"}

states == <<"OHIO">> :> <<"OH">> @@ <<"NEW", "HAMPSHIRE">> :> <<"NH">>

\* A ZIP of five or nine digits, and the five it begins with.
zips == [z45701 |-> "z45701", z43215 |-> "z43215", z03301 |-> "z03301",
         z457012233 |-> "z45701"]

-----------------------------------------------------------------------------
(* The fold.                                                               *)

Fold(table, t) == IF t \in DOMAIN table THEN table[t] ELSE t

\* A designator takes the token after it along, whatever it is.
dropUnits(tokens) ==
  LET step(acc, t) ==
        IF acc.takes THEN [acc EXCEPT !.takes = FALSE]
        ELSE IF t \in unitDesignators THEN [acc EXCEPT !.takes = TRUE]
        ELSE [acc EXCEPT !.out = Append(@, t)]
  IN  FoldLeft(step, [out |-> <<>>, takes |-> FALSE], tokens).out

\* The last token, or the one before a direction at the end.
suffixIndex(tokens) ==
  LET n == Len(tokens)
  IN  IF n > 1 /\ tokens[n] \in DOMAIN directionals THEN n - 1 ELSE n

foldStreet(tokens) ==
  LET kept == dropUnits(tokens)
  IN  [i \in 1 .. Len(kept) |->
         LET t == Fold(directionals, kept[i])
         IN  IF i = suffixIndex(kept) THEN Fold(suffixes, t) ELSE t]

foldState(tokens) == Fold(states, tokens)

\* Tokens of a postal code that do not begin with a whole ZIP are not in use.
foldPostal(tokens) == IF tokens = <<>> THEN <<>> ELSE <<zips[Head(tokens)]>>

NormalizeAddress(a) ==
  foldStreet(a.street) \o a.city \o foldState(a.state) \o foldPostal(a.postal)

\* The street line alone, of a row or of a document.
streetKey(a) == foldStreet(a.street)

-----------------------------------------------------------------------------
(* A document's address, taken apart at its commas.                        *)

isPostal(t) == t \in DOMAIN zips

isState(tokens) == tokens \in DOMAIN states \cup Range(states)

\* A ZIP at the end, and a state before it; a town there is let go of.
splitRegion(tokens) ==
  LET zip  == tokens # <<>> /\ isPostal(Last(tokens))
      rest == IF zip THEN Front(tokens) ELSE tokens
  IN  [state  |-> IF isState(rest) THEN rest ELSE <<>>,
       postal |-> IF zip THEN <<Last(tokens)>> ELSE <<>>]

ParseFreeAddress(parts) ==
  LET n      == Len(parts)
      region == IF n > 1 THEN splitRegion(parts[n]) ELSE [state |-> <<>>, postal |-> <<>>]
      town   == IF region.state \o region.postal = <<>> THEN n ELSE n - 1
  IN  [street |-> IF n = 0 THEN <<>> ELSE parts[1],
       city   |-> FlattenSeq(SubSeq(parts, 2, town)),
       state  |-> region.state,
       postal |-> region.postal]

-----------------------------------------------------------------------------
(* What is asked of the addresses.                                         *)

\* The key a document is looked up by, and whether it names the town.
KeyOf(d) == NormalizeAddress(ParseFreeAddress(d.parts))
Whole(d) == Len(d.parts) > 1

\* That the fold tells these buildings apart and these spellings of one together:
\* a document that names the town has the key of the addresses of its building
\* that do, and no other's; one that names a street only has the key of no
\* address with a town.
FoldTells ==
  \A d \in Documents :
    /\ Whole(d) => KeyOf(d) # <<>>
    /\ \A b \in Buildings : \A a \in Addresses[b] :
         IF Whole(d) THEN (KeyOf(d) = NormalizeAddress(a)) <=> (b = d.of /\ a.city # <<>>)
         ELSE a.city # <<>> => KeyOf(d) # NormalizeAddress(a)

MatchingAssumption ==
  /\ PropertyIds \subseteq Nat
  /\ DOMAIN Addresses = Buildings
  /\ \A b \in Buildings : \A a \in Addresses[b] : a.street # <<>>
  /\ \A d \in Documents : d.of \in Buildings
  /\ FoldTells

-----------------------------------------------------------------------------
(* The match.                                                              *)

Answer(id, outcome) == [id |-> id, outcome |-> outcome]

\* The one row of those found, or why there is none.
only(found, hit) ==
  CASE found = {}             -> Answer(None, "unmatched")
    [] \E i \in found : found = {i} -> Answer(CHOOSE i \in found : TRUE, hit)
    [] OTHER                  -> Answer(None, "ambiguous")

\* The answers the matcher may come to.
MatchProperty(parts) ==
  LET address == ParseFreeAddress(parts)
      key     == NormalizeAddress(address)
      street  == streetKey(address)
      exact   == only({i \in DOMAIN rows : rows[i].key = key}, "exact")
      onStreet == IF street = <<>> THEN exact
                  ELSE only({i \in DOMAIN rows : streetKey(rows[i].address) = street}, "street")
  IN  IF key = <<>> THEN {Answer(None, "none")}
      ELSE IF exact.outcome # "unmatched" THEN {exact}
      ELSE IF onStreet.outcome # "unmatched" THEN {onStreet}
      ELSE {Answer(None, "unmatched")}
             \cup {Answer(i, "approximate") : i \in DOMAIN rows}
             \cup {Answer(None, "ambiguous") : i \in {j \in DOMAIN rows : DOMAIN rows # {j}}}

-----------------------------------------------------------------------------
Row(b, a) == [building |-> b, address |-> a, key |-> NormalizeAddress(a)]

handleCreateProperty(b, a) ==
  /\ asked = Nothing
  /\ NextId(rows) \in PropertyIds
  /\ rows' = With(rows, NextId(rows), Row(b, a))
  /\ UNCHANGED asked

KeepTheKey(i, b, a) ==                \* mutant: the key is not derived again
  /\ asked = Nothing /\ i \in DOMAIN rows
  /\ rows' = With(rows, i, [Row(b, a) EXCEPT !.key = rows[i].key])
  /\ UNCHANGED asked

\* The address is spelled anew, or was another building's all along.
handleUpdateProperty(i, b, a) ==
  /\ asked = Nothing
  /\ i \in DOMAIN rows
  /\ rows' = With(rows, i, Row(b, a))
  /\ UNCHANGED asked

handleDeleteProperty(i) ==
  /\ asked = Nothing
  /\ i \in DOMAIN rows
  /\ rows' = Without(rows, {i})
  /\ UNCHANGED asked

match(d) ==
  /\ asked = Nothing
  /\ \E answer \in MatchProperty(d.parts) :
       asked' = [doc |-> d, id |-> answer.id, outcome |-> answer.outcome, read |-> TRUE]
  /\ UNCHANGED rows

\* The portfolio cannot be read: the proposal goes to a person, unmatched.
Unread(d) ==
  /\ asked = Nothing
  /\ asked' = [doc |-> d, id |-> None, outcome |-> "unmatched", read |-> FALSE]
  /\ UNCHANGED rows

\* With the proposal, or its extract, the answer is out of the matcher's hands.
CreateProposal ==
  /\ asked # Nothing
  /\ asked' = Nothing
  /\ UNCHANGED rows

Next ==
  \/ \E b \in Buildings : \E a \in Addresses[b] :
       \/ handleCreateProperty(b, a)
       \/ \E i \in PropertyIds : handleUpdateProperty(i, b, a)
  \/ \E i \in PropertyIds : handleDeleteProperty(i)
  \/ \E d \in Documents : match(d) \/ Unread(d)
  \/ CreateProposal

Spec == Init /\ [][Next]_vars

-----------------------------------------------------------------------------
(* What a row says: the town, or the street only.                          *)
Placed(i) == rows[i].address.city # <<>>
Of(b)     == {i \in DOMAIN rows : rows[i].building = b}

\* What the three tiers come to, in terms of the buildings meant.  A document
\* that names the town is matched exactly to the one property that is that
\* building, however either is spelled and whatever was edited since; it is
\* ambiguous when two are; and it is never matched exactly to another building.
\* A document that names a street only is exact for nothing whose town is on file.
MatchedAsStated ==
  /\ TypeOK
  /\ asked # Nothing /\ asked.read =>
       LET b == asked.doc.of
           here == {i \in Of(b) : Placed(i)}
       IN  /\ Whole(asked.doc) /\ (\E i \in here : here = {i}) =>
                asked.outcome = "exact" /\ asked.id \in here
           /\ Whole(asked.doc) /\ (\E i, j \in here : i # j) => asked.outcome = "ambiguous"
           /\ asked.outcome = "exact" =>
                /\ Whole(asked.doc) => rows[asked.id].building = b
                /\ ~Whole(asked.doc) => ~Placed(asked.id)

\* match.go:41-44: a street and nothing else is a weaker claim than the one that
\* lets a receipt into the ledger with nobody looking.  For a property whose
\* town was left empty it is exact all the same.
StreetAloneIsWeak ==
  asked # Nothing /\ ~Whole(asked.doc) => asked.outcome # "exact"
=============================================================================
