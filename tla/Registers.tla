------------------------------ MODULE Registers ------------------------------
(***************************************************************************)
(* The registers of the console: who may live where, what was spent on     *)
(* what, the policies and mortgages, the documents, and the lists a reader *)
(* walks.  Each keeps to its own tables, so a step is a step of one of     *)
(* them and leaves the others alone.                                       *)
(***************************************************************************)
EXTENDS Integers

CONSTANTS
  PropertyIds, UnitIds, LeaseIds, TenantIds, Labels, ImplicitLabel, Names,
  VendorIds, RepairIds, EventIds, EntryIds, Cents,
  PolicyIds, MortgageIds, StatementIds, Carriers, Lenders, LongLenders, CutLender,
  Numbers, HasKey, Balances,
  Uploaders, Digests, OwnerIds, DocumentIds, RecordIds, MaxCuts,   \* OwnerIds: the properties documents are of
  Ids, Keys, Size,
  LastDay

VARIABLES
  tProperties, units, leases, tenants, onLease, tAsking,
  today, lProperties, vendors, repairs, events, entries, lAsking,
  pProperties, policies, mortgages, statements,
  dProperties, records, documents, links, blobs, soft, at, form, synced, linking, cuts,
  rows, list, cursor, steady, shown, again

tVars == <<tProperties, units, leases, tenants, onLease, tAsking>>
lVars == <<today, lProperties, vendors, repairs, events, entries, lAsking>>
pVars == <<pProperties, policies, mortgages, statements>>
dVars == <<dProperties, records, documents, links, blobs, soft, at, form, synced, linking, cuts>>
wVars == <<rows, list, cursor, steady, shown, again>>
vars  == <<tVars, lVars, pVars, dVars, wVars>>

T == INSTANCE Tenancies WITH properties <- tProperties, asking <- tAsking
L == INSTANCE Ledger    WITH properties <- lProperties, asking <- lAsking
P == INSTANCE Policies  WITH properties <- pProperties
D == INSTANCE Documents WITH PropertyIds <- OwnerIds, properties <- dProperties
W == INSTANCE Listing

ASSUME RegisterAssumption ==
  /\ T!TenancyAssumption /\ L!LedgerAssumption /\ P!PolicyAssumption
  /\ D!DocumentAssumption /\ W!ListingAssumption

Init == T!Init /\ L!Init /\ P!Init /\ D!Init /\ W!Init

TStep == T!Next /\ UNCHANGED <<lVars, pVars, dVars, wVars>>
LStep == L!Next /\ UNCHANGED <<tVars, pVars, dVars, wVars>>
PStep == P!Next /\ UNCHANGED <<tVars, lVars, dVars, wVars>>
DStep == D!Next /\ UNCHANGED <<tVars, lVars, pVars, wVars>>
WStep == W!Next /\ UNCHANGED <<tVars, lVars, pVars, dVars>>

Next == TStep \/ LStep \/ PStep \/ DStep \/ WStep

Spec == Init /\ [][Next]_vars

-----------------------------------------------------------------------------
(* The properties of the registers, each under the name it has there.      *)

OneLetPerDay == T!OneLetPerDay
RegisterHangsTogether == T!RegisterHangsTogether
LeaseKeepsProperty == T!LeaseKeepsProperty
LedgerHangsTogether == L!LedgerHangsTogether
MoneyStays == L!MoneyStays
BalanceIsNewest == P!BalanceIsNewest
FiledOnce == P!FiledOnce
NothingMissing == D!NothingMissing
ListedOnce == W!ListedOnce
=============================================================================
