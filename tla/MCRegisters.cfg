\* Tenancies, the ledger, policies and mortgages, documents and the lists.
SPECIFICATION SpecAtRest
CONSTANTS
  PropertyIds = {1, 2}
  UnitIds = {1, 2}
  LeaseIds = {1, 2}
  TenantIds = {1}
  Labels = {"Main", "Rear"}
  ImplicitLabel = "Main"
  Names = {"Ada"}
  VendorIds = {1}
  RepairIds = {1}
  EventIds = {1}
  EntryIds = {1}
  Cents <- MCCents
  PolicyIds = {1, 2}
  MortgageIds = {1, 2}
  StatementIds = {1, 2}
  Carriers = {"c"}
  Lenders = {"l1", "l2"}
  LongLenders = {"l2"}
  CutLender = "l3"
  Numbers = {7}
  HasKey = TRUE
  Balances = {0, 1}
  Uploaders = {"a", "b"}
  Digests = {"x"}
  OwnerIds = {1}
  DocumentIds = {1, 2}
  RecordIds = {1}
  MaxCuts = 1
  Ids = {1, 2, 3}
  Keys = {1, 2}
  Size = 1
  LastDay = 2
INVARIANTS
  OneLetPerDay RegisterHangsTogether LedgerHangsTogether
  BalanceIsNewest FiledOnce  ListedOnce
PROPERTIES LeaseKeepsProperty MoneyStays
