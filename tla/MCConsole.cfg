\* Signing in, the budget, the accounts of the two channels, the schema and addresses.
SPECIFICATION SpecAtRest
CONSTANTS
  Requests = {w1, w2}
  Logins = {"l"}
  MaxSignIns = 2
  MaxResets = 1
  SessionTTL = 3
  Slide = 2
  LastSignInDay = 4
  Workers = {w1, w2}
  Limit = 2
  MaxCalls = 5
  MaxMonths = 1
  MaxRestarts = 1
  Chats = {x, y}
  Issuers = {"screen", "start"}
  MaxCodes = 2
  MaxUpdates = 2
  MaxUnpairs = 1
  LastPairingDay = 1
  Actors = {w1, w2}
  Boxes = {x, y}
  MaxTokens = 2
  Processes = {"service", "command"}
  Releases <- MCReleases
  MaxStarts = 4
  PropertyIds = {1, 2}
  Buildings <- MCBuildings
  Addresses <- Spelled
  Documents <- Post
SYMMETRY Alike
INVARIANTS
  SessionsHold
  BreakerHolds
  PairedOnce
  
  MigratedOnce
  MatchedAsStated
