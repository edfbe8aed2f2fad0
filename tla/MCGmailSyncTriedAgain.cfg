SPECIFICATION Spec
CONSTANTS
  Mailboxes = {home, office}
  MaxMail = 2
  MaxInAll = 2
  PageSize = 1
  MaxPages = 1
  MaxConnects = 2
  MaxDeaths = 0
  home = home
  office = office
CHECK_DEADLOCK FALSE
INVARIANTS FailureIsTriedAgain
