SPECIFICATION Spec
CONSTANTS
  Mailboxes = {home, office}
  MaxMail = 2
  MaxInAll = 2
  PageSize = 1
  MaxPages = 1
  MaxConnects = 2
  MaxDeaths = 1
  home = home
  office = office
CHECK_DEADLOCK FALSE
SYMMETRY Symmetry
INVARIANTS CursorAccounted FiledIsOnDisk
