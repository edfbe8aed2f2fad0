SPECIFICATION FairSpec
CONSTANTS
  Mailboxes = {home}
  MaxMail = 2
  MaxInAll = 2
  PageSize = 1
  MaxPages = 2
  MaxConnects = 1
  MaxDeaths = 0
  home = home
  office = office
CHECK_DEADLOCK FALSE
PROPERTIES MailSettles
