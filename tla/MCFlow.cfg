SPECIFICATION FairSpec
CONSTANTS
  Clients = {1, 2}
  DownCap = 2
  UpCap = 1
  MaxMessages = 2
INVARIANT DiesOnlyOfTheUnnoticed
PROPERTY HeldOnlyByClients
CHECK_DEADLOCK FALSE
