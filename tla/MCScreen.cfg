SPECIFICATION ScreenSpec
CONSTANTS
  MaxRows = 512
  MaxCols = 512
  MaxPlayers = 8
  SizeT = 4096
  Terminals <- MCTerminals
  Maps <- MCMaps
  Count = 4
  Line = {"joined", "died"}
  Blank = ""
  MaxLines = 6
INVARIANTS DrawsInside ShowsLatest
CHECK_DEADLOCK FALSE
