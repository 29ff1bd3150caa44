SPECIFICATION FairSpec
CONSTANTS
  MaxIdLen = 2
  MaxNameLen = 1
  MaxErrorLen = 2
  MaxPlayers = 2
  MaxMapCells = 6
  MaxPayload = 64
  Messages <- AllMessages
  Capacity = 32
  FromClient <- FromOneClient
  FromServer <- FromOneServer
  Foreign <- FromElsewhere
  MaxSent = 2
  PipeCap = 4
INVARIANTS RoundTrip SizesAgree RefusesOnlyForeign
PROPERTIES RefinesChannel ReadsEnd AllArrive
CHECK_DEADLOCK FALSE
