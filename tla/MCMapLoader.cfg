SPECIFICATION Spec
CONSTANTS
  MaxPlayers = 2
  Headers <- MCHeaders
  Files <- MCFiles
INVARIANTS LoadedIsPlayable LoadsTheFile
CHECK_DEADLOCK FALSE
