SPECIFICATION Spec
CONSTANTS
  SecondNs = 4
  Speeds <- MCSpeeds
  Starts <- MCStarts
  Horizon = 13
PROPERTIES MovesAreSpaced KeysDoNotKill
CHECK_DEADLOCK FALSE
