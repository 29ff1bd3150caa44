SPECIFICATION FairSpec
CONSTANTS
  Sizes = {"small", "large"}
  PipeCap = 2
  UpCap = 1
  MaxKeys = 1
INVARIANTS NoLostResize NoLostInterrupt
PROPERTIES ResizeIsShown InterruptEnds
CHECK_DEADLOCK FALSE
