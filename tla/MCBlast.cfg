SPECIFICATION FairSpec
CONSTANTS
  MaxPlayers = 1
  MaxBombs = 1
  Rows = 2
  Cols = 3
  InitialCells <- FirstBoard
  SpawnOf <- NoSpawns
  DefaultSpeed = 3
  DefaultRadius = 1
  DefaultTimer = 2
  ExplosionDuration = 1
  Boards <- SmallBoards
  Radii = {0, 1, 2, 255}
INVARIANTS ComputesBlast StepNeverWraps
PROPERTY Terminates
CHECK_DEADLOCK FALSE
