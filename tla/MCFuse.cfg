SPECIFICATION FairSpec
CONSTANTS
  MaxPlayers = 2
  MaxBombs = 2
  Rows = 1
  Cols = 3
  InitialCells <- FuseCells
  SpawnOf <- FuseSpawns
  DefaultSpeed = 3
  DefaultRadius = 1
  DefaultTimer = 2
  ExplosionDuration = 2
  Names = {}
PROPERTIES EveryBombGoesOff EveryFlameDies TickEnds RoundIsDecided
