SPECIFICATION SSpec
CONSTANTS
  MaxPlayers = 3
  MaxBombs = 1
  Rows = 1
  Cols = 3
  InitialCells <- CrowdCells
  SpawnOf <- CrowdSpawns
  DefaultSpeed = 3
  DefaultRadius = 0
  DefaultTimer = 2
  ExplosionDuration = 2
  Names = {"", "ann"}
  Watcher = 3
  Window = 0
INVARIANTS NamesUnique BoardMatchesBombs WelcomedFollows MapAgrees
PROPERTY UnstartedOnlyByLeaving
