SPECIFICATION SSpec
CONSTANTS
  MaxPlayers = 2
  MaxBombs = 2
  Rows = 1
  Cols = 4
  InitialCells <- SessionCells
  SpawnOf <- SessionSpawns
  DefaultSpeed = 3
  DefaultRadius = 1
  DefaultTimer = 2
  ExplosionDuration = 1
  Names = {"ann"}
  Watcher = 1
  Window = 0
INVARIANTS ReplicaAgrees MapAgrees
