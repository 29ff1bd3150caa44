SPECIFICATION Spec
CONSTANTS
  MaxPlayers = 2
  MaxBombs = 2
  Rows = 2
  Cols = 3
  InitialCells <- ArenaCells
  SpawnOf <- ArenaSpawns
  DefaultSpeed = 65535
  DefaultRadius = 1
  DefaultTimer = 2
  ExplosionDuration = 1
  Names = {}
INVARIANTS TypeOK LiveOnlyInRound BoardMatchesBombs OneBombEach LiveStandApart
           SettledAtPoll RoomForBomb
PROPERTIES RefinesRound
