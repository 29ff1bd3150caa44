------------------------------ MODULE MCCrowd ------------------------------
(* Three clients on three cells, one without a spawn, and one entry in     *)
(* each pool.  A third client can join a round that two others play on,    *)
(* for a blast hits only its own cell; the pools are full most of the      *)
(* time; bombs are laid where an earlier one still burns.                  *)
EXTENDS Session
L == INSTANCE Levels

CrowdLevel  == << "1", ".", "2" >>
CrowdCells  == L!CellsOf(CrowdLevel, Rows, Cols)
CrowdSpawns == L!SpawnsOf(CrowdLevel, Rows, Cols, MaxPlayers)
=============================================================================
