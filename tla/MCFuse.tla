------------------------------- MODULE MCFuse -------------------------------
(* Two players in a corridor, fair clock: what must go on goes on. *)
EXTENDS Server
L == INSTANCE Levels

FuseLevel  == << "1", ".", "2" >>
FuseCells  == L!CellsOf(FuseLevel, Rows, Cols)
FuseSpawns == L!SpawnsOf(FuseLevel, Rows, Cols, MaxPlayers)
=============================================================================
