------------------------------ MODULE MCArena ------------------------------
(* Two players on a 2 x 3 board with a soft block and a bonus. *)
EXTENDS Server
L == INSTANCE Levels

ArenaLevel == << "1", "T", ".",
                 ".", "S", "2" >>
ArenaCells  == L!CellsOf(ArenaLevel, Rows, Cols)
ArenaSpawns == L!SpawnsOf(ArenaLevel, Rows, Cols, MaxPlayers)
============================================================================
