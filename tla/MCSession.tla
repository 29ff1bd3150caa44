----------------------------- MODULE MCSession -----------------------------
(* A corridor with a bonus and a soft block, seen by the client in slot 1. *)
EXTENDS Session
L == INSTANCE Levels

SessionLevel  == << "1", "A", "2", "S" >>
SessionCells  == L!CellsOf(SessionLevel, Rows, Cols)
SessionSpawns == L!SpawnsOf(SessionLevel, Rows, Cols, MaxPlayers)
=============================================================================
