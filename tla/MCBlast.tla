------------------------------ MODULE MCBlast ------------------------------
(* Every 2 x 3 board of floor, walls and blocks, with the bomb anywhere. *)
EXTENDS BlastLoop

Floors == [Cell -> {EMPTY, HARD, SOFT}]
SmallBoards == {[f EXCEPT ![c] = BOMB] : f \in Floors, c \in Cell}
FirstBoard == [c \in Cell |-> EMPTY]
NoSpawns == << >>
=============================================================================
