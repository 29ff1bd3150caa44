----------------------------- MODULE BlastLoop -----------------------------
(***************************************************************************)
(* The loops inside server_process_bomb_explosion, one iteration a step:   *)
(* four directions, in each a uint8 step that counts up to the bomb's      *)
(* radius, on a board that changes under the loop as soft blocks burn.     *)
(* Server takes the whole explosion as one action and describes its reach  *)
(* with BlastCells; this module shows that the loops compute just that,    *)
(* and that they end.  Bad... definitions are faulty variants of the next  *)
(* one, outside the model; a property fails with each.                     *)
(***************************************************************************)
EXTENDS GameState

CONSTANTS Boards,          \* the boards a bomb may go off on
          Radii            \* the radius bomb_t holds
ASSUME BlastAssumption == Boards \subseteq [Cell -> CellType] /\ Radii \subseteq U8

Order == <<<<-1, 0>>, <<1, 0>>, <<0, -1>>, <<0, 1>>>>     \* dr[] and dc[]

VARIABLES board,           \* the board when the bomb goes off
          at, radius,      \* the bomb
          cells,           \* the board now
          hit,             \* the cells apply_explosion_cell was called for
          dir, step,       \* the loop counters; dir = 5 when the directions are done
          pc               \* "centre", "spread" or "done"
vars == <<board, at, radius, cells, hit, dir, step, pc>>

TypeOK ==
  /\ board \in Boards /\ cells \in [Cell -> CellType]
  /\ at \in Cell /\ radius \in Radii
  /\ hit \subseteq Cell
  /\ dir \in 1..5 /\ step \in U8
  /\ pc \in {"centre", "spread", "done"}

Init ==
  /\ board \in Boards /\ cells = board
  /\ at \in Cell /\ board[at] = BOMB
  /\ radius \in Radii
  /\ hit = {}
  /\ dir = 1 /\ step = 1
  /\ pc = "centre"

(* apply_explosion_cell: chained bombs and deaths are told by hit *)
Apply(c) == hit' = hit \cup {c}

Centre ==
  /\ pc = "centre"
  /\ Apply(at)
  /\ pc' = "spread"
  /\ UNCHANGED <<board, at, radius, cells, dir, step>>

Target == Along(at, Order[dir], step)

(* gs_cell_get *)
CellGet(c) == IF c \in Cell THEN cells[c] ELSE HARD

BadStopped == step > radius \/ (Target \in Cell /\ cells[Target] = HARD)   \* no edge
Stopped == step > radius \/ Target \notin Cell \/ CellGet(Target) = HARD

BadNextDirection == dir' = (dir % 4) + 1 /\ step' = 1       \* round and round
NextDirection == dir' = dir + 1 /\ step' = 1

(* The for condition fails, or one of the two breaks before the cell. *)
Stop ==
  /\ pc = "spread" /\ dir <= 4
  /\ Stopped
  /\ NextDirection
  /\ UNCHANGED <<board, at, radius, cells, hit, pc>>

BadBurn ==                  \* stop_here is ignored
  /\ pc = "spread" /\ dir <= 4
  /\ ~Stopped /\ CellGet(Target) = SOFT
  /\ Apply(Target)
  /\ \E loot \in {EMPTY} \cup Bonuses : cells' = [cells EXCEPT ![Target] = loot]
  /\ step' = (step + 1) % (UINT8_MAX + 1)
  /\ UNCHANGED <<board, at, radius, dir, pc>>

(* A soft block burns, may leave a bonus, and sets stop_here. *)
Burn ==
  /\ pc = "spread" /\ dir <= 4
  /\ ~Stopped /\ CellGet(Target) = SOFT
  /\ Apply(Target)
  /\ \E loot \in {EMPTY} \cup Bonuses : cells' = [cells EXCEPT ![Target] = loot]
  /\ NextDirection
  /\ UNCHANGED <<board, at, radius, pc>>

(* Anything else lets the flame through; ++step is on a uint8. *)
Spread ==
  /\ pc = "spread" /\ dir <= 4
  /\ ~Stopped /\ CellGet(Target) # SOFT
  /\ Apply(Target)
  /\ step' = (step + 1) % (UINT8_MAX + 1)
  /\ UNCHANGED <<board, at, radius, cells, dir, pc>>

(* The bomb leaves the board. *)
Clear ==
  /\ pc = "spread" /\ dir = 5
  /\ cells' = [cells EXCEPT ![at] = EMPTY]
  /\ pc' = "done"
  /\ UNCHANGED <<board, at, radius, hit, dir, step>>

Next == Centre \/ Stop \/ Burn \/ Spread \/ Clear

Spec == Init /\ [][Next]_vars
FairSpec == Spec /\ WF_vars(Next)

-----------------------------------------------------------------------------

(* The loops hit the cells BlastCells names on the board as it was, and    *)
(* leave the board Server's Explode leaves: burning blocks on the way does *)
(* not open new ways for the later directions.                             *)
ComputesBlast ==
  pc = "done" =>
    /\ hit = BlastCells(board, at, radius)
    /\ \A c \in Cell :
         CASE c = at                        -> cells[c] = EMPTY
           [] c # at /\ c \in hit /\ board[c] = SOFT -> cells[c] \in {EMPTY} \cup Bonuses
           [] OTHER                         -> cells[c] = board[c]

(* step never wraps from 255 to 0, not even for a radius of 255, because   *)
(* a side of the board has at most 255 cells.                              *)
StepNeverWraps == step >= 1

(* So an explosion comes to an end: a step that wrapped would keep the     *)
(* server in the loop for ever.                                            *)
Terminates == <>(pc = "done")
=============================================================================
