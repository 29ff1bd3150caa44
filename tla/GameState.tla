----------------------------- MODULE GameState -----------------------------
(***************************************************************************)
(* The data the server's handlers share: the limits and enumerations of    *)
(* common/include/config.h, the board operations of                        *)
(* common/src/game_state.c, and the blast geometry of server/bomb_logic.c. *)
(* There are no variables here; Server keeps the state.                    *)
(*                                                                         *)
(* A position is the pair <<row, col>>.  make_cell_index flattens it to    *)
(* row * cols + col, which is injective on the board and fits a uint16     *)
(* because a side is at most 255, so the flattening is left out.           *)
(***************************************************************************)
EXTENDS Integers, FiniteSets

CONSTANTS
  MaxPlayers,        \* MAX_PLAYERS, the number of client slots
  MaxBombs,          \* MAX_BOMBS, entries of the bomb pool and of the explosion pool
  Rows, Cols,        \* the size of the loaded map
  InitialCells,      \* the cells of the loaded map
  SpawnOf,           \* the spawn cells the map names: a function on some of the slots
  DefaultSpeed, DefaultRadius, DefaultTimer, ExplosionDuration

Slot     == 1..MaxPlayers          \* client->id = slot + 1 identifies slot and player
BombSlot == 1..MaxBombs
Cell     == (0..Rows-1) \X (0..Cols-1)
Origin   == <<0, 0>>

MaxMapSide == 255
UINT8_MAX  == 255
UINT16_MAX == 65535
U8  == 0..UINT8_MAX
U16 == 0..UINT16_MAX

Statuses == {"LOBBY", "RUNNING", "END"}

EMPTY        == "."
HARD         == "H"
SOFT         == "S"
BOMB         == "B"
BONUS_SPEED  == "A"
BONUS_RADIUS == "R"
BONUS_TIMER  == "T"
Bonuses  == {BONUS_SPEED, BONUS_RADIUS, BONUS_TIMER}
CellType == {EMPTY, HARD, SOFT, BOMB} \cup Bonuses

(* What server_load_map hands over, as MapLoader shows: a spawn cell was   *)
(* written as a digit in the map file, so it is empty floor and no two     *)
(* slots share it.  The numbers have been cut to the width of their field. *)
ConfigOK ==
  /\ MaxPlayers \in 1..UINT8_MAX-2      \* the ids 254 and 255 are not players
  /\ MaxBombs \in Nat \ {0}
  /\ Rows \in 1..MaxMapSide /\ Cols \in 1..MaxMapSide
  /\ InitialCells \in [Cell -> CellType]
  /\ DOMAIN SpawnOf \subseteq Slot
  /\ \A s \in DOMAIN SpawnOf : SpawnOf[s] \in Cell /\ InitialCells[SpawnOf[s]] = EMPTY
  /\ \A s, t \in DOMAIN SpawnOf : s # t => SpawnOf[s] # SpawnOf[t]
  /\ DefaultSpeed \in U16 /\ DefaultRadius \in U8
  /\ DefaultTimer \in U16 /\ ExplosionDuration \in U16
ASSUME ConfigAssumption == ConfigOK

-----------------------------------------------------------------------------
(* The board *)

Walkable(cell) == cell \in {EMPTY} \cup Bonuses

(* Row by row, then column by column: the order of the loops that scan the board. *)
ScannedBefore(a, b) == a[1] < b[1] \/ (a[1] = b[1] /\ a[2] < b[2])

(* The pools are scanned from their first entry. *)
IsFirst(i, S) == i \in S /\ \A j \in S : i <= j

Directions == {<<-1, 0>>, <<1, 0>>, <<0, -1>>, <<0, 1>>}
Along(pos, dir, steps) == <<pos[1] + steps * dir[1], pos[2] + steps * dir[2]>>

-----------------------------------------------------------------------------
(* Players and bombs *)

Kit == [bomb_count : U8, bomb_radius : U8, bomb_timer : U16, speed : U16]
DefaultKit == [bomb_count |-> 1, bomb_radius |-> DefaultRadius,
               bomb_timer |-> DefaultTimer, speed |-> DefaultSpeed]

BadCollect(kit, bonus) ==   \* a faulty variant: the fields are unbounded
  CASE bonus = BONUS_SPEED  -> [kit EXCEPT !.speed = @ + 1]
    [] bonus = BONUS_RADIUS -> [kit EXCEPT !.bomb_radius = @ + 1]
    [] bonus = BONUS_TIMER  -> [kit EXCEPT !.bomb_timer = @ + 1]

(* The fields of a player wrap like the integers they are stored in. *)
Collect(kit, bonus) ==
  CASE bonus = BONUS_SPEED  -> [kit EXCEPT !.speed = (@ + 1) % (UINT16_MAX + 1)]
    [] bonus = BONUS_RADIUS -> [kit EXCEPT !.bomb_radius = (@ + 1) % (UINT8_MAX + 1)]
    [] bonus = BONUS_TIMER  -> [kit EXCEPT !.bomb_timer = (@ + 1) % (UINT16_MAX + 1)]

Bomb   == [owner : Slot \cup {0}, pos : Cell, radius : U8, timer : U16]
NoBomb == [owner |-> 0, pos |-> Origin, radius |-> 0, timer |-> 0]

(* An entry of the explosion pool is active exactly while ticks remain. *)
Explosion   == [pos : Cell, remaining : U16]
NoExplosion == [pos |-> Origin, remaining |-> 0]

-----------------------------------------------------------------------------
(* Blast geometry *)

(* The flame of a bomb at pos gets as far as the given number of steps in  *)
(* a direction: it stops short of the edge and of a hard wall, and goes no *)
(* further than the first soft block.                                      *)
Reaches(cells, pos, dir, steps) ==
  /\ \A k \in 1..steps : /\ Along(pos, dir, k) \in Cell
                         /\ cells[Along(pos, dir, k)] # HARD
  /\ \A k \in 1..steps-1 : cells[Along(pos, dir, k)] # SOFT

BlastCells(cells, pos, radius) ==
  {pos} \cup {c \in Cell : \E dir \in Directions, k \in 1..radius :
                              Along(pos, dir, k) = c /\ Reaches(cells, pos, dir, k)}
=============================================================================
