---------------------------- MODULE BlastProofs ----------------------------
(***************************************************************************)
(* Theorems about BlastLoop for every board up to 255 by 255, every radius *)
(* and every position of the bomb: the loops of                            *)
(* server_process_bomb_explosion hit exactly BlastCells, which is what     *)
(* Server's Explode takes them to do, and their uint8 counter never wraps. *)
(***************************************************************************)
EXTENDS BlastLoop, TLAPS

-----------------------------------------------------------------------------
(* The geometry of the four rays *)

LEMMA Sides ==
  /\ Rows \in Nat \ {0} /\ Cols \in Nat \ {0}
  /\ Rows <= UINT8_MAX /\ Cols <= UINT8_MAX
  /\ UINT8_MAX \in Nat \ {0}
<1>1. UINT8_MAX \in Nat \ {0} /\ MaxMapSide = UINT8_MAX
  BY DEF UINT8_MAX, MaxMapSide
<1>2. Rows \in 1..MaxMapSide /\ Cols \in 1..MaxMapSide
  BY ConfigAssumption DEF ConfigOK
<1> QED
  BY <1>1, <1>2

LEMMA CellPair ==
  ASSUME NEW a \in Cell
  PROVE  /\ a = <<a[1], a[2]>>
         /\ a[1] \in Nat /\ a[1] < Rows
         /\ a[2] \in Nat /\ a[2] < Cols
BY Sides DEF Cell

LEMMA Rays ==
  ASSUME NEW a \in Cell, NEW k \in Nat
  PROVE  /\ Along(a, Order[1], k) = <<a[1] - k, a[2]>>
         /\ Along(a, Order[2], k) = <<a[1] + k, a[2]>>
         /\ Along(a, Order[3], k) = <<a[1], a[2] - k>>
         /\ Along(a, Order[4], k) = <<a[1], a[2] + k>>
BY CellPair DEF Along, Order

(* A ray leaves the board within UINT8_MAX steps. *)
LEMMA RaysAreShort ==
  ASSUME NEW a \in Cell, NEW d \in 1..4, NEW k \in Nat, Along(a, Order[d], k) \in Cell
  PROVE  k < UINT8_MAX
<1>1. CASE d = 1
  BY <1>1, Rays, Sides, CellPair, SMTT(30) DEF Cell
<1>2. CASE d = 2
  BY <1>2, Rays, Sides, CellPair, SMTT(30) DEF Cell
<1>3. CASE d = 3
  BY <1>3, Rays, Sides, CellPair, SMTT(30) DEF Cell
<1>4. CASE d = 4
  BY <1>4, Rays, Sides, CellPair, SMTT(30) DEF Cell
<1> QED
  BY <1>1, <1>2, <1>3, <1>4

(* The rays meet neither each other nor their origin. *)
LEMMA RaysAreApart ==
  ASSUME NEW a \in Cell, NEW d \in 1..4, NEW k \in Nat \ {0}
  PROVE  /\ Along(a, Order[d], k) # a
         /\ \A e \in 1..4, j \in Nat \ {0} :
              Along(a, Order[d], k) = Along(a, Order[e], j) => d = e /\ k = j
<1>1. CASE d = 1
  BY <1>1, Rays, CellPair
<1>2. CASE d = 2
  BY <1>2, Rays, CellPair
<1>3. CASE d = 3
  BY <1>3, Rays, CellPair
<1>4. CASE d = 4
  BY <1>4, Rays, CellPair
<1> QED
  BY <1>1, <1>2, <1>3, <1>4

LEMMA OrderIsDirections == Directions = {Order[d] : d \in 1..4}
BY DEF Directions, Order

-----------------------------------------------------------------------------
(* The loop invariant: what has been hit, and what became of the cells. *)

Open(d, k) == Reaches(board, at, Order[d], k)

(* c is the bomb's cell, on a finished ray, or on the current one. *)
Swept(c) ==
  \/ c = at
  \/ \E d \in 1..4, k \in 1..radius : d < dir /\ Open(d, k) /\ Along(at, Order[d], k) = c
  \/ dir <= 4 /\ \E k \in 1..step-1 : Along(at, Order[dir], k) = c

(* A cell keeps its content unless it was a soft block and has been hit. *)
Kept(c) == \/ cells[c] = board[c]
           \/ c \in hit /\ board[c] = SOFT /\ cells[c] \in {EMPTY} \cup Bonuses

LoopInv ==
  /\ board[at] = BOMB
  /\ step >= 1
  /\ pc = "centre" => hit = {} /\ cells = board /\ dir = 1 /\ step = 1
  /\ pc = "spread" =>
       /\ \A c \in Cell : (c \in hit <=> Swept(c)) /\ Kept(c)
       /\ \A c \in hit \ {at} : board[c] = SOFT => cells[c] \in {EMPTY} \cup Bonuses
       /\ dir <= 4 => \A k \in 1..step-1 :
            /\ k <= radius /\ Along(at, Order[dir], k) \in Cell
            /\ board[Along(at, Order[dir], k)] \notin {HARD, SOFT}
  /\ ComputesBlast

LEMMA Characters ==
  /\ BOMB # SOFT /\ BOMB # HARD /\ HARD # SOFT
  /\ {HARD, SOFT} \cap ({EMPTY} \cup Bonuses) = {}
  /\ EMPTY \in CellType /\ Bonuses \subseteq CellType
BY DEF BOMB, SOFT, HARD, EMPTY, Bonuses, BONUS_SPEED, BONUS_RADIUS, BONUS_TIMER, CellType

LEMMA BlastInit == Init => TypeOK /\ LoopInv
<1> SUFFICES ASSUME Init PROVE TypeOK /\ LoopInv
  OBVIOUS
<1>1. board \in [Cell -> CellType]
  BY BlastAssumption DEF Init
<1>2. 1 \in U8
  BY Sides DEF U8
<1> QED
  BY <1>1, <1>2 DEF Init, TypeOK, LoopInv, ComputesBlast

(* What the types say of the numbers. *)
LEMMA Numbers ==
  ASSUME TypeOK
  PROVE  /\ radius \in Nat /\ radius <= UINT8_MAX
         /\ step \in Nat /\ dir \in 1..5
         /\ board \in [Cell -> CellType]
BY BlastAssumption, Sides DEF TypeOK, U8

(* The next cell of a ray that has not stopped is open on the board as it  *)
(* was: the loop has not been there, so nothing has changed it.            *)
LEMMA NextCell ==
  ASSUME TypeOK, LoopInv, pc = "spread", dir <= 4, ~Stopped
  PROVE  /\ dir \in 1..4 /\ step \in Nat /\ step >= 1 /\ step <= radius /\ step < UINT8_MAX
         /\ Target \in Cell /\ Target # at /\ Target \notin hit
         /\ cells[Target] = board[Target] /\ board[Target] # HARD
         /\ CellGet(Target) = cells[Target]
         /\ Open(dir, step)
<1>1. dir \in 1..4 /\ step \in Nat /\ step >= 1 /\ step <= radius /\ radius \in Nat
  BY Numbers DEF LoopInv, Stopped
<1>2. Target \in Cell /\ CellGet(Target) = cells[Target] /\ cells[Target] # HARD
  BY DEF Stopped, CellGet
<1>3. step < UINT8_MAX
  BY <1>1, <1>2, RaysAreShort DEF Target, TypeOK
<1>4. Target # at /\ ~Swept(Target)
  <2>1. Target # at
    BY <1>1, RaysAreApart DEF Target, TypeOK
  <2>2. ASSUME NEW d \in 1..4, NEW k \in 1..radius, d < dir
        PROVE  Along(at, Order[d], k) # Target
    BY <1>1, <2>2, RaysAreApart DEF Target, TypeOK
  <2>3. ASSUME NEW k \in 1..step-1
        PROVE  Along(at, Order[dir], k) # Target
    BY <1>1, RaysAreApart DEF Target, TypeOK
  <2> QED
    BY <2>1, <2>2, <2>3 DEF Swept
<1>5. Target \notin hit /\ cells[Target] = board[Target]
  BY <1>2, <1>4 DEF LoopInv, Kept
<1>6. Open(dir, step)
  <2>1. ASSUME NEW k \in 1..step
        PROVE  Along(at, Order[dir], k) \in Cell /\ board[Along(at, Order[dir], k)] # HARD
    <3>1. CASE k = step
      BY <1>2, <1>5, <3>1 DEF Target
    <3>2. CASE k \in 1..step-1
      BY <3>2, <1>1 DEF LoopInv
    <3> QED
      BY <1>1, <3>1, <3>2
  <2>2. \A k \in 1..step-1 : board[Along(at, Order[dir], k)] # SOFT
    BY <1>1 DEF LoopInv
  <2> QED
    BY <2>1, <2>2 DEF Open, Reaches
<1> QED
  BY <1>1, <1>2, <1>3, <1>4, <1>5, <1>6

(* The steps behind the counter are open. *)
LEMMA Behind ==
  ASSUME TypeOK, LoopInv, pc = "spread", dir <= 4, NEW k \in 1..step-1
  PROVE  k \in 1..radius /\ Open(dir, k)
<1>1. \A j \in 1..step-1 :
        /\ j <= radius /\ Along(at, Order[dir], j) \in Cell
        /\ board[Along(at, Order[dir], j)] \notin {HARD, SOFT}
  BY DEF LoopInv
<1>2. step \in Nat /\ radius \in Nat
  BY Numbers
<1>3. 1..k \subseteq 1..step-1 /\ 1..k-1 \subseteq 1..step-1
  BY <1>2
<1> QED
  BY <1>1, <1>2, <1>3 DEF Open, Reaches

-----------------------------------------------------------------------------
(* Each step of the loops *)

LEMMA BlastTyped == TypeOK /\ LoopInv /\ [Next]_vars => TypeOK'
<1> SUFFICES ASSUME TypeOK, LoopInv, [Next]_vars PROVE TypeOK'
  OBVIOUS
<1>0. /\ 1 \in U8 /\ (step < UINT8_MAX => (step + 1) % (UINT8_MAX + 1) \in U8)
      /\ (dir <= 4 => dir + 1 \in 1..5)
  BY Sides, Numbers DEF U8
<1>1. CASE UNCHANGED vars
  BY <1>1 DEF vars, TypeOK
<1>2. CASE Centre
  BY <1>2 DEF Centre, Apply, TypeOK
<1>3. CASE Stop
  BY <1>0, <1>3 DEF Stop, NextDirection, TypeOK
<1>4. CASE Burn
  <2>1. Target \in Cell
    BY <1>4, NextCell DEF Burn
  <2>2. cells' \in [Cell -> CellType]
    BY <1>4, <2>1, Characters DEF Burn, TypeOK
  <2> QED
    BY <1>0, <1>4, <2>1, <2>2 DEF Burn, Apply, NextDirection, TypeOK
<1>5. CASE Spread
  <2>1. Target \in Cell /\ step < UINT8_MAX
    BY <1>5, NextCell DEF Spread
  <2> QED
    BY <1>0, <1>5, <2>1 DEF Spread, Apply, TypeOK
<1>6. CASE Clear
  BY <1>6, Characters DEF Clear, TypeOK
<1> QED
  BY <1>1, <1>2, <1>3, <1>4, <1>5, <1>6 DEF Next

LEMMA CentreKeeps == TypeOK /\ LoopInv /\ Centre => LoopInv'
<1> SUFFICES ASSUME TypeOK, LoopInv, Centre PROVE LoopInv'
  OBVIOUS
<1>1. /\ hit' = {at} /\ cells' = board /\ dir' = 1 /\ step' = 1 /\ pc' = "spread"
      /\ UNCHANGED <<board, at, radius>>
  BY DEF Centre, Apply, LoopInv
<1>2. ASSUME NEW c \in Cell PROVE (c \in hit' <=> Swept(c)') /\ Kept(c)'
  BY <1>1 DEF Swept, Kept
<1> QED
  BY <1>1, <1>2 DEF LoopInv, ComputesBlast

(* A direction is done: its open steps are those behind the counter. *)
LEMMA StopKeeps == TypeOK /\ LoopInv /\ Stop => LoopInv'
<1> SUFFICES ASSUME TypeOK, LoopInv, Stop PROVE LoopInv'
  OBVIOUS
<1>1. /\ dir' = dir + 1 /\ step' = 1 /\ pc = "spread" /\ dir <= 4 /\ Stopped
      /\ UNCHANGED <<board, at, radius, cells, hit, pc>>
  BY DEF Stop, NextDirection
<1>2. dir \in 1..4 /\ step \in Nat /\ step >= 1 /\ radius \in Nat
  BY <1>1, Numbers DEF LoopInv
<1>3. ASSUME NEW k \in 1..radius, Open(dir, k) PROVE k \in 1..step-1
  <2> SUFFICES ASSUME k >= step PROVE FALSE
    BY <1>2
  <2>1. Target \in Cell /\ board[Target] # HARD
    BY <1>2, <1>3 DEF Open, Reaches, Target
  <2>2. cells[Target] # HARD
    BY <1>1, <2>1, Characters DEF LoopInv, Kept
  <2> QED
    BY <1>1, <1>2, <2>1, <2>2 DEF Stopped, CellGet
<1>4. ASSUME NEW k \in 1..step-1 PROVE k \in 1..radius /\ Open(dir, k)
  BY <1>1, Behind
<1>5. ASSUME NEW c \in Cell PROVE Swept(c)' <=> Swept(c)
  <2>1. \A d, k : Open(d, k)' <=> Open(d, k)
    BY <1>1 DEF Open
  <2>2. Swept(c)' <=> \/ c = at
                     \/ \E d \in 1..4, k \in 1..radius :
                          d < dir + 1 /\ Open(d, k) /\ Along(at, Order[d], k) = c
    BY <1>1, <2>1 DEF Swept
  <2>3. \A d \in 1..4 : d < dir + 1 <=> d < dir \/ d = dir
    BY <1>2
  <2> QED
    BY <1>2, <1>3, <1>4, <2>2, <2>3 DEF Swept
<1> QED
  BY <1>1, <1>5 DEF LoopInv, Kept, ComputesBlast

LEMMA BurnKeeps == TypeOK /\ LoopInv /\ Burn => LoopInv'
<1> SUFFICES ASSUME TypeOK, LoopInv, Burn PROVE LoopInv'
  OBVIOUS
<1>1. /\ pc = "spread" /\ dir <= 4 /\ ~Stopped /\ CellGet(Target) = SOFT
      /\ hit' = hit \cup {Target} /\ dir' = dir + 1 /\ step' = 1
      /\ UNCHANGED <<board, at, radius, pc>>
  BY DEF Burn, Apply, NextDirection
<1>2. PICK loot \in {EMPTY} \cup Bonuses : cells' = [cells EXCEPT ![Target] = loot]
  BY DEF Burn
<1>3. /\ dir \in 1..4 /\ step \in Nat /\ step >= 1 /\ step <= radius /\ radius \in Nat
      /\ Target \in Cell /\ Target # at /\ Target \notin hit
      /\ board[Target] = SOFT /\ Open(dir, step)
  BY <1>1, NextCell, Numbers
<1>4. ASSUME NEW k \in 1..radius, Open(dir, k) PROVE k \in 1..step
  <2> SUFFICES ASSUME k > step PROVE FALSE
    BY <1>3
  <2>1. step \in 1..k-1
    BY <1>3
  <2> QED
    BY <1>3, <1>4, <2>1 DEF Open, Reaches, Target
<1>5. ASSUME NEW k \in 1..step PROVE k \in 1..radius /\ Open(dir, k)
  <2>1. k \in 1..step-1 \/ k = step
    BY <1>3
  <2> QED
    BY <1>1, <1>3, <2>1, Behind
<1>6. ASSUME NEW c \in Cell PROVE Swept(c)' <=> Swept(c) \/ c = Target
  <2>1. \A d, k : Open(d, k)' <=> Open(d, k)
    BY <1>1 DEF Open
  <2>2. Swept(c)' <=> \/ c = at
                     \/ \E d \in 1..4, k \in 1..radius :
                          d < dir + 1 /\ Open(d, k) /\ Along(at, Order[d], k) = c
    BY <1>1, <2>1 DEF Swept
  <2>3. \A d \in 1..4 : d < dir + 1 <=> d < dir \/ d = dir
    BY <1>3
  <2>4. (\E k \in 1..radius : Open(dir, k) /\ Along(at, Order[dir], k) = c)
          <=> (\E k \in 1..step-1 : Along(at, Order[dir], k) = c) \/ c = Target
    <3>1. 1..step = (1..step-1) \cup {step}
      BY <1>3
    <3> QED
      BY <1>4, <1>5, <3>1 DEF Target
  <2> QED
    BY <1>3, <2>2, <2>3, <2>4 DEF Swept
<1>7. \A c \in Cell : cells'[c] = IF c = Target THEN loot ELSE cells[c]
  BY <1>2, <1>3 DEF TypeOK
<1>8. \A c \in Cell : (c \in hit' <=> Swept(c)') /\ Kept(c)'
  BY <1>1, <1>3, <1>6, <1>7 DEF LoopInv, Kept
<1>9. \A c \in hit' \ {at'} : board'[c] = SOFT => cells'[c] \in {EMPTY} \cup Bonuses
  BY <1>1, <1>3, <1>7 DEF LoopInv, TypeOK
<1> QED
  BY <1>1, <1>8, <1>9 DEF LoopInv, ComputesBlast

LEMMA SpreadKeeps == TypeOK /\ LoopInv /\ Spread => LoopInv'
<1> SUFFICES ASSUME TypeOK, LoopInv, Spread PROVE LoopInv'
  OBVIOUS
<1>1. /\ pc = "spread" /\ dir <= 4 /\ ~Stopped /\ CellGet(Target) # SOFT
      /\ hit' = hit \cup {Target} /\ step' = (step + 1) % (UINT8_MAX + 1)
      /\ UNCHANGED <<board, at, radius, cells, dir, pc>>
  BY DEF Spread, Apply
<1>2. /\ dir \in 1..4 /\ step \in Nat /\ step >= 1 /\ step <= radius /\ radius \in Nat
      /\ Target \in Cell /\ step < UINT8_MAX
      /\ board[Target] \notin {HARD, SOFT}
  BY <1>1, NextCell, Numbers
<1>3. step' = step + 1
  BY <1>1, <1>2, Sides
<1>4. 1..step'-1 = (1..step-1) \cup {step}
  BY <1>2, <1>3
<1>5. ASSUME NEW c \in Cell PROVE Swept(c)' <=> Swept(c) \/ c = Target
  <2>1. \A d, k : Open(d, k)' <=> Open(d, k)
    BY <1>1 DEF Open
  <2> QED
    BY <1>1, <1>4, <2>1 DEF Swept, Target
<1>6. \A c \in Cell : (c \in hit' <=> Swept(c)') /\ Kept(c)'
  BY <1>1, <1>5 DEF LoopInv, Kept
<1>7. \A k \in 1..step'-1 :
        /\ k <= radius /\ Along(at, Order[dir], k) \in Cell
        /\ board[Along(at, Order[dir], k)] \notin {HARD, SOFT}
  BY <1>1, <1>2, <1>4 DEF LoopInv, Target
<1>8. \A c \in hit' \ {at'} : board'[c] = SOFT => cells'[c] \in {EMPTY} \cup Bonuses
  BY <1>1, <1>2 DEF LoopInv
<1> QED
  BY <1>1, <1>2, <1>3, <1>6, <1>7, <1>8 DEF LoopInv, ComputesBlast

LEMMA ClearKeeps == TypeOK /\ LoopInv /\ Clear => LoopInv'
<1> SUFFICES ASSUME TypeOK, LoopInv, Clear PROVE LoopInv'
  OBVIOUS
<1>1. /\ pc = "spread" /\ dir = 5 /\ pc' = "done"
      /\ cells' = [cells EXCEPT ![at] = EMPTY]
      /\ UNCHANGED <<board, at, radius, hit, dir, step>>
  BY DEF Clear
<1>2. ASSUME NEW c \in Cell PROVE Swept(c) <=> c \in BlastCells(board, at, radius)
  <2>1. \A d \in 1..4 : d < dir
    BY <1>1
  <2>2. Swept(c) <=> \/ c = at
                    \/ \E d \in 1..4, k \in 1..radius :
                         Reaches(board, at, Order[d], k) /\ Along(at, Order[d], k) = c
    BY <1>1, <2>1 DEF Swept, Open
  <2> QED
    BY <2>2, OrderIsDirections DEF BlastCells
<1>3. hit = BlastCells(board, at, radius)
  <2>1. hit \subseteq Cell /\ BlastCells(board, at, radius) \subseteq Cell
    BY DEF TypeOK, BlastCells
  <2> QED
    BY <1>1, <1>2, <2>1 DEF LoopInv
<1>4. \A c \in Cell : cells'[c] = IF c = at THEN EMPTY ELSE cells[c]
  BY <1>1 DEF TypeOK
<1>5. ASSUME NEW c \in Cell
      PROVE  CASE c = at                             -> cells'[c] = EMPTY
               [] c # at /\ c \in hit /\ board[c] = SOFT -> cells'[c] \in {EMPTY} \cup Bonuses
               [] OTHER                              -> cells'[c] = board[c]
  BY <1>1, <1>4 DEF LoopInv, Kept
<1>6. ComputesBlast'
  BY <1>1, <1>3, <1>5 DEF ComputesBlast
<1> QED
  BY <1>1, <1>6 DEF LoopInv

LEMMA BlastStep == TypeOK /\ LoopInv /\ [Next]_vars => (TypeOK /\ LoopInv)'
<1>1. UNCHANGED vars /\ LoopInv => LoopInv'
  BY DEF vars, LoopInv, Swept, Kept, Open, ComputesBlast
<1> QED
  BY <1>1, BlastTyped, CentreKeeps, StopKeeps, BurnKeeps, SpreadKeeps, ClearKeeps DEF Next

-----------------------------------------------------------------------------

(* The loops compute the blast that Server's Explode takes as one step.    *)
THEOREM LoopsComputeBlast == Spec => []ComputesBlast
<1>1. TypeOK /\ LoopInv => ComputesBlast
  BY DEF LoopInv
<1> QED
  BY <1>1, BlastInit, BlastStep, PTL DEF Spec

(* The uint8 counter never wraps to 0, whatever the radius. *)
THEOREM CounterNeverWraps == Spec => []StepNeverWraps
<1>1. TypeOK /\ LoopInv => StepNeverWraps
  BY DEF LoopInv, StepNeverWraps
<1> QED
  BY <1>1, BlastInit, BlastStep, PTL DEF Spec
-----------------------------------------------------------------------------
(* The loops end: an upper bound on the iterations to come, which every    *)
(* iteration lowers.                                                       *)

Left == CASE pc = "centre" -> 5 * (UINT8_MAX + 1)
          [] pc = "spread" -> (6 - dir) * (UINT8_MAX + 1) - step
          [] pc = "done"   -> 0

CountsDown == [](Left \in Nat) /\ [][Left' < Left]_vars

(* One direction is worth more than all steps of the uint8 counter. *)
LEMMA DirectionsWeigh ==
  /\ \A d \in 1..5, s \in U8 :
        /\ (6 - d) * (UINT8_MAX + 1) - s \in Nat \ {0}
        /\ (6 - d) * (UINT8_MAX + 1) - s <= 5 * (UINT8_MAX + 1)
  /\ \A d \in 1..4, s \in U8 :
        (6 - (d + 1)) * (UINT8_MAX + 1) - 1 < (6 - d) * (UINT8_MAX + 1) - s
<1>1. \A d \in 1..5 : d \in {1, 2, 3, 4, 5}
  OBVIOUS
<1>2. UINT8_MAX \in Nat \ {0} /\ \A s \in U8 : s \in Nat /\ s <= UINT8_MAX
  BY Sides DEF U8
<1> QED
  BY <1>1, <1>2

LEMMA LeftTyped == TypeOK => Left \in Nat
<1> SUFFICES ASSUME TypeOK PROVE Left \in Nat
  OBVIOUS
<1>1. pc = "centre" => Left = 5 * (UINT8_MAX + 1)
  BY DEF Left
<1>2. pc = "spread" => Left = (6 - dir) * (UINT8_MAX + 1) - step
  BY DEF Left
<1>3. pc = "done" => Left = 0
  BY DEF Left
<1>4. 5 * (UINT8_MAX + 1) \in Nat
  BY Sides
<1> QED
  BY <1>1, <1>2, <1>3, <1>4, DirectionsWeigh DEF TypeOK

LEMMA LeftFalls == TypeOK /\ LoopInv /\ Next => Left' < Left
<1> SUFFICES ASSUME TypeOK, LoopInv, Next PROVE Left' < Left
  OBVIOUS
<1>1. step \in U8 /\ dir \in 1..5 /\ step >= 1 /\ step \in Nat
  BY Numbers DEF TypeOK, LoopInv
<1>2. pc = "spread" => Left = (6 - dir) * (UINT8_MAX + 1) - step
  BY DEF Left
<1>3. pc' = "spread" => Left' = (6 - dir') * (UINT8_MAX + 1) - step'
  BY DEF Left
<1>4. CASE Centre
  <2>1. pc = "centre" /\ pc' = "spread" /\ dir' = 1 /\ step' = 1
    BY <1>4 DEF Centre, LoopInv
  <2>2. Left = 5 * (UINT8_MAX + 1)
    BY <2>1 DEF Left
  <2> QED
    BY <1>3, <2>1, <2>2, Sides
<1>5. CASE Stop \/ Burn
  <2>1. pc = "spread" /\ pc' = "spread" /\ dir \in 1..4 /\ dir' = dir + 1 /\ step' = 1
    BY <1>1, <1>5 DEF Stop, Burn, NextDirection
  <2> QED
    BY <1>1, <1>2, <1>3, <2>1, DirectionsWeigh
<1>6. CASE Spread
  <2>1. /\ pc = "spread" /\ pc' = "spread" /\ dir' = dir
        /\ step' = (step + 1) % (UINT8_MAX + 1) /\ step < UINT8_MAX
    BY <1>6, NextCell DEF Spread
  <2>2. step' = step + 1
    BY <1>1, <2>1, Sides
  <2>3. Left' = (6 - dir) * (UINT8_MAX + 1) - (step + 1)
    BY <1>3, <2>1, <2>2
  <2> DEFINE weight == (6 - dir) * (UINT8_MAX + 1)
  <2>4. weight \in Int
    BY <1>1, Sides
  <2> HIDE DEF weight
  <2>5. Left = weight - step /\ Left' = weight - (step + 1)
    BY <1>2, <2>1, <2>3 DEF weight
  <2> QED
    BY <1>1, <2>4, <2>5
<1>7. CASE Clear
  <2>1. pc = "spread" /\ pc' = "done"
    BY <1>7 DEF Clear
  <2>2. Left' = 0
    BY <2>1 DEF Left
  <2> QED
    BY <1>1, <1>2, <2>1, <2>2, DirectionsWeigh
<1> QED
  BY <1>4, <1>5, <1>6, <1>7 DEF Next

(* No iteration is spent in vain: each lowers a number that starts at 1280 *)
(* and cannot fall below 0, so an explosion takes at most so many whatever *)
(* its radius and the board, and what Terminates asks besides is only that *)
(* the thread goes on.                                                     *)
THEOREM LoopsCountDown == Spec => CountsDown
<1>1. TypeOK /\ LoopInv => Left \in Nat
  BY LeftTyped
<1>2. TypeOK /\ LoopInv /\ [Next]_vars => [Left' < Left]_vars
  BY LeftFalls
<1> QED
  BY <1>1, <1>2, BlastInit, BlastStep, PTL DEF Spec, CountsDown
=============================================================================
