---------------------------- MODULE ServerProofs ----------------------------
(***************************************************************************)
(* Theorems about Server, and about Session, which adds a client to it,    *)
(* for every number of slots and pool entries, every map, every default    *)
(* and every Window.  The only assumptions are ConfigAssumption and        *)
(* NamesAssumption.  The second part of the module is about Session.       *)
(***************************************************************************)
EXTENDS Session, FiniteSetTheorems, SequenceTheorems, TLAPS

-----------------------------------------------------------------------------
(* The largest values of the integer types are numbers; which ones does not *)
(* matter, except that bomb_count is capped at 200.                         *)
LEMMA Widths == UINT8_MAX \in Nat /\ UINT16_MAX \in Nat /\ UINT8_MAX >= 200
                /\ MaxMapSide \in Nat
BY DEF UINT8_MAX, UINT16_MAX, MaxMapSide

(* The values the state is built from have their types. *)

LEMMA ConstantsTyped ==
  /\ Origin \in Cell
  /\ DefaultKit \in Kit
  /\ NoBomb \in Bomb
  /\ NoExplosion \in Explosion
  /\ InitialCells \in [Cell -> CellType]
  /\ \A s \in Slot : s \in DOMAIN SpawnOf => SpawnOf[s] \in Cell
  /\ Slot \subseteq Nat /\ BombSlot \subseteq Nat /\ 0 \notin Slot
<1>1. /\ Rows \in 1..MaxMapSide /\ Cols \in 1..MaxMapSide
      /\ DefaultSpeed \in U16 /\ DefaultRadius \in U8 /\ DefaultTimer \in U16
      /\ MaxPlayers \in 1..UINT8_MAX-2 /\ MaxBombs \in Nat \ {0}
      /\ InitialCells \in [Cell -> CellType]
      /\ DOMAIN SpawnOf \subseteq Slot
      /\ \A s \in DOMAIN SpawnOf : SpawnOf[s] \in Cell
  BY ConfigAssumption DEF ConfigOK
<1>2. Origin \in Cell
  BY <1>1 DEF Origin, Cell
<1>3. DefaultKit \in Kit
  <2>1. 1 \in U8
    BY Widths DEF U8
  <2> QED
    BY <1>1, <2>1 DEF DefaultKit, Kit
<1>4. NoBomb \in Bomb
  BY Widths, <1>2 DEF NoBomb, Bomb, U8, U16
<1>5. NoExplosion \in Explosion
  BY Widths, <1>2 DEF NoExplosion, Explosion, U16
<1>6. Slot \subseteq Nat /\ BombSlot \subseteq Nat /\ 0 \notin Slot
  BY <1>1 DEF Slot, BombSlot
<1> QED
  BY <1>1, <1>2, <1>3, <1>4, <1>5, <1>6

LEMMA CountDown ==
  ASSUME NEW n \in U16
  PROVE  (n # 0 => n - 1 \in U16) /\ (~(n <= 1) => n - 1 \in U16)
BY Widths DEF U16

(* A bonus leaves a player's fields within their widths. *)
LEMMA CollectTyped ==
  ASSUME NEW k \in Kit, NEW b \in Bonuses
  PROVE  Collect(k, b) \in Kit /\ Collect(k, b).bomb_count = k.bomb_count
<1>1. ASSUME NEW n \in U16 PROVE (n + 1) % (UINT16_MAX + 1) \in U16
  BY Widths DEF U16
<1>2. ASSUME NEW n \in U8 PROVE (n + 1) % (UINT8_MAX + 1) \in U8
  BY Widths DEF U8
<1>3. CASE b = BONUS_SPEED
  <2>1. Collect(k, b) = [k EXCEPT !.speed = (@ + 1) % (UINT16_MAX + 1)]
    BY <1>3 DEF Collect, BONUS_SPEED, BONUS_RADIUS, BONUS_TIMER
  <2> QED
    BY <1>1, <2>1 DEF Kit
<1>4. CASE b = BONUS_RADIUS
  <2>1. Collect(k, b) = [k EXCEPT !.bomb_radius = (@ + 1) % (UINT8_MAX + 1)]
    BY <1>4 DEF Collect, BONUS_SPEED, BONUS_RADIUS, BONUS_TIMER
  <2> QED
    BY <1>2, <2>1 DEF Kit
<1>5. CASE b = BONUS_TIMER
  <2>1. Collect(k, b) = [k EXCEPT !.bomb_timer = (@ + 1) % (UINT16_MAX + 1)]
    BY <1>5 DEF Collect, BONUS_SPEED, BONUS_RADIUS, BONUS_TIMER
  <2> QED
    BY <1>1, <2>1 DEF Kit
<1> QED
  BY <1>3, <1>4, <1>5 DEF Bonuses

-----------------------------------------------------------------------------
(* Type correctness *)

LEMMA TypeInit == Init => TypeOK
<1> SUFFICES ASSUME Init PROVE TypeOK
  OBVIOUS
<1>1. 1 \in 1..MaxBombs + 1
  BY ConfigAssumption DEF ConfigOK
<1> QED
  BY <1>1, ConstantsTyped DEF Init, TypeOK, Statuses

(* A client's turn leaves the clock's variables typed. *)
LEMMA ServeTyped ==
  ASSUME TypeOK, NEW c \in Slot, Serve(c)
  PROVE  /\ phase' \in {"poll", "serve", "explode"} /\ scan' \in 1..MaxBombs + 1
         /\ c \in active /\ Passed(c) \subseteq unserved /\ c \notin Passed(c)
BY ConstantsTyped DEF TypeOK, Serve, Passed

LEMMA DisconnectTyped ==
  ASSUME TypeOK, NEW c \in Slot, Serve(c), Disconnect(c)
  PROVE  TypeOK'
<1>1. unserved' \subseteq active'
  BY ServeTyped DEF Disconnect, TypeOK
<1> QED
  BY <1>1, ServeTyped DEF Disconnect, TypeOK, boardVars

LEMMA ReceiveTyped ==
  ASSUME TypeOK, Receive
  PROVE  TypeOK'
<1>1. PICK c \in Slot :
        \/ NoEffect(c)
        \/ Leave(c)
        \/ \E n \in Names : Hello(c, n)
        \/ SetReady(c)
        \/ \E dir \in Directions : MoveAttempt(c, dir)
        \/ \E claimed \in Cell : BombAttempt(c, claimed)
        \/ ReturnToLobby(c)
  BY DEF Receive
<1>2. CASE NoEffect(c)
  BY <1>2, ServeTyped DEF NoEffect, TypeOK, boardVars, sessionVars, playerVars
<1>3. CASE Leave(c)
  BY <1>3, DisconnectTyped DEF Leave
<1>4. ASSUME NEW n \in Names, Hello(c, n) PROVE TypeOK'
  <2>1. CASE NameTaken(c, n) /\ Disconnect(c)
    BY <1>4, <2>1, DisconnectTyped DEF Hello
  <2>2. CASE ~(NameTaken(c, n) /\ Disconnect(c))
    BY <1>4, <2>2, ServeTyped DEF Hello, TypeOK, boardVars, playerVars
  <2> QED
    BY <2>1, <2>2
<1>5. CASE SetReady(c)
  <2>1. status' \in Statuses
    BY <1>5 DEF SetReady, TypeOK, Statuses
  <2>2. alive' \subseteq Slot /\ ready' \subseteq Slot /\ lives' \in [Slot -> {0, 1}]
    BY <1>5, ServeTyped DEF SetReady, TypeOK
  <2> QED
    BY <1>5, <2>1, <2>2, ServeTyped DEF SetReady, TypeOK, boardVars, sessionVars
<1>6. ASSUME NEW dir \in Directions, MoveAttempt(c, dir) PROVE TypeOK'
  <2> DEFINE target == Along(pos[c], dir, 1)
  <2>1. target \in Cell /\ pos' \in [Slot -> Cell]
    BY <1>6 DEF MoveAttempt, TypeOK
  <2>2. kit' \in [Slot -> Kit] /\ cells' \in [Cell -> CellType]
    <3>1. CASE cells[target] \in Bonuses
      <4>1. Collect(kit[c], cells[target]) \in Kit
        BY <3>1, CollectTyped DEF TypeOK
      <4>2. EMPTY \in CellType
        BY DEF CellType
      <4> QED
        BY <1>6, <2>1, <3>1, <4>1, <4>2 DEF MoveAttempt, TypeOK
    <3>2. CASE cells[target] \notin Bonuses
      BY <1>6, <3>2 DEF MoveAttempt, TypeOK
    <3> QED
      BY <3>1, <3>2
  <2>3. Serve(c) /\ unserved' = Passed(c)
    BY <1>6 DEF MoveAttempt
  <2>4. UNCHANGED <<status, bombs, explosions, sessionVars, alive, ready, lives>>
    BY <1>6 DEF MoveAttempt
  <2> QED
    BY <2>1, <2>2, <2>3, <2>4, ServeTyped DEF TypeOK, sessionVars
<1>7. ASSUME NEW claimed \in Cell, BombAttempt(c, claimed) PROVE TypeOK'
  <2>1. BombOf(c) \in Bomb
    BY DEF BombOf, Bomb, TypeOK, Kit
  <2>2. bombs' \in [BombSlot -> Bomb]
    BY <1>7, <2>1 DEF BombAttempt, PlaceBomb, AddBomb, TypeOK
  <2>3. kit' \in [Slot -> Kit]
    <3>1. kit[c].bomb_count \in U8 /\ kit[c].bomb_count > 0
      BY <1>7 DEF BombAttempt, TypeOK, Kit
    <3>2. kit[c].bomb_count - 1 \in U8
      BY Widths, <3>1 DEF U8
    <3> QED
      BY <1>7, <3>2 DEF BombAttempt, SpendBomb, TypeOK, Kit
  <2>4. cells' \in [Cell -> CellType]
    BY <1>7 DEF BombAttempt, TypeOK, CellType
  <2>5. /\ Serve(c) /\ unserved' = Passed(c)
        /\ UNCHANGED <<status, explosions, sessionVars, pos, alive, ready, lives>>
    BY <1>7 DEF BombAttempt
  <2> QED
    BY <2>2, <2>3, <2>4, <2>5, ServeTyped DEF TypeOK, sessionVars
<1>8. CASE ReturnToLobby(c)
  <2>1. pos' \in [Slot -> Cell]
    BY <1>8, ConstantsTyped DEF ReturnToLobby, ResetPositions, TypeOK
  <2>2. kit' \in [Slot -> Kit]
    BY <1>8, ConstantsTyped DEF ReturnToLobby, ResetKits
  <2>3. /\ cells' \in [Cell -> CellType] /\ bombs' \in [BombSlot -> Bomb]
        /\ explosions' \in [BombSlot -> Explosion]
    BY <1>8, ConstantsTyped DEF ReturnToLobby, ResetBoard
  <2>4. /\ Serve(c) /\ unserved' = Passed(c) /\ status' = "LOBBY"
        /\ alive' = {} /\ ready' = {} /\ lives' = [s \in Slot |-> 0]
        /\ UNCHANGED sessionVars
    BY <1>8 DEF ReturnToLobby
  <2> QED
    BY <2>1, <2>2, <2>3, <2>4, ServeTyped DEF TypeOK, sessionVars, Statuses
<1> QED
  BY <1>1, <1>2, <1>3, <1>4, <1>5, <1>6, <1>7, <1>8

LEMMA ConnectTyped ==
  ASSUME TypeOK, Connect
  PROVE  TypeOK'
<1>1. CASE Refuse
  BY <1>1 DEF Refuse, TypeOK, boardVars, sessionVars, playerVars
<1>2. ASSUME NEW slot \in Slot, NEW seat \in Cell, Accept(slot, seat) PROVE TypeOK'
  BY <1>2, ConstantsTyped DEF Accept, TypeOK, boardVars
<1> QED
  BY <1>1, <1>2 DEF Connect

LEMMA ExplodeTyped ==
  ASSUME TypeOK, NEW i \in BombSlot, Explode(i)
  PROVE  TypeOK'
<1> DEFINE blast  == BlastCells(cells, bombs[i].pos, bombs[i].radius)
           burnt  == {c \in blast : cells[c] = SOFT}
           killed == {p \in active \cap alive : pos[p] \in blast}
           back(k) == [k EXCEPT !.bomb_count = IF @ < 200 THEN @ + 1 ELSE @]
<1>1. cells' \in [Cell -> CellType]
  <2>1. PICK loot \in [burnt -> {EMPTY} \cup Bonuses] :
          cells' = [c \in Cell |-> IF c = bombs[i].pos THEN EMPTY
                                   ELSE IF c \in burnt THEN loot[c] ELSE cells[c]]
    BY DEF Explode
  <2>2. {EMPTY} \cup Bonuses \subseteq CellType
    BY DEF CellType
  <2> QED
    BY <2>1, <2>2 DEF TypeOK
<1>2. bombs' \in [BombSlot -> Bomb]
  <2>1. ASSUME NEW b \in Bomb PROVE [b EXCEPT !.timer = 0] \in Bomb
    <3>1. 0 \in U16
      BY Widths DEF U16
    <3> QED
      BY <3>1 DEF Bomb
  <2> QED
    BY <2>1, ConstantsTyped DEF Explode, BombsAfter, TypeOK
<1>3. kit' \in [Slot -> Kit]
  <2>1. ASSUME NEW k \in Kit PROVE back(k) \in Kit
    <3>1. k.bomb_count \in U8
      BY DEF Kit
    <3>2. (IF k.bomb_count < 200 THEN k.bomb_count + 1 ELSE k.bomb_count) \in U8
      BY Widths, <3>1 DEF U8
    <3> QED
      BY <3>2 DEF Kit
  <2>2. kit' = [kit EXCEPT ![bombs[i].owner] = back(kit[bombs[i].owner])]
    BY DEF Explode
  <2> HIDE DEF back
  <2> QED
    BY <2>1, <2>2 DEF TypeOK
<1>4. explosions' \in [BombSlot -> Explosion]
  <2>1. bombs[i].pos \in Cell
    BY DEF TypeOK, Bomb
  <2>2. [pos |-> bombs[i].pos, remaining |-> ExplosionDuration] \in Explosion
    BY <2>1, ConfigAssumption DEF ConfigOK, Explosion
  <2>3. ScheduleEnd(bombs[i].pos)
    BY DEF Explode
  <2> QED
    BY <2>2, <2>3 DEF ScheduleEnd, TypeOK
<1>5. /\ alive' = alive \ killed
      /\ lives' = [p \in Slot |-> IF p \in killed THEN 0 ELSE lives[p]]
      /\ scan' = i + 1
      /\ UNCHANGED <<status, sessionVars, pos, ready, phase, unserved>>
  BY DEF Explode
<1>6. scan' \in 1..MaxBombs + 1
  BY <1>5, ConfigAssumption DEF ConfigOK, BombSlot
<1> HIDE DEF killed
<1> QED
  BY <1>1, <1>2, <1>3, <1>4, <1>5, <1>6 DEF TypeOK, sessionVars

LEMMA ClockTyped ==
  ASSUME TypeOK, Clock
  PROVE  TypeOK'
<1>1. CASE Tick
  <2>1. explosions' \in [BombSlot -> Explosion]
    <3>1. ASSUME NEW e \in Explosion PROVE Aged(e) \in Explosion
      <4>1. e.remaining \in U16
        BY DEF Explosion
      <4>3. CASE e.remaining <= 1
        BY <4>3, ConstantsTyped DEF Aged
      <4>4. CASE ~(e.remaining <= 1)
        <5>1. e.remaining - 1 \in U16
          BY <4>1, <4>4, CountDown
        <5> QED
          BY <4>4, <5>1 DEF Aged, Explosion
      <4> QED
        BY <4>3, <4>4
    <3> QED
      BY <1>1, <3>1 DEF Tick, TypeOK
  <2>2. bombs' \in [BombSlot -> Bomb]
    <3>1. ASSUME NEW b \in Bomb, b.timer # 0 PROVE [b EXCEPT !.timer = @ - 1] \in Bomb
      <4>1. b.timer \in U16
        BY DEF Bomb
      <4>2. b.timer - 1 \in U16
        BY <3>1, <4>1, CountDown
      <4> QED
        BY <4>2 DEF Bomb
    <3> QED
      BY <1>1, <3>1 DEF Tick, TypeOK
  <2>3. 1 \in 1..MaxBombs + 1
    BY ConfigAssumption DEF ConfigOK
  <2> QED
    BY <1>1, <2>1, <2>2, <2>3 DEF Tick, TypeOK, sessionVars, playerVars
<1>2. ASSUME NEW i \in BombSlot, Explode(i) PROVE TypeOK'
  BY <1>2, ExplodeTyped
<1>3. CASE FinishTick
  <2>1. 1 \in 1..MaxBombs + 1
    BY ConfigAssumption DEF ConfigOK
  <2> QED
    BY <1>3, <2>1 DEF FinishTick, TypeOK, boardVars, sessionVars, playerVars, Statuses
<1> QED
  BY <1>1, <1>2, <1>3 DEF Clock

LEMMA TypeStep == TypeOK /\ [Next]_vars => TypeOK'
<1> SUFFICES ASSUME TypeOK, [Next]_vars PROVE TypeOK'
  OBVIOUS
<1>1. CASE UNCHANGED vars
  BY <1>1 DEF TypeOK, vars, boardVars, sessionVars, playerVars, loopVars
<1> QED
  BY <1>1, ConnectTyped, ReceiveTyped, ClockTyped DEF Next

(* Every variable keeps to the width and range the C type of its field has. *)
THEOREM TypeCorrect == Spec => []TypeOK
BY TypeInit, TypeStep, PTL DEF Spec

-----------------------------------------------------------------------------
(* Who is alive, and who is ready *)

RoundInv ==
  /\ LiveOnlyInRound
  /\ ready \subseteq active
  /\ phase = "explode" => status = "RUNNING"

LEMMA RoundInit == Init => RoundInv
BY DEF Init, RoundInv, LiveOnlyInRound

LEMMA RoundStep == TypeOK /\ RoundInv /\ [Next]_vars => RoundInv'
<1> SUFFICES ASSUME TypeOK, RoundInv, [Next]_vars PROVE RoundInv'
  OBVIOUS
<1> USE DEF RoundInv, LiveOnlyInRound
<1>1. CASE UNCHANGED vars
  BY <1>1 DEF vars, sessionVars, playerVars, loopVars
<1>2. CASE Refuse
  BY <1>2 DEF Refuse, sessionVars, playerVars
<1>3. ASSUME NEW slot \in Slot, NEW seat \in Cell, Accept(slot, seat) PROVE RoundInv'
  BY <1>3 DEF Accept, TypeOK
<1>4. ASSUME NEW c \in Slot, Serve(c), Disconnect(c) PROVE RoundInv'
  BY <1>4 DEF Serve, Disconnect, TypeOK
<1>5. ASSUME NEW c \in Slot, NEW n \in Names, Hello(c, n) PROVE RoundInv'
  BY <1>4, <1>5 DEF Serve, Hello, playerVars
<1>6. ASSUME NEW c \in Slot, NoEffect(c) PROVE RoundInv'
  BY <1>6 DEF Serve, NoEffect, sessionVars, playerVars
<1>7. ASSUME NEW c \in Slot, SetReady(c) PROVE RoundInv'
  <2>1. c \in active /\ ready' = ready \cup {c} /\ active' = active
    BY <1>7, ServeTyped DEF SetReady, sessionVars
  <2>2. CASE CanStart
    BY <1>7, <2>1, <2>2 DEF Serve, SetReady, CanStart, TypeOK
  <2>3. CASE ~CanStart
    BY <1>7, <2>1, <2>3 DEF Serve, SetReady
  <2> QED
    BY <2>2, <2>3
<1>8. ASSUME NEW c \in Slot, NEW dir \in Directions, MoveAttempt(c, dir) PROVE RoundInv'
  BY <1>8 DEF Serve, MoveAttempt, sessionVars
<1>9. ASSUME NEW c \in Slot, NEW claimed \in Cell, BombAttempt(c, claimed) PROVE RoundInv'
  BY <1>9 DEF Serve, BombAttempt, sessionVars
<1>10. ASSUME NEW c \in Slot, ReturnToLobby(c) PROVE RoundInv'
  BY <1>10 DEF Serve, ReturnToLobby, sessionVars
<1>11. CASE Tick
  BY <1>11 DEF Tick, FusesBurn, sessionVars, playerVars
<1>12. ASSUME NEW i \in BombSlot, Explode(i) PROVE RoundInv'
  <2> DEFINE killed == {p \in active \cap alive :
                          pos[p] \in BlastCells(cells, bombs[i].pos, bombs[i].radius)}
  <2>1. /\ alive' = alive \ killed
        /\ lives' = [p \in Slot |-> IF p \in killed THEN 0 ELSE lives[p]]
        /\ UNCHANGED <<status, active, ready, phase>>
    BY <1>12 DEF Explode, sessionVars
  <2>2. killed \subseteq alive
    OBVIOUS
  <2> HIDE DEF killed
  <2> QED
    BY <2>1, <2>2 DEF TypeOK
<1>13. CASE FinishTick
  BY <1>13 DEF FinishTick, sessionVars, playerVars
<1> QED
  BY <1>1, <1>2, <1>3, <1>4, <1>5, <1>6, <1>7, <1>8, <1>9, <1>10, <1>11, <1>12, <1>13
     DEF Next, Connect, Receive, Clock, Leave

(* Nobody is alive without a connection or in the lobby, and lives agrees. *)
THEOREM LiveOnlyInRoundHolds == Spec => []LiveOnlyInRound
<1>1. Init => TypeOK /\ RoundInv
  BY TypeInit, RoundInit
<1>2. TypeOK /\ RoundInv /\ [Next]_vars => (TypeOK /\ RoundInv)'
  BY TypeStep, RoundStep
<1>3. RoundInv => LiveOnlyInRound
  BY DEF RoundInv
<1> QED
  BY <1>1, <1>2, <1>3, PTL DEF Spec

-----------------------------------------------------------------------------
(* The server implements Round. *)

LEMMA SlotsFinite ==
  ASSUME NEW S \in SUBSET Slot
  PROVE  IsFiniteSet(S) /\ Cardinality(S) \in Nat
<1>1. IsFiniteSet(Slot)
  BY FS_Interval, ConfigAssumption DEF ConfigOK, Slot
<1> QED
  BY <1>1, FS_Subset, FS_CardinalityType

(* Round speaks of several players where the server counts them. *)
LEMMA SeveralCounted ==
  ASSUME NEW S \in SUBSET Slot
  PROVE  R!Several(S) <=> Cardinality(S) >= 2
<1>1. IsFiniteSet(S) /\ Cardinality(S) \in Nat
  BY SlotsFinite
<1>2. ASSUME R!Several(S) PROVE Cardinality(S) >= 2
  <2>1. PICK p \in S, q \in S : p # q
    BY <1>2 DEF R!Several
  <2>2. IsFiniteSet({p, q}) /\ Cardinality({p, q}) = 2
    <3>1. Cardinality({p}) = 1 /\ IsFiniteSet({p})
      BY FS_Singleton
    <3>2. {p, q} = {p} \cup {q} /\ q \notin {p}
      BY <2>1
    <3> QED
      BY <3>1, <3>2, FS_AddElement
  <2>3. {p, q} \subseteq S
    OBVIOUS
  <2>4. Cardinality({p, q}) <= Cardinality(S)
    BY <1>1, <2>3, FS_Subset
  <2> QED
    BY <1>1, <2>2, <2>4
<1>3. ASSUME ~R!Several(S) PROVE ~(Cardinality(S) >= 2)
  <2>1. CASE S = {}
    BY <2>1, FS_EmptySet
  <2>2. ASSUME NEW p \in S PROVE Cardinality(S) = 1
    <3>1. S = {p}
      BY <1>3 DEF R!Several
    <3> QED
      BY <3>1, FS_Singleton
  <2> QED
    BY <2>1, <2>2
<1> QED
  BY <1>2, <1>3

LEMMA RoundInitRefines == Init => R!Init
BY DEF Init, R!Init

LEMMA RoundStepRefines ==
  TypeOK /\ RoundInv /\ [Next]_vars => [R!Next]_R!vars
<1> SUFFICES ASSUME TypeOK, RoundInv, [Next]_vars
             PROVE  R!Next \/ UNCHANGED <<status, active, ready, alive>>
  BY DEF R!vars
<1> USE DEF RoundInv, LiveOnlyInRound
<1>1. CASE UNCHANGED vars
  BY <1>1 DEF vars, sessionVars, playerVars
<1>2. CASE Refuse
  BY <1>2 DEF Refuse, sessionVars, playerVars
<1>3. ASSUME NEW slot \in Slot, NEW seat \in Cell, Accept(slot, seat) PROVE R!Next
  <2>1. slot \in Slot \ active /\ active' = active \cup {slot} /\ UNCHANGED status
    BY <1>3 DEF Accept, IsFirst
  <2>2. ready' = ready /\ alive' = alive
    BY <1>3, <2>1 DEF Accept
  <2>3. R!Sit(slot)
    BY <2>1, <2>2 DEF R!Sit
  <2> QED
    BY <2>3 DEF R!Next
<1>4. ASSUME NEW c \in Slot, Serve(c), Disconnect(c) PROVE R!Next
  <2>1. R!StandUp(c)
    BY <1>4, ServeTyped DEF Disconnect, R!StandUp
  <2> QED
    BY <2>1 DEF R!Next
<1>5. ASSUME NEW c \in Slot, NEW n \in Names, Hello(c, n)
      PROVE  R!Next \/ UNCHANGED <<status, active, ready, alive>>
  BY <1>4, <1>5 DEF Hello, playerVars
<1>6. ASSUME NEW c \in Slot, NoEffect(c) PROVE UNCHANGED <<status, active, ready, alive>>
  BY <1>6 DEF NoEffect, sessionVars, playerVars
<1>7. ASSUME NEW c \in Slot, SetReady(c) PROVE R!Next
  <2>1. c \in active /\ ready' = ready \cup {c} /\ active' = active
    BY <1>7, ServeTyped DEF SetReady, sessionVars
  <2>2. CanStart <=> (status = "LOBBY" /\ ready' = active /\ R!Several(active))
    BY <2>1, SeveralCounted DEF CanStart, TypeOK
  <2>3. CASE CanStart
    <3>1. status' = "RUNNING" /\ alive' = active
      BY <1>7, <2>3 DEF SetReady
    <3>2. R!Ask(c)
      BY <2>1, <2>2, <2>3, <3>1 DEF R!Ask
    <3> QED
      BY <3>2 DEF R!Next
  <2>4. CASE ~CanStart
    <3>1. UNCHANGED <<status, alive>>
      BY <1>7, <2>4 DEF SetReady
    <3>2. R!Ask(c)
      BY <2>1, <2>2, <2>4, <3>1 DEF R!Ask
    <3> QED
      BY <3>2 DEF R!Next
  <2> QED
    BY <2>3, <2>4
<1>8. ASSUME NEW c \in Slot, NEW dir \in Directions, MoveAttempt(c, dir)
      PROVE  UNCHANGED <<status, active, ready, alive>>
  BY <1>8 DEF MoveAttempt, sessionVars
<1>9. ASSUME NEW c \in Slot, NEW claimed \in Cell, BombAttempt(c, claimed)
      PROVE  UNCHANGED <<status, active, ready, alive>>
  BY <1>9 DEF BombAttempt, sessionVars
<1>10. ASSUME NEW c \in Slot, ReturnToLobby(c) PROVE R!Next
  <2>1. c \in active
    BY <1>10, ServeTyped DEF ReturnToLobby
  <2>2. R!Rematch
    BY <1>10, <2>1 DEF ReturnToLobby, sessionVars, R!Rematch
  <2> QED
    BY <2>2 DEF R!Next
<1>11. CASE Tick
  BY <1>11 DEF Tick, sessionVars, playerVars
<1>12. ASSUME NEW i \in BombSlot, Explode(i)
       PROVE  R!Next \/ UNCHANGED <<status, active, ready, alive>>
  <2> DEFINE killed == {p \in active \cap alive :
                          pos[p] \in BlastCells(cells, bombs[i].pos, bombs[i].radius)}
  <2>1. /\ phase = "explode"
        /\ alive' = alive \ killed
        /\ UNCHANGED <<status, active, ready>>
    BY <1>12 DEF Explode, sessionVars
  <2>2. killed \in SUBSET alive
    OBVIOUS
  <2> HIDE DEF killed
  <2>3. CASE killed = {}
    BY <2>1, <2>3
  <2>4. CASE killed # {}
    <3>1. R!Perish(killed)
      BY <2>1, <2>2, <2>4 DEF R!Perish
    <3> QED
      BY <2>2, <3>1 DEF R!Next
  <2> QED
    BY <2>3, <2>4
<1>13. ASSUME FinishTick PROVE R!Next \/ UNCHANGED <<status, active, ready, alive>>
  <2>1. phase = "explode" /\ UNCHANGED <<active, ready, alive>>
    BY <1>13 DEF FinishTick, sessionVars, playerVars
  <2>2. active \cap alive = alive
    OBVIOUS
  <2>3. CASE Decided
    <3>1. ~R!Several(alive) /\ R!Several(active)
      <4>1. Cardinality(alive) <= 1 /\ Cardinality(active) >= 2
        BY <2>2, <2>3 DEF Decided
      <4>2. R!Several(alive) => Cardinality(alive) >= 2
        BY SeveralCounted DEF TypeOK
      <4>3. Cardinality(alive) \in Nat
        BY SlotsFinite DEF TypeOK
      <4> QED
        BY <4>1, <4>2, <4>3, SeveralCounted DEF TypeOK
    <3>2. status = "RUNNING" /\ status' = "END"
      BY <1>13, <2>1, <2>3 DEF FinishTick
    <3>3. R!Finish
      BY <2>1, <3>1, <3>2 DEF R!Finish
    <3> QED
      BY <3>3 DEF R!Next
  <2>4. CASE ~Decided
    BY <1>13, <2>1, <2>4 DEF FinishTick
  <2> QED
    BY <2>3, <2>4
<1> QED
  BY <1>1, <1>2, <1>3, <1>4, <1>5, <1>6, <1>7, <1>8, <1>9, <1>10, <1>11, <1>12, <1>13
     DEF Next, Connect, Receive, Clock, Leave

(* Every run of the server is a run of Round: rounds start with everybody  *)
(* who is seated, nobody enters one or revives in it, and it ends only     *)
(* when it is decided.                                                     *)
THEOREM ServerImplementsRound == Spec => RefinesRound
<1>1. Init => TypeOK /\ RoundInv
  BY TypeInit, RoundInit
<1>2. TypeOK /\ RoundInv /\ [Next]_vars => (TypeOK /\ RoundInv)'
  BY TypeStep, RoundStep
<1> QED
  BY <1>1, <1>2, RoundInitRefines, RoundStepRefines, PTL DEF Spec, RefinesRound, R!Spec

-----------------------------------------------------------------------------
(* The lobby is a clean slate: that is what makes the start of a round     *)
(* safe, whatever the rounds and the disconnections before it.             *)

LobbyInv == status = "LOBBY" =>
  /\ \A i \in BombSlot : bombs[i].owner = 0
  /\ \A p \in Slot : kit[p].bomb_count = 1
  /\ cells = InitialCells
  /\ DOMAIN SpawnOf = Slot => \A p \in Slot : pos[p] = SpawnOf[p]

LEMMA LobbyInit == Init => LobbyInv
BY DEF Init, LobbyInv, NoBomb, DefaultKit

LEMMA LobbyStep == TypeOK /\ RoundInv /\ LobbyInv /\ [Next]_vars => LobbyInv'
<1> SUFFICES ASSUME TypeOK, RoundInv, LobbyInv, [Next]_vars PROVE LobbyInv'
  OBVIOUS
<1> USE DEF LobbyInv
<1>1. CASE UNCHANGED vars
  BY <1>1 DEF vars, boardVars, playerVars
<1>2. CASE Refuse
  BY <1>2 DEF Refuse, boardVars, playerVars
<1>3. ASSUME NEW slot \in Slot, NEW seat \in Cell, Accept(slot, seat) PROVE LobbyInv'
  <2>1. DOMAIN SpawnOf = Slot => seat = SpawnOf[slot]
    BY <1>3 DEF Accept, AssignSpawn
  <2> QED
    BY <1>3, <2>1 DEF Accept, boardVars, DefaultKit, TypeOK
<1>4. ASSUME NEW c \in Slot, Serve(c), Disconnect(c) PROVE LobbyInv'
  BY <1>4 DEF Disconnect, boardVars
<1>5. ASSUME NEW c \in Slot, NEW n \in Names, Hello(c, n) PROVE LobbyInv'
  BY <1>4, <1>5 DEF Hello, boardVars, playerVars
<1>6. ASSUME NEW c \in Slot, NoEffect(c) PROVE LobbyInv'
  BY <1>6 DEF NoEffect, boardVars, playerVars
<1>7. ASSUME NEW c \in Slot, SetReady(c) PROVE LobbyInv'
  BY <1>7 DEF SetReady, boardVars
<1>8. ASSUME NEW c \in Slot, NEW dir \in Directions, MoveAttempt(c, dir) PROVE LobbyInv'
  BY <1>8 DEF MoveAttempt
<1>9. ASSUME NEW c \in Slot, NEW claimed \in Cell, BombAttempt(c, claimed) PROVE LobbyInv'
  BY <1>9 DEF BombAttempt
<1>10. ASSUME NEW c \in Slot, ReturnToLobby(c) PROVE LobbyInv'
  BY <1>10 DEF ReturnToLobby, ResetBoard, ResetKits, ResetPositions, NoBomb, DefaultKit
<1>11. ASSUME Tick PROVE LobbyInv'
  <2>1. UNCHANGED <<status, cells, kit, pos>>
    BY <1>11 DEF Tick, playerVars
  <2>2. status = "LOBBY" => bombs' = bombs
    BY <1>11 DEF Tick, FusesBurn
  <2> QED
    BY <2>1, <2>2
<1>12. ASSUME NEW i \in BombSlot, Explode(i) PROVE LobbyInv'
  BY <1>12 DEF Explode, RoundInv
<1>13. CASE FinishTick
  BY <1>13 DEF FinishTick, RoundInv
<1> QED
  BY <1>1, <1>2, <1>3, <1>4, <1>5, <1>6, <1>7, <1>8, <1>9, <1>10, <1>11, <1>12, <1>13
     DEF Next, Connect, Receive, Clock, Leave

-----------------------------------------------------------------------------
(* The board and the bomb pool agree. *)

LEMMA BoardInit == Init => BoardMatchesBombs
BY DEF Init, BoardMatchesBombs, NoBomb

(* What an explosion does to the other bombs and to the cells. *)
LEMMA ExplosionEffect ==
  ASSUME TypeOK, NEW i \in BombSlot, Explode(i)
  PROVE  /\ bombs'[i].owner = 0
         /\ \A j \in BombSlot \ {i} : /\ bombs'[j].owner = bombs[j].owner
                                      /\ bombs'[j].pos = bombs[j].pos
         /\ cells'[bombs[i].pos] = EMPTY
         /\ \A c \in Cell \ {bombs[i].pos} :
              /\ cells[c] # SOFT => cells'[c] = cells[c]
              /\ cells'[c] = cells[c] \/ cells'[c] \in {EMPTY} \cup Bonuses
         /\ bombs[i].owner \in Slot
         /\ kit' = [kit EXCEPT ![bombs[i].owner].bomb_count = IF @ < 200 THEN @ + 1 ELSE @]
         /\ alive' \subseteq alive
         /\ UNCHANGED <<status, pos, active>>
<1> DEFINE blast == BlastCells(cells, bombs[i].pos, bombs[i].radius)
           burnt == {c \in blast : cells[c] = SOFT}
<1>1. \A j \in BombSlot : bombs[j] \in Bomb
  BY DEF TypeOK
<1>2. bombs[i].pos \in Cell /\ bombs[i].owner \in Slot \cup {0}
  BY <1>1 DEF Bomb
<1>3. /\ bombs' = BombsAfter(i, blast)
      /\ kit' = [kit EXCEPT ![bombs[i].owner].bomb_count = IF @ < 200 THEN @ + 1 ELSE @]
      /\ alive' \subseteq alive
      /\ UNCHANGED <<status, pos, active>>
      /\ NextDue(i)
  BY DEF Explode, sessionVars
<1>4. PICK loot \in [burnt -> {EMPTY} \cup Bonuses] :
        cells' = [c \in Cell |-> IF c = bombs[i].pos THEN EMPTY
                                 ELSE IF c \in burnt THEN loot[c] ELSE cells[c]]
  BY DEF Explode
<1>5. bombs'[i].owner = 0
  BY <1>3 DEF BombsAfter, NoBomb
<1>6. ASSUME NEW j \in BombSlot \ {i}
      PROVE  bombs'[j].owner = bombs[j].owner /\ bombs'[j].pos = bombs[j].pos
  <2>1. bombs'[j] = bombs[j] \/ bombs'[j] = [bombs[j] EXCEPT !.timer = 0]
    BY <1>3 DEF BombsAfter
  <2> QED
    BY <1>1, <2>1 DEF Bomb
<1>7. bombs[i].owner # 0
  BY <1>3 DEF NextDue, IsFirst, Due
<1>8. cells'[bombs[i].pos] = EMPTY
  BY <1>2, <1>4
<1>9. ASSUME NEW c \in Cell \ {bombs[i].pos}
      PROVE  /\ cells[c] # SOFT => cells'[c] = cells[c]
             /\ cells'[c] = cells[c] \/ cells'[c] \in {EMPTY} \cup Bonuses
  BY <1>4
<1> QED
  BY <1>2, <1>3, <1>5, <1>6, <1>7, <1>8, <1>9

(* What a player puts down, and where. *)
LEMMA PlacementEffect ==
  ASSUME TypeOK, NEW c \in Slot, NEW claimed \in Cell, BombAttempt(c, claimed)
  PROVE  \E i \in BombSlot :
           /\ bombs[i].owner = 0
           /\ bombs'[i].owner = c /\ bombs'[i].pos = pos[c]
           /\ \A j \in BombSlot \ {i} : bombs'[j] = bombs[j]
<1>1. PICK i \in BombSlot :
        IsFirst(i, FreeBombSlots) /\ bombs' = [bombs EXCEPT ![i] = BombOf(c)]
  BY DEF BombAttempt, PlaceBomb, AddBomb
<1> QED
  BY <1>1 DEF IsFirst, FreeBombSlots, BombOf, TypeOK

(* The clock burns fuses and touches nothing else of a bomb. *)
LEMMA FuseEffect ==
  ASSUME TypeOK, Tick
  PROVE  \A j \in BombSlot : /\ bombs'[j].owner = bombs[j].owner
                             /\ bombs'[j].pos = bombs[j].pos
<1> SUFFICES ASSUME NEW j \in BombSlot
             PROVE  bombs'[j].owner = bombs[j].owner /\ bombs'[j].pos = bombs[j].pos
  OBVIOUS
<1>1. bombs'[j] = bombs[j] \/ bombs'[j] = [bombs[j] EXCEPT !.timer = @ - 1]
  BY DEF Tick
<1>2. bombs[j] \in Bomb
  BY DEF TypeOK
<1> QED
  BY <1>1, <1>2 DEF Bomb

LEMMA BoardStep ==
  TypeOK /\ RoundInv /\ LobbyInv /\ BoardMatchesBombs /\ [Next]_vars => BoardMatchesBombs'
<1> SUFFICES ASSUME TypeOK, RoundInv, LobbyInv, BoardMatchesBombs, [Next]_vars
             PROVE  BoardMatchesBombs'
  OBVIOUS
<1>0. ASSUME UNCHANGED <<cells, bombs>> PROVE BoardMatchesBombs'
  BY <1>0 DEF BoardMatchesBombs, BombAt
<1>1. CASE UNCHANGED vars
  BY <1>0, <1>1 DEF vars, boardVars
<1>2. CASE Refuse
  BY <1>0, <1>2 DEF Refuse, boardVars
<1>3. ASSUME NEW slot \in Slot, NEW seat \in Cell, Accept(slot, seat)
      PROVE  BoardMatchesBombs'
  BY <1>0, <1>3 DEF Accept, boardVars
<1>4. ASSUME NEW c \in Slot, Serve(c), Disconnect(c) PROVE BoardMatchesBombs'
  BY <1>0, <1>4 DEF Disconnect, boardVars
<1>5. ASSUME NEW c \in Slot, NEW n \in Names, Hello(c, n) PROVE BoardMatchesBombs'
  BY <1>0, <1>4, <1>5 DEF Hello, boardVars
<1>6. ASSUME NEW c \in Slot, NoEffect(c) PROVE BoardMatchesBombs'
  BY <1>0, <1>6 DEF NoEffect, boardVars
<1>7. ASSUME NEW c \in Slot, SetReady(c) PROVE BoardMatchesBombs'
  BY <1>0, <1>7 DEF SetReady, boardVars
<1>8. ASSUME NEW c \in Slot, NEW dir \in Directions, MoveAttempt(c, dir)
      PROVE  BoardMatchesBombs'
  <2> DEFINE target == Along(pos[c], dir, 1)
  <2>1. bombs' = bombs /\ target \in Cell
    BY <1>8 DEF MoveAttempt
  <2>2. CASE cells[target] \in Bonuses
    <3>1. cells' = [cells EXCEPT ![target] = EMPTY]
      BY <1>8, <2>2 DEF MoveAttempt
    <3>2. BOMB \notin Bonuses /\ EMPTY # BOMB
      BY DEF BOMB, EMPTY, Bonuses, BONUS_SPEED, BONUS_RADIUS, BONUS_TIMER
    <3>3. \A i \in BombSlot : bombs[i].owner # 0 => bombs[i].pos # target
      BY <2>2, <3>2 DEF BoardMatchesBombs
    <3>4. \A i \in BombSlot : bombs[i].pos \in Cell
      BY DEF TypeOK, Bomb
    <3> HIDE DEF target
    <3> QED
      BY <2>1, <3>1, <3>2, <3>3, <3>4 DEF BoardMatchesBombs, BombAt, TypeOK
  <2>3. CASE cells[target] \notin Bonuses
    BY <1>0, <1>8, <2>3 DEF MoveAttempt
  <2> QED
    BY <2>2, <2>3
<1>9. ASSUME NEW c \in Slot, NEW claimed \in Cell, BombAttempt(c, claimed)
      PROVE  BoardMatchesBombs'
  <2>1. PICK i \in BombSlot :
          /\ bombs[i].owner = 0
          /\ bombs'[i].owner = c /\ bombs'[i].pos = pos[c]
          /\ \A j \in BombSlot \ {i} : bombs'[j] = bombs[j]
    BY <1>9, PlacementEffect
  <2>2. cells' = [cells EXCEPT ![pos[c]] = BOMB] /\ ~BombAt(pos[c]) /\ pos[c] \in Cell
    BY <1>9 DEF BombAttempt, TypeOK
  <2>3. \A j \in BombSlot : bombs[j].pos \in Cell
    BY DEF TypeOK, Bomb
  <2>4. c # 0
    BY ConstantsTyped
  <2>5. \A j \in BombSlot : bombs'[j].owner # 0 => cells'[bombs'[j].pos] = BOMB
    BY <2>1, <2>2, <2>3 DEF BoardMatchesBombs, TypeOK
  <2>6. \A j, k \in BombSlot :
          bombs'[j].owner # 0 /\ bombs'[k].owner # 0 /\ bombs'[j].pos = bombs'[k].pos => j = k
    BY <2>1, <2>2 DEF BoardMatchesBombs, BombAt
  <2>7. \A x \in Cell : cells'[x] = BOMB =>
          \/ \E j \in BombSlot : bombs'[j].owner # 0 /\ bombs'[j].pos = x
          \/ InitialCells[x] = BOMB
    <3>1. ASSUME NEW x \in Cell, cells'[x] = BOMB, x # pos[c], InitialCells[x] # BOMB
          PROVE  \E j \in BombSlot : bombs'[j].owner # 0 /\ bombs'[j].pos = x
      <4>1. cells[x] = BOMB
        BY <2>2, <3>1 DEF TypeOK
      <4>2. PICK j \in BombSlot : bombs[j].owner # 0 /\ bombs[j].pos = x
        BY <3>1, <4>1 DEF BoardMatchesBombs, BombAt
      <4> QED
        BY <2>1, <4>2
    <3> QED
      BY <2>1, <2>4, <3>1
  <2> QED
    BY <2>5, <2>6, <2>7 DEF BoardMatchesBombs, BombAt
<1>10. ASSUME NEW c \in Slot, ReturnToLobby(c) PROVE BoardMatchesBombs'
  BY <1>10 DEF ReturnToLobby, ResetBoard, BoardMatchesBombs, NoBomb, BombAt
<1>11. ASSUME Tick PROVE BoardMatchesBombs'
  <2>1. cells' = cells
    BY <1>11 DEF Tick
  <2>2. \A j \in BombSlot : bombs'[j].owner = bombs[j].owner /\ bombs'[j].pos = bombs[j].pos
    BY <1>11, FuseEffect
  <2> QED
    BY <2>1, <2>2 DEF BoardMatchesBombs, BombAt
<1>12. ASSUME NEW i \in BombSlot, Explode(i) PROVE BoardMatchesBombs'
  <2>1. /\ bombs'[i].owner = 0
        /\ \A j \in BombSlot \ {i} : /\ bombs'[j].owner = bombs[j].owner
                                     /\ bombs'[j].pos = bombs[j].pos
        /\ cells'[bombs[i].pos] = EMPTY
        /\ \A c \in Cell \ {bombs[i].pos} :
             /\ cells[c] # SOFT => cells'[c] = cells[c]
             /\ cells'[c] = cells[c] \/ cells'[c] \in {EMPTY} \cup Bonuses
    BY <1>12, ExplosionEffect
  <2>2. BOMB \notin {EMPTY} \cup Bonuses /\ BOMB # SOFT /\ EMPTY # BOMB
    BY DEF BOMB, SOFT, EMPTY, Bonuses, BONUS_SPEED, BONUS_RADIUS, BONUS_TIMER
  <2>3. \A j \in BombSlot : bombs[j].pos \in Cell
    BY DEF TypeOK, Bomb
  <2>4. bombs[i].owner # 0
    BY <1>12, ExplosionEffect, ConstantsTyped
  <2>5. ASSUME NEW j \in BombSlot, bombs'[j].owner # 0 PROVE cells'[bombs'[j].pos] = BOMB
    <3>1. j # i /\ bombs[j].owner # 0 /\ bombs'[j].pos = bombs[j].pos
      BY <2>1, <2>5
    <3>2. bombs[j].pos # bombs[i].pos /\ cells[bombs[j].pos] = BOMB
      BY <2>4, <3>1 DEF BoardMatchesBombs
    <3> QED
      BY <2>1, <2>2, <2>3, <3>1, <3>2
  <2>6. \A j, k \in BombSlot :
          bombs'[j].owner # 0 /\ bombs'[k].owner # 0 /\ bombs'[j].pos = bombs'[k].pos => j = k
    BY <2>1 DEF BoardMatchesBombs
  <2>7. ASSUME NEW x \in Cell, cells'[x] = BOMB, InitialCells[x] # BOMB
        PROVE  \E j \in BombSlot : bombs'[j].owner # 0 /\ bombs'[j].pos = x
    <3>1. x # bombs[i].pos
      BY <2>1, <2>2, <2>7
    <3>2. cells[x] = BOMB
      BY <2>1, <2>2, <2>7, <3>1
    <3>3. PICK j \in BombSlot : bombs[j].owner # 0 /\ bombs[j].pos = x
      BY <2>7, <3>2 DEF BoardMatchesBombs, BombAt
    <3> QED
      BY <2>1, <3>1, <3>3
  <2> QED
    BY <2>5, <2>6, <2>7 DEF BoardMatchesBombs, BombAt
<1>13. CASE FinishTick
  BY <1>0, <1>13 DEF FinishTick, boardVars
<1> QED
  BY <1>1, <1>2, <1>3, <1>4, <1>5, <1>6, <1>7, <1>8, <1>9, <1>10, <1>11, <1>12, <1>13
     DEF Next, Connect, Receive, Clock, Leave

(* The map shows a bomb exactly where the pool has one. *)
THEOREM BoardMatchesBombsHolds == Spec => []BoardMatchesBombs
<1> DEFINE Inv == TypeOK /\ RoundInv /\ LobbyInv /\ BoardMatchesBombs
<1>1. Init => Inv
  BY TypeInit, RoundInit, LobbyInit, BoardInit
<1>2. Inv /\ [Next]_vars => Inv'
  BY TypeStep, RoundStep, LobbyStep, BoardStep
<1> QED
  BY <1>1, <1>2, PTL DEF Spec

-----------------------------------------------------------------------------
(* One bomb each *)

(* What keeps the owners of the bombs and the bombs in hand keeps the count. *)
LEMMA SameHands ==
  ASSUME OneBombEach, alive' \subseteq alive, alive \subseteq Slot,
         \A j \in BombSlot : bombs'[j].owner = bombs[j].owner,
         \A p \in alive' : kit'[p].bomb_count = kit[p].bomb_count
  PROVE  OneBombEach'
BY DEF OneBombEach, Owned

LEMMA HandsInit == Init => OneBombEach
BY ConstantsTyped DEF Init, OneBombEach, Owned, NoBomb

LEMMA HandsStep ==
  TypeOK /\ RoundInv /\ LobbyInv /\ OneBombEach /\ [Next]_vars => OneBombEach'
<1> SUFFICES ASSUME TypeOK, RoundInv, LobbyInv, OneBombEach, [Next]_vars
             PROVE  OneBombEach'
  OBVIOUS
<1>a. alive \subseteq Slot /\ alive \subseteq active /\ active \subseteq Slot
  BY DEF TypeOK, RoundInv, LiveOnlyInRound
<1>0. ASSUME alive' \subseteq alive, UNCHANGED <<bombs, kit>> PROVE OneBombEach'
  BY <1>0, <1>a, SameHands
<1>1. CASE UNCHANGED vars
  BY <1>0, <1>1 DEF vars, boardVars, playerVars
<1>2. CASE Refuse
  BY <1>0, <1>2 DEF Refuse, boardVars, playerVars
<1>3. ASSUME NEW slot \in Slot, NEW seat \in Cell, Accept(slot, seat) PROVE OneBombEach'
  <2>1. alive' \subseteq alive /\ slot \notin alive' /\ bombs' = bombs
    BY <1>3 DEF Accept, boardVars
  <2>2. kit' = [kit EXCEPT ![slot] = DefaultKit]
    BY <1>3 DEF Accept
  <2>3. \A p \in alive' : kit'[p] = kit[p]
    BY <2>1, <2>2, <1>a DEF TypeOK
  <2> QED
    BY <2>1, <2>3, <1>a, SameHands
<1>4. ASSUME NEW c \in Slot, Serve(c), Disconnect(c) PROVE OneBombEach'
  BY <1>0, <1>4 DEF Disconnect, boardVars
<1>5. ASSUME NEW c \in Slot, NEW n \in Names, Hello(c, n) PROVE OneBombEach'
  BY <1>0, <1>4, <1>5 DEF Hello, boardVars, playerVars
<1>6. ASSUME NEW c \in Slot, NoEffect(c) PROVE OneBombEach'
  BY <1>0, <1>6 DEF NoEffect, boardVars, playerVars
<1>7. ASSUME NEW c \in Slot, SetReady(c) PROVE OneBombEach'
  <2>1. UNCHANGED <<bombs, kit>>
    BY <1>7 DEF SetReady, boardVars
  <2>2. CASE CanStart
    <3>1. alive' \subseteq Slot
      BY <1>7, <2>2, <1>a DEF SetReady
    <3>2. /\ \A i \in BombSlot : bombs[i].owner = 0
          /\ \A p \in Slot : kit[p].bomb_count = 1
      BY <2>2 DEF CanStart, LobbyInv
    <3>3. \A p \in Slot : Owned(p)' = {} /\ kit'[p].bomb_count = 1
      BY <2>1, <3>2, ConstantsTyped DEF Owned
    <3> QED
      BY <3>1, <3>3 DEF OneBombEach
  <2>3. CASE ~CanStart
    BY <1>0, <1>7, <2>1, <2>3 DEF SetReady
  <2> QED
    BY <2>2, <2>3
<1>8. ASSUME NEW c \in Slot, NEW dir \in Directions, MoveAttempt(c, dir) PROVE OneBombEach'
  <2> DEFINE target == Along(pos[c], dir, 1)
  <2>1. bombs' = bombs /\ alive' = alive
    BY <1>8 DEF MoveAttempt
  <2>2. CASE cells[target] \in Bonuses
    <3>1. kit' = [kit EXCEPT ![c] = Collect(@, cells[target])]
      BY <1>8, <2>2 DEF MoveAttempt
    <3>2. Collect(kit[c], cells[target]).bomb_count = kit[c].bomb_count
      BY <2>2, CollectTyped DEF TypeOK
    <3> HIDE DEF target
    <3>3. \A p \in Slot : kit'[p].bomb_count = kit[p].bomb_count
      BY <3>1, <3>2 DEF TypeOK
    <3> QED
      BY <2>1, <3>3, <1>a, SameHands
  <2>3. CASE cells[target] \notin Bonuses
    BY <1>0, <1>8, <2>1, <2>3 DEF MoveAttempt
  <2> QED
    BY <2>2, <2>3
<1>9. ASSUME NEW c \in Slot, NEW claimed \in Cell, BombAttempt(c, claimed) PROVE OneBombEach'
  <2>1. PICK i \in BombSlot :
          /\ bombs[i].owner = 0
          /\ bombs'[i].owner = c
          /\ \A j \in BombSlot \ {i} : bombs'[j] = bombs[j]
    BY <1>9, PlacementEffect
  <2>2. /\ alive' = alive /\ c \in alive /\ kit[c].bomb_count > 0
        /\ kit' = [kit EXCEPT ![c].bomb_count = @ - 1]
    BY <1>9 DEF BombAttempt, SpendBomb
  <2>3. kit[c].bomb_count = 1 /\ Owned(c) = {}
    BY <2>2 DEF OneBombEach
  <2>4. kit[c] \in Kit
    BY DEF TypeOK
  <2>5. kit'[c].bomb_count = 0
    BY <2>2, <2>3, <2>4 DEF TypeOK, Kit
  <2>6. \A p \in Slot \ {c} : kit'[p] = kit[p]
    BY <2>2 DEF TypeOK
  <2>7. c # 0
    BY ConstantsTyped
  <2>8. Owned(c)' = {i}
    BY <2>1, <2>3 DEF Owned
  <2>9. \A p \in Slot \ {c} : Owned(p)' = Owned(p)
    BY <2>1, ConstantsTyped DEF Owned
  <2> QED
    BY <2>2, <2>5, <2>6, <2>8, <2>9, <1>a DEF OneBombEach
<1>10. ASSUME NEW c \in Slot, ReturnToLobby(c) PROVE OneBombEach'
  BY <1>10, ConstantsTyped DEF ReturnToLobby, ResetBoard, OneBombEach, Owned, NoBomb
<1>11. ASSUME Tick PROVE OneBombEach'
  BY <1>11, <1>a, FuseEffect, SameHands DEF Tick, playerVars
<1>12. ASSUME NEW i \in BombSlot, Explode(i) PROVE OneBombEach'
  <2>0. PICK p \in Slot : p = bombs[i].owner
    BY <1>12, ExplosionEffect
  <2>1. /\ bombs'[i].owner = 0
        /\ \A j \in BombSlot \ {i} : bombs'[j].owner = bombs[j].owner
        /\ kit' = [kit EXCEPT ![p].bomb_count = IF @ < 200 THEN @ + 1 ELSE @]
        /\ alive' \subseteq alive
    BY <1>12, <2>0, ExplosionEffect
  <2>2. i \in Owned(p)
    BY <2>0 DEF Owned
  <2>3. Owned(p) = {i}
    BY <2>1, <2>2 DEF OneBombEach
  <2>4. Owned(p)' = {}
    BY <2>1, <2>3, ConstantsTyped DEF Owned
  <2>5. \A q \in Slot \ {p} : Owned(q)' = Owned(q) /\ kit'[q] = kit[q]
    <3>1. ASSUME NEW q \in Slot \ {p} PROVE i \notin Owned(q) /\ i \notin Owned(q)'
      BY <2>1, <2>3, ConstantsTyped DEF Owned
    <3> QED
      BY <2>1, <3>1 DEF Owned, TypeOK
  <2>6. p \in alive => kit'[p].bomb_count = 1
    <3>1. p \in alive => kit[p].bomb_count = 0
      BY <2>3 DEF OneBombEach
    <3>2. kit[p] \in Kit
      BY <2>1 DEF TypeOK
    <3> QED
      BY <2>1, <3>1, <3>2 DEF TypeOK, Kit
  <2> QED
    BY <2>1, <2>4, <2>5, <2>6, <1>a DEF OneBombEach
<1>13. CASE FinishTick
  BY <1>0, <1>13 DEF FinishTick, boardVars, playerVars
<1> QED
  BY <1>1, <1>2, <1>3, <1>4, <1>5, <1>6, <1>7, <1>8, <1>9, <1>10, <1>11, <1>12, <1>13
     DEF Next, Connect, Receive, Clock, Leave

(* A live player's bomb is in hand or on the board, and a slot never has two. *)
THEOREM OneBombEachHolds == Spec => []OneBombEach
<1> DEFINE Inv == TypeOK /\ RoundInv /\ LobbyInv /\ OneBombEach
<1>1. Init => Inv
  BY TypeInit, RoundInit, LobbyInit, HandsInit
<1>2. Inv /\ [Next]_vars => Inv'
  BY TypeStep, RoundStep, LobbyStep, HandsStep
<1> QED
  BY <1>1, <1>2, PTL DEF Spec

-----------------------------------------------------------------------------
(* Room in the pool: at most one bomb a slot, so a player with a bomb in   *)
(* hand leaves at least one of as many entries free.                       *)

LEMMA HandsLeaveRoom == TypeOK /\ OneBombEach => RoomForBomb
<1> SUFFICES ASSUME TypeOK, OneBombEach, MaxBombs >= MaxPlayers,
                    NEW p \in alive, kit[p].bomb_count > 0, FreeBombSlots = {}
             PROVE  FALSE
  BY DEF RoomForBomb
<1> DEFINE owner == [i \in BombSlot |-> bombs[i].owner]
<1>1. p \in Slot /\ Owned(p) = {}
  BY DEF TypeOK, OneBombEach
<1>2. MaxPlayers \in Nat \ {0} /\ MaxBombs \in Nat \ {0}
  BY ConfigAssumption, Widths DEF ConfigOK
<1>3. owner \in [BombSlot -> Slot \ {p}]
  <2>1. \A i \in BombSlot : bombs[i].owner \in Slot \cup {0} /\ bombs[i].owner # 0
    BY DEF TypeOK, Bomb, FreeBombSlots
  <2> QED
    BY <1>1, <2>1 DEF Owned
<1>4. \A i, j \in BombSlot : owner[i] = owner[j] => i = j
  BY <1>3 DEF OneBombEach, Owned
<1>5. IsFiniteSet(Slot) /\ Cardinality(Slot) = MaxPlayers
  BY <1>2, FS_Interval DEF Slot
<1>6. IsFiniteSet(BombSlot) /\ Cardinality(BombSlot) = MaxBombs
  BY <1>2, FS_Interval DEF BombSlot
<1>7. IsFiniteSet(Slot \ {p}) /\ Cardinality(Slot \ {p}) = MaxPlayers - 1
  BY <1>1, <1>5, FS_RemoveElement
<1>8. \E i, j \in BombSlot : i # j /\ owner[i] = owner[j]
  <2>1. Cardinality(Slot \ {p}) < Cardinality(BombSlot)
    BY <1>2, <1>6, <1>7
  <2> HIDE DEF owner
  <2> QED
    BY <1>3, <1>6, <1>7, <2>1, FS_PigeonHole
<1> QED
  BY <1>4, <1>8

(* With as many entries as players, nobody who has a bomb in hand is told  *)
(* that the bomb storage is full.                                          *)
THEOREM RoomForBombHolds == Spec => []RoomForBomb
<1>1. TypeOK /\ OneBombEach => RoomForBomb
  BY HandsLeaveRoom
<1> QED
  BY <1>1, TypeCorrect, OneBombEachHolds, PTL

-----------------------------------------------------------------------------
(* The end of a tick and the end of a round *)

EndInv == AtMostOneSurvivor /\ SettledAtPoll

LEMMA EndInit == Init => EndInv
BY DEF Init, EndInv, AtMostOneSurvivor, SettledAtPoll

LEMMA FewerIsFewer ==
  ASSUME NEW S \in SUBSET Slot, NEW T \in SUBSET S, Cardinality(S) <= 1
  PROVE  Cardinality(T) <= 1
BY SlotsFinite, FS_Subset

LEMMA EndStep == TypeOK /\ RoundInv /\ EndInv /\ [Next]_vars => EndInv'
<1> SUFFICES ASSUME TypeOK, RoundInv, EndInv, [Next]_vars PROVE EndInv'
  OBVIOUS
<1>a. alive \subseteq Slot /\ active \subseteq Slot /\ active \cap alive = alive
  BY DEF TypeOK, RoundInv, LiveOnlyInRound
<1>0. ASSUME phase' # "poll", alive' \subseteq alive, status' = status \/ status' # "END"
      PROVE  EndInv'
  BY <1>0, <1>a, FewerIsFewer DEF EndInv, AtMostOneSurvivor, SettledAtPoll
<1>1. CASE UNCHANGED vars
  <2>1. Due' = Due
    BY <1>1 DEF vars, boardVars, Due
  <2> QED
    BY <1>1, <2>1 DEF vars, sessionVars, playerVars, loopVars, EndInv,
                      AtMostOneSurvivor, SettledAtPoll
<1>2. CASE Refuse
  BY <1>0, <1>2 DEF Refuse, playerVars
<1>3. ASSUME NEW slot \in Slot, NEW seat \in Cell, Accept(slot, seat) PROVE EndInv'
  BY <1>0, <1>3 DEF Accept
<1>4. ASSUME NEW c \in Slot, Serve(c), Disconnect(c) PROVE EndInv'
  BY <1>0, <1>4 DEF Serve, Disconnect
<1>5. ASSUME NEW c \in Slot, NEW n \in Names, Hello(c, n) PROVE EndInv'
  BY <1>0, <1>4, <1>5 DEF Serve, Hello, playerVars
<1>6. ASSUME NEW c \in Slot, NoEffect(c) PROVE EndInv'
  BY <1>0, <1>6 DEF Serve, NoEffect, playerVars
<1>7. ASSUME NEW c \in Slot, SetReady(c) PROVE EndInv'
  <2>1. CASE CanStart
    BY <1>7, <2>1 DEF Serve, SetReady, EndInv, AtMostOneSurvivor, SettledAtPoll
  <2>2. CASE ~CanStart
    BY <1>0, <1>7, <2>2 DEF Serve, SetReady
  <2> QED
    BY <2>1, <2>2
<1>8. ASSUME NEW c \in Slot, NEW dir \in Directions, MoveAttempt(c, dir) PROVE EndInv'
  BY <1>0, <1>8 DEF Serve, MoveAttempt
<1>9. ASSUME NEW c \in Slot, NEW claimed \in Cell, BombAttempt(c, claimed) PROVE EndInv'
  BY <1>0, <1>9 DEF Serve, BombAttempt
<1>10. ASSUME NEW c \in Slot, ReturnToLobby(c) PROVE EndInv'
  BY <1>0, <1>10 DEF Serve, ReturnToLobby
<1>11. CASE Tick
  <2>1. UNCHANGED <<status, alive>>
    BY <1>11 DEF Tick, playerVars
  <2>2. status = "RUNNING" => phase' # "poll"
    BY <1>11 DEF Tick, FusesBurn
  <2> QED
    BY <2>1, <2>2 DEF EndInv, AtMostOneSurvivor, SettledAtPoll
<1>12. ASSUME NEW i \in BombSlot, Explode(i) PROVE EndInv'
  <2>1. alive' \subseteq alive /\ status' = status
    BY <1>12, ExplosionEffect
  <2>2. phase' # "poll"
    BY <1>12 DEF Explode
  <2> QED
    BY <1>0, <2>1, <2>2
<1>13. CASE FinishTick
  <2>1. UNCHANGED <<alive, active, bombs>> /\ Due = {} /\ phase = "explode"
        /\ status' = IF Decided THEN "END" ELSE status
    BY <1>13 DEF FinishTick, NothingDue, boardVars, sessionVars, playerVars
  <2>2. Due' = Due /\ status = "RUNNING"
    BY <2>1 DEF Due, RoundInv
  <2>3. Cardinality(alive) \in Nat /\ Cardinality(active) \in Nat
    BY <1>a, SlotsFinite
  <2>4. Decided <=> Cardinality(alive) <= 1 /\ Cardinality(active) >= 2
    BY <1>a DEF Decided
  <2> QED
    BY <2>1, <2>2, <2>3, <2>4 DEF EndInv, AtMostOneSurvivor, SettledAtPoll
<1> QED
  BY <1>1, <1>2, <1>3, <1>4, <1>5, <1>6, <1>7, <1>8, <1>9, <1>10, <1>11, <1>12, <1>13
     DEF Next, Connect, Receive, Clock, Leave

(* A finished round left at most one survivor, and when the server polls   *)
(* in a running one, no explosion is outstanding and the round is still    *)
(* contested or cannot be for want of clients.                             *)
THEOREM RoundsAreSettled == Spec => [](AtMostOneSurvivor /\ SettledAtPoll)
<1>1. Init => TypeOK /\ RoundInv /\ EndInv
  BY TypeInit, RoundInit, EndInit
<1>2. TypeOK /\ RoundInv /\ EndInv /\ [Next]_vars => (TypeOK /\ RoundInv /\ EndInv)'
  BY TypeStep, RoundStep, EndStep
<1> QED
  BY <1>1, <1>2, PTL DEF Spec, EndInv

(* At most one survivor of a finished round, the one WINNER names. *)
THEOREM AtMostOneSurvivorHolds == Spec => []AtMostOneSurvivor
BY RoundsAreSettled, PTL

-----------------------------------------------------------------------------
(* Clients who have all agreed and whose round does not start got there by *)
(* the departure of the one they waited for.                               *)

LEMMA AgreedStep ==
  TypeOK /\ [Next]_vars =>
    [Agreed' /\ ~Agreed => active' \subseteq active /\ active' # active]_vars
<1> SUFFICES ASSUME TypeOK, [Next]_vars, Agreed', ~Agreed
             PROVE  active' \subseteq active /\ active' # active
  OBVIOUS
<1> USE DEF Agreed
<1>0. ASSUME UNCHANGED <<status, active, ready>> PROVE FALSE
  BY <1>0
<1>1. ASSUME NEW slot \in Slot, NEW seat \in Cell, Accept(slot, seat) PROVE FALSE
  BY <1>1 DEF Accept
<1>2. ASSUME NEW c \in Slot, Serve(c), Disconnect(c)
      PROVE  active' \subseteq active /\ active' # active
  BY <1>2, ServeTyped DEF Disconnect
<1>3. ASSUME NEW c \in Slot, SetReady(c) PROVE FALSE
  <2>1. active' = active /\ (CanStart => status' = "RUNNING") /\ (~CanStart => status' = status)
    BY <1>3 DEF SetReady, sessionVars
  <2> QED
    BY <2>1 DEF CanStart
<1>4. ASSUME NEW c \in Slot, ReturnToLobby(c) PROVE FALSE
  <2>1. active' = active /\ ready' = {} /\ Cardinality(active) >= 2
    BY <1>4 DEF ReturnToLobby, sessionVars
  <2>2. active = {}
    BY <2>1
  <2> QED
    BY <2>1, <2>2, FS_EmptySet
<1>5. CASE FinishTick
  <2>1. active' = active /\ ready' = ready /\ status' \in {status, "END"}
    BY <1>5 DEF FinishTick, sessionVars, playerVars
  <2> QED
    BY <2>1
<1> QED
  BY <1>0, <1>1, <1>2, <1>3, <1>4, <1>5
     DEF Next, Connect, Receive, Clock, Refuse, NoEffect, Leave, Hello, MoveAttempt,
         BombAttempt, Tick, Explode, vars, sessionVars, playerVars

(* Nothing but a departure leaves a lobby agreed and unstarted. *)
THEOREM UnstartedOnlyByLeavingHolds == Spec => UnstartedOnlyByLeaving
<1>1. Init => TypeOK
  BY TypeInit
<1>2. TypeOK /\ [Next]_vars => TypeOK'
  BY TypeStep
<1> QED
  BY <1>1, <1>2, AgreedStep, PTL DEF Spec, UnstartedOnlyByLeaving

-----------------------------------------------------------------------------
(* Names *)

LEMMA NamesStep == TypeOK /\ NamesUnique /\ [Next]_vars => NamesUnique'
<1> SUFFICES ASSUME TypeOK, NamesUnique, [Next]_vars PROVE NamesUnique'
  OBVIOUS
<1> USE DEF NamesUnique
<1>0. ASSUME UNCHANGED <<active, name>> PROVE NamesUnique'
  BY <1>0
<1>1. ASSUME NEW slot \in Slot, NEW seat \in Cell, Accept(slot, seat) PROVE NamesUnique'
  BY <1>1 DEF Accept, TypeOK
<1>2. ASSUME NEW c \in Slot, Disconnect(c) PROVE NamesUnique'
  BY <1>2 DEF Disconnect, TypeOK
<1>3. ASSUME NEW c \in Slot, NEW n \in Names, Hello(c, n) PROVE NamesUnique'
  <2>1. CASE NameTaken(c, n)
    BY <1>2, <1>3, <2>1 DEF Hello
  <2>2. CASE ~NameTaken(c, n)
    <3>1. active' = active /\ name' = [name EXCEPT ![c] = n]
      BY <1>3, <2>2 DEF Hello
    <3> QED
      BY <2>2, <3>1 DEF NameTaken, TypeOK
  <2> QED
    BY <2>1, <2>2
<1> QED
  BY <1>0, <1>1, <1>2, <1>3
     DEF Next, Connect, Receive, Clock, Refuse, NoEffect, Leave, SetReady, MoveAttempt,
         BombAttempt, ReturnToLobby, Tick, Explode, FinishTick, vars, sessionVars

(* No two clients go by the same name. *)
THEOREM NamesUniqueHolds == Spec => []NamesUnique
<1>1. Init => TypeOK /\ NamesUnique
  BY TypeInit DEF Init, NamesUnique
<1>2. TypeOK /\ NamesUnique /\ [Next]_vars => (TypeOK /\ NamesUnique)'
  BY TypeStep, NamesStep
<1> QED
  BY <1>1, <1>2, PTL DEF Spec

-----------------------------------------------------------------------------
(* Live players stand apart, on maps that give every slot a spawn. *)

Apart == \A p \in alive : /\ cells[pos[p]] \notin {HARD, SOFT}
                          /\ \A q \in alive : pos[p] = pos[q] => p = q

(* Nobody moves or revives and no wall appears. *)
LEMMA StillApart ==
  ASSUME TypeOK, Apart, alive' \subseteq alive, \A p \in alive' : pos'[p] = pos[p],
         \A c \in Cell : cells[c] \notin {HARD, SOFT} => cells'[c] \notin {HARD, SOFT}
  PROVE  Apart'
BY DEF Apart, TypeOK

LEMMA ApartStep ==
  TypeOK /\ RoundInv /\ LobbyInv /\ LiveStandApart /\ [Next]_vars => LiveStandApart'
<1> SUFFICES ASSUME TypeOK, RoundInv, LobbyInv, [Next]_vars, DOMAIN SpawnOf = Slot, Apart
             PROVE  Apart'
  BY DEF LiveStandApart, Apart
<1>a. alive \subseteq Slot /\ alive \subseteq active /\ active \subseteq Slot
  BY DEF TypeOK, RoundInv, LiveOnlyInRound
<1>b. /\ EMPTY \notin {HARD, SOFT} /\ BOMB \notin {HARD, SOFT}
      /\ \A t \in Bonuses : t \notin {HARD, SOFT}
  BY DEF EMPTY, HARD, SOFT, BOMB, Bonuses, BONUS_SPEED, BONUS_RADIUS, BONUS_TIMER
<1>0. ASSUME alive' \subseteq alive, UNCHANGED <<cells, pos>> PROVE Apart'
  BY <1>0, StillApart
<1>1. CASE UNCHANGED vars
  BY <1>0, <1>1 DEF vars, boardVars, playerVars
<1>2. CASE Refuse
  BY <1>0, <1>2 DEF Refuse, boardVars, playerVars
<1>3. ASSUME NEW slot \in Slot, NEW seat \in Cell, Accept(slot, seat) PROVE Apart'
  <2>1. /\ alive' = alive \ {slot} /\ cells' = cells
        /\ pos' = [pos EXCEPT ![slot] = seat]
    BY <1>3 DEF Accept, boardVars
  <2>2. \A p \in alive' : pos'[p] = pos[p]
    BY <2>1, <1>a DEF TypeOK
  <2> QED
    BY <2>1, <2>2, StillApart
<1>4. ASSUME NEW c \in Slot, Serve(c), Disconnect(c) PROVE Apart'
  BY <1>0, <1>4 DEF Disconnect, boardVars
<1>5. ASSUME NEW c \in Slot, NEW n \in Names, Hello(c, n) PROVE Apart'
  BY <1>0, <1>4, <1>5 DEF Hello, boardVars, playerVars
<1>6. ASSUME NEW c \in Slot, NoEffect(c) PROVE Apart'
  BY <1>0, <1>6 DEF NoEffect, boardVars, playerVars
<1>7. ASSUME NEW c \in Slot, SetReady(c) PROVE Apart'
  <2>1. UNCHANGED <<cells, pos>>
    BY <1>7 DEF SetReady, boardVars
  <2>2. CASE CanStart
    <3>1. cells = InitialCells /\ \A p \in Slot : pos[p] = SpawnOf[p]
      BY <2>2 DEF CanStart, LobbyInv
    <3>2. /\ \A s \in Slot : InitialCells[SpawnOf[s]] = EMPTY
          /\ \A s, t \in Slot : s # t => SpawnOf[s] # SpawnOf[t]
      BY ConfigAssumption DEF ConfigOK
    <3>3. alive' \subseteq Slot
      BY <1>7, <1>a, <2>2 DEF SetReady
    <3> QED
      BY <1>b, <2>1, <3>1, <3>2, <3>3 DEF Apart
  <2>3. CASE ~CanStart
    BY <1>0, <1>7, <2>1, <2>3 DEF SetReady
  <2> QED
    BY <2>2, <2>3
<1>8. ASSUME NEW c \in Slot, NEW dir \in Directions, MoveAttempt(c, dir) PROVE Apart'
  <2> DEFINE target == Along(pos[c], dir, 1)
  <2>1. /\ target \in Cell /\ ~Blocked(c, target)
        /\ pos' = [pos EXCEPT ![c] = target] /\ alive' = alive
        /\ cells' = cells \/ cells' = [cells EXCEPT ![target] = EMPTY]
    BY <1>8 DEF MoveAttempt
  <2> HIDE DEF target
  <2>2. cells[target] \notin {HARD, SOFT}
    BY <1>b, <2>1 DEF Blocked, Walkable
  <2>3. \A q \in alive \ {c} : pos[q] # target
    BY <1>a, <2>1 DEF Blocked
  <2>4. \A x \in Cell : cells[x] \notin {HARD, SOFT} => cells'[x] \notin {HARD, SOFT}
    BY <1>b, <2>1 DEF TypeOK
  <2>5. \A p \in Slot : pos[p] \in Cell /\ pos'[p] = IF p = c THEN target ELSE pos[p]
    BY <2>1 DEF TypeOK
  <2> QED
    BY <1>a, <2>1, <2>2, <2>3, <2>4, <2>5 DEF Apart
<1>9. ASSUME NEW c \in Slot, NEW claimed \in Cell, BombAttempt(c, claimed) PROVE Apart'
  <2>1. /\ alive' = alive /\ pos' = pos
        /\ cells' = [cells EXCEPT ![pos[c]] = BOMB]
    BY <1>9 DEF BombAttempt
  <2>2. \A x \in Cell : cells[x] \notin {HARD, SOFT} => cells'[x] \notin {HARD, SOFT}
    BY <1>b, <2>1 DEF TypeOK
  <2> QED
    BY <2>1, <2>2, StillApart
<1>10. ASSUME NEW c \in Slot, ReturnToLobby(c) PROVE Apart'
  BY <1>10 DEF ReturnToLobby, Apart
<1>11. CASE Tick
  BY <1>0, <1>11 DEF Tick, playerVars
<1>12. ASSUME NEW i \in BombSlot, Explode(i) PROVE Apart'
  <2>1. /\ alive' \subseteq alive /\ pos' = pos
        /\ cells'[bombs[i].pos] = EMPTY
        /\ \A x \in Cell \ {bombs[i].pos} :
             cells'[x] = cells[x] \/ cells'[x] \in {EMPTY} \cup Bonuses
    BY <1>12, ExplosionEffect
  <2>2. \A x \in Cell : cells[x] \notin {HARD, SOFT} => cells'[x] \notin {HARD, SOFT}
    BY <1>b, <2>1
  <2> QED
    BY <2>1, <2>2, StillApart
<1>13. CASE FinishTick
  BY <1>0, <1>13 DEF FinishTick, boardVars, playerVars
<1> QED
  BY <1>1, <1>2, <1>3, <1>4, <1>5, <1>6, <1>7, <1>8, <1>9, <1>10, <1>11, <1>12, <1>13
     DEF Next, Connect, Receive, Clock, Leave

(* Where every slot has a spawn, live players stand on cells of their own  *)
(* and never inside a wall.                                                *)
THEOREM LiveStandApartHolds == Spec => []LiveStandApart
<1> DEFINE Inv == TypeOK /\ RoundInv /\ LobbyInv /\ LiveStandApart
<1>1. Init => Inv
  BY TypeInit, RoundInit, LobbyInit DEF Init, LiveStandApart
<1>2. Inv /\ [Next]_vars => Inv'
  BY TypeStep, RoundStep, LobbyStep, ApartStep
<1> QED
  BY <1>1, <1>2, PTL DEF Spec

-----------------------------------------------------------------------------
(* What burns gets shorter.  That a bomb goes off, a flame dies and a tick *)
(* ends is owed to the fairness of the clock and is left to the model      *)
(* checker; what they are owed to besides, that no step of anybody turns   *)
(* the count back, is a matter of safety and proved here.                  *)

Burning == {i \in BombSlot : bombs[i].owner # 0}

(* The clock starts a tick: flames age now, and fuses if a round is on. *)
Ticks == phase # "explode" /\ phase' \in {"poll", "explode"}

Resets == status = "END" /\ status' = "LOBBY"

FuseBurns(i) ==
  /\ bombs'[i].owner = bombs[i].owner
  /\ bombs'[i].pos = bombs[i].pos
  /\ bombs'[i].radius = bombs[i].radius
  /\ bombs'[i].timer <= bombs[i].timer
  /\ (Ticks /\ status = "RUNNING" /\ bombs[i].timer > 0) => bombs'[i].timer < bombs[i].timer

Leaves(i) ==
  /\ bombs'[i] = NoBomb
  /\ \/ phase = "explode" /\ i \in Due
     \/ Resets

FlameBurns(e) ==
  \/ ~Ticks /\ explosions'[e] = explosions[e]
  \/ /\ Ticks
     /\ explosions'[e].remaining < explosions[e].remaining
     /\ explosions'[e].remaining > 0 => explosions'[e].pos = explosions[e].pos
  \/ Resets /\ explosions'[e] = NoExplosion

BombsBurnDown == [][\A i \in Burning : FuseBurns(i) \/ Leaves(i)]_vars

FlamesBurnDown ==
  [][\A e \in BombSlot : explosions[e].remaining > 0 => FlameBurns(e)]_vars

ChainsShrink ==
  [][phase = "explode" =>
       phase' = "poll" \/ Cardinality(Burning') < Cardinality(Burning)]_vars

(* Bombs and flames are touched by the clock, by a bomb that is put down   *)
(* and by the reset, and by nobody else.                                   *)
LEMMA OthersLeaveFires ==
  ASSUME Next
  PROVE  \/ /\ UNCHANGED <<bombs, explosions>>
            /\ phase # "explode" /\ phase' = "serve"
         \/ \E c \in Slot, claimed \in Cell : BombAttempt(c, claimed)
         \/ /\ Resets /\ phase # "explode" /\ phase' = "serve"
            /\ bombs' = [i \in BombSlot |-> NoBomb]
            /\ explosions' = [i \in BombSlot |-> NoExplosion]
         \/ Tick
         \/ \E i \in BombSlot : Explode(i)
         \/ UNCHANGED <<bombs, explosions>> /\ phase = "explode" /\ phase' = "poll"
<1> DEFINE Spared == /\ UNCHANGED <<bombs, explosions>>
                     /\ phase # "explode" /\ phase' = "serve"
           Cleared == /\ Resets /\ phase # "explode" /\ phase' = "serve"
                      /\ bombs' = [i \in BombSlot |-> NoBomb]
                      /\ explosions' = [i \in BombSlot |-> NoExplosion]
<1>1. ASSUME Connect PROVE Spared
  BY <1>1 DEF Connect, Refuse, Accept, boardVars
<1>2. ASSUME NEW c \in Slot, NoEffect(c) PROVE Spared
  BY <1>2 DEF NoEffect, Serve, boardVars
<1>3. ASSUME NEW c \in Slot, Leave(c) PROVE Spared
  BY <1>3 DEF Leave, Serve, Disconnect, boardVars
<1>4. ASSUME NEW c \in Slot, NEW n \in Names, Hello(c, n) PROVE Spared
  BY <1>4 DEF Hello, Serve, Disconnect, boardVars
<1>5. ASSUME NEW c \in Slot, SetReady(c) PROVE Spared
  BY <1>5 DEF SetReady, Serve, boardVars
<1>6. ASSUME NEW c \in Slot, NEW dir \in Directions, MoveAttempt(c, dir) PROVE Spared
  BY <1>6 DEF MoveAttempt, Serve
<1>7. ASSUME NEW c \in Slot, ReturnToLobby(c) PROVE Cleared
  BY <1>7 DEF ReturnToLobby, Serve, ResetBoard, Resets
<1>8. ASSUME FinishTick
      PROVE  UNCHANGED <<bombs, explosions>> /\ phase = "explode" /\ phase' = "poll"
  BY <1>8 DEF FinishTick, boardVars
<1> HIDE DEF Spared, Cleared
<1>9. \/ Spared \/ Cleared
      \/ \E c \in Slot, claimed \in Cell : BombAttempt(c, claimed)
      \/ Tick
      \/ \E i \in BombSlot : Explode(i)
      \/ FinishTick
  BY <1>1, <1>2, <1>3, <1>4, <1>5, <1>6, <1>7 DEF Next, Receive, Clock
<1> QED
  BY <1>8, <1>9 DEF Spared, Cleared

LEMMA BombsStep ==
  TypeOK /\ [Next]_vars => [\A i \in Burning : FuseBurns(i) \/ Leaves(i)]_vars
<1> SUFFICES ASSUME TypeOK, Next, NEW i \in BombSlot, bombs[i].owner # 0
             PROVE  FuseBurns(i) \/ Leaves(i)
  BY DEF Burning
<1>1. bombs[i] \in Bomb /\ bombs[i].timer \in Nat
  BY Widths DEF TypeOK, Bomb, U16
<1>2. ASSUME bombs'[i] = bombs[i], ~Ticks PROVE FuseBurns(i)
  BY <1>1, <1>2 DEF FuseBurns
<1>3. ASSUME NEW c \in Slot, NEW claimed \in Cell, BombAttempt(c, claimed)
      PROVE  FuseBurns(i)
  <2>1. bombs'[i] = bombs[i]
    BY <1>3, PlacementEffect
  <2>2. ~Ticks
    BY <1>3 DEF BombAttempt, Serve, Ticks
  <2> QED
    BY <1>2, <2>1, <2>2
<1>4. CASE Tick
  <2>1. CASE status = "RUNNING" /\ bombs[i].timer # 0
    <3>1. bombs'[i] = [bombs[i] EXCEPT !.timer = @ - 1]
      BY <1>4, <2>1 DEF Tick, FusesBurn
    <3> QED
      BY <1>1, <3>1 DEF FuseBurns, Bomb
  <2>2. CASE ~(status = "RUNNING" /\ bombs[i].timer # 0)
    <3>1. bombs'[i] = bombs[i]
      BY <1>4, <2>2 DEF Tick, FusesBurn
    <3> QED
      BY <1>1, <2>2, <3>1 DEF FuseBurns
  <2> QED
    BY <2>1, <2>2
<1>5. ASSUME NEW j \in BombSlot, Explode(j) PROVE FuseBurns(i) \/ Leaves(i)
  <2> DEFINE blast == BlastCells(cells, bombs[j].pos, bombs[j].radius)
  <2>1. phase = "explode" /\ NextDue(j) /\ bombs' = BombsAfter(j, blast)
    BY <1>5 DEF Explode
  <2> HIDE DEF blast
  <2>2. CASE i = j
    BY <2>1, <2>2 DEF Leaves, NextDue, IsFirst, BombsAfter
  <2>3. CASE i # j
    <3>1. bombs'[i] = bombs[i] \/ bombs'[i] = [bombs[i] EXCEPT !.timer = 0]
      BY <2>1, <2>3 DEF BombsAfter
    <3> QED
      BY <1>1, <2>1, <3>1 DEF FuseBurns, Ticks, Bomb
  <2> QED
    BY <2>2, <2>3
<1>6. ASSUME Resets, bombs' = [k \in BombSlot |-> NoBomb] PROVE Leaves(i)
  BY <1>6 DEF Leaves
<1>7. ASSUME UNCHANGED <<bombs, explosions>>, phase = "explode" \/ phase' = "serve"
      PROVE  FuseBurns(i)
  BY <1>2, <1>7 DEF Ticks
<1> QED
  BY <1>3, <1>4, <1>5, <1>6, <1>7, OthersLeaveFires

LEMMA FlamesStep ==
  TypeOK /\ [Next]_vars =>
    [\A e \in BombSlot : explosions[e].remaining > 0 => FlameBurns(e)]_vars
<1> SUFFICES ASSUME TypeOK, Next, NEW e \in BombSlot, explosions[e].remaining > 0
             PROVE  FlameBurns(e)
  OBVIOUS
<1>1. explosions[e] \in Explosion /\ explosions[e].remaining \in Nat
  BY Widths DEF TypeOK, Explosion, U16
<1>2. ASSUME explosions'[e] = explosions[e], ~Ticks PROVE FlameBurns(e)
  BY <1>2 DEF FlameBurns
<1>3. ASSUME NEW c \in Slot, NEW claimed \in Cell, BombAttempt(c, claimed)
      PROVE  FlameBurns(e)
  BY <1>2, <1>3 DEF BombAttempt, Serve, Ticks
<1>4. CASE Tick
  <2>1. explosions'[e] = Aged(explosions[e]) /\ Ticks
    BY <1>4 DEF Tick, Ticks
  <2>2. CASE explosions[e].remaining <= 1
    BY <2>1, <2>2, <1>1 DEF Aged, FlameBurns, NoExplosion
  <2>3. CASE ~(explosions[e].remaining <= 1)
    <3>1. explosions'[e] = [explosions[e] EXCEPT !.remaining = @ - 1]
      BY <2>1, <2>3 DEF Aged
    <3> QED
      BY <1>1, <2>1, <3>1 DEF FlameBurns, Explosion
  <2> QED
    BY <2>2, <2>3
<1>5. ASSUME NEW j \in BombSlot, Explode(j) PROVE FlameBurns(e)
  <2>1. phase = "explode" /\ ScheduleEnd(bombs[j].pos)
    BY <1>5 DEF Explode
  <2>2. explosions'[e] = explosions[e]
    BY <1>1, <2>1 DEF ScheduleEnd, IsFirst, TypeOK
  <2> QED
    BY <1>2, <2>1, <2>2 DEF Ticks
<1>6. ASSUME Resets, explosions' = [k \in BombSlot |-> NoExplosion] PROVE FlameBurns(e)
  BY <1>6 DEF FlameBurns
<1>7. ASSUME UNCHANGED <<bombs, explosions>>, phase = "explode" \/ phase' = "serve"
      PROVE  FlameBurns(e)
  BY <1>2, <1>7 DEF Ticks
<1> QED
  BY <1>3, <1>4, <1>5, <1>6, <1>7, OthersLeaveFires

LEMMA ChainStep ==
  TypeOK /\ [Next]_vars =>
    [phase = "explode" =>
       phase' = "poll" \/ Cardinality(Burning') < Cardinality(Burning)]_vars
<1> SUFFICES ASSUME TypeOK, Next, phase = "explode", phase' # "poll"
             PROVE  Cardinality(Burning') < Cardinality(Burning)
  OBVIOUS
<1>1. ~Tick /\ ~\E c \in Slot, claimed \in Cell : BombAttempt(c, claimed)
  BY DEF Tick, BombAttempt, Serve
<1>2. PICK i \in BombSlot : Explode(i)
  BY <1>1, OthersLeaveFires
<1>3. /\ bombs[i].owner # 0 /\ bombs'[i].owner = 0
      /\ \A j \in BombSlot \ {i} : bombs'[j].owner = bombs[j].owner
  BY <1>2, ExplosionEffect DEF Explode, NextDue, IsFirst, Due
<1>4. Burning' = Burning \ {i} /\ i \in Burning
  BY <1>3 DEF Burning
<1>5. IsFiniteSet(Burning)
  <2>1. IsFiniteSet(BombSlot)
    BY FS_Interval, ConfigAssumption DEF ConfigOK, BombSlot
  <2> QED
    BY <2>1, FS_Subset DEF Burning
<1>6. Cardinality(Burning) \in Nat /\ Cardinality(Burning') = Cardinality(Burning) - 1
  BY <1>4, <1>5, FS_CardinalityType, FS_RemoveElement
<1> QED
  BY <1>6

(* A bomb on the board keeps its owner, its place and its radius, and its  *)
(* fuse only gets shorter, by every tick of a running round, until the     *)
(* explosion pass finds it due or the round is reset: no handler rekindles *)
(* it, reuses its entry of the pool early or takes it away unexploded.     *)
THEOREM BombsBurnDownHolds == Spec => BombsBurnDown
<1>1. Spec => []TypeOK
  BY TypeCorrect
<1> QED
  BY <1>1, BombsStep, PTL DEF Spec, BombsBurnDown

(* A flame on display gets shorter by every tick, in every status, and     *)
(* nothing else touches it but the reset: a later explosion takes an entry *)
(* that is idle or none.                                                   *)
THEOREM FlamesBurnDownHolds == Spec => FlamesBurnDown
<1>1. Spec => []TypeOK
  BY TypeCorrect
<1> QED
  BY <1>1, FlamesStep, PTL DEF Spec, FlamesBurnDown

(* Every step of the do-while loop of server_tick that does not end it     *)
(* leaves fewer bombs on the board, whatever chain it sets off: the loop   *)
(* explodes no bomb twice and at most MaxBombs in a tick.                  *)
THEOREM ChainsShrinkHolds == Spec => ChainsShrink
<1>1. Spec => []TypeOK
  BY TypeCorrect
<1> QED
  BY <1>1, ChainStep, PTL DEF Spec, ChainsShrink

-----------------------------------------------------------------------------
(***************************************************************************)
(* Session: however far the client is behind, what it will show when it    *)
(* has read everything on its way is the game as it is.                    *)
(*                                                                         *)
(* Handled is applied to one message at a time, so what the client will    *)
(* make of the queue is stated by the row of views it goes through, one    *)
(* after each message (Leads), rather than by a recursion over the queue.  *)
(***************************************************************************)

(* What a client's copy can be; a welcomed client runs. *)
Views ==
  {v \in [running : BOOLEAN, welcome : BOOLEAN, status : Statuses,
          cells : {NoMap} \cup [Cell -> CellType], flames : [Cell -> U8],
          pos : [Slot -> Cell], alive : SUBSET Slot, ready : SUBSET Slot,
          kit : [Slot -> Kit]] : v.welcome => v.running}

(* What the server sends. *)
Messages ==
       [type : {"WELCOME"}, status : Statuses, others : SUBSET Slot, ready : SUBSET Slot]
  \cup [type : {"SET_STATUS"}, status : Statuses]
  \cup [type : {"MAP"}, cells : [Cell -> CellType]]
  \cup [type : {"SYNC_BOARD"}, status : Statuses, players : SUBSET Slot,
        alive : SUBSET Slot, ready : SUBSET Slot,
        pos : [Slot -> Cell], kit : [Slot -> Kit]]
  \cup [type : {"SET_READY", "DEATH", "LEAVE"}, player : Slot]
  \cup [type : {"BOMB", "EXPLOSION_END", "BONUS_RETRIEVED", "BLOCK_DESTROYED"}, cell : Cell]
  \cup [type : {"MOVED"}, player : Slot, cell : Cell]
  \cup [type : {"EXPLOSION_START"}, cell : Cell, radius : U8]
  \cup [type : {"BONUS_AVAILABLE"}, cell : Cell, bonus : Bonuses]

(* A client that has stopped reads nothing. *)
Step(v, m) == IF v.running THEN Handled(v, m) ELSE v

(* Reading ms takes the client from v to w. *)
Leads(v, ms, w) ==
  \E vs \in [0..Len(ms) -> Views] :
     /\ vs[0] = v /\ vs[Len(ms)] = w
     /\ \A k \in 1..Len(ms) : vs[k] = Step(vs[k-1], ms[k])

-----------------------------------------------------------------------------
(* Reading, part by part *)

LEMMA LeadsNowhere ==
  ASSUME NEW v \in Views
  PROVE  Leads(v, << >>, v)
<1> DEFINE vs == [k \in 0..0 |-> v]
<1>1. vs \in [0..0 -> Views] /\ vs[0] = v
  OBVIOUS
<1>2. Len(<< >>) = 0 /\ \A k \in 1..0 : FALSE
  OBVIOUS
<1> HIDE DEF vs
<1> QED
  BY <1>1, <1>2 DEF Leads

LEMMA LeadsOneStep ==
  ASSUME NEW v \in Views, NEW m \in Messages, Step(v, m) \in Views
  PROVE  Leads(v, <<m>>, Step(v, m))
<1> DEFINE w == Step(v, m)
           vs == [k \in 0..1 |-> IF k = 0 THEN v ELSE w]
<1>1. w \in Views
  OBVIOUS
<1> HIDE DEF w
<1>2. vs \in [0..1 -> Views] /\ vs[0] = v /\ vs[1] = w
  BY <1>1
<1> HIDE DEF vs
<1>3. Len(<<m>>) = 1 /\ <<m>>[1] = m
  OBVIOUS
<1>4. \A k \in 1..Len(<<m>>) : vs[k] = Step(vs[k-1], <<m>>[k])
  BY <1>2, <1>3 DEF w
<1> QED
  BY <1>2, <1>3, <1>4 DEF Leads, w

(* A queue of nothing but messages the client reads no more. *)
LEMMA LeadsStopped ==
  ASSUME NEW v \in Views, ~v.running, NEW ms \in Seq(Messages)
  PROVE  Leads(v, ms, v)
<1> DEFINE vs == [k \in 0..Len(ms) |-> v]
<1>1. Len(ms) \in Nat
  BY LenProperties
<1>2. vs \in [0..Len(ms) -> Views] /\ vs[0] = v /\ vs[Len(ms)] = v
  BY <1>1
<1>3. \A k \in 1..Len(ms) : vs[k] = Step(vs[k-1], ms[k])
  BY <1>1 DEF Step
<1> QED
  BY <1>2, <1>3 DEF Leads

LEMMA LeadsOn ==
  ASSUME NEW a \in Seq(Messages), NEW b \in Seq(Messages),
         NEW u, NEW v, NEW w, Leads(u, a, v), Leads(v, b, w)
  PROVE  Leads(u, a \o b, w)
<1> DEFINE m == Len(a)
           n == Len(b)
<1>1. /\ m \in Nat /\ n \in Nat /\ a \o b \in Seq(Messages) /\ Len(a \o b) = m + n
      /\ \A k \in 1..m+n : (a \o b)[k] = IF k <= m THEN a[k] ELSE b[k - m]
  BY LenProperties, ConcatProperties
<1>2. PICK us \in [0..m -> Views] : /\ us[0] = u /\ us[m] = v
                                    /\ \A k \in 1..m : us[k] = Step(us[k-1], a[k])
  BY DEF Leads
<1>3. PICK vs \in [0..n -> Views] : /\ vs[0] = v /\ vs[n] = w
                                    /\ \A k \in 1..n : vs[k] = Step(vs[k-1], b[k])
  BY DEF Leads
<1> HIDE DEF m, n
<1> DEFINE ws == [k \in 0..m+n |-> IF k <= m THEN us[k] ELSE vs[k - m]]
<1>4. ws \in [0..m+n -> Views]
  <2> SUFFICES ASSUME NEW k \in 0..m+n PROVE ws[k] \in Views
    OBVIOUS
  <2>1. CASE k <= m
    <3>1. k \in 0..m /\ ws[k] = us[k]
      BY <1>1, <2>1
    <3> HIDE DEF ws
    <3> QED
      BY <1>2, <3>1
  <2>2. CASE ~(k <= m)
    <3>1. k - m \in 0..n
      BY <1>1, <2>2
    <3> QED
      BY <1>3, <2>2, <3>1
  <2> QED
    BY <2>1, <2>2
<1>5. ws[0] = u /\ ws[m + n] = w
  <2>1. CASE n = 0
    BY <1>1, <1>2, <1>3, <2>1
  <2>2. CASE n # 0
    BY <1>1, <1>2, <1>3, <2>2
  <2> QED
    BY <2>1, <2>2
<1>6. ASSUME NEW k \in 1..m+n PROVE ws[k] = Step(ws[k-1], (a \o b)[k])
  <2>1. CASE k <= m
    <3>1. k \in 1..m /\ k - 1 \in 0..m+n /\ k - 1 <= m /\ k \in 0..m+n
      BY <1>1, <2>1
    <3> QED
      BY <1>1, <1>2, <2>1, <3>1
  <2>2. CASE k = m + 1
    <3>1. 1 \in 1..n /\ k - m = 1 /\ k - 1 = m /\ ~(k <= m) /\ m \in 0..m+n
      BY <1>1, <2>2
    <3>2. ws[k] = vs[1] /\ ws[k-1] = us[m] /\ (a \o b)[k] = b[1]
      BY <1>1, <3>1
    <3> QED
      BY <1>2, <1>3, <3>1, <3>2
  <2>3. CASE k > m + 1
    <3>1. k - m \in 1..n /\ (k - m) - 1 = (k - 1) - m /\ ~(k <= m) /\ ~(k - 1 <= m)
          /\ k - 1 \in 0..m+n /\ k \in 0..m+n
      BY <1>1, <2>3
    <3>2. ws[k] = vs[k - m] /\ ws[k-1] = vs[(k - 1) - m] /\ (a \o b)[k] = b[k - m]
      BY <1>1, <3>1
    <3> QED
      BY <1>3, <3>1, <3>2
  <2> QED
    BY <1>1, <2>1, <2>2, <2>3
<1> QED
  BY <1>1, <1>4, <1>5, <1>6, ZenonT(30) DEF Leads

(* After the first message the rest leads where the whole did. *)
LEMMA LeadsFromNext ==
  ASSUME NEW ms \in Seq(Messages), ms # << >>, NEW v, NEW w, Leads(v, ms, w)
  PROVE  /\ Leads(Step(v, Head(ms)), Tail(ms), w)
         /\ v \in Views /\ Step(v, Head(ms)) \in Views
<1> DEFINE n == Len(ms)
<1>1. /\ n \in Nat \ {0} /\ Head(ms) = ms[1] /\ Len(Tail(ms)) = n - 1
      /\ \A k \in 1..n-1 : Tail(ms)[k] = ms[k + 1]
  BY HeadTailProperties, EmptySeq, LenProperties
<1>2. PICK vs \in [0..n -> Views] : /\ vs[0] = v /\ vs[n] = w
                                    /\ \A k \in 1..n : vs[k] = Step(vs[k-1], ms[k])
  BY DEF Leads
<1> HIDE DEF n
<1> DEFINE ws == [k \in 0..n-1 |-> vs[k + 1]]
<1>3. ws \in [0..n-1 -> Views] /\ ws[0] = vs[1] /\ ws[n-1] = w
  BY <1>1, <1>2
<1>4. vs[1] = Step(v, Head(ms)) /\ vs[1] \in Views /\ v \in Views
  BY <1>1, <1>2
<1>5. ASSUME NEW k \in 1..n-1 PROVE ws[k] = Step(ws[k-1], Tail(ms)[k])
  <2>1. k + 1 \in 1..n /\ (k + 1) - 1 = k /\ (k - 1) + 1 = k /\ k \in 0..n-1 /\ k - 1 \in 0..n-1
    BY <1>1
  <2> QED
    BY <1>1, <1>2, <2>1
<1>6. Leads(Step(v, Head(ms)), Tail(ms), w)
  <2> DEFINE u == Step(v, Head(ms))
             rest == Tail(ms)
  <2>1. Len(rest) = n - 1 /\ ws \in [0..n-1 -> Views] /\ ws[0] = u /\ ws[n-1] = w
        /\ \A k \in 1..n-1 : ws[k] = Step(ws[k-1], rest[k])
    BY <1>1, <1>3, <1>4, <1>5, Zenon
  <2> HIDE DEF u, rest, ws
  <2>2. \E xs \in [0..n-1 -> Views] : /\ xs[0] = u /\ xs[n-1] = w
                                      /\ \A k \in 1..n-1 : xs[k] = Step(xs[k-1], rest[k])
    BY <2>1, Zenon
  <2>3. Leads(u, rest, w)
    BY <2>1, <2>2, Zenon DEF Leads
  <2> QED
    BY <2>3, Zenon DEF u, rest
<1> QED
  BY <1>4, <1>6, Zenon

-----------------------------------------------------------------------------
(* What one message does *)

LEMMA Maps ==
  /\ \A f \in [Cell -> CellType] : f # NoMap
  /\ \A v \in Views : HasMap(v) => v.cells \in [Cell -> CellType]
  /\ FreshView \in Views /\ FreshView.running /\ ~FreshView.welcome /\ ~HasMap(FreshView)
<1>1. \A f \in [Cell -> CellType] : f # NoMap
  BY ConstantsTyped DEF NoMap
<1>2. InitialKit \in Kit
  <2>1. UINT16_MAX >= 60
    BY DEF UINT16_MAX
  <2>2. 1 \in U8 /\ 60 \in U16 /\ 3 \in U16
    BY <2>1, Widths DEF U8, U16
  <2> QED
    BY <2>2 DEF InitialKit, Kit
<1>3. [c \in Cell |-> 0] \in [Cell -> U8] /\ [s \in Slot |-> Origin] \in [Slot -> Cell]
  BY Widths, ConstantsTyped DEF U8
<1>4. [s \in Slot |-> InitialKit] \in [Slot -> Kit]
  BY <1>2
<1>5. FreshView \in Views
  BY <1>3, <1>4 DEF FreshView, Views, Statuses
<1> QED
  BY <1>1, <1>5 DEF FreshView, HasMap, Views

LEMMA Reads ==
  ASSUME NEW v, v.running, NEW m
  PROVE  /\ m.type = "WELCOME"         => Step(v, m) = OnWelcome(v, m)
         /\ m.type = "SET_STATUS"      => Step(v, m) = OnStatus(v, m)
         /\ m.type = "SET_READY"       => Step(v, m) = OnReady(v, m)
         /\ m.type = "MAP"             => Step(v, m) = OnMap(v, m)
         /\ m.type = "SYNC_BOARD"      => Step(v, m) = OnSync(v, m)
         /\ m.type = "MOVED"           => Step(v, m) = OnMoved(v, m)
         /\ m.type = "BOMB"            => Step(v, m) = OnBomb(v, m)
         /\ m.type = "EXPLOSION_START" => Step(v, m) = OnExplosionStart(v, m)
         /\ m.type = "EXPLOSION_END"   => Step(v, m) = OnExplosionEnd(v, m)
         /\ m.type = "DEATH"           => Step(v, m) = OnDeath(v, m)
         /\ m.type = "BONUS_AVAILABLE" => Step(v, m) = OnBonusAvailable(v, m)
         /\ m.type = "BONUS_RETRIEVED" => Step(v, m) = OnBonusRetrieved(v, m)
         /\ m.type = "BLOCK_DESTROYED" => Step(v, m) = OnBlockDestroyed(v, m)
         /\ m.type = "LEAVE"           => Step(v, m) = OnLeave(v, m)
<1>1. Step(v, m) = Handled(v, m)
  BY DEF Step
<1> QED
  BY <1>1 DEF Handled

(* The client's copy keeps its types, and EXPLOSION_START is the only      *)
(* message that can stop a client, one that has no map.                    *)
LEMMA StepTyped ==
  ASSUME NEW v \in Views, NEW m \in Messages,
         m.type = "EXPLOSION_START" => HasMap(v) \/ ~v.welcome
  PROVE  /\ Step(v, m) \in Views
         /\ v.running /\ (m.type = "EXPLOSION_START" => HasMap(v)) => Step(v, m).running
<1>1. CASE ~v.running
  BY <1>1 DEF Step
<1> SUFFICES ASSUME v.running PROVE Step(v, m) \in Views /\ 
        ((m.type = "EXPLOSION_START" => HasMap(v)) => Step(v, m).running)
  BY <1>1
<1> USE DEF Views
<1>2. CASE m \in [type : {"WELCOME"}, status : Statuses, others : SUBSET Slot, ready : SUBSET Slot]
  <2>1. Step(v, m) = OnWelcome(v, m) /\ m.type = "WELCOME"
    BY <1>2, Reads
  <2> DEFINE r == (v.ready \ m.others) \cup m.ready
  <2>2. r \in SUBSET Slot
    BY <1>2
  <2>3. OnWelcome(v, m) = [v EXCEPT !.welcome = TRUE, !.status = m.status, !.ready = r]
    BY DEF OnWelcome
  <2>4. m.status \in Statuses
    BY <1>2
  <2> HIDE DEF r
  <2>5. OnWelcome(v, m) \in Views /\ OnWelcome(v, m).running
    BY <2>2, <2>3, <2>4
  <2> QED
    BY <2>1, <2>5
<1>3. CASE m \in [type : {"SET_STATUS"}, status : Statuses]
  BY <1>3, Reads DEF OnStatus
<1>4. CASE m \in [type : {"MAP"}, cells : [Cell -> CellType]]
  BY <1>4, Reads DEF OnMap
<1>5. CASE m \in [type : {"SYNC_BOARD"}, status : Statuses, players : SUBSET Slot,
                  alive : SUBSET Slot, ready : SUBSET Slot,
                  pos : [Slot -> Cell], kit : [Slot -> Kit]]
  <2>1. Step(v, m) = OnSync(v, m) /\ m.type = "SYNC_BOARD"
    BY <1>5, Reads
  <2> DEFINE w == [v EXCEPT !.status = m.status, !.alive = {}, !.ready = {}]
             p == [s \in Slot |-> IF s \in m.players THEN m.pos[s] ELSE v.pos[s]]
             q == [s \in Slot |-> IF s \in m.players THEN m.kit[s] ELSE v.kit[s]]
  <2>2. w \in Views /\ w.running
    BY <1>5
  <2>3. p \in [Slot -> Cell] /\ q \in [Slot -> Kit]
    BY <1>5
  <2>4. CASE ~HasMap(v)
    BY <2>1, <2>2, <2>4 DEF OnSync
  <2>5. CASE HasMap(v)
    <3>1. w.pos = v.pos /\ w.kit = v.kit
      OBVIOUS
    <3>2. OnSync(v, m) = [w EXCEPT !.alive = m.alive, !.ready = m.ready, !.pos = p, !.kit = q]
      BY <2>5, <3>1 DEF OnSync
    <3>3. m.alive \in SUBSET Slot /\ m.ready \in SUBSET Slot
      BY <1>5
    <3> HIDE DEF w, p, q
    <3>4. OnSync(v, m) \in Views /\ OnSync(v, m).running
      BY <2>2, <2>3, <3>2, <3>3
    <3> QED
      BY <2>1, <3>4
  <2> QED
    BY <2>4, <2>5
<1>6. CASE m \in [type : {"SET_READY", "DEATH", "LEAVE"}, player : Slot]
  <2>1. CASE m.type = "SET_READY"
    BY <1>6, <2>1, Reads DEF OnReady
  <2>2. CASE m.type = "DEATH"
    BY <1>6, <2>2, Reads DEF OnDeath
  <2>3. CASE m.type = "LEAVE"
    <3> DEFINE a == v.alive \ {m.player}
               r == v.ready \ {m.player}
    <3>1. a \in SUBSET Slot /\ r \in SUBSET Slot
      OBVIOUS
    <3>2. OnLeave(v, m) = [v EXCEPT !.alive = a, !.ready = r]
      BY DEF OnLeave
    <3> HIDE DEF a, r
    <3>3. OnLeave(v, m) \in Views /\ OnLeave(v, m).running
      BY <3>1, <3>2
    <3> QED
      BY <2>3, <3>3, Reads
  <2> QED
    BY <1>6, <2>1, <2>2, <2>3
<1>7. CASE m \in [type : {"BOMB", "EXPLOSION_END", "BONUS_RETRIEVED", "BLOCK_DESTROYED"}, cell : Cell]
  <2> DEFINE blank(c) == [v EXCEPT !.cells[m.cell] = c]
  <2>1. m.cell \in Cell /\ 0 \in U8
    BY <1>7, Widths DEF U8
  <2>2. ASSUME NEW c \in CellType, HasMap(v)
        PROVE  blank(c) \in Views /\ blank(c).running
    BY <2>2, Maps
  <2>3. EMPTY \in CellType /\ BOMB \in CellType
    BY DEF CellType
  <2> HIDE DEF blank
  <2>4. CASE m.type = "BOMB"
    BY <2>2, <2>3, <2>4, Reads DEF OnBomb, Draw, blank
  <2>5. CASE m.type = "EXPLOSION_END"
    <3>1. HasMap(v) => OnExplosionEnd(v, m) = [blank(EMPTY) EXCEPT !.flames[m.cell] = 0]
      BY Maps DEF OnExplosionEnd, blank
    <3>2. HasMap(v) => OnExplosionEnd(v, m) \in Views /\ OnExplosionEnd(v, m).running
      <4>1. ASSUME NEW w \in Views, w.running
            PROVE  [w EXCEPT !.flames[m.cell] = 0] \in Views
                   /\ [w EXCEPT !.flames[m.cell] = 0].running
        BY <2>1, <4>1
      <4> QED
        BY <2>2, <2>3, <3>1, <4>1
    <3> QED
      BY <2>5, <3>2, Reads DEF OnExplosionEnd
  <2>6. CASE m.type = "BONUS_RETRIEVED"
    BY <2>2, <2>3, <2>6, Reads DEF OnBonusRetrieved, Draw, blank
  <2>7. CASE m.type = "BLOCK_DESTROYED"
    BY <2>2, <2>3, <2>7, Reads DEF OnBlockDestroyed, Draw, blank
  <2> QED
    BY <1>7, <2>4, <2>5, <2>6, <2>7
<1>8. CASE m \in [type : {"MOVED"}, player : Slot, cell : Cell]
  BY <1>8, Reads DEF OnMoved
<1>9. CASE m \in [type : {"EXPLOSION_START"}, cell : Cell, radius : U8]
  <2>1. Step(v, m) = OnExplosionStart(v, m) /\ m.type = "EXPLOSION_START"
    BY <1>9, Reads
  <2>2. CASE HasMap(v)
    <3>1. OnExplosionStart(v, m) = [v EXCEPT !.flames[m.cell] = m.radius]
      BY <2>2 DEF OnExplosionStart
    <3> QED
      BY <1>9, <2>1, <3>1
  <2>3. CASE ~HasMap(v)
    <3>1. OnExplosionStart(v, m) = [v EXCEPT !.running = FALSE]
      BY <2>3 DEF OnExplosionStart
    <3>2. ~v.welcome
      BY <2>1, <2>3, Zenon
    <3>3. [v EXCEPT !.running = FALSE] \in Views
      BY <3>2 DEF Views
    <3> QED
      BY <2>1, <2>3, <3>1, <3>3, Zenon
  <2> QED
    BY <2>2, <2>3
<1>10. CASE m \in [type : {"BONUS_AVAILABLE"}, cell : Cell, bonus : Bonuses]
  <2>1. Step(v, m) = OnBonusAvailable(v, m) /\ m.type = "BONUS_AVAILABLE"
    BY <1>10, Reads
  <2>2. m.bonus \in CellType
    BY <1>10 DEF CellType
  <2>3. CASE HasMap(v)
    <3>1. OnBonusAvailable(v, m) = [v EXCEPT !.cells[m.cell] = m.bonus]
      BY <2>3 DEF OnBonusAvailable, Draw
    <3> QED
      BY <1>10, <2>1, <2>2, <2>3, <3>1, Maps, SMTT(30) DEF HasMap
  <2>4. CASE ~HasMap(v)
    BY <1>10, <2>1, <2>4 DEF OnBonusAvailable, Draw
  <2> QED
    BY <2>3, <2>4
<1> QED
  BY <1>2, <1>3, <1>4, <1>5, <1>6, <1>7, <1>8, <1>9, <1>10 DEF Messages

LEMMA LeadsRead ==
  ASSUME NEW v \in Views, NEW m \in Messages,
         m.type = "EXPLOSION_START" => HasMap(v) \/ ~v.welcome
  PROVE  Step(v, m) \in Views /\ Leads(v, <<m>>, Step(v, m))
BY StepTyped, LeadsOneStep

-----------------------------------------------------------------------------
(* What a row of like messages does *)

LEMMA ReadsDeaths ==
  ASSUME NEW v \in Views, v.running, NEW n \in Nat, NEW dead \in [1..n -> Slot]
  PROVE  /\ [k \in 1..n |-> Of("DEATH", dead[k])] \in Seq(Messages)
         /\ \E w \in Views : /\ Leads(v, [k \in 1..n |-> Of("DEATH", dead[k])], w)
                             /\ w.running /\ w.welcome = v.welcome
                             /\ w.cells = v.cells
<1> DEFINE ms == [k \in 1..n |-> Of("DEATH", dead[k])]
           left(j) == {p \in v.alive : \A k \in 1..j : dead[k] # p}
           vs == [j \in 0..n |-> [v EXCEPT !.alive = left(j)]]
<1>1. ms \in Seq(Messages) /\ Len(ms) = n
  <2>1. \A k \in 1..n : Of("DEATH", dead[k]) \in Messages
    BY DEF Of, Messages
  <2> QED
    BY <2>1, IsASeq, LenProperties
<1>2. vs \in [0..n -> Views]
  BY DEF Views
<1>3. vs[0] = v
  BY DEF Views
<1>4. ASSUME NEW j \in 1..n PROVE vs[j] = Step(vs[j-1], ms[j])
  <2> DEFINE u == vs[j-1]
  <2>1. j \in 0..n /\ j - 1 \in 0..n /\ ms[j].type = "DEATH" /\ ms[j].player = dead[j]
    BY DEF Of
  <2>2. u.running /\ u = [v EXCEPT !.alive = left(j-1)] /\ u.alive = left(j-1)
    BY <2>1 DEF Views
  <2>4. left(j) = left(j-1) \ {dead[j]}
    OBVIOUS
  <2>5. vs[j] = [v EXCEPT !.alive = left(j)]
    BY <2>1
  <2> HIDE DEF vs, ms, left, u
  <2>3. Step(u, ms[j]) = [u EXCEPT !.alive = @ \ {ms[j].player}]
    BY <2>1, <2>2, Reads, ZenonT(30) DEF OnDeath
  <2>6. Step(u, ms[j]) = [v EXCEPT !.alive = left(j)]
    BY <2>1, <2>2, <2>3, <2>4, ZenonT(30) DEF Views
  <2> QED
    BY <2>5, <2>6 DEF u
<1>5. vs[n] \in Views /\ vs[n].running /\ vs[n].welcome = v.welcome /\ vs[n].cells = v.cells
  BY <1>2 DEF Views
<1> HIDE DEF vs, ms
<1>6. Leads(v, ms, vs[n])
  BY <1>1, <1>2, <1>3, <1>4 DEF Leads
<1> QED
  BY <1>1, <1>5, <1>6 DEF ms

(* A message about one cell, after which the cell is as in f. *)
Paints(m, f) ==
  /\ m.type \in {"BLOCK_DESTROYED", "EXPLOSION_END", "BONUS_AVAILABLE"}
  /\ f[m.cell] = IF m.type = "BONUS_AVAILABLE" THEN m.bonus ELSE EMPTY

LEMMA ReadsPainting ==
  ASSUME NEW v \in Views, v.running, HasMap(v), NEW f \in [Cell -> CellType],
         NEW ms \in Seq(Messages), \A k \in 1..Len(ms) : Paints(ms[k], f)
  PROVE  \E w \in Views :
           /\ Leads(v, ms, w)
           /\ w.running /\ w.welcome = v.welcome /\ w.status = v.status
           /\ w.alive = v.alive /\ w.ready = v.ready /\ w.pos = v.pos /\ w.kit = v.kit
           /\ HasMap(w)
           /\ \A c \in Cell : w.cells[c] = IF \E k \in 1..Len(ms) : ms[k].cell = c
                                           THEN f[c] ELSE v.cells[c]
<1> DEFINE n == Len(ms)
<1>1. n \in Nat /\ \A k \in 1..n : ms[k] \in Messages
  BY LenProperties, ElementOfSeq
<1>2. \A k \in 1..n : ms[k].cell \in Cell
  BY <1>1 DEF Paints, Messages
<1>3. v.cells \in [Cell -> CellType] /\ v.flames \in [Cell -> U8] /\ 0 \in U8
  <2>1. v.cells \in [Cell -> CellType]
    BY Maps
  <2>2. v.flames \in [Cell -> U8]
    BY DEF Views
  <2> QED
    BY <2>1, <2>2, Widths DEF U8
<1> HIDE DEF n
<1> DEFINE over(j, c) == \E k \in 1..j : ms[k].cell = c
           out(j, c)  == \E k \in 1..j : ms[k].cell = c /\ ms[k].type = "EXPLOSION_END"
           board(j)   == [c \in Cell |-> IF over(j, c) THEN f[c] ELSE v.cells[c]]
           lit(j)     == [c \in Cell |-> IF out(j, c) THEN 0 ELSE v.flames[c]]
           vs == [j \in 0..n |-> [v EXCEPT !.cells = board(j), !.flames = lit(j)]]
<1>4. \A j \in 0..n : board(j) \in [Cell -> CellType] /\ lit(j) \in [Cell -> U8]
  BY <1>3
<1>5. board(0) = v.cells /\ lit(0) = v.flames
  BY <1>3
<1>6. ASSUME NEW j \in 1..n
      PROVE  /\ board(j) = [board(j-1) EXCEPT ![ms[j].cell] = f[ms[j].cell]]
             /\ ms[j].type = "EXPLOSION_END" => lit(j) = [lit(j-1) EXCEPT ![ms[j].cell] = 0]
             /\ ms[j].type # "EXPLOSION_END" => lit(j) = lit(j-1)
  <2>1. \A c \in Cell : over(j, c) <=> over(j-1, c) \/ ms[j].cell = c
    BY <1>1
  <2>2. \A c \in Cell : out(j, c) <=> \/ out(j-1, c)
                                      \/ ms[j].cell = c /\ ms[j].type = "EXPLOSION_END"
    BY <1>1
  <2> QED
    BY <2>1, <2>2
<1> HIDE DEF board, lit
<1>7. vs \in [0..n -> Views] /\ vs[0] = v
  <2>1. ASSUME NEW j \in 0..n
        PROVE  [v EXCEPT !.cells = board(j), !.flames = lit(j)] \in Views
    BY <1>4 DEF Views
  <2>2. [v EXCEPT !.cells = v.cells, !.flames = v.flames] = v
    BY DEF Views
  <2>3. 0 \in 0..n
    BY <1>1
  <2> QED
    BY <1>5, <2>1, <2>2, <2>3
<1>8. \A j \in 0..n : /\ vs[j] = [v EXCEPT !.cells = board(j), !.flames = lit(j)]
                      /\ vs[j].running /\ HasMap(vs[j])
  BY <1>4, Maps DEF Views, HasMap
<1>9. ASSUME NEW j \in 1..n PROVE vs[j] = Step(vs[j-1], ms[j])
  <2> DEFINE u == vs[j-1]
  <2>1. j \in 0..n /\ j - 1 \in 0..n /\ Paints(ms[j], f)
    BY <1>1 DEF n
  <2>2. /\ u = [v EXCEPT !.cells = board(j-1), !.flames = lit(j-1)]
        /\ u.running /\ HasMap(u) /\ u.cells = board(j-1) /\ u.flames = lit(j-1)
    BY <1>8, <2>1 DEF Views
  <2>3. vs[j] = [v EXCEPT !.cells = board(j), !.flames = lit(j)]
    BY <1>8, <2>1
  <2> HIDE DEF vs, u
  <2>4. CASE ms[j].type = "EXPLOSION_END"
    <3>1. Step(u, ms[j]) = [u EXCEPT !.flames[ms[j].cell] = 0, !.cells[ms[j].cell] = EMPTY]
      <4>1. Step(u, ms[j]) = OnExplosionEnd(u, ms[j])
        BY <2>2, <2>4, Reads
      <4> QED
        BY <2>2, <4>1 DEF OnExplosionEnd
    <3>2. f[ms[j].cell] = EMPTY
      BY <2>1, <2>4 DEF Paints
    <3>3. Step(u, ms[j]) = [v EXCEPT !.cells = [board(j-1) EXCEPT ![ms[j].cell] = EMPTY],
                                     !.flames = [lit(j-1) EXCEPT ![ms[j].cell] = 0]]
      BY <2>2, <3>1 DEF Views
    <3> QED
      BY <1>6, <2>3, <2>4, <3>2, <3>3 DEF u
  <2>5. CASE ms[j].type # "EXPLOSION_END"
    <3>1. Step(u, ms[j]) = Draw(u, ms[j].cell, f[ms[j].cell])
      <4>1. CASE ms[j].type = "BLOCK_DESTROYED"
        <5>1. Step(u, ms[j]) = OnBlockDestroyed(u, ms[j])
          BY <2>2, <4>1, Reads
        <5> QED
          BY <2>1, <4>1, <5>1 DEF Paints, OnBlockDestroyed
      <4>2. CASE ms[j].type = "BONUS_AVAILABLE"
        <5>1. Step(u, ms[j]) = OnBonusAvailable(u, ms[j])
          BY <2>2, <4>2, Reads
        <5> QED
          BY <2>1, <4>2, <5>1 DEF Paints, OnBonusAvailable
      <4> QED
        BY <2>1, <2>5, <4>1, <4>2 DEF Paints
    <3>2. Step(u, ms[j]) = [v EXCEPT !.cells = [board(j-1) EXCEPT ![ms[j].cell] = f[ms[j].cell]],
                                     !.flames = lit(j-1)]
      BY <2>2, <3>1 DEF Views, Draw
    <3> QED
      BY <1>6, <2>3, <2>5, <3>2 DEF u
  <2> QED
    BY <2>4, <2>5
<1>10. vs[n] = [v EXCEPT !.cells = board(n), !.flames = lit(n)] /\ HasMap(vs[n]) /\ vs[n] \in Views
  <2>1. n \in 0..n
    BY <1>1
  <2> HIDE DEF vs
  <2> QED
    BY <1>7, <1>8, <2>1
<1> HIDE DEF vs
<1>11. vs[n].cells = board(n)
  BY <1>10 DEF Views
<1>14. \A c \in Cell : board(n)[c] = IF \E k \in 1..n : ms[k].cell = c THEN f[c] ELSE v.cells[c]
  BY DEF board
<1>12. Leads(v, ms, vs[n])
  BY <1>1, <1>7, <1>9 DEF Leads, n
<1>13. /\ vs[n].running /\ vs[n].welcome = v.welcome /\ vs[n].status = v.status
       /\ vs[n].alive = v.alive /\ vs[n].ready = v.ready
       /\ vs[n].pos = v.pos /\ vs[n].kit = v.kit
  BY <1>10 DEF Views
<1> QED
  <2>1. \A c \in Cell : vs[n].cells[c] = IF \E k \in 1..Len(ms) : ms[k].cell = c
                                           THEN f[c] ELSE v.cells[c]
    BY <1>11, <1>14 DEF n
  <2> HIDE DEF board
  <2> QED
    BY <1>10, <1>12, <1>13, <2>1

-----------------------------------------------------------------------------
(* Finite sets in a row *)

LEMMA InARow ==
  ASSUME NEW S, IsFiniteSet(S)
  PROVE  /\ Cardinality(S) \in Nat
         /\ SetToSeq(S) \in [1..Cardinality(S) -> S]
         /\ DOMAIN SetToSeq(S) = 1..Cardinality(S)
         /\ \A x \in S : \E k \in 1..Cardinality(S) : SetToSeq(S)[k] = x
<1> DEFINE n == Cardinality(S)
           f == SetToSeq(S)
<1>1. n \in Nat /\ ExistsBijection(1..n, S)
  BY FS_CardinalityType
<1>2. f \in [1..n -> S] /\ IsInjective(f)
  BY <1>1 DEF SetToSeq, ExistsBijection, Bijection, Injection, IsInjective
<1>3. f \in Injection(1..n, S)
  BY <1>2 DEF Injection, IsInjective
<1>4. Cardinality(1..n) = n
  BY <1>1, FS_Interval
<1> HIDE DEF f
<1>5. f \in Surjection(1..n, S)
  BY <1>3, <1>4, FS_Injection
<1> QED
  BY <1>1, <1>2, <1>5 DEF Surjection, f

LEMMA CellsFinite ==
  /\ \A S \in SUBSET Cell : IsFiniteSet(S)
  /\ \A S \in SUBSET Slot : IsFiniteSet(S)
  /\ \A S \in SUBSET BombSlot : IsFiniteSet(S)
<1>1. Rows \in Nat /\ Cols \in Nat /\ MaxPlayers \in Nat /\ MaxBombs \in Nat
  BY ConfigAssumption, Widths DEF ConfigOK
<1>2. IsFiniteSet(0..Rows-1) /\ IsFiniteSet(0..Cols-1)
      /\ IsFiniteSet(Slot) /\ IsFiniteSet(BombSlot)
  BY <1>1, FS_Interval DEF Slot, BombSlot
<1>3. IsFiniteSet(Cell)
  BY <1>2, FS_Product DEF Cell
<1> QED
  BY <1>2, <1>3, FS_Subset

-----------------------------------------------------------------------------
(* The invariant *)

KnowsRound(v) == v.welcome => v.status = status /\ (status = "RUNNING" => HasMap(v))

ShowsPlayers(v) ==
  /\ v.status = status
  /\ v.alive = alive /\ v.ready = ready
  /\ \A p \in alive : v.pos[p] = pos[p] /\ v.kit[p] = kit[p]

ShowsCell(v, c) ==
  \/ v.cells[c] = cells[c]
  \/ FlameAt(c) /\ {v.cells[c], cells[c]} \subseteq {EMPTY, BOMB}
  \/ cells[c] = BOMB /\ v.cells[c] = EMPTY

ShowsBoard(v) == \A c \in Cell : ShowsCell(v, c)

(* v is the game as it is, as far as a client is told. *)
Faithful(v) ==
  v.running => KnowsRound(v) /\ (HasMap(v) => ShowsPlayers(v) /\ ShowsBoard(v))

(* Under a flame there is floor, or a bomb somebody has laid into it. *)
FlameFloor ==
  \A e \in BombSlot : explosions[e].remaining > 0 =>
                        cells[explosions[e].pos] \in {EMPTY, BOMB}

(* When it has read what is on its way the client is faithful to the game. *)
Following ==
  /\ wire \in Seq(Messages)
  /\ Watcher \notin active => view = FreshView /\ wire = << >>
  /\ \E v \in Views : Leads(view, wire, v) /\ Faithful(v)

(* ms tells a client that knows the game what the step changes in it. *)
Tells(ms) ==
  /\ ms \in Seq(Messages)
  /\ \A v \in Views : v.running /\ Faithful(v)
                        => \E w \in Views : Leads(v, ms, w) /\ Faithful(w)'

LEMMA StoppedIsFaithful ==
  \A v \in Views : ~v.running => Faithful(v) /\ Faithful(v)'
BY DEF Faithful

LEMMA FreshIsFaithful == Faithful(FreshView) /\ Faithful(FreshView)'
BY Maps DEF Faithful, KnowsRound

LEMMA FollowingInit == SInit => Following
<1> SUFFICES ASSUME SInit PROVE Following
  OBVIOUS
<1>1. << >> \in Seq(Messages)
  BY EmptySeq
<1> QED
  BY <1>1, Maps, LeadsNowhere, FreshIsFaithful DEF SInit, Following

(* Reading brings the client no further than it was to come. *)
LEMMA FollowingReads ==
  ASSUME TypeOK, Following, ClientReads
  PROVE  Following'
<1>1. PICK v \in Views : Leads(view, wire, v) /\ Faithful(v)
  BY DEF Following
<1>2. wire \in Seq(Messages) /\ wire # << >> /\ view.running
  BY DEF Following, ClientReads
<1>3. /\ Leads(Step(view, Head(wire)), Tail(wire), v)
      /\ Step(view, Head(wire)) \in Views /\ Tail(wire) \in Seq(Messages)
  BY <1>1, <1>2, LeadsFromNext, HeadTailProperties
<1>4. view' = Step(view, Head(wire))
  BY <1>2 DEF ClientReads, Step
<1>5. Faithful(v)'
  BY <1>1 DEF ClientReads, vars, boardVars, sessionVars, playerVars, Faithful, KnowsRound,
     ShowsPlayers, ShowsBoard, ShowsCell, FlameAt
<1>6. (Watcher \in active)'
  BY <1>2 DEF ClientReads, Following, vars, sessionVars
<1>7. CASE view'.running
  <2>1. wire' = Tail(wire)
    BY <1>7 DEF ClientReads
  <2> QED
    BY <1>3, <1>4, <1>5, <1>6, <2>1 DEF Following
<1>8. CASE ~view'.running
  <2>1. wire' = << >>
    BY <1>8 DEF ClientReads
  <2>2. PICK w \in Views : w = view' /\ ~w.running
    BY <1>3, <1>4, <1>8
  <2>3. Leads(w, << >>, w) /\ Faithful(w)'
    BY <2>2, LeadsNowhere, StoppedIsFaithful
  <2> QED
    BY <1>6, <2>1, <2>2, <2>3, EmptySeq DEF Following
<1> QED
  BY <1>7, <1>8

(* A step that tells the client what it changes keeps it following. *)
LEMMA FollowingTold ==
  ASSUME Following, NEW ms, Tells(ms), Send(ms), Watcher \in active => Watcher \in active'
  PROVE  Following'
<1>1. PICK v \in Views : Leads(view, wire, v) /\ Faithful(v)
  BY DEF Following
<1>2. wire \in Seq(Messages) /\ ms \in Seq(Messages) /\ view' = view
  BY DEF Following, Tells, Send
<1>3. CASE Watcher \in active /\ view.running
  <2>1. wire' = wire \o ms /\ wire \o ms \in Seq(Messages)
    BY <1>2, <1>3, ConcatProperties DEF Send
  <2>2. PICK w \in Views : Leads(v, ms, w) /\ Faithful(w)'
    <3>1. CASE v.running
      BY <1>1, <3>1 DEF Tells
    <3>2. CASE ~v.running
      BY <1>2, <3>2, LeadsStopped, StoppedIsFaithful
    <3> QED
      BY <3>1, <3>2
  <2>3. Leads(view, wire \o ms, w)
    BY <1>1, <1>2, <2>2, LeadsOn
  <2> QED
    BY <1>2, <1>3, <2>1, <2>2, <2>3 DEF Following
<1>4. CASE Watcher \in active /\ ~view.running
  <2>1. wire' = wire
    BY <1>4 DEF Send
  <2>2. view \in Views
    BY <1>1, SMTT(30) DEF Leads
  <2>3. Leads(view, wire, view) /\ Faithful(view)
    BY <1>2, <1>4, <2>2, LeadsStopped, StoppedIsFaithful
  <2>4. PICK w \in Views : w = view /\ Leads(view, wire, w) /\ ~w.running
    BY <1>4, <2>2, <2>3
  <2>5. Faithful(w)'
    BY <2>4, StoppedIsFaithful
  <2> QED
    BY <1>2, <1>4, <2>1, <2>4, <2>5 DEF Following
<1>5. CASE Watcher \notin active
  <2>1. wire' = wire /\ wire = << >> /\ view = FreshView
    BY <1>5 DEF Send, Following
  <2> QED
    BY <1>2, <2>1, Maps, LeadsNowhere, FreshIsFaithful DEF Following
<1> QED
  BY <1>3, <1>4, <1>5

(* So does a connection that is new or gone. *)
LEMMA FollowingAnew ==
  ASSUME NewConnection
  PROVE  Following'
BY EmptySeq, Maps, LeadsNowhere, FreshIsFaithful DEF NewConnection, Following

-----------------------------------------------------------------------------
(* What the server sends, and what it tells *)

LEMMA PlayersSeated ==
  ASSUME TypeOK, RoundInv
  PROVE  alive \cap active = alive /\ ready \cap active = ready
BY DEF RoundInv, LiveOnlyInRound

LEMMA AnswersTyped ==
  ASSUME TypeOK, TypeOK', RoundInv'
  PROVE  /\ Status \in Messages /\ Map \in Messages /\ Sync \in Messages
         /\ \A c \in Slot : Welcome(c) \in Messages
         /\ Sync = [type |-> "SYNC_BOARD", status |-> status', players |-> active',
                    alive |-> alive', ready |-> ready', pos |-> pos', kit |-> kit']
<1>1. (alive \cap active)' = alive' /\ (ready \cap active)' = ready'
  BY DEF RoundInv, LiveOnlyInRound
<1>2. Status \in Messages /\ Map \in Messages
  BY DEF Status, Map, Messages, TypeOK
<1>3. Sync = [type |-> "SYNC_BOARD", status |-> status', players |-> active',
              alive |-> alive', ready |-> ready', pos |-> pos', kit |-> kit']
  BY <1>1 DEF Sync
<1>4. Sync \in Messages
  BY <1>3 DEF Messages, TypeOK
<1>5. \A c \in Slot : Welcome(c) \in Messages
  BY DEF Welcome, Messages, TypeOK
<1> QED
  BY <1>2, <1>3, <1>4, <1>5

LEMMA NewsTyped ==
  /\ \A t \in {"SET_READY", "DEATH", "LEAVE"}, p \in Slot : Of(t, p) \in Messages
  /\ \A t \in {"BOMB", "EXPLOSION_END", "BONUS_RETRIEVED", "BLOCK_DESTROYED"}, c \in Cell :
        At(t, c) \in Messages
  /\ \A p \in Slot, c \in Cell : [type |-> "MOVED", player |-> p, cell |-> c] \in Messages
  /\ \A c \in Cell, r \in U8 :
        [type |-> "EXPLOSION_START", cell |-> c, radius |-> r] \in Messages
  /\ \A c \in Cell, b \in Bonuses :
        [type |-> "BONUS_AVAILABLE", cell |-> c, bonus |-> b] \in Messages
BY DEF Of, At, Messages

LEMMA Rows2 ==
  ASSUME NEW a, NEW b
  PROVE  <<a, b>> = <<a>> \o <<b>>
<1> DEFINE S == {a, b}
           s == <<a>>
           t == <<b>>
<1>1. s \in Seq(S) /\ t \in Seq(S) /\ <<a, b>> \in Seq(S)
  OBVIOUS
<1>2. Len(s) = 1 /\ Len(t) = 1 /\ s[1] = a /\ t[1] = b
  OBVIOUS
<1>3. Len(<<a, b>>) = 2 /\ <<a, b>>[1] = a /\ <<a, b>>[2] = b
  OBVIOUS
<1> HIDE DEF S, s, t
<1>4. s \o t \in Seq(S) /\ Len(s \o t) = 2 /\ (s \o t)[1] = a /\ (s \o t)[2] = b
  BY <1>1, <1>2, ConcatProperties
<1>5. \A i \in 1..2 : <<a, b>>[i] = (s \o t)[i]
  BY <1>3, <1>4
<1>6. <<a, b>> = s \o t
  BY <1>1, <1>3, <1>4, <1>5, SeqEqual
<1> QED
  BY <1>6 DEF s, t

LEMMA OneRow ==
  ASSUME NEW m \in Messages
  PROVE  <<m>> \in Seq(Messages)
OBVIOUS

(* After SYNC_BOARD all that matters is the board, and that a welcomed     *)
(* client has one in a round.                                              *)
LEMMA ToldSync ==
  ASSUME TypeOK, TypeOK', RoundInv', NEW v \in Views, v.running,
         HasMap(v) => ShowsBoard(v)',
         v.welcome /\ status' = "RUNNING" => HasMap(v)
  PROVE  /\ <<Sync>> \in Seq(Messages)
         /\ \E w \in Views : Leads(v, <<Sync>>, w) /\ Faithful(w)'
<1>1. PICK m \in Messages : m = Sync
  BY AnswersTyped
<1>2. m = [type |-> "SYNC_BOARD", status |-> status', players |-> active',
           alive |-> alive', ready |-> ready', pos |-> pos', kit |-> kit']
  BY <1>1, AnswersTyped
<1>3. PICK w \in Views : w = Step(v, m)
  BY <1>2, LeadsRead
<1>4. Leads(v, <<m>>, w)
  BY <1>2, <1>3, LeadsRead
<1>5. w = OnSync(v, m)
  BY <1>2, <1>3, Reads
<1>6. w.status = status' /\ w.welcome = v.welcome /\ w.cells = v.cells
  BY <1>2, <1>5 DEF OnSync, Views
<1>7. (HasMap(w) <=> HasMap(v)) /\ (ShowsBoard(w) <=> ShowsBoard(v))'
  BY <1>6 DEF HasMap, ShowsBoard, ShowsCell, FlameAt
<1>8. KnowsRound(w)'
  BY <1>6, <1>7 DEF KnowsRound
<1>9. CASE HasMap(v)
  <2>1. w.alive = alive' /\ w.ready = ready'
    BY <1>2, <1>5, <1>9 DEF OnSync, Views
  <2>2. ASSUME NEW p \in alive' PROVE w.pos[p] = pos'[p] /\ w.kit[p] = kit'[p]
    <3>1. p \in Slot /\ p \in m.players
      BY <1>2, <2>2 DEF TypeOK, RoundInv, LiveOnlyInRound
    <3> QED
      BY <1>2, <1>5, <1>9, <3>1 DEF OnSync, Views
  <2>3. ShowsPlayers(w)'
    BY <1>6, <2>1, <2>2 DEF ShowsPlayers
  <2> QED
    BY <1>1, <1>4, <1>7, <1>8, <1>9, <2>3, OneRow DEF Faithful
<1>10. CASE ~HasMap(v)
  BY <1>1, <1>4, <1>7, <1>8, <1>10, OneRow DEF Faithful
<1> QED
  BY <1>9, <1>10

(* MAP and SYNC_BOARD leave no difference. *)
LEMMA ToldMapSync ==
  ASSUME TypeOK, TypeOK', RoundInv', NEW v \in Views, v.running
  PROVE  /\ <<Map, Sync>> \in Seq(Messages)
         /\ \E w \in Views : Leads(v, <<Map, Sync>>, w) /\ Faithful(w)'
<1>1. PICK m \in Messages : m = Map
  BY AnswersTyped
<1>2. m.type = "MAP" /\ m.cells = cells'
  BY <1>1 DEF Map
<1>3. PICK u \in Views : u = Step(v, m)
  BY <1>2, LeadsRead
<1>4. Leads(v, <<m>>, u)
  BY <1>2, <1>3, LeadsRead
<1>5. u = [v EXCEPT !.cells = cells']
  BY <1>2, <1>3, Reads DEF OnMap
<1>6. u.running /\ u.cells = cells' /\ HasMap(u)
  BY <1>5, Maps DEF Views, HasMap, TypeOK
<1>7. ShowsBoard(u)'
  BY <1>6 DEF ShowsBoard, ShowsCell
<1>8. <<Sync>> \in Seq(Messages) /\ \E w \in Views : Leads(u, <<Sync>>, w) /\ Faithful(w)'
  BY <1>6, <1>7, ToldSync
<1>9. <<Map, Sync>> = <<m>> \o <<Sync>>
  BY <1>1, Rows2
<1> QED
  BY <1>4, <1>8, <1>9, OneRow, LeadsOn, ConcatProperties

LEMMA ToldOpening ==
  ASSUME TypeOK, TypeOK', RoundInv'
  PROVE  /\ Opening \in Seq(Messages)
         /\ \A v \in Views : v.running => \E w \in Views : Leads(v, Opening, w) /\ Faithful(w)'
<1>1. PICK m \in Messages : m = Status
  BY AnswersTyped
<1>2. Opening = <<m>> \o <<Map, Sync>>
  BY <1>1 DEF Opening
<1>3. Opening \in Seq(Messages)
  BY <1>1, <1>2, AnswersTyped DEF Opening
<1>4. ASSUME NEW v \in Views, v.running
      PROVE  \E w \in Views : Leads(v, Opening, w) /\ Faithful(w)'
  <2>1. m.type = "SET_STATUS"
    BY <1>1 DEF Status
  <2>2. PICK u \in Views : u = Step(v, m) /\ u.running
    BY <1>4, <2>1, StepTyped
  <2>3. Leads(v, <<m>>, u)
    BY <2>1, <2>2, LeadsRead
  <2> QED
    BY <1>2, <2>2, <2>3, ToldMapSync, OneRow, LeadsOn
<1> QED
  BY <1>3, <1>4

-----------------------------------------------------------------------------
(* Every action tells what it changes *)

LEMMA Untouched ==
  ASSUME UNCHANGED <<status, cells, explosions, alive, ready>>,
         \A p \in alive : pos'[p] = pos[p] /\ kit'[p] = kit[p], NEW v
  PROVE  (Faithful(v) => Faithful(v)') /\ (ShowsBoard(v) => ShowsBoard(v)')
BY DEF Faithful, KnowsRound, ShowsPlayers, ShowsBoard, ShowsCell, FlameAt

LEMMA NothingTold ==
  ASSUME UNCHANGED <<status, cells, explosions, alive, ready>>,
         \A p \in alive : pos'[p] = pos[p] /\ kit'[p] = kit[p]
  PROVE  Tells(<< >>)
BY Untouched, LeadsNowhere, EmptySeq DEF Tells

LEMMA RefuseFollows ==
  ASSUME Following, SRefuse
  PROVE  Following'
<1>1. Refuse /\ Send(<< >>) /\ active' = active
  BY DEF SRefuse, Refuse, sessionVars
<1>2. Tells(<< >>)
  BY <1>1, NothingTold DEF Refuse, boardVars, playerVars
<1> QED
  BY <1>1, <1>2, FollowingTold

LEMMA AcceptFollows ==
  ASSUME TypeOK, RoundInv, Following, NEW slot \in Slot, NEW seat \in Cell, SAccept(slot, seat)
  PROVE  Following'
<1>1. CASE slot = Watcher
  BY <1>1, FollowingAnew DEF SAccept
<1>2. CASE slot # Watcher
  <2>1. Accept(slot, seat) /\ Send(<< >>) /\ slot \notin active /\ active \subseteq active'
    BY <1>2 DEF SAccept, Accept, IsFirst
  <2>2. slot \notin alive /\ slot \notin ready
    BY <2>1 DEF RoundInv, LiveOnlyInRound
  <2>3. \A p \in alive : pos'[p] = pos[p] /\ kit'[p] = kit[p]
    BY <2>1, <2>2 DEF Accept, TypeOK
  <2>4. Tells(<< >>)
    BY <2>1, <2>2, <2>3, NothingTold DEF Accept, boardVars
  <2> QED
    BY <2>1, <2>4, FollowingTold
<1> QED
  BY <1>1, <1>2

(* LEAVE takes the leaver off the display. *)
LEMMA PartingFollows ==
  ASSUME TypeOK, RoundInv, Following, NEW c \in Slot, Disconnect(c), Parted(c)
  PROVE  Following'
<1>1. CASE c = Watcher
  BY <1>1, FollowingAnew DEF Parted
<1>2. CASE c # Watcher
  <2>1. PICK m \in Messages : m = Of("LEAVE", c)
    BY NewsTyped
  <2>2. m.type = "LEAVE" /\ m.player = c
    BY <2>1 DEF Of
  <2>3. ASSUME NEW v \in Views, v.running, Faithful(v)
        PROVE  \E w \in Views : Leads(v, <<m>>, w) /\ Faithful(w)'
    <3>1. PICK w \in Views : w = Step(v, m)
      BY <2>2, LeadsRead
    <3>2. w = OnLeave(v, m)
      BY <2>2, <2>3, <3>1, Reads
    <3>3. /\ w.welcome = v.welcome /\ w.status = v.status /\ w.cells = v.cells
          /\ w.alive = v.alive \ {c} /\ w.ready = v.ready \ {c}
          /\ w.pos = v.pos /\ w.kit = v.kit
      BY <2>2, <3>2 DEF OnLeave, Views
    <3>4. /\ alive' = alive \ {c} /\ ready' = ready \ {c}
          /\ UNCHANGED <<status, cells, explosions, pos, kit>>
      BY DEF Disconnect, boardVars
    <3>5. Faithful(w)'
      BY <2>3, <3>3, <3>4
         DEF Faithful, KnowsRound, ShowsPlayers, ShowsBoard, ShowsCell, FlameAt, HasMap
    <3> QED
      BY <2>2, <3>1, <3>5, LeadsRead
  <2>4. Tells(<<m>>)
    BY <2>3, OneRow DEF Tells
  <2>5. Send(<<m>>) /\ (Watcher \in active => Watcher \in active')
    BY <1>2, <2>1 DEF Parted, Disconnect
  <2> QED
    BY <2>4, <2>5, FollowingTold
<1> QED
  BY <1>1, <1>2

(* SYNC_BOARD tells again what the client knows. *)
LEMMA SyncTells ==
  ASSUME TypeOK, TypeOK', RoundInv',
         UNCHANGED <<status, cells, explosions>>
  PROVE  Tells(<<Sync>>)
<1>1. ASSUME NEW v \in Views, v.running, Faithful(v)
      PROVE  \E w \in Views : Leads(v, <<Sync>>, w) /\ Faithful(w)'
  <2>1. HasMap(v) => ShowsBoard(v)'
    BY <1>1 DEF Faithful, ShowsBoard, ShowsCell, FlameAt
  <2>2. v.welcome /\ status' = "RUNNING" => HasMap(v)
    BY <1>1 DEF Faithful, KnowsRound
  <2> QED
    BY <1>1, <2>1, <2>2, ToldSync
<1>2. <<Sync>> \in Seq(Messages)
  BY AnswersTyped, OneRow
<1> QED
  BY <1>1, <1>2 DEF Tells

LEMMA NoEffectFollows ==
  ASSUME TypeOK, TypeOK', RoundInv', Following, NEW c \in Slot, SNoEffect(c)
  PROVE  Following'
<1>1. /\ UNCHANGED <<status, cells, explosions, alive, ready, pos, kit>> /\ active' = active
      /\ Send(<< >>) \/ Send(<<Sync>>)
  BY DEF SNoEffect, NoEffect, boardVars, sessionVars, playerVars
<1>2. Tells(<< >>) /\ Tells(<<Sync>>)
  BY <1>1, NothingTold, SyncTells
<1> QED
  BY <1>1, <1>2, FollowingTold

(* WELCOME tells the status; a newcomer to a round gets the map with it. *)
LEMMA GreetingTells ==
  ASSUME TypeOK, TypeOK', RoundInv, RoundInv', NEW c \in Slot,
         UNCHANGED <<status, cells, explosions, active, alive, ready, pos, kit>>
  PROVE  Tells(Greeting(c))
<1>1. PICK m \in Messages : m = Welcome(c)
  BY AnswersTyped
<1>2. m.type = "WELCOME" /\ m.status = status /\ m.others = active \ {c}
      /\ m.ready = ready \ {c}
  BY <1>1, PlayersSeated DEF Welcome
<1>3. ASSUME NEW v \in Views, v.running
      PROVE  \E u \in Views :
               /\ Leads(v, <<m>>, u) /\ u.running /\ u.cells = v.cells /\ u.status = status
               /\ u.ready = (v.ready \ (active \ {c})) \cup (ready \ {c})
               /\ u.alive = v.alive /\ u.pos = v.pos /\ u.kit = v.kit
  <2>1. PICK u \in Views : u = Step(v, m) /\ u.running
    BY <1>2, <1>3, StepTyped
  <2>2. Leads(v, <<m>>, u)
    BY <1>2, <2>1, LeadsRead
  <2>3. u = OnWelcome(v, m)
    BY <1>2, <1>3, <2>1, Reads
  <2>4. /\ u.cells = v.cells /\ u.status = status
        /\ u.ready = (v.ready \ (active \ {c})) \cup (ready \ {c})
        /\ u.alive = v.alive /\ u.pos = v.pos /\ u.kit = v.kit
    BY <1>2, <2>3 DEF OnWelcome, Views
  <2> QED
    BY <2>1, <2>2, <2>4
<1>4. CASE c = Watcher /\ status = "RUNNING"
  <2>1. Greeting(c) = <<m>> \o <<Map, Sync>>
    <3>1. Greeting(c) = (<<m>> \o <<Map>>) \o <<Sync>>
      BY <1>1, <1>4 DEF Greeting, If
    <3>2. <<Map>> \in Seq(Messages) /\ <<Sync>> \in Seq(Messages)
      BY AnswersTyped, OneRow
    <3> QED
      BY <3>1, <3>2, OneRow, Rows2, ConcatAssociative
  <2>2. ASSUME NEW v \in Views, v.running
        PROVE  \E w \in Views : Leads(v, Greeting(c), w) /\ Faithful(w)'
    <3>1. PICK u \in Views : Leads(v, <<m>>, u) /\ u.running
      BY <1>3, <2>2
    <3>2. /\ <<Map, Sync>> \in Seq(Messages)
          /\ \E w \in Views : Leads(u, <<Map, Sync>>, w) /\ Faithful(w)'
      BY <3>1, ToldMapSync
    <3> QED
      BY <2>1, <3>1, <3>2, OneRow, LeadsOn
  <2>3. Greeting(c) \in Seq(Messages)
    <3>1. <<Map, Sync>> \in Seq(Messages)
      BY AnswersTyped
    <3> QED
      BY <2>1, <3>1, OneRow, ConcatProperties
  <2> QED
    BY <2>2, <2>3 DEF Tells
<1>5. CASE c = Watcher /\ status # "RUNNING"
  <2>1. Greeting(c) = (<<m>> \o << >>) \o << >>
    BY <1>1, <1>5 DEF Greeting, If
  <2>2. Greeting(c) = <<m>>
    BY <2>1, OneRow, ConcatEmptySeq
  <2>3. ASSUME NEW v \in Views, v.running, Faithful(v)
        PROVE  \E w \in Views : Leads(v, <<m>>, w) /\ Faithful(w)'
    <3>1. PICK u \in Views :
            /\ Leads(v, <<m>>, u) /\ u.running /\ u.cells = v.cells /\ u.status = status
            /\ u.ready = (v.ready \ (active \ {c})) \cup (ready \ {c})
            /\ u.alive = v.alive /\ u.pos = v.pos /\ u.kit = v.kit
      BY <1>3, <2>3
    <3>2. CASE ~HasMap(v)
      BY <1>5, <3>1, <3>2 DEF Faithful, KnowsRound, HasMap
    <3>3. CASE HasMap(v)
      <4>1. v.alive = alive /\ v.ready = ready /\ v.status = status /\ ShowsBoard(v)
            /\ \A p \in alive : v.pos[p] = pos[p] /\ v.kit[p] = kit[p]
        BY <2>3, <3>3 DEF Faithful, ShowsPlayers
      <4>2. u.ready = ready
        BY <3>1, <4>1 DEF RoundInv
      <4>3. ShowsPlayers(u)'
        BY <3>1, <4>1, <4>2 DEF ShowsPlayers
      <4>4. ShowsBoard(u)'
        BY <3>1, <4>1 DEF ShowsBoard, ShowsCell, FlameAt
      <4>5. KnowsRound(u)'
        BY <1>5, <3>1 DEF KnowsRound
      <4> QED
        BY <3>1, <4>3, <4>4, <4>5 DEF Faithful
    <3> QED
      BY <3>2, <3>3
  <2> QED
    BY <2>2, <2>3, OneRow DEF Tells
<1>6. CASE c # Watcher /\ status = "RUNNING"
  <2>1. Greeting(c) = << >> \o <<Sync>>
    BY <1>6 DEF Greeting, If
  <2>2. Greeting(c) = <<Sync>>
    BY <2>1, AnswersTyped, OneRow, ConcatEmptySeq
  <2> QED
    BY <2>2, SyncTells
<1>7. CASE c # Watcher /\ status # "RUNNING"
  <2>1. Greeting(c) = << >> \o << >>
    BY <1>7 DEF Greeting, If
  <2>2. Greeting(c) = << >>
    BY <2>1, EmptySeq, ConcatEmptySeq
  <2> QED
    BY <2>2, NothingTold
<1> QED
  BY <1>4, <1>5, <1>6, <1>7

LEMMA HelloFollows ==
  ASSUME TypeOK, TypeOK', RoundInv, RoundInv', Following,
         NEW c \in Slot, NEW n \in Names, SHello(c, n)
  PROVE  Following'
<1>1. CASE NameTaken(c, n)
  BY <1>1, PartingFollows DEF SHello, Hello
<1>2. CASE ~NameTaken(c, n)
  <2>1. UNCHANGED <<status, cells, explosions, active, alive, ready, pos, kit>>
        /\ Send(Greeting(c))
    BY <1>2 DEF SHello, Hello, boardVars, playerVars
  <2> QED
    BY <2>1, GreetingTells, FollowingTold
<1> QED
  BY <1>1, <1>2

LEMMA SetReadyFollows ==
  ASSUME TypeOK, TypeOK', RoundInv, RoundInv', Following, NEW c \in Slot, SSetReady(c)
  PROVE  Following'
<1>1. PICK m \in Messages : m = Of("SET_READY", c)
  BY NewsTyped
<1>2. m.type = "SET_READY" /\ m.player = c
  BY <1>1 DEF Of
<1> DEFINE first == If(c \notin ready, <<m>>)
           rest  == If(CanStart, Opening)
<1>3. first \in Seq(Messages)
  BY OneRow, EmptySeq DEF If
<1>4. ASSUME NEW v \in Views, v.running
      PROVE  \E u \in Views : /\ Leads(v, first, u) /\ u.running
                              /\ u.welcome = v.welcome /\ u.status = v.status
                              /\ u.cells = v.cells /\ u.alive = v.alive
                              /\ u.pos = v.pos /\ u.kit = v.kit
                              /\ u.ready = IF c \in ready THEN v.ready ELSE v.ready \cup {c}
  <2>1. CASE c \in ready
    BY <1>4, <2>1, LeadsNowhere DEF If
  <2>2. CASE c \notin ready
    <3>1. PICK u \in Views : u = Step(v, m)
      BY <1>2, LeadsRead
    <3>2. Leads(v, <<m>>, u)
      BY <1>2, <3>1, LeadsRead
    <3>3. u = [v EXCEPT !.ready = @ \cup {c}]
      BY <1>2, <1>4, <3>1, Reads DEF OnReady
    <3> QED
      BY <1>4, <2>2, <3>2, <3>3 DEF If, Views
  <2> QED
    BY <2>1, <2>2
<1>5. /\ SetReady(c) /\ Send(first \o rest) /\ ready' = ready \cup {c} /\ active' = active
      /\ UNCHANGED <<cells, explosions, pos, kit>>
  BY <1>1 DEF SSetReady, SetReady, boardVars, sessionVars
<1> HIDE DEF first
<1>6. CASE CanStart
  <2>1. rest = Opening /\ rest \in Seq(Messages)
    BY <1>6, ToldOpening DEF If
  <2>2. ASSUME NEW v \in Views, v.running
        PROVE  \E w \in Views : Leads(v, first \o Opening, w) /\ Faithful(w)'
    <3>1. PICK u \in Views : Leads(v, first, u) /\ u.running
      BY <1>4, <2>2
    <3> QED
      BY <1>3, <2>1, <3>1, ToldOpening, LeadsOn
  <2>3. Tells(first \o rest)
    BY <1>3, <2>1, <2>2, ConcatProperties DEF Tells
  <2> QED
    BY <1>5, <2>3, FollowingTold
<1>7. CASE ~CanStart
  <2>1. first \o rest = first
    BY <1>3, <1>7, ConcatEmptySeq DEF If
  <2>2. UNCHANGED <<status, alive>>
    BY <1>5, <1>7 DEF SetReady
  <2>3. ASSUME NEW v \in Views, v.running, Faithful(v)
        PROVE  \E w \in Views : Leads(v, first, w) /\ Faithful(w)'
    <3>1. PICK u \in Views : /\ Leads(v, first, u) /\ u.running
                             /\ u.welcome = v.welcome /\ u.status = v.status
                             /\ u.cells = v.cells /\ u.alive = v.alive
                             /\ u.pos = v.pos /\ u.kit = v.kit
                             /\ u.ready = IF c \in ready THEN v.ready ELSE v.ready \cup {c}
      BY <1>4, <2>3
    <3>2. v.ready = ready => u.ready = ready'
      BY <1>5, <3>1
    <3>3. Faithful(u)'
      BY <1>5, <2>2, <2>3, <3>1, <3>2
         DEF Faithful, KnowsRound, ShowsPlayers, ShowsBoard, ShowsCell, FlameAt, HasMap
    <3> QED
      BY <3>1, <3>3
  <2>4. Tells(first \o rest)
    BY <1>3, <2>1, <2>3 DEF Tells
  <2> QED
    BY <1>5, <2>4, FollowingTold
<1> QED
  BY <1>6, <1>7

(* A message about one cell and SYNC_BOARD. *)
LEMMA DrawnTells ==
  ASSUME TypeOK, TypeOK', RoundInv', NEW m \in Messages, NEW target \in Cell,
         NEW t \in CellType,
         cells' = [cells EXCEPT ![target] = t], UNCHANGED <<status, explosions>>,
         \A v \in Views : v.running => Step(v, m) = Draw(v, target, t),
         NEW v \in Views, v.running, HasMap(v) => ShowsBoard(v), KnowsRound(v)
  PROVE  \E w \in Views : Leads(v, <<m, Sync>>, w) /\ Faithful(w)'
<1>1. m.type # "EXPLOSION_START" \/ HasMap(v) \/ ~v.welcome
  <2>1. Step(FreshView, m).running
    BY Maps DEF Draw
  <2>2. m.type = "EXPLOSION_START" => ~Step(FreshView, m).running
    BY Maps, Reads DEF OnExplosionStart, Views
  <2> QED
    BY <2>1, <2>2
<1>2. PICK u \in Views : u = Step(v, m)
  BY <1>1, LeadsRead
<1>3. Leads(v, <<m>>, u)
  BY <1>1, <1>2, LeadsRead
<1>4. u = Draw(v, target, t)
  BY <1>2
<1>5. /\ u.running /\ u.welcome = v.welcome /\ (HasMap(v) => HasMap(u))
      /\ HasMap(u) => HasMap(v) /\ u.cells = [v.cells EXCEPT ![target] = t]
  BY <1>4, Maps DEF Draw, HasMap, Views
<1>6. HasMap(u) => ShowsBoard(u)'
  <2> SUFFICES ASSUME HasMap(u), NEW c \in Cell PROVE ShowsCell(u, c)'
    BY DEF ShowsBoard
  <2>1. v.cells \in [Cell -> CellType] /\ cells \in [Cell -> CellType] /\ ShowsCell(v, c)
    BY <1>5, Maps DEF TypeOK, ShowsBoard
  <2>2. CASE c = target
    BY <1>5, <2>1, <2>2 DEF ShowsCell
  <2>3. CASE c # target
    BY <1>5, <2>1, <2>3 DEF ShowsCell, FlameAt
  <2> QED
    BY <2>2, <2>3
<1>7. u.welcome /\ status' = "RUNNING" => HasMap(u)
  BY <1>5 DEF KnowsRound
<1>8. /\ <<Sync>> \in Seq(Messages)
      /\ \E w \in Views : Leads(u, <<Sync>>, w) /\ Faithful(w)'
  BY <1>5, <1>6, <1>7, ToldSync
<1> QED
  BY <1>3, <1>8, Rows2, OneRow, LeadsOn

LEMMA MoveFollows ==
  ASSUME TypeOK, TypeOK', RoundInv, RoundInv', Following,
         NEW c \in Slot, NEW dir \in Directions, SMoveAttempt(c, dir)
  PROVE  Following'
<1> DEFINE target == Along(pos[c], dir, 1)
<1>1. /\ target \in Cell /\ pos' = [pos EXCEPT ![c] = target] /\ active' = active
      /\ UNCHANGED <<status, explosions, alive, ready>>
      /\ \/ cells[target] \in Bonuses /\ cells' = [cells EXCEPT ![target] = EMPTY]
         \/ cells[target] \notin Bonuses /\ UNCHANGED <<kit, cells>>
  BY DEF SMoveAttempt, MoveAttempt, sessionVars
<1>2. Send(<<[type |-> "MOVED", player |-> c, cell |-> target]>>
           \o If(cells[target] \in Bonuses, <<At("BONUS_RETRIEVED", target), Sync>>))
  BY DEF SMoveAttempt
<1> HIDE DEF target
<1>3. PICK m \in Messages : m = [type |-> "MOVED", player |-> c, cell |-> target]
  BY <1>1, NewsTyped
<1>4. m.type = "MOVED" /\ m.player = c /\ m.cell = target
  BY <1>3
<1>5. ASSUME NEW v \in Views, v.running
      PROVE  \E u \in Views : /\ Leads(v, <<m>>, u) /\ u.running /\ u.welcome = v.welcome
                              /\ u.status = v.status /\ u.cells = v.cells
                              /\ u.alive = v.alive /\ u.ready = v.ready /\ u.kit = v.kit
                              /\ HasMap(v) => u.pos = [v.pos EXCEPT ![c] = target]
  <2>1. PICK u \in Views : u = Step(v, m)
    BY <1>4, LeadsRead
  <2>2. Leads(v, <<m>>, u)
    BY <1>4, <2>1, LeadsRead
  <2>3. u = OnMoved(v, m)
    BY <1>4, <1>5, <2>1, Reads
  <2> QED
    BY <1>4, <1>5, <2>2, <2>3 DEF OnMoved, Views
<1>6. CASE cells[target] \in Bonuses
  <2>1. PICK b \in Messages : b = At("BONUS_RETRIEVED", target)
    BY <1>1, NewsTyped
  <2>2. b.type = "BONUS_RETRIEVED" /\ b.cell = target
    BY <2>1 DEF At
  <2>3. \A v \in Views : v.running => Step(v, b) = Draw(v, target, EMPTY)
    BY <2>2, Reads DEF OnBonusRetrieved
  <2>4. EMPTY \in CellType /\ cells' = [cells EXCEPT ![target] = EMPTY]
    BY <1>1, <1>6 DEF CellType
  <2>5. ASSUME NEW v \in Views, v.running, Faithful(v)
        PROVE  \E w \in Views : Leads(v, <<m>> \o <<b, Sync>>, w) /\ Faithful(w)'
    <3>1. PICK u \in Views : Leads(v, <<m>>, u) /\ u.running /\ u.welcome = v.welcome
                             /\ u.status = v.status /\ u.cells = v.cells
      BY <1>5, <2>5
    <3>2. (HasMap(u) => ShowsBoard(u)) /\ KnowsRound(u)
      BY <2>5, <3>1 DEF Faithful, HasMap, ShowsBoard, ShowsCell, KnowsRound
    <3>3. \E w \in Views : Leads(u, <<b, Sync>>, w) /\ Faithful(w)'
      BY <1>1, <2>3, <2>4, <3>1, <3>2, DrawnTells
    <3>4. <<b, Sync>> \in Seq(Messages)
      BY AnswersTyped
    <3> QED
      BY <3>1, <3>3, <3>4, OneRow, LeadsOn
  <2>6. <<m>> \o <<b, Sync>> \in Seq(Messages)
    <3>1. <<b, Sync>> \in Seq(Messages)
      BY AnswersTyped
    <3> QED
      BY <3>1, OneRow, ConcatProperties
  <2>7. Tells(<<m>> \o <<b, Sync>>) /\ Send(<<m>> \o <<b, Sync>>)
    BY <1>2, <1>3, <1>6, <2>1, <2>5, <2>6 DEF Tells, If
  <2> QED
    BY <1>1, <2>7, FollowingTold
<1>7. CASE cells[target] \notin Bonuses
  <2>1. Send(<<m>>)
    BY <1>2, <1>3, <1>7, OneRow, ConcatEmptySeq DEF If
  <2>2. ASSUME NEW v \in Views, v.running, Faithful(v)
        PROVE  \E w \in Views : Leads(v, <<m>>, w) /\ Faithful(w)'
    <3>1. PICK u \in Views : /\ Leads(v, <<m>>, u) /\ u.running /\ u.welcome = v.welcome
                             /\ u.status = v.status /\ u.cells = v.cells
                             /\ u.alive = v.alive /\ u.ready = v.ready /\ u.kit = v.kit
                             /\ HasMap(v) => u.pos = [v.pos EXCEPT ![c] = target]
      BY <1>5, <2>2
    <3>2. HasMap(u) => ShowsPlayers(u)'
      <4> SUFFICES ASSUME HasMap(u) PROVE ShowsPlayers(u)'
        OBVIOUS
      <4>1. HasMap(v) /\ ShowsPlayers(v)
        BY <2>2, <3>1 DEF HasMap, Faithful
      <4>2. \A p \in alive : u.pos[p] = pos'[p]
        BY <1>1, <3>1, <4>1 DEF ShowsPlayers, TypeOK, Views
      <4> QED
        BY <1>1, <1>7, <3>1, <4>1, <4>2 DEF ShowsPlayers
    <3>3. HasMap(u) => ShowsBoard(u)'
      BY <1>1, <1>7, <2>2, <3>1 DEF Faithful, HasMap, ShowsBoard, ShowsCell, FlameAt
    <3>4. KnowsRound(u)'
      BY <1>1, <2>2, <3>1 DEF Faithful, HasMap, KnowsRound
    <3> QED
      BY <3>1, <3>2, <3>3, <3>4 DEF Faithful
  <2>3. Tells(<<m>>)
    BY <2>2, OneRow DEF Tells
  <2> QED
    BY <1>1, <2>1, <2>3, FollowingTold
<1> QED
  BY <1>6, <1>7

LEMMA BombFollows ==
  ASSUME TypeOK, TypeOK', RoundInv, RoundInv', Following,
         NEW c \in Slot, NEW claimed \in Cell, SBombAttempt(c, claimed)
  PROVE  Following'
<1>1. /\ pos[c] \in Cell /\ cells' = [cells EXCEPT ![pos[c]] = BOMB]
      /\ UNCHANGED <<status, explosions>> /\ active' = active /\ BOMB \in CellType
      /\ Send(<<At("BOMB", pos[c]), Sync>>)
  BY DEF SBombAttempt, BombAttempt, TypeOK, sessionVars, CellType
<1>2. PICK m \in Messages : m = At("BOMB", pos[c])
  BY <1>1, NewsTyped
<1>3. m.type = "BOMB" /\ m.cell = pos[c]
  BY <1>2 DEF At
<1>4. \A v \in Views : v.running => Step(v, m) = Draw(v, pos[c], BOMB)
  BY <1>3, Reads DEF OnBomb
<1>5. \A v \in Views : v.running /\ Faithful(v)
        => \E w \in Views : Leads(v, <<m, Sync>>, w) /\ Faithful(w)'
  BY <1>1, <1>4, DrawnTells DEF Faithful
<1>6. Tells(<<m, Sync>>)
  BY <1>5, AnswersTyped DEF Tells
<1> QED
  BY <1>1, <1>2, <1>6, FollowingTold

LEMMA ReturnFollows ==
  ASSUME TypeOK, TypeOK', RoundInv', Following, NEW c \in Slot, SReturnToLobby(c)
  PROVE  Following'
<1>1. Send(Opening) /\ active' = active
  BY DEF SReturnToLobby, ReturnToLobby, sessionVars
<1>2. Tells(Opening)
  BY ToldOpening DEF Tells
<1> QED
  BY <1>1, <1>2, FollowingTold

LEMMA FinishFollows ==
  ASSUME TypeOK, TypeOK', RoundInv, RoundInv', Following, SFinishTick
  PROVE  Following'
<1>1. /\ UNCHANGED <<cells, explosions, active, alive, ready, pos, kit>>
      /\ status' # status => status' = "END"
      /\ Send(If(status' # status, <<Status>>))
  BY DEF SFinishTick, FinishTick, boardVars, sessionVars, playerVars
<1>2. CASE status' = status
  BY <1>1, <1>2, NothingTold, FollowingTold DEF If
<1>3. CASE status' # status
  <2>1. PICK m \in Messages : m = Status
    BY AnswersTyped
  <2>2. m.type = "SET_STATUS" /\ m.status = status'
    BY <2>1 DEF Status
  <2>3. ASSUME NEW v \in Views, v.running, Faithful(v)
        PROVE  \E w \in Views : Leads(v, <<m>>, w) /\ Faithful(w)'
    <3>1. PICK w \in Views : w = Step(v, m)
      BY <2>2, LeadsRead
    <3>2. w = [v EXCEPT !.status = status']
      BY <2>2, <2>3, <3>1, Reads DEF OnStatus
    <3>3. /\ w.welcome = v.welcome /\ w.status = status' /\ w.cells = v.cells
          /\ w.alive = v.alive /\ w.ready = v.ready /\ w.pos = v.pos /\ w.kit = v.kit
      BY <3>2 DEF Views
    <3>4. Faithful(w)'
      BY <1>1, <1>3, <2>3, <3>3
         DEF Faithful, KnowsRound, ShowsPlayers, ShowsBoard, ShowsCell, FlameAt, HasMap
    <3> QED
      BY <2>2, <3>1, <3>4, LeadsRead
  <2>4. Tells(<<m>>) /\ Send(<<m>>)
    BY <1>1, <1>3, <2>1, <2>3, OneRow DEF Tells, If
  <2> QED
    BY <1>1, <2>4, FollowingTold
<1> QED
  BY <1>2, <1>3

-----------------------------------------------------------------------------
(* Flames and blasts *)

(* A client without a map lets the end of a flame pass. *)
LEMMA ReadsUnseen ==
  ASSUME NEW v \in Views, ~HasMap(v), NEW ms \in Seq(Messages),
         \A k \in 1..Len(ms) : ms[k].type = "EXPLOSION_END"
  PROVE  Leads(v, ms, v)
<1> DEFINE n == Len(ms)
           vs == [k \in 0..n |-> v]
<1>1. n \in Nat
  BY LenProperties
<1>2. vs \in [0..n -> Views] /\ vs[0] = v /\ vs[n] = v
  BY <1>1
<1>3. ASSUME NEW k \in 1..n PROVE vs[k] = Step(vs[k-1], ms[k])
  <2>1. Step(v, ms[k]) = v
    <3>1. CASE v.running
      BY <3>1, Reads DEF OnExplosionEnd
    <3>2. CASE ~v.running
      BY <3>2 DEF Step
    <3> QED
      BY <3>1, <3>2
  <2> QED
    BY <1>1, <2>1
<1> QED
  BY <1>2, <1>3 DEF Leads

LEMMA FlameFloorInit == Init => FlameFloor
BY DEF Init, FlameFloor, NoExplosion

(* Nothing is built under a flame while it lasts. *)
LEMMA FlameFloorStep ==
  TypeOK /\ BoardMatchesBombs /\ FlameFloor /\ [Next]_vars => FlameFloor'
<1> SUFFICES ASSUME TypeOK, BoardMatchesBombs, FlameFloor, [Next]_vars PROVE FlameFloor'
  OBVIOUS
<1>1. CASE UNCHANGED <<cells, explosions>>
  BY <1>1 DEF FlameFloor
<1>2. ASSUME NEW c \in Slot, NEW dir \in Directions, MoveAttempt(c, dir) PROVE FlameFloor'
  <2>1. UNCHANGED explosions /\ \A x \in Cell : cells'[x] \in {cells[x], EMPTY}
    BY <1>2 DEF MoveAttempt, TypeOK
  <2> QED
    BY <2>1 DEF FlameFloor, TypeOK, Explosion
<1>3. ASSUME NEW c \in Slot, NEW claimed \in Cell, BombAttempt(c, claimed) PROVE FlameFloor'
  <2>1. UNCHANGED explosions /\ \A x \in Cell : cells'[x] \in {cells[x], BOMB}
    BY <1>3 DEF BombAttempt, TypeOK
  <2> QED
    BY <2>1 DEF FlameFloor, TypeOK, Explosion
<1>4. ASSUME NEW c \in Slot, ReturnToLobby(c) PROVE FlameFloor'
  BY <1>4 DEF ReturnToLobby, ResetBoard, FlameFloor, NoExplosion
<1>5. CASE Tick
  <2>1. ASSUME NEW e \in BombSlot, explosions'[e].remaining > 0
        PROVE  explosions'[e].pos = explosions[e].pos /\ explosions[e].remaining > 0
    BY <1>5, <2>1, Widths DEF Tick, Aged, NoExplosion, TypeOK, Explosion, U16
  <2>2. UNCHANGED cells
    BY <1>5 DEF Tick
  <2> QED
    BY <2>1, <2>2 DEF FlameFloor
<1>6. ASSUME NEW i \in BombSlot, Explode(i) PROVE FlameFloor'
  <2>1. bombs[i].owner # 0 /\ bombs[i].pos \in Cell /\ cells[bombs[i].pos] = BOMB
    BY <1>6 DEF Explode, NextDue, IsFirst, Due, TypeOK, Bomb, BoardMatchesBombs
  <2>2. cells'[bombs[i].pos] = EMPTY
        /\ \A c \in Cell : cells[c] # SOFT /\ c # bombs[i].pos => cells'[c] = cells[c]
    BY <1>6, <2>1 DEF Explode
  <2>3. ASSUME NEW e \in BombSlot, explosions'[e].remaining > 0
        PROVE  cells'[explosions'[e].pos] \in {EMPTY, BOMB}
    <3>1. CASE explosions'[e] = explosions[e]
      <4>1. cells[explosions[e].pos] \in {EMPTY, BOMB} /\ explosions[e].pos \in Cell
        BY <2>3, <3>1 DEF FlameFloor, TypeOK, Explosion
      <4> QED
        BY <2>2, <3>1, <4>1 DEF EMPTY, BOMB, SOFT
    <3>2. CASE explosions'[e] # explosions[e]
      <4>1. ScheduleEnd(bombs[i].pos)
        BY <1>6 DEF Explode
      <4>2. PICK f \in BombSlot : explosions' = [explosions EXCEPT ![f] =
                [pos |-> bombs[i].pos, remaining |-> ExplosionDuration]]
        BY <3>2, <4>1 DEF ScheduleEnd
      <4>3. explosions'[e].pos = bombs[i].pos
        BY <3>2, <4>2 DEF TypeOK
      <4> QED
        BY <2>2, <4>3
    <3> QED
      BY <3>1, <3>2
  <2> QED
    BY <2>3 DEF FlameFloor
<1>7. ASSUME NEW c \in Slot, NEW n \in Names, Hello(c, n) PROVE UNCHANGED <<cells, explosions>>
  BY <1>7 DEF Hello, Disconnect, boardVars
<1> QED
  BY <1>1, <1>2, <1>3, <1>4, <1>5, <1>6, <1>7
     DEF Next, vars, boardVars, Connect, Receive, Clock, Refuse, Accept, NoEffect, Leave,
         Disconnect, SetReady, FinishTick

LEMMA TickFollows ==
  ASSUME TypeOK, TypeOK', FlameFloor, Following, STick
  PROVE  Following'
<1> DEFINE over == {e \in BombSlot : Ending(e)}
           ends == SetToSeq(over)
           n    == Cardinality(over)
           ms   == [k \in DOMAIN ends |-> At("EXPLOSION_END", explosions[ends[k]].pos)]
<1>1. /\ n \in Nat /\ ends \in [1..n -> over] /\ DOMAIN ends = 1..n
      /\ \A e \in over : \E k \in 1..n : ends[k] = e
  BY CellsFinite, InARow
<1>2. Tick /\ Send(ms)
  BY DEF STick
<1>3. /\ UNCHANGED <<status, cells, active, alive, ready, pos, kit>>
      /\ explosions' = [i \in BombSlot |-> Aged(explosions[i])]
  BY <1>2 DEF Tick, sessionVars, playerVars
<1>4. \A e \in over : explosions[e].pos \in Cell
  BY DEF TypeOK, Explosion
<1> HIDE DEF ends, n
<1>5. ms \in Seq(Messages) /\ Len(ms) = n
      /\ \A k \in 1..n : ms[k] = At("EXPLOSION_END", explosions[ends[k]].pos)
  <2>1. \A k \in 1..n : At("EXPLOSION_END", explosions[ends[k]].pos) \in Messages
    BY <1>1, <1>4, NewsTyped
  <2> QED
    BY <1>1, <2>1, IsASeq, LenProperties
<1>6. \A k \in 1..n : ms[k].type = "EXPLOSION_END" /\ ms[k].cell = explosions[ends[k]].pos
  BY <1>5 DEF At
<1> HIDE DEF ms
<1>7. ASSUME NEW c \in Cell
      PROVE  \/ \E k \in 1..n : ms[k].cell = c
             \/ FlameAt(c) => FlameAt(c)'
  <2> SUFFICES ASSUME FlameAt(c), \A k \in 1..n : ms[k].cell # c PROVE FlameAt(c)'
    OBVIOUS
  <2>1. PICK e \in BombSlot : explosions[e].remaining > 0 /\ explosions[e].pos = c
    BY DEF FlameAt
  <2>2. explosions[e].remaining # 1
    BY <1>1, <1>6, <2>1 DEF Ending
  <2>3. explosions'[e].remaining > 0 /\ explosions'[e].pos = c
    BY <1>3, <2>1, <2>2, Widths DEF Aged, TypeOK, Explosion, U16
  <2> QED
    BY <2>3 DEF FlameAt
<1>8. \A k \in 1..n : cells[ms[k].cell] \in {EMPTY, BOMB}
  BY <1>1, <1>6 DEF FlameFloor, Ending
<1>9. ASSUME NEW v \in Views, v.running, Faithful(v)
      PROVE  \E w \in Views : Leads(v, ms, w) /\ Faithful(w)'
  <2>1. CASE ~HasMap(v)
    BY <1>3, <1>5, <1>6, <1>9, <2>1, ReadsUnseen DEF Faithful, KnowsRound
  <2>2. CASE HasMap(v)
    <3> DEFINE f == [c \in Cell |-> EMPTY]
    <3>1. f \in [Cell -> CellType]
      BY DEF CellType
    <3>2. \A k \in 1..Len(ms) : Paints(ms[k], f)
      BY <1>1, <1>4, <1>5, <1>6 DEF Paints
    <3>3. \A c \in Cell : f[c] = EMPTY
      OBVIOUS
    <3> HIDE DEF f
    <3>4. PICK w \in Views :
            /\ Leads(v, ms, w)
            /\ w.running /\ w.welcome = v.welcome /\ w.status = v.status
            /\ w.alive = v.alive /\ w.ready = v.ready /\ w.pos = v.pos /\ w.kit = v.kit
            /\ HasMap(w)
            /\ \A c \in Cell : w.cells[c] = IF \E k \in 1..Len(ms) : ms[k].cell = c
                                            THEN f[c] ELSE v.cells[c]
      BY <1>5, <1>9, <2>2, <3>1, <3>2, ReadsPainting, SMTT(30)
    <3>5. ASSUME NEW c \in Cell PROVE ShowsCell(w, c)'
      <4>1. CASE \E k \in 1..n : ms[k].cell = c
        BY <1>3, <1>5, <1>8, <3>3, <3>4, <4>1 DEF ShowsCell
      <4>2. CASE ~ \E k \in 1..n : ms[k].cell = c
        <5>1. w.cells[c] = v.cells[c] /\ (FlameAt(c) => FlameAt(c)') /\ ShowsCell(v, c)
          BY <1>5, <1>7, <1>9, <2>2, <3>4, <4>2 DEF Faithful, ShowsBoard
        <5> QED
          BY <1>3, <5>1 DEF ShowsCell
      <4> QED
        BY <4>1, <4>2
    <3>6. KnowsRound(w)' /\ ShowsPlayers(w)'
      BY <1>3, <1>9, <2>2, <3>4 DEF Faithful, KnowsRound, ShowsPlayers
    <3> QED
      BY <3>4, <3>5, <3>6 DEF Faithful, ShowsBoard
  <2> QED
    BY <2>1, <2>2
<1>10. Tells(ms)
  BY <1>5, <1>9 DEF Tells
<1> QED
  BY <1>2, <1>3, <1>10, FollowingTold

(* The cell of a bomb that goes off: floor, with the flame on it or the    *)
(* flame's end announced.                                                  *)
LEMMA ExplosionLights ==
  ASSUME TypeOK, NEW i \in BombSlot, Explode(i), NEW at \in Cell, at = bombs[i].pos
  PROVE  /\ explosions' = explosions \/ FlameAt(at)'
         /\ \A c \in Cell : FlameAt(c) => FlameAt(c)'
<1>1. ScheduleEnd(at)
  BY DEF Explode
<1>2. CASE UNCHANGED explosions
  BY <1>2 DEF FlameAt
<1>3. ASSUME NEW f \in BombSlot, explosions[f].remaining = 0, ExplosionDuration > 0,
             explosions' = [explosions EXCEPT ![f] =
                [pos |-> at, remaining |-> ExplosionDuration]]
      PROVE  FlameAt(at)' /\ \A c \in Cell : FlameAt(c) => FlameAt(c)'
  <2>1. explosions'[f] = [pos |-> at, remaining |-> ExplosionDuration]
        /\ \A e \in BombSlot : e # f => explosions'[e] = explosions[e]
    BY <1>3 DEF TypeOK
  <2>2. \A e \in BombSlot : explosions[e].remaining > 0 => e # f
    BY <1>3
  <2> QED
    BY <1>3, <2>1, <2>2 DEF FlameAt
<1> QED
  BY <1>1, <1>2, <1>3 DEF ScheduleEnd, IsFirst

(* The fires burn all the soft blocks of the blast, and show what is left. *)
LEMMA ReadsFires ==
  ASSUME TypeOK, TypeOK', NEW burnt \in SUBSET Cell,
         \A c \in burnt : cells'[c] \in {EMPTY} \cup Bonuses,
         NEW v \in Views, v.running, HasMap(v)
  PROVE  /\ Fires(burnt) \in Seq(Messages)
         /\ \E w \in Views :
              /\ Leads(v, Fires(burnt), w)
              /\ w.running /\ w.welcome = v.welcome /\ HasMap(w)
              /\ \A c \in Cell : w.cells[c] = IF c \in burnt THEN cells'[c] ELSE v.cells[c]
<1> DEFINE left  == {c \in burnt : cells'[c] # EMPTY}
           order == SetToSeq(burnt)
           shown == SetToSeq(left)
           m == Cardinality(burnt)
           n == Cardinality(left)
           a == [k \in DOMAIN order |-> At("BLOCK_DESTROYED", order[k])]
           b == [k \in DOMAIN shown |->
                   [type |-> "BONUS_AVAILABLE", cell |-> shown[k], bonus |-> cells'[shown[k]]]]
<1>1. /\ m \in Nat /\ order \in [1..m -> burnt] /\ DOMAIN order = 1..m
      /\ \A c \in burnt : \E k \in 1..m : order[k] = c
  BY CellsFinite, InARow
<1>2. /\ n \in Nat /\ shown \in [1..n -> left] /\ DOMAIN shown = 1..n
      /\ \A c \in left : \E k \in 1..n : shown[k] = c
  BY CellsFinite, InARow
<1>3. Fires(burnt) = a \o b
  BY DEF Fires
<1> HIDE DEF order, shown, m, n
<1>4. a \in Seq(Messages) /\ Len(a) = m /\ \A k \in 1..m : a[k] = At("BLOCK_DESTROYED", order[k])
  <2>1. \A k \in 1..m : At("BLOCK_DESTROYED", order[k]) \in Messages
    BY <1>1, NewsTyped
  <2> QED
    BY <1>1, <2>1, IsASeq, LenProperties
<1>5. /\ b \in Seq(Messages) /\ Len(b) = n
      /\ \A k \in 1..n : b[k] = [type |-> "BONUS_AVAILABLE", cell |-> shown[k],
                                 bonus |-> cells'[shown[k]]]
  <2>1. \A k \in 1..n : [type |-> "BONUS_AVAILABLE", cell |-> shown[k],
                         bonus |-> cells'[shown[k]]] \in Messages
    BY <1>2, NewsTyped
  <2> QED
    BY <1>2, <2>1, IsASeq, LenProperties
<1>6. \A k \in 1..m : a[k].type = "BLOCK_DESTROYED" /\ a[k].cell = order[k]
  BY <1>4 DEF At
<1>7. \A k \in 1..n : b[k].type = "BONUS_AVAILABLE" /\ b[k].cell = shown[k]
                      /\ b[k].bonus = cells'[shown[k]]
  BY <1>5
<1> HIDE DEF a, b
<1> DEFINE f == [c \in Cell |-> EMPTY]
           g == cells'
<1>8. f \in [Cell -> CellType] /\ g \in [Cell -> CellType] /\ \A c \in Cell : f[c] = EMPTY
  BY DEF CellType, TypeOK
<1>9. (\A k \in 1..Len(a) : Paints(a[k], f)) /\ \A k \in 1..Len(b) : Paints(b[k], g)
  BY <1>1, <1>2, <1>4, <1>5, <1>6, <1>7, <1>8 DEF Paints
<1> HIDE DEF f, g
<1>10. PICK u \in Views :
         /\ Leads(v, a, u) /\ u.running /\ u.welcome = v.welcome /\ HasMap(u)
         /\ \A c \in Cell : u.cells[c] = IF \E k \in 1..Len(a) : a[k].cell = c
                                         THEN f[c] ELSE v.cells[c]
  BY <1>4, <1>8, <1>9, ReadsPainting, SMTT(30)
<1>11. PICK w \in Views :
         /\ Leads(u, b, w) /\ w.running /\ w.welcome = u.welcome /\ HasMap(w)
         /\ \A c \in Cell : w.cells[c] = IF \E k \in 1..Len(b) : b[k].cell = c
                                         THEN g[c] ELSE u.cells[c]
  BY <1>5, <1>8, <1>9, <1>10, ReadsPainting, SMTT(30)
<1>12. \A c \in Cell : u.cells[c] = IF c \in burnt THEN EMPTY ELSE v.cells[c]
  BY <1>1, <1>4, <1>6, <1>8, <1>10
<1>13. \A c \in Cell : w.cells[c] = IF c \in left THEN cells'[c] ELSE u.cells[c]
  BY <1>2, <1>5, <1>7, <1>11 DEF g
<1>14. \A c \in Cell : w.cells[c] = IF c \in burnt THEN cells'[c] ELSE v.cells[c]
  BY <1>12, <1>13
<1>15. Leads(v, Fires(burnt), w) /\ Fires(burnt) \in Seq(Messages)
  BY <1>3, <1>4, <1>5, <1>10, <1>11, LeadsOn, ConcatProperties
<1> HIDE DEF left
<1> QED
  BY <1>10, <1>11, <1>14, <1>15

(* EXPLOSION_START, deaths, fires, perhaps EXPLOSION_END, and SYNC_BOARD   *)
(* tell a client that has a map all a blast does; one without a map dies   *)
(* of the first, and has not been welcomed.                                *)
LEMMA ExplodeFollows ==
  ASSUME TypeOK, TypeOK', RoundInv, RoundInv', BoardMatchesBombs, Following,
         NEW i \in BombSlot, SExplode(i)
  PROVE  Following'
<1> DEFINE bomb   == bombs[i]
           burnt  == {c \in BlastCells(cells, bomb.pos, bomb.radius) : cells[c] = SOFT}
           fallen == alive \ alive'
           dead   == SetToSeq(fallen)
           n      == Cardinality(fallen)
           start  == <<[type |-> "EXPLOSION_START", cell |-> bomb.pos, radius |-> bomb.radius]>>
           deaths == [k \in DOMAIN dead |-> Of("DEATH", dead[k])]
           fires  == Fires(burnt)
           end    == If(explosions' = explosions, <<At("EXPLOSION_END", bomb.pos)>>)
           all    == start \o deaths \o fires \o end \o <<Sync>>
<1>1. Explode(i) /\ Send(all)
  BY DEF SExplode
<1>2. PICK at \in Cell, radius \in U8 : at = bomb.pos /\ radius = bomb.radius
  BY DEF TypeOK, Bomb
<1>3. bombs[i].owner # 0 /\ cells[at] = BOMB /\ status = "RUNNING"
  BY <1>1, <1>2 DEF Explode, NextDue, IsFirst, Due, BoardMatchesBombs, RoundInv
<1>4. burnt \in SUBSET Cell /\ at \notin burnt
  BY <1>2, <1>3 DEF BlastCells, BOMB, SOFT
<1>5. /\ status' = status /\ active' = active
      /\ cells'[at] = EMPTY
      /\ \A c \in burnt : cells'[c] \in {EMPTY} \cup Bonuses
      /\ \A c \in Cell : c # at /\ c \notin burnt => cells'[c] = cells[c]
  <2>1. PICK loot \in [burnt -> {EMPTY} \cup Bonuses] :
          cells' = [c \in Cell |-> IF c = bomb.pos THEN EMPTY
                                   ELSE IF c \in burnt THEN loot[c] ELSE cells[c]]
    BY <1>1 DEF Explode
  <2> HIDE DEF burnt
  <2>2. status' = status /\ active' = active
    BY <1>1 DEF Explode, sessionVars
  <2> QED
    BY <1>2, <1>4, <2>1, <2>2
<1>6. (explosions' = explosions \/ FlameAt(at)') /\ \A c \in Cell : FlameAt(c) => FlameAt(c)'
  BY <1>1, <1>2, ExplosionLights
<1> HIDE DEF burnt
<1>7. PICK s \in Messages :
        s = [type |-> "EXPLOSION_START", cell |-> at, radius |-> radius]
  BY <1>2, NewsTyped
<1>8. s.type = "EXPLOSION_START" /\ s.cell = at /\ s.radius = radius /\ start = <<s>>
  BY <1>2, <1>7
<1>9. n \in Nat /\ dead \in [1..n -> Slot] /\ DOMAIN dead = 1..n
  <2>1. fallen \in SUBSET Slot
    BY DEF TypeOK
  <2>2. n \in Nat /\ dead \in [1..n -> fallen] /\ DOMAIN dead = 1..n
    BY <2>1, CellsFinite, InARow
  <2> QED
    BY <2>1, <2>2
<1>10. deaths = [k \in 1..n |-> Of("DEATH", dead[k])]
  BY <1>9
<1> HIDE DEF dead, n, deaths, start
<1>11. deaths \in Seq(Messages)
  BY <1>9, <1>10, ReadsDeaths, Maps
<1>12. fires \in Seq(Messages)
  <2>1. PICK v \in Views : v = [FreshView EXCEPT !.cells = cells]
    BY Maps DEF Views, TypeOK
  <2>2. v.running /\ HasMap(v)
    BY <2>1, Maps DEF Views, HasMap, TypeOK
  <2> QED
    BY <1>4, <1>5, <2>2, ReadsFires
<1>13. end \in Seq(Messages) /\ <<Sync>> \in Seq(Messages) /\ start \in Seq(Messages)
  BY <1>2, <1>8, NewsTyped, AnswersTyped, OneRow, EmptySeq DEF If
<1> HIDE DEF fires
<1>14. ASSUME NEW v \in Views, NEW u1 \in Views, NEW u2 \in Views, NEW u3 \in Views,
              NEW u4 \in Views, NEW w \in Views,
              Leads(v, start, u1), Leads(u1, deaths, u2), Leads(u2, fires, u3),
              Leads(u3, end, u4), Leads(u4, <<Sync>>, w)
       PROVE  Leads(v, all, w)
  <2> HIDE DEF end
  <2>1. Leads(v, start \o deaths, u2) /\ start \o deaths \in Seq(Messages)
    BY <1>11, <1>13, <1>14, LeadsOn, ConcatProperties
  <2>2. /\ Leads(v, start \o deaths \o fires, u3)
        /\ start \o deaths \o fires \in Seq(Messages)
    BY <1>12, <1>14, <2>1, LeadsOn, ConcatProperties
  <2>3. /\ Leads(v, start \o deaths \o fires \o end, u4)
        /\ start \o deaths \o fires \o end \in Seq(Messages)
    BY <1>13, <1>14, <2>2, LeadsOn, ConcatProperties
  <2> QED
    BY <1>13, <1>14, <2>3, LeadsOn
<1>15. all \in Seq(Messages)
  <2> HIDE DEF end
  <2>1. start \o deaths \in Seq(Messages)
    BY <1>11, <1>13, ConcatProperties
  <2>2. start \o deaths \o fires \in Seq(Messages)
    BY <1>12, <2>1, ConcatProperties
  <2>3. start \o deaths \o fires \o end \in Seq(Messages)
    BY <1>13, <2>2, ConcatProperties
  <2> QED
    BY <1>13, <2>3, ConcatProperties
<1> HIDE DEF all
<1>16. ASSUME NEW v \in Views, v.running, Faithful(v), ~HasMap(v)
       PROVE  \E w \in Views : Leads(v, all, w) /\ Faithful(w)'
  <2>1. ~v.welcome
    BY <1>3, <1>16 DEF Faithful, KnowsRound
  <2>2. PICK u \in Views : u = Step(v, s)
    BY <2>1, LeadsRead
  <2>3. Leads(v, start, u)
    BY <1>8, <2>1, <2>2, LeadsRead
  <2>4. ~u.running
    BY <1>8, <1>16, <2>2, Reads DEF OnExplosionStart, Views
  <2>5. /\ Leads(u, deaths, u) /\ Leads(u, fires, u) /\ Leads(u, end, u)
        /\ Leads(u, <<Sync>>, u)
    BY <1>11, <1>12, <1>13, <2>4, LeadsStopped
  <2> QED
    BY <1>14, <2>3, <2>4, <2>5, StoppedIsFaithful
<1>17. ASSUME NEW v \in Views, v.running, Faithful(v), HasMap(v)
       PROVE  \E w \in Views : Leads(v, all, w) /\ Faithful(w)'
  <2>1. PICK u1 \in Views : u1 = Step(v, s)
    BY <1>17, LeadsRead
  <2>2. Leads(v, start, u1)
    BY <1>8, <1>17, <2>1, LeadsRead
  <2>3. u1.running /\ u1.welcome = v.welcome /\ u1.cells = v.cells
    BY <1>8, <1>17, <2>1, Reads DEF OnExplosionStart, Views
  <2>4. PICK u2 \in Views : /\ Leads(u1, deaths, u2) /\ u2.running
                            /\ u2.welcome = u1.welcome /\ u2.cells = u1.cells
    BY <1>9, <1>10, <2>3, ReadsDeaths, SMTT(30)
  <2>5. HasMap(u2) /\ u2.cells = v.cells
    BY <1>17, <2>3, <2>4 DEF HasMap
  <2>6. PICK u3 \in Views :
          /\ Leads(u2, fires, u3)
          /\ u3.running /\ HasMap(u3)
          /\ \A c \in Cell : u3.cells[c] = IF c \in burnt THEN cells'[c] ELSE u2.cells[c]
    BY <1>4, <1>5, <2>4, <2>5, ReadsFires DEF fires
  <2>7. PICK u4 \in Views :
          /\ Leads(u3, end, u4)
          /\ u4.running /\ HasMap(u4)
          /\ \A c \in Cell : u4.cells[c] = IF explosions' = explosions /\ c = at
                                           THEN EMPTY ELSE u3.cells[c]
    <3>1. CASE explosions' # explosions
      BY <2>6, <3>1, LeadsNowhere DEF If
    <3>2. CASE explosions' = explosions
      <4>1. PICK m \in Messages : m = At("EXPLOSION_END", at)
        BY NewsTyped
      <4>2. m.type = "EXPLOSION_END" /\ m.cell = at /\ end = <<m>>
        BY <1>2, <3>2, <4>1 DEF At, If
      <4>3. PICK u \in Views : u = Step(u3, m)
        BY <4>2, LeadsRead
      <4>4. Leads(u3, end, u)
        BY <4>2, <4>3, LeadsRead
      <4>5. Step(u3, m) = OnExplosionEnd(u3, m)
        BY <2>6, <4>2, Reads
      <4>6. u = [u3 EXCEPT !.flames[at] = 0, !.cells[at] = EMPTY]
        BY <2>6, <4>2, <4>3, <4>5 DEF OnExplosionEnd
      <4>7. u.running /\ u.cells = [u3.cells EXCEPT ![at] = EMPTY]
        BY <2>6, <4>6 DEF Views
      <4>8. u3.cells \in [Cell -> CellType]
        BY <2>6, Maps
      <4>9. HasMap(u)
        BY <4>7, <4>8, Maps DEF HasMap, CellType
      <4> QED
        BY <3>2, <4>4, <4>7, <4>8, <4>9
    <3> QED
      BY <3>1, <3>2
  <2>8. ShowsBoard(u4)'
    <3> SUFFICES ASSUME NEW c \in Cell PROVE ShowsCell(u4, c)'
      BY DEF ShowsBoard
    <3>1. ShowsCell(v, c)
      BY <1>17 DEF Faithful, ShowsBoard
    <3>2. CASE c = at
      <4>1. u3.cells[c] = v.cells[c] /\ v.cells[c] \in {EMPTY, BOMB}
        BY <1>3, <1>4, <2>5, <2>6, <3>1, <3>2 DEF ShowsCell
      <4>2. CASE explosions' = explosions
        BY <1>5, <2>7, <3>2, <4>2 DEF ShowsCell
      <4>3. CASE explosions' # explosions
        <5>1. FlameAt(c)'
          BY <1>6, <3>2, <4>3
        <5> QED
          BY <1>5, <2>7, <3>2, <4>1, <4>3, <5>1 DEF ShowsCell
      <4> QED
        BY <4>2, <4>3
    <3>3. CASE c # at /\ c \in burnt
      BY <2>6, <2>7, <3>3 DEF ShowsCell
    <3>4. CASE c # at /\ c \notin burnt
      <4>1. u4.cells[c] = v.cells[c] /\ cells'[c] = cells[c] /\ (FlameAt(c) => FlameAt(c)')
        BY <1>5, <1>6, <2>5, <2>6, <2>7, <3>4
      <4> QED
        BY <3>1, <4>1 DEF ShowsCell
    <3> QED
      BY <3>2, <3>3, <3>4
  <2>9. PICK w \in Views : Leads(u4, <<Sync>>, w) /\ Faithful(w)'
    BY <2>7, <2>8, ToldSync
  <2> QED
    BY <1>14, <2>2, <2>4, <2>6, <2>7, <2>9
<1>18. Tells(all)
  BY <1>15, <1>16, <1>17 DEF Tells
<1> QED
  BY <1>1, <1>5, <1>18, FollowingTold

-----------------------------------------------------------------------------
(* The theorems *)

(* Whatever the server does with this client it does as Server says.       *)
LEMMA SessionStep == [SNext]_sessionState => [Next]_vars
<1>1. ASSUME ServerActs PROVE Next
  BY <1>1 DEF ServerActs, SRefuse, SAccept, SLeave, SNoEffect, SHello, SSetReady,
     SMoveAttempt, SBombAttempt, SReturnToLobby, STick, SExplode, SFinishTick,
     Next, Connect, Receive, Clock
<1> QED
  BY <1>1 DEF SNext, ClientReads, sessionState

THEOREM SessionIsServer == SSpec => Spec
<1>1. SInit => Init
  BY DEF SInit
<1> QED
  BY <1>1, SessionStep, PTL DEF SSpec, Spec

LEMMA FollowingStep ==
  ASSUME TypeOK, TypeOK', RoundInv, RoundInv', BoardMatchesBombs, FlameFloor,
         Following, [SNext]_sessionState
  PROVE  Following'
<1>1. CASE UNCHANGED sessionState
  BY <1>1 DEF sessionState, vars, boardVars, sessionVars, playerVars, Following, Faithful,
     KnowsRound, ShowsPlayers, ShowsBoard, ShowsCell, FlameAt
<1>2. CASE ClientReads
  BY <1>2, FollowingReads
<1>3. CASE SRefuse
  BY <1>3, RefuseFollows
<1>4. ASSUME NEW slot \in Slot, NEW seat \in Cell, SAccept(slot, seat) PROVE Following'
  BY <1>4, AcceptFollows
<1>5. ASSUME NEW c \in Slot, SNoEffect(c) PROVE Following'
  BY <1>5, NoEffectFollows
<1>6. ASSUME NEW c \in Slot, SLeave(c) PROVE Following'
  BY <1>6, PartingFollows DEF SLeave, Leave
<1>7. ASSUME NEW c \in Slot, NEW n \in Names, SHello(c, n) PROVE Following'
  BY <1>7, HelloFollows
<1>8. ASSUME NEW c \in Slot, SSetReady(c) PROVE Following'
  BY <1>8, SetReadyFollows
<1>9. ASSUME NEW c \in Slot, NEW dir \in Directions, SMoveAttempt(c, dir) PROVE Following'
  BY <1>9, MoveFollows
<1>10. ASSUME NEW c \in Slot, NEW claimed \in Cell, SBombAttempt(c, claimed) PROVE Following'
  BY <1>10, BombFollows
<1>11. ASSUME NEW c \in Slot, SReturnToLobby(c) PROVE Following'
  BY <1>11, ReturnFollows
<1>12. CASE STick
  BY <1>12, TickFollows
<1>13. ASSUME NEW i \in BombSlot, SExplode(i) PROVE Following'
  BY <1>13, ExplodeFollows
<1>14. CASE SFinishTick
  BY <1>14, FinishFollows
<1> QED
  BY <1>1, <1>2, <1>3, <1>4, <1>5, <1>6, <1>7, <1>8, <1>9, <1>10, <1>11, <1>12, <1>13, <1>14
     DEF SNext, ServerActs

(* However far behind, the client comes to the game as it is.              *)
THEOREM ClientFollows == SSpec => []Following
<1>1. SSpec => []TypeOK /\ []RoundInv /\ []BoardMatchesBombs
  <2>1. Spec => []RoundInv
    BY RoundInit, RoundStep, TypeCorrect, PTL DEF Spec
  <2> QED
    BY <2>1, SessionIsServer, TypeCorrect, BoardMatchesBombsHolds, PTL
<1>2. SSpec => []FlameFloor
  <2>1. SInit => FlameFloor
    BY FlameFloorInit DEF SInit
  <2> QED
    BY <1>1, <2>1, SessionStep, FlameFloorStep, PTL DEF SSpec
<1>3. TypeOK /\ TypeOK' /\ RoundInv /\ RoundInv' /\ BoardMatchesBombs /\ FlameFloor
        /\ Following /\ [SNext]_sessionState => Following'
  BY FollowingStep
<1> QED
  BY <1>1, <1>2, <1>3, FollowingInit, PTL DEF SSpec

LEMMA CaughtUpIsFaithful ==
  ASSUME Following
  PROVE  view \in Views /\ (CaughtUp => Faithful(view))
<1>1. PICK v \in Views : Leads(view, wire, v) /\ Faithful(v)
  BY DEF Following
<1>2. PICK vs \in [0..Len(wire) -> Views] : vs[0] = view /\ vs[Len(wire)] = v
  BY <1>1 DEF Leads
<1>3. Len(wire) \in Nat /\ (wire = << >> => Len(wire) = 0)
  BY LenProperties, EmptySeq DEF Following
<1> QED
  BY <1>1, <1>2, <1>3 DEF CaughtUp

(* A client that has a map and has caught up shows the status, who lives   *)
(* and who is ready, and the live players' places and kits.                *)
THEOREM ReplicaAgreesHolds == SSpec => []ReplicaAgrees
<1>1. Following => ReplicaAgrees
  BY CaughtUpIsFaithful DEF ReplicaAgrees, Faithful, ShowsPlayers, CaughtUp
<1> QED
  BY <1>1, ClientFollows, PTL

(* Its board is the server's but for bombs and flames.                     *)
THEOREM MapAgreesHolds == SSpec => []MapAgrees
<1>1. Following => MapAgrees
  BY CaughtUpIsFaithful DEF MapAgrees, Faithful, ShowsBoard, ShowsCell, CaughtUp
<1> QED
  BY <1>1, ClientFollows, PTL

(* No message stops a client that has been welcomed, and when it has       *)
(* caught up it knows whether a round is on and has its map.               *)
THEOREM WelcomedFollowsHolds == SSpec => []WelcomedFollows
<1>1. Following => WelcomedFollows
  BY CaughtUpIsFaithful DEF WelcomedFollows, Faithful, KnowsRound, CaughtUp, Views
<1> QED
  BY <1>1, ClientFollows, PTL
=============================================================================
