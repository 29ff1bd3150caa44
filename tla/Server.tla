------------------------------- MODULE Server -------------------------------
(***************************************************************************)
(* The game server: the connection table and select loop of                *)
(* server/server.c, the message handlers of server/client_handler.c, the   *)
(* clock of server/game_loop.c and the explosions of server/bomb_logic.c.  *)
(*                                                                         *)
(* The server is one thread.  Every pass of its loop polls the sockets,    *)
(* accepts at most one connection, takes at most one message from each     *)
(* readable client in slot order, and then runs server_tick whether or not *)
(* anything arrived.  phase, unserved and scan say where in that pass the  *)
(* server is, so that actions occur in the orders the loop allows and in   *)
(* no other.  What the clients send is chosen freely.  Messages the server *)
(* sends carry no state back into it; Session adds them.                   *)
(*                                                                         *)
(* A definition whose name starts with Bad is a faulty variant of the one  *)
(* after it; the model does not use it, and some property fails with it.   *)
(***************************************************************************)
EXTENDS GameState

CONSTANT Names          \* the names clients announce; NoName may be among them
ASSUME NamesAssumption == Names \subseteq STRING

NoName == ""            \* client->name before HELLO

VARIABLES
  status,               \* state.status
  cells,                \* state.map.cells
  bombs,                \* state.bombs
  explosions,           \* explosions, the flames still on display
  active,               \* the slots with clients[i].active
  name,                 \* clients[i].name
  pos,                  \* players[i].row and .col
  alive, ready,         \* the slots whose player has that flag
  lives,                \* players[i].lives
  kit,                  \* players[i].bomb_count, bomb_radius, bomb_timer_ticks, speed
  phase,                \* "poll", "serve" or "explode": the part of the loop that is next
  unserved,             \* slots polled in this pass that the client loop has not passed
  scan                  \* where the bomb loop of server_tick continues

boardVars   == <<cells, bombs, explosions>>
sessionVars == <<active, name>>
playerVars  == <<pos, alive, ready, lives, kit>>
loopVars    == <<phase, unserved, scan>>
vars == <<status, boardVars, sessionVars, playerVars, loopVars>>

TypeOK ==
  /\ status \in Statuses
  /\ cells \in [Cell -> CellType]
  /\ bombs \in [BombSlot -> Bomb]
  /\ explosions \in [BombSlot -> Explosion]
  /\ active \subseteq Slot
  /\ name \in [Slot -> Names \cup {NoName}]
  /\ pos \in [Slot -> Cell]
  /\ alive \subseteq Slot /\ ready \subseteq Slot
  /\ lives \in [Slot -> {0, 1}]
  /\ kit \in [Slot -> Kit]
  /\ phase \in {"poll", "serve", "explode"}
  /\ unserved \subseteq active
  /\ scan \in 1..MaxBombs + 1

(* server_init_context and server_load_map *)
Init ==
  /\ status = "LOBBY"
  /\ cells = InitialCells
  /\ bombs = [i \in BombSlot |-> NoBomb]
  /\ explosions = [i \in BombSlot |-> NoExplosion]
  /\ active = {}
  /\ name = [s \in Slot |-> NoName]
  /\ pos = [s \in Slot |-> IF s \in DOMAIN SpawnOf THEN SpawnOf[s] ELSE Origin]
  /\ alive = {} /\ ready = {}
  /\ lives = [s \in Slot |-> 0]
  /\ kit = [s \in Slot |-> DefaultKit]
  /\ phase = "poll" /\ unserved = {} /\ scan = 1

-----------------------------------------------------------------------------
(* Connections *)

(* assign_spawn.  A slot the map gives no spawn takes the first walkable   *)
(* cell that no seated player stands on; its own last position counts,     *)
(* because the slot is already marked active.                              *)
AssignSpawn(slot, seat) ==
  LET free == {c \in Cell : Walkable(cells[c]) /\ \A p \in active \cup {slot} : pos[p] # c}
  IN  \/ slot \in DOMAIN SpawnOf /\ seat = SpawnOf[slot]
      \/ slot \notin DOMAIN SpawnOf /\ free = {} /\ seat = Origin
      \/ /\ slot \notin DOMAIN SpawnOf
         /\ seat \in free /\ \A c \in free \ {seat} : ScannedBefore(seat, c)

(* accept_connection with a free slot.  The new socket was not polled, so  *)
(* its first message waits for the next pass.                              *)
Accept(slot, seat) ==
  /\ phase = "poll"
  /\ IsFirst(slot, Slot \ active)
  /\ AssignSpawn(slot, seat)
  /\ active' = active \cup {slot}
  /\ name' = [name EXCEPT ![slot] = NoName]
  /\ pos' = [pos EXCEPT ![slot] = seat]
  /\ alive' = alive \ {slot} /\ ready' = ready \ {slot}
  /\ lives' = [lives EXCEPT ![slot] = 0]
  /\ kit' = [kit EXCEPT ![slot] = DefaultKit]
  /\ phase' = "serve"
  /\ UNCHANGED <<status, boardVars, unserved, scan>>

(* accept_connection without one: DISCONNECT and close *)
Refuse ==
  /\ phase = "poll"
  /\ active = Slot
  /\ phase' = "serve"
  /\ UNCHANGED <<status, boardVars, sessionVars, playerVars, unserved, scan>>

(* The client loop reaches c, whose socket was readable, and takes one message. *)
Serve(c) ==
  /\ phase \in {"poll", "serve"}
  /\ c \in unserved
  /\ phase' = "serve"
  /\ UNCHANGED scan

Passed(c) == {d \in unserved : d > c}

BadDisconnect(c) ==         \* lives are left standing
  /\ active' = active \ {c}
  /\ unserved' = Passed(c)
  /\ name' = [name EXCEPT ![c] = NoName]
  /\ alive' = alive \ {c} /\ ready' = ready \ {c}
  /\ UNCHANGED <<status, boardVars, pos, kit, lives>>

(* server_disconnect_client: MSG_LEAVE, a socket that fails or closes, a   *)
(* payload that cannot be read.  Bombs the player left stay on the board.  *)
Disconnect(c) ==
  /\ active' = active \ {c}
  /\ unserved' = Passed(c)
  /\ name' = [name EXCEPT ![c] = NoName]
  /\ alive' = alive \ {c} /\ ready' = ready \ {c}
  /\ lives' = [lives EXCEPT ![c] = 0]
  /\ UNCHANGED <<status, boardVars, pos, kit>>

Leave(c) == Serve(c) /\ Disconnect(c)

-----------------------------------------------------------------------------
(* Message handlers.  A message the handler refuses with MSG_ERROR, and    *)
(* PING, PONG and SYNC_REQUEST, only take up the client's turn.            *)

NoEffect(c) ==
  /\ Serve(c)
  /\ unserved' = Passed(c)
  /\ UNCHANGED <<status, boardVars, sessionVars, playerVars>>

BadNameTaken(c, n) == \E d \in active : d < c /\ name[d] = n      \* earlier slots only
NameTaken(c, n) == \E d \in active \ {c} : name[d] = n

(* handle_hello: a name somebody uses costs the connection. *)
Hello(c, n) ==
  /\ Serve(c)
  /\ \/ NameTaken(c, n) /\ Disconnect(c)
     \/ /\ ~NameTaken(c, n)
        /\ name' = [name EXCEPT ![c] = n]
        /\ unserved' = Passed(c)
        /\ UNCHANGED <<status, boardVars, active, playerVars>>

BadCanStart == Cardinality(active) >= 2 /\ active \subseteq ready'      \* in any status
BadEarlyCanStart ==                       \* asked before the flag is set
  status = "LOBBY" /\ Cardinality(active) >= 2 /\ active \subseteq ready

(* maybe_start_game, with ready already updated *)
CanStart ==
  /\ status = "LOBBY"
  /\ Cardinality(active) >= 2
  /\ active \subseteq ready'

(* handle_set_ready: accepted in every status *)
SetReady(c) ==
  /\ Serve(c)
  /\ unserved' = Passed(c)
  /\ ready' = ready \cup {c}
  /\ \/ /\ CanStart
        /\ status' = "RUNNING"
        /\ alive' = alive \cup active
        /\ lives' = [s \in Slot |-> IF s \in active THEN 1 ELSE lives[s]]
     \/ ~CanStart /\ UNCHANGED <<status, alive, lives>>
  /\ UNCHANGED <<boardVars, sessionVars, pos, kit>>

BombAt(c) == \E i \in BombSlot : bombs[i].owner # 0 /\ bombs[i].pos = c

(* server_cell_blocked and occupied_by_other_player *)
Blocked(p, c) ==
  \/ ~Walkable(cells[c])
  \/ BombAt(c)
  \/ \E q \in (active \cap alive) \ {p} : pos[q] = c

(* handle_move_attempt, with the bonus collected on arrival *)
MoveAttempt(c, dir) ==
  LET target == Along(pos[c], dir, 1)
  IN  /\ Serve(c)
      /\ unserved' = Passed(c)
      /\ status = "RUNNING" /\ c \in alive
      /\ target \in Cell /\ ~Blocked(c, target)
      /\ pos' = [pos EXCEPT ![c] = target]
      /\ \/ /\ cells[target] \in Bonuses
            /\ kit' = [kit EXCEPT ![c] = Collect(@, cells[target])]
            /\ cells' = [cells EXCEPT ![target] = EMPTY]
         \/ cells[target] \notin Bonuses /\ UNCHANGED <<kit, cells>>
      /\ UNCHANGED <<status, bombs, explosions, sessionVars, alive, ready, lives>>

FreeBombSlots == {i \in BombSlot : bombs[i].owner = 0}

(* gs_add_bomb *)
AddBomb(bomb) ==
  \E i \in BombSlot : IsFirst(i, FreeBombSlots) /\ bombs' = [bombs EXCEPT ![i] = bomb]

BombOf(c) == [owner |-> c, pos |-> pos[c],
              radius |-> kit[c].bomb_radius, timer |-> kit[c].bomb_timer]

BadPlaceBomb(c) ==          \* the full pool goes unnoticed
  \/ AddBomb(BombOf(c))
  \/ FreeBombSlots = {} /\ UNCHANGED bombs
PlaceBomb(c) == AddBomb(BombOf(c))

BadSpendBomb(c) == UNCHANGED kit
SpendBomb(c) == kit' = [kit EXCEPT ![c].bomb_count = @ - 1]

(* handle_bomb_attempt; claimed is the cell the client believes it is on *)
BombAttempt(c, claimed) ==
  /\ Serve(c)
  /\ unserved' = Passed(c)
  /\ status = "RUNNING" /\ c \in alive
  /\ claimed = pos[c]
  /\ kit[c].bomb_count > 0
  /\ ~BombAt(pos[c])
  /\ PlaceBomb(c)
  /\ cells' = [cells EXCEPT ![pos[c]] = BOMB]
  /\ SpendBomb(c)
  /\ UNCHANGED <<status, explosions, sessionVars, pos, alive, ready, lives>>

(* server_reset_round, the board and the players in turn *)
BadResetBoard ==            \* the bombs of the last round stay
  /\ cells' = InitialCells
  /\ explosions' = [i \in BombSlot |-> NoExplosion]
  /\ UNCHANGED bombs
ResetBoard ==
  /\ cells' = InitialCells
  /\ bombs' = [i \in BombSlot |-> NoBomb]
  /\ explosions' = [i \in BombSlot |-> NoExplosion]

BadResetKits == UNCHANGED kit
ResetKits == kit' = [s \in Slot |-> DefaultKit]

BadResetPositions == UNCHANGED pos
ResetPositions == pos' = [s \in Slot |-> IF s \in DOMAIN SpawnOf THEN SpawnOf[s] ELSE pos[s]]

(* handle_set_status: the way from END back to LOBBY *)
ReturnToLobby(c) ==
  /\ Serve(c)
  /\ unserved' = Passed(c)
  /\ status = "END"
  /\ status' = "LOBBY"
  /\ ResetBoard
  /\ ResetPositions
  /\ ResetKits
  /\ alive' = {} /\ ready' = {}
  /\ lives' = [s \in Slot |-> 0]
  /\ UNCHANGED sessionVars

-----------------------------------------------------------------------------
(* server_tick *)

BadAged(e) == IF status # "RUNNING" THEN e       \* the early return comes first
              ELSE IF e.remaining <= 1 THEN NoExplosion
              ELSE [e EXCEPT !.remaining = @ - 1]
(* process_explosion_timers *)
Aged(e) == IF e.remaining <= 1 THEN NoExplosion ELSE [e EXCEPT !.remaining = @ - 1]

BadFusesBurn == status = "RUNNING" /\ Cardinality(active) >= 2
FusesBurn == status = "RUNNING"

(* Flames age in every status; fuses burn only while the game runs. *)
Tick ==
  /\ phase \in {"poll", "serve"}
  /\ explosions' = [i \in BombSlot |-> Aged(explosions[i])]
  /\ \/ /\ FusesBurn
        /\ bombs' = [i \in BombSlot |->
              IF bombs[i].timer = 0 THEN bombs[i]
              ELSE [bombs[i] EXCEPT !.timer = @ - 1]]
        /\ phase' = "explode" /\ unserved' = {} /\ scan' = 1
     \/ /\ ~FusesBurn
        /\ phase' = "poll" /\ unserved' = active
        /\ UNCHANGED <<bombs, scan>>
  /\ UNCHANGED <<status, cells, sessionVars, playerVars>>

Due == {i \in BombSlot : bombs[i].owner # 0 /\ bombs[i].timer = 0}

(* The for loop goes on upwards from scan; the enclosing do-while starts   *)
(* it again from the first entry as long as a pass found something due.    *)
NextDue(i) ==
  LET ahead == {j \in Due : j >= scan}
  IN  IF ahead # {} THEN IsFirst(i, ahead) ELSE IsFirst(i, Due)

(* schedule_explosion_end: without a free entry the flame is not remembered. *)
ScheduleEnd(at) ==
  LET idle == {e \in BombSlot : explosions[e].remaining = 0}
  IN  \/ /\ ExplosionDuration > 0
         /\ \E e \in BombSlot :
              /\ IsFirst(e, idle)
              /\ explosions' = [explosions EXCEPT ![e] =
                     [pos |-> at, remaining |-> ExplosionDuration]]
      \/ (ExplosionDuration = 0 \/ idle = {}) /\ UNCHANGED explosions

BadBombsAfter(i, blast) ==  \* gs_clear_bomb is forgotten
  [j \in BombSlot |->
     IF bombs[j].owner # 0 /\ bombs[j].pos \in blast
     THEN [bombs[j] EXCEPT !.timer = 0] ELSE bombs[j]]

(* chain_bombs_on_cell over the blast, then gs_clear_bomb *)
BombsAfter(i, blast) ==
  [j \in BombSlot |->
     IF j = i THEN NoBomb
     ELSE IF bombs[j].owner # 0 /\ bombs[j].pos \in blast
          THEN [bombs[j] EXCEPT !.timer = 0] ELSE bombs[j]]

(* server_process_bomb_explosion: loot is what maybe_spawn_bonus leaves    *)
(* behind each soft block that burns.                                      *)
Explode(i) ==
  LET bomb   == bombs[i]
      blast  == BlastCells(cells, bomb.pos, bomb.radius)
      burnt  == {c \in blast : cells[c] = SOFT}
      killed == {p \in active \cap alive : pos[p] \in blast}
  IN  /\ phase = "explode"
      /\ NextDue(i)
      /\ scan' = i + 1
      /\ \E loot \in [burnt -> {EMPTY} \cup Bonuses] :
            cells' = [c \in Cell |-> IF c = bomb.pos THEN EMPTY
                                     ELSE IF c \in burnt THEN loot[c] ELSE cells[c]]
      /\ bombs' = BombsAfter(i, blast)
      /\ alive' = alive \ killed
      /\ lives' = [p \in Slot |-> IF p \in killed THEN 0 ELSE lives[p]]
      /\ kit' = [kit EXCEPT ![bomb.owner].bomb_count = IF @ < 200 THEN @ + 1 ELSE @]
      /\ ScheduleEnd(bomb.pos)
      /\ UNCHANGED <<status, sessionVars, pos, ready, phase, unserved>>

BadNothingDue == {j \in Due : j >= scan} = {}     \* one pass, not do-while
NothingDue == Due = {}

BadDrawDecided == Cardinality(active \cap alive) = 1 /\ Cardinality(active) >= 2
Decided        == Cardinality(active \cap alive) <= 1 /\ Cardinality(active) >= 2

(* No bomb is due any more: maybe_finish_round, and back to the poll. *)
FinishTick ==
  /\ phase = "explode"
  /\ NothingDue
  /\ status' = IF Decided THEN "END" ELSE status
  /\ phase' = "poll" /\ unserved' = active /\ scan' = 1
  /\ UNCHANGED <<boardVars, sessionVars, playerVars>>

-----------------------------------------------------------------------------

Connect == Refuse \/ \E slot \in Slot, seat \in Cell : Accept(slot, seat)

Receive == \E c \in Slot :
  \/ NoEffect(c)
  \/ Leave(c)
  \/ \E n \in Names : Hello(c, n)
  \/ SetReady(c)
  \/ \E dir \in Directions : MoveAttempt(c, dir)
  \/ \E claimed \in Cell : BombAttempt(c, claimed)
  \/ ReturnToLobby(c)

Clock == Tick \/ (\E i \in BombSlot : Explode(i)) \/ FinishTick

Next == Connect \/ Receive \/ Clock

Spec == Init /\ [][Next]_vars

(* select returns within a tick's time, and each pass serves each client   *)
(* at most once: the clock goes on whatever the clients do or do not send. *)
FairSpec == Spec /\ WF_vars(Clock)

-----------------------------------------------------------------------------
(* Safety *)

Owned(p) == {i \in BombSlot : bombs[i].owner = p}

(* A player is alive only on a live connection and only in a round, and    *)
(* lives, which is sent to the clients next to it, says the same.  Six     *)
(* handlers write these fields (start, accept, disconnect, death, reset).  *)
LiveOnlyInRound ==
  /\ alive \subseteq active
  /\ status = "LOBBY" => alive = {}
  /\ \A p \in Slot : lives[p] = 1 <=> p \in alive

(* The map and the bomb pool agree: a bomb in the pool shows as CELL_BOMB, *)
(* no two share a cell, and a CELL_BOMB the map file did not draw has its  *)
(* bomb.  Chain reactions, pickups and the reset all touch both.           *)
BoardMatchesBombs ==
  /\ \A i \in BombSlot : bombs[i].owner # 0 => cells[bombs[i].pos] = BOMB
  /\ \A i, j \in BombSlot :
        bombs[i].owner # 0 /\ bombs[j].owner # 0 /\ bombs[i].pos = bombs[j].pos => i = j
  /\ \A c \in Cell : cells[c] = BOMB => BombAt(c) \/ InitialCells[c] = BOMB

(* A live player's one bomb is either in hand or on the board, and nobody, *)
(* not even a slot whose player left and was replaced, has two burning.    *)
OneBombEach ==
  /\ \A p \in alive : \/ kit[p].bomb_count = 1 /\ Owned(p) = {}
                      \/ kit[p].bomb_count = 0 /\ Owned(p) # {}
  /\ \A p \in Slot : \A i, j \in Owned(p) : i = j

(* On maps that give every slot a spawn, live players stand on cells of    *)
(* their own and never inside a wall, through blasts that open walls, the  *)
(* reset that raises them again, and joins in the middle of a round.       *)
LiveStandApart ==
  DOMAIN SpawnOf = Slot =>
    \A p \in alive : /\ cells[pos[p]] \notin {HARD, SOFT}
                     /\ \A q \in alive : pos[p] = pos[q] => p = q

(* With as many pool entries as players, a live player who has a bomb in   *)
(* hand finds room for it: "bomb storage full" is never the answer.        *)
RoomForBomb ==
  MaxBombs >= MaxPlayers =>
    \A p \in alive : kit[p].bomb_count > 0 => FreeBombSlots # {}

(* A finished round left at most one survivor, the one WINNER names. *)
AtMostOneSurvivor == status = "END" => Cardinality(alive) <= 1

(* Whenever the server polls in a running round, every chain reaction has  *)
(* been carried through and the round is still contested, unless fewer     *)
(* than two clients are left to contest it.                                *)
SettledAtPoll ==
  phase = "poll" /\ status = "RUNNING" =>
    /\ Due = {}
    /\ Cardinality(alive) >= 2 \/ Cardinality(active) < 2

(* No two clients go by the same name, through renames and reconnections. *)
NamesUnique ==
  \A p, q \in active : p # q /\ name[p] = name[q] => name[p] = NoName

(* The start of a round is tried only when somebody says ready, so two or  *)
(* more who have all agreed can sit in a lobby that does not start.  They  *)
(* get there in one way: whoever they waited for has left.  No join, reset *)
(* or late SET_READY, and no flag a former owner of a slot left, leads     *)
(* there.                                                                  *)
Agreed == status = "LOBBY" /\ Cardinality(active) >= 2 /\ active \subseteq ready
UnstartedOnlyByLeaving ==
  [][Agreed' /\ ~Agreed => active' \subseteq active /\ active' # active]_vars

(* The server runs rounds the way Round promises: a round starts with all  *)
(* who are seated and agreed, nobody enters it or revives while it lasts,  *)
(* and it ends only when it is decided.                                    *)
R == INSTANCE Round WITH Player <- Slot, stage <- status, seated <- active,
                         willing <- ready, inGame <- alive
RefinesRound == R!Spec

-----------------------------------------------------------------------------
(* Liveness *)

(* A bomb that burns in a running round goes off or the round ends first. *)
EveryBombGoesOff ==
  \A i \in BombSlot :
    (status = "RUNNING" /\ bombs[i].owner # 0) ~> (bombs[i].owner = 0 \/ status = "END")

(* Every flame on display is taken down, also after the round has ended. *)
EveryFlameDies ==
  \A e \in BombSlot : (explosions[e].remaining > 0) ~> (explosions[e].remaining = 0)

(* The do-while loop of server_tick comes to an end, whatever it sets off. *)
TickEnds == (phase = "explode") ~> (phase = "poll")

(* A round nobody contests any more is ended by the clock. *)
RoundIsDecided ==
  (status = "RUNNING" /\ Cardinality(alive) <= 1 /\ Cardinality(active) >= 2)
    ~> (status # "RUNNING" \/ Cardinality(active) < 2)
=============================================================================
