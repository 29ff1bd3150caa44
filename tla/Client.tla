------------------------------- MODULE Client -------------------------------
(***************************************************************************)
(* The client's copy of the game and what each message from the server     *)
(* does to it: client_handle_server_message of client/client_comms.c.      *)
(* Names and the log, which are only displayed, are left out, and with     *)
(* them the messages that touch nothing else (HELLO, WINNER, ERROR, PONG). *)
(***************************************************************************)
EXTENDS GameState

NoMap == [c \in {} |-> EMPTY]        \* state.map.cols = 0
HasMap(v) == v.cells # NoMap

(* ctx after memset and gs_init *)
InitialKit == [bomb_count |-> 1, bomb_radius |-> 1, bomb_timer |-> 60, speed |-> 3]
FreshView == [running |-> TRUE, welcome |-> FALSE, status |-> "LOBBY", cells |-> NoMap,
              flames |-> [c \in Cell |-> 0],      \* explosions
              pos |-> [s \in Slot |-> Origin], alive |-> {}, ready |-> {},
              kit |-> [s \in Slot |-> InitialKit]]

(* Messages about the board are dropped by a client that has no map yet. *)
Draw(v, c, cell) == IF HasMap(v) THEN [v EXCEPT !.cells[c] = cell] ELSE v

OnWelcome(v, m) ==
  [v EXCEPT !.welcome = TRUE, !.status = m.status,
            !.ready = (@ \ m.others) \cup m.ready]

OnStatus(v, m) == [v EXCEPT !.status = m.status]

OnReady(v, m) == [v EXCEPT !.ready = @ \cup {m.player}]

OnMap(v, m) == [v EXCEPT !.cells = m.cells]

(* Everybody's flags are cleared first; the rest waits for a map. *)
OnSync(v, m) ==
  LET w == [v EXCEPT !.status = m.status, !.alive = {}, !.ready = {}]
  IN  IF ~HasMap(v) THEN w
      ELSE [w EXCEPT !.alive = m.alive, !.ready = m.ready,
                     !.pos = [s \in Slot |-> IF s \in m.players THEN m.pos[s] ELSE @[s]],
                     !.kit = [s \in Slot |-> IF s \in m.players THEN m.kit[s] ELSE @[s]]]

OnMoved(v, m) == IF HasMap(v) THEN [v EXCEPT !.pos[m.player] = m.cell] ELSE v

OnBomb(v, m) == Draw(v, m.cell, BOMB)

(* There is no test for a map here: without one split_cell_index divides   *)
(* by zero, which on the build's targets ends the process.                 *)
OnExplosionStart(v, m) ==
  IF HasMap(v) THEN [v EXCEPT !.flames[m.cell] = m.radius]
  ELSE [v EXCEPT !.running = FALSE]

BadOnExplosionEnd(v, m) ==      \* the bomb is not wiped
  IF HasMap(v) THEN [v EXCEPT !.flames[m.cell] = 0] ELSE v
OnExplosionEnd(v, m) ==
  IF HasMap(v) THEN [v EXCEPT !.flames[m.cell] = 0, !.cells[m.cell] = EMPTY] ELSE v

OnDeath(v, m) == [v EXCEPT !.alive = @ \ {m.player}]

OnBonusAvailable(v, m) == Draw(v, m.cell, m.bonus)
BadOnBonusRetrieved(v, m) == v          \* left on display
OnBonusRetrieved(v, m) == Draw(v, m.cell, EMPTY)
OnBlockDestroyed(v, m) == Draw(v, m.cell, EMPTY)

BadOnLeave(v, m) == [v EXCEPT !.ready = @ \ {m.player}]      \* the leaver stays on display
OnLeave(v, m) == [v EXCEPT !.alive = @ \ {m.player}, !.ready = @ \ {m.player}]

Handled(v, m) ==
  CASE m.type = "WELCOME"         -> OnWelcome(v, m)
    [] m.type = "SET_STATUS"      -> OnStatus(v, m)
    [] m.type = "SET_READY"       -> OnReady(v, m)
    [] m.type = "MAP"             -> OnMap(v, m)
    [] m.type = "SYNC_BOARD"      -> OnSync(v, m)
    [] m.type = "MOVED"           -> OnMoved(v, m)
    [] m.type = "BOMB"            -> OnBomb(v, m)
    [] m.type = "EXPLOSION_START" -> OnExplosionStart(v, m)
    [] m.type = "EXPLOSION_END"   -> OnExplosionEnd(v, m)
    [] m.type = "DEATH"           -> OnDeath(v, m)
    [] m.type = "BONUS_AVAILABLE" -> OnBonusAvailable(v, m)
    [] m.type = "BONUS_RETRIEVED" -> OnBonusRetrieved(v, m)
    [] m.type = "BLOCK_DESTROYED" -> OnBlockDestroyed(v, m)
    [] m.type = "LEAVE"           -> OnLeave(v, m)
=============================================================================
