------------------------------- MODULE MCWire -------------------------------
(* What a client sends and what the server sends, with strings of at most  *)
(* two and one characters, and indices that use both of their bytes.       *)
EXTENDS Wire, MCPayload

From(from, to, type, head, items) ==
  [from |-> from, to |-> to, type |-> type, head |-> head, items |-> items]
ToServer(type, head) == From(1, 255, type, head, << >>)
ToClient(type, head, items) == From(255, 254, type, head, items)

FromOneClient ==
  { ToServer("HELLO", [client_id |-> <<98, 109>>, player_name |-> <<97>>]),
    ToServer("SET_READY", << >>), ToServer("MOVE_ATTEMPT", [direction |-> 3]),
    ToServer("BOMB_ATTEMPT", [cell_index |-> 259]), ToServer("SET_STATUS", [status |-> 0]),
    ToServer("PING", << >>), ToServer("LEAVE", << >>) }

Player(id) == [id |-> id, lives |-> 1, cell_index |-> 258, alive |-> TRUE, ready |-> FALSE,
               bomb_count |-> 1, bomb_radius |-> 2, bomb_timer_ticks |-> 300, speed |-> 3]
Listed(id) == [id |-> id, ready |-> TRUE, name |-> <<97>>]

FromOneServer ==
  { ToClient("WELCOME", [server_id |-> <<98>>, game_status |-> 1, player_count |-> 0], << >>),
    ToClient("WELCOME", [server_id |-> <<98, 109>>, game_status |-> 0, player_count |-> 2],
             <<Listed(1), Listed(2)>>),
    ToClient("MAP", [rows |-> 1, cols |-> 3], <<[cell |-> 46], [cell |-> 72], [cell |-> 83]>>),
    ToClient("SYNC_BOARD", [status |-> 1, player_count |-> 1], <<Player(2)>>),
    ToClient("ERROR", [len |-> 2], <<[char |-> 110], [char |-> 111]>>),
    ToClient("MOVED", [player_id |-> 2, cell_index |-> 258], << >>),
    ToClient("EXPLOSION_END", [cell_index |-> 513], << >>),
    ToClient("DISCONNECT", << >>, << >>) }

(* A type nobody has, a WELCOME of too many players and a MAP of no cells. *)
FromElsewhere == { <<99, 1, 255>>, <<1, 1, 255, 98, 109, 0, 9>>, <<7, 1, 255, 0, 3>> }
=============================================================================
