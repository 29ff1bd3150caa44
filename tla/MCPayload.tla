----------------------------- MODULE MCPayload -----------------------------
(* Every type, with fields at the limits of their width, strings that are  *)
(* empty, short and full, and as many items as a message may have and one  *)
(* more.                                                                   *)
EXTENDS Payload

Octets == {0, 7, 255}
Words == {0, 255, 256, 65535}
Ids   == {<< >>, <<98>>, <<98, 109>>}
Strs  == {<< >>, <<97>>}

Plain(type, heads) == {[type |-> type, head |-> h, items |-> << >>] : h \in heads}
With(type, head, items) == [type |-> type, head |-> head, items |-> items]

Summary(i, name) == [id |-> i, ready |-> i = 1, name |-> name]
Standing(i, w) ==
  [id |-> i, lives |-> 3, cell_index |-> w, alive |-> i = 1, ready |-> i # 1, bomb_count |-> 4,
   bomb_radius |-> 255, bomb_timer_ticks |-> 65535 - w, speed |-> w \div 2]

Fixed ==
  UNION {
    Plain("HELLO", [client_id : Ids, player_name : Strs]),
    UNION {Plain(t, {<< >>}) : t \in {"DISCONNECT", "PING", "PONG", "LEAVE", "SET_READY",
                                      "SYNC_REQUEST"}},
    Plain("SET_STATUS", [status : Octets]), Plain("MOVE_ATTEMPT", [direction : Octets]),
    Plain("DEATH", [player_id : Octets]), Plain("WINNER", [winner_id : Octets]),
    UNION {Plain(t, [cell_index : Words]) : t \in {"BOMB_ATTEMPT", "EXPLOSION_END",
                                                   "BLOCK_DESTROYED"}},
    UNION {Plain(t, [player_id : Octets, cell_index : Words]) : t \in {"MOVED", "BOMB",
                                                                      "BONUS_RETRIEVED"}},
    Plain("EXPLOSION_START", [radius : Octets, cell_index : Words]),
    Plain("BONUS_AVAILABLE", [bonus_type : Octets, cell_index : Words])}

Welcomes ==
  {With("WELCOME", [server_id |-> s, game_status |-> 1, player_count |-> n],
        [i \in 1..n |-> Summary(i, name)]) : s \in Ids, n \in 0..3, name \in Strs}
Syncs ==
  {With("SYNC_BOARD", [status |-> 2, player_count |-> n], [i \in 1..n |-> Standing(i, w)]) :
     n \in 0..3, w \in Words}
Errors ==
  {With("ERROR", [len |-> n], [i \in 1..n |-> [char |-> 109 + i]]) : n \in 0..3}
    \cup {With("ERROR", [len |-> 0], <<[char |-> 110]>>)}
Maps ==
  {With("MAP", [rows |-> r, cols |-> c], [i \in 1..(r * c) |-> [cell |-> 46]]) :
     r \in 0..3, c \in 0..3}

AllMessages == Fixed \cup Welcomes \cup Syncs \cup Errors \cup Maps
=============================================================================
