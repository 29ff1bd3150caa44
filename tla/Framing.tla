------------------------------ MODULE Framing ------------------------------
(***************************************************************************)
(* How many bytes the reading side takes for a message: the tables of      *)
(* common/src/protocol.c and the bodies of sock_recv_payload_by_type in    *)
(* common/src/socket_io.c.  They repeat the layouts of the encoders in     *)
(* numbers of their own, and that they agree is what keeps a stream in     *)
(* step.                                                                   *)
(***************************************************************************)
EXTENDS Codec

CONSTANT MaxPayload            \* the buffer of both readers, 65536 bytes

VariablePayload == {"WELCOME", "ERROR", "MAP", "SYNC_BOARD"}

BadFixedSize(t) ==                        \* an index of a cell taken for a byte
  CASE t = "HELLO" -> MaxIdLen + MaxNameLen
    [] t \in {"DISCONNECT", "PING", "PONG", "LEAVE", "SET_READY", "SYNC_REQUEST"} -> 0
    [] t \in {"SET_STATUS", "MOVE_ATTEMPT", "DEATH", "WINNER"} -> 1
    [] t \in {"BOMB_ATTEMPT", "EXPLOSION_END", "BLOCK_DESTROYED"} -> 1
    [] t \in {"MOVED", "BOMB", "EXPLOSION_START", "BONUS_AVAILABLE", "BONUS_RETRIEVED"} -> 3
FixedSize(t) ==
  CASE t = "HELLO" -> MaxIdLen + MaxNameLen
    [] t \in {"DISCONNECT", "PING", "PONG", "LEAVE", "SET_READY", "SYNC_REQUEST"} -> 0
    [] t \in {"SET_STATUS", "MOVE_ATTEMPT", "DEATH", "WINNER"} -> 1
    [] t \in {"BOMB_ATTEMPT", "EXPLOSION_END", "BLOCK_DESTROYED"} -> 2
    [] t \in {"MOVED", "BOMB", "EXPLOSION_START", "BONUS_AVAILABLE", "BONUS_RETRIEVED"} -> 3

KnownFixed == MsgTypes \ VariablePayload       \* the others have SIZE_MAX

(* What is read first, and how much more that announces. *)
BaseLen(t) == IF t = "WELCOME" THEN MaxIdLen + 1 + 1 ELSE 2
BadExtraLen(t, base) ==                   \* the count taken from the byte before
  CASE t = "WELCOME"    -> base[MaxIdLen + 1] * (1 + 1 + MaxNameLen)
    [] t = "MAP"        -> base[1] * base[2]
    [] t = "ERROR"      -> base[1] * 256 + base[2]
    [] t = "SYNC_BOARD" -> base[2] * 12
ExtraLen(t, base) ==
  CASE t = "WELCOME"    -> base[MaxIdLen + 2] * (1 + 1 + MaxNameLen)
    [] t = "MAP"        -> base[1] * base[2]
    [] t = "ERROR"      -> base[1] * 256 + base[2]
    [] t = "SYNC_BOARD" -> base[2] * 12

ExtraOK(t, base) ==
  /\ BaseLen(t) + ExtraLen(t, base) <= MaxPayload
  /\ CASE t = "WELCOME"    -> base[MaxIdLen + 2] <= MaxPlayers
       [] t = "MAP"        -> ExtraLen(t, base) \in 1..MaxMapCells
       [] t = "ERROR"      -> ExtraLen(t, base) <= MaxErrorLen
       [] t = "SYNC_BOARD" -> base[2] <= MaxPlayers

(* sock_send_message: the header, then the payload. *)
Frame(h, m) == WriteHeader(h) \o Encode(m)
=============================================================================
