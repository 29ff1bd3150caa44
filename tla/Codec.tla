------------------------------- MODULE Codec -------------------------------
(***************************************************************************)
(* common/src/serialization.c: what the encoders put into a payload and    *)
(* what the decoders make of one.  A layout lists the fields as the        *)
(* encoder puts them and as the decoder gets them, which are two functions *)
(* in the code, with the length the decoder insists on.  A message has a   *)
(* head and, for the types of variable length, items the head counts.      *)
(* A string is a sequence of character codes without its NUL.              *)
(***************************************************************************)
EXTENDS Naturals, Sequences, SequencesExt

CONSTANTS MaxIdLen, MaxNameLen, MaxErrorLen, MaxPlayers, MaxMapCells

HeaderSize == 3

Code == [HELLO |-> 0, WELCOME |-> 1, DISCONNECT |-> 2, PING |-> 3, PONG |-> 4, LEAVE |-> 5,
         ERROR |-> 6, MAP |-> 7, SET_READY |-> 10, SET_STATUS |-> 20, WINNER |-> 23,
         MOVE_ATTEMPT |-> 30, BOMB_ATTEMPT |-> 31, MOVED |-> 40, BOMB |-> 41,
         EXPLOSION_START |-> 42, EXPLOSION_END |-> 43, DEATH |-> 44, BONUS_AVAILABLE |-> 45,
         BONUS_RETRIEVED |-> 46, BLOCK_DESTROYED |-> 47, SYNC_BOARD |-> 100,
         SYNC_REQUEST |-> 101]
MsgTypes == DOMAIN Code
TypeOf(code) == IF \E t \in MsgTypes : Code[t] = code
                THEN CHOOSE t \in MsgTypes : Code[t] = code ELSE "UNKNOWN"
-----------------------------------------------------------------------------
(* Fields. *)
U8(f)   == [field |-> f, kind |-> "u8"]
U16(f)  == [field |-> f, kind |-> "u16"]
Flag(f) == [field |-> f, kind |-> "bool"]
Id(f)   == [field |-> f, kind |-> "id"]
Name(f) == [field |-> f, kind |-> "name"]

Width(k) == [u8 |-> 1, u16 |-> 2, bool |-> 1, id |-> MaxIdLen, name |-> MaxNameLen][k]

WriteU16(v) == <<v \div 256, v % 256>>
ReadU16(b)  == b[1] * 256 + b[2]

(* Padded with NULs; a string that fills its field goes without one. *)
WriteFixedString(s, len) == [i \in 1..len |-> IF i <= Len(s) THEN s[i] ELSE 0]
ReadFixedString(b) ==
  LET used == {0} \cup {i \in DOMAIN b : b[i] # 0} IN SubSeq(b, 1, Max(used))

WriteField(k, v) ==
  CASE k = "u8"   -> <<v>>
    [] k = "u16"  -> WriteU16(v)
    [] k = "bool" -> <<IF v THEN 1 ELSE 0>>
    [] OTHER      -> WriteFixedString(v, Width(k))

ReadField(k, b) ==
  CASE k = "u8"   -> b[1]
    [] k = "u16"  -> ReadU16(b)
    [] k = "bool" -> b[1] # 0
    [] OTHER      -> ReadFixedString(b)

Put(fields, rec) ==
  FlattenSeq([i \in DOMAIN fields |-> WriteField(fields[i].kind, rec[fields[i].field])])

Offset(fields, i) ==
  LET start[k \in DOMAIN fields] == IF k = 1 THEN 0 ELSE start[k - 1] + Width(fields[k - 1].kind)
  IN  start[i]
Get(fields, b) ==
  [f \in {fields[i].field : i \in DOMAIN fields} |->
     LET i  == CHOOSE j \in DOMAIN fields : fields[j].field = f
         at == Offset(fields, i)
     IN  ReadField(fields[i].kind, SubSeq(b, at + 1, at + Width(fields[i].kind)))]
-----------------------------------------------------------------------------
(* The layouts, one definition for an encoder and its decoder. *)
Empty == [put |-> << >>, get |-> << >>, len |-> 0]
Hello == [put |-> <<Id("client_id"), Name("player_name")>>,
          get |-> <<Id("client_id"), Name("player_name")>>, len |-> MaxIdLen + MaxNameLen]

Welcome == [put |-> <<Id("server_id"), U8("game_status"), U8("player_count")>>,
            get |-> <<Id("server_id"), U8("game_status"), U8("player_count")>>,
            len |-> MaxIdLen + 2]
WelcomePlayer == [put |-> <<U8("id"), Flag("ready"), Name("name")>>,
                  get |-> <<U8("id"), Flag("ready"), Name("name")>>, len |-> 2 + MaxNameLen]

SetStatus      == [put |-> <<U8("status")>>, get |-> <<U8("status")>>, len |-> 1]
MoveAttempt    == [put |-> <<U8("direction")>>, get |-> <<U8("direction")>>, len |-> 1]
Moved          == [put |-> <<U8("player_id"), U16("cell_index")>>,
                   get |-> <<U8("player_id"), U16("cell_index")>>, len |-> 3]
BombAttempt    == [put |-> <<U16("cell_index")>>, get |-> <<U16("cell_index")>>, len |-> 2]
BombPlaced     == [put |-> <<U8("player_id"), U16("cell_index")>>,
                   get |-> <<U8("player_id"), U16("cell_index")>>, len |-> 3]
ExplosionStart == [put |-> <<U8("radius"), U16("cell_index")>>,
                   get |-> <<U8("radius"), U16("cell_index")>>, len |-> 3]
ExplosionEnd   == [put |-> <<U16("cell_index")>>, get |-> <<U16("cell_index")>>, len |-> 2]
Death          == [put |-> <<U8("player_id")>>, get |-> <<U8("player_id")>>, len |-> 1]
BonusAvailable == [put |-> <<U8("bonus_type"), U16("cell_index")>>,
                   get |-> <<U8("bonus_type"), U16("cell_index")>>, len |-> 3]
BonusRetrieved == [put |-> <<U8("player_id"), U16("cell_index")>>,
                   get |-> <<U8("player_id"), U16("cell_index")>>, len |-> 3]
BlockDestroyed == [put |-> <<U16("cell_index")>>, get |-> <<U16("cell_index")>>, len |-> 2]
Winner         == [put |-> <<U8("winner_id")>>, get |-> <<U8("winner_id")>>, len |-> 1]

Error     == [put |-> <<U16("len")>>, get |-> <<U16("len")>>, len |-> 2]
ErrorText == [put |-> <<U8("char")>>, get |-> <<U8("char")>>, len |-> 1]

Map     == [put |-> <<U8("rows"), U8("cols")>>, get |-> <<U8("rows"), U8("cols")>>, len |-> 2]
MapCell == [put |-> <<U8("cell")>>, get |-> <<U8("cell")>>, len |-> 1]

SyncBoard  == [put |-> <<U8("status"), U8("player_count")>>,
               get |-> <<U8("status"), U8("player_count")>>, len |-> 2]
BadSyncPlayer ==                          \* the timer and the speed swapped in the encoder
  [put |-> <<U8("id"), U8("lives"), U16("cell_index"), Flag("alive"), Flag("ready"),
             U8("bomb_count"), U8("bomb_radius"), U16("speed"), U16("bomb_timer_ticks")>>,
   get |-> <<U8("id"), U8("lives"), U16("cell_index"), Flag("alive"), Flag("ready"),
             U8("bomb_count"), U8("bomb_radius"), U16("bomb_timer_ticks"), U16("speed")>>,
   len |-> 12]
SyncPlayer ==
  [put |-> <<U8("id"), U8("lives"), U16("cell_index"), Flag("alive"), Flag("ready"),
             U8("bomb_count"), U8("bomb_radius"), U16("bomb_timer_ticks"), U16("speed")>>,
   get |-> <<U8("id"), U8("lives"), U16("cell_index"), Flag("alive"), Flag("ready"),
             U8("bomb_count"), U8("bomb_radius"), U16("bomb_timer_ticks"), U16("speed")>>,
   len |-> 12]

Layout(t) ==
  CASE t = "HELLO" -> Hello                      [] t = "WELCOME" -> Welcome
    [] t = "ERROR" -> Error                      [] t = "MAP" -> Map
    [] t = "SET_STATUS" -> SetStatus             [] t = "WINNER" -> Winner
    [] t = "MOVE_ATTEMPT" -> MoveAttempt         [] t = "BOMB_ATTEMPT" -> BombAttempt
    [] t = "MOVED" -> Moved                      [] t = "BOMB" -> BombPlaced
    [] t = "EXPLOSION_START" -> ExplosionStart   [] t = "EXPLOSION_END" -> ExplosionEnd
    [] t = "DEATH" -> Death                      [] t = "BONUS_AVAILABLE" -> BonusAvailable
    [] t = "BONUS_RETRIEVED" -> BonusRetrieved   [] t = "BLOCK_DESTROYED" -> BlockDestroyed
    [] t = "SYNC_BOARD" -> SyncBoard             [] OTHER -> Empty

ItemLayout(t) == CASE t = "WELCOME" -> WelcomePlayer [] t = "SYNC_BOARD" -> SyncPlayer
                   [] t = "ERROR" -> ErrorText       [] t = "MAP" -> MapCell
Variable == {"WELCOME", "SYNC_BOARD", "ERROR", "MAP"}
-----------------------------------------------------------------------------
(* How many items a head announces, and what both directions accept. *)
Count(t, head) ==
  CASE t \in {"WELCOME", "SYNC_BOARD"} -> head.player_count
    [] t = "ERROR" -> head.len
    [] t = "MAP"   -> (head.rows * head.cols) % 2^16
    [] OTHER       -> 0
CountOK(t, n) ==
  CASE t \in {"WELCOME", "SYNC_BOARD"} -> n <= MaxPlayers
    [] t = "ERROR" -> n <= MaxErrorLen
    [] t = "MAP"   -> n \in 1..MaxMapCells
    [] OTHER       -> TRUE

(* An error whose length is 0 is sent with the length of its text. *)
SentHead(m) == IF m.type = "ERROR" /\ m.head.len = 0 THEN [len |-> Len(m.items)] ELSE m.head

Encodable(m, capacity) ==
  LET n == Count(m.type, SentHead(m))
  IN  /\ CountOK(m.type, n)
      /\ Layout(m.type).len + (IF n = 0 THEN 0 ELSE n * ItemLayout(m.type).len) <= capacity
Encode(m) ==
  LET head == SentHead(m)
  IN  Put(Layout(m.type).put, head)
        \o FlattenSeq([i \in 1..Count(m.type, head) |-> Put(ItemLayout(m.type).put, m.items[i])])

(* What the size functions say of a payload.  Nothing calls them yet. *)
PayloadSize(m) ==
  CASE m.type = "WELCOME"    -> MaxIdLen + 1 + 1 + m.head.player_count * (1 + 1 + MaxNameLen)
    [] m.type = "MAP"        -> 2 + ((m.head.rows * m.head.cols) % 2^16)
    [] m.type = "SYNC_BOARD" -> 2 + m.head.player_count * 12

(* A decoder refuses a payload that is not as long as its head says. *)
Decodable(t, b) ==
  /\ Len(b) >= Layout(t).len
  /\ LET n == Count(t, Get(Layout(t).get, b))
     IN  /\ CountOK(t, n)
         /\ Len(b) = Layout(t).len + (IF n = 0 THEN 0 ELSE n * ItemLayout(t).len)
Decode(t, b) ==
  LET head == Get(Layout(t).get, b)
      base == Layout(t).len
      item == IF t \in Variable THEN ItemLayout(t) ELSE Empty
  IN  [type |-> t, head |-> head,
       items |-> [i \in 1..Count(t, head) |->
                    Get(item.get, SubSeq(b, base + (i - 1) * item.len + 1, base + i * item.len))]]

(* Every message is preceded by its type, its sender and whom it is for. *)
WriteHeader(h) == <<Code[h.type], h.sender, h.target>>
ReadHeader(b)  == [type |-> TypeOf(b[1]), sender |-> b[2], target |-> b[3]]
=============================================================================
