------------------------------ MODULE Console ------------------------------
(***************************************************************************)
(* client_build_command of client/input_handler.c: what a key sends, given *)
(* the client's copy of the game, and the limit on moves, kept in pairs of *)
(* seconds and nanoseconds.  Until its WELCOME has come the client has no  *)
(* player, and reads the speed before the first element of its players:    *)
(* whatever is there.                                                      *)
(***************************************************************************)
EXTENDS Integers

CONSTANTS SecondNs,          \* nanoseconds in a second
          Speeds,            \* what SYNC_BOARD may bring, and what lies before the array
          Starts, Horizon    \* bounds: when the client starts and how far its clock goes
UINT16_MAX == 65535
ASSUME SecondAssumption == SecondNs \in Nat \ {0}
ASSUME SpeedsAssumption == Speeds \subseteq 0..UINT16_MAX
ASSUME StartsAssumption == Starts \subseteq Nat /\ Horizon \in Nat

VARIABLES now,               \* CLOCK_MONOTONIC
          ts_last_move,
          status, has_welcome, speed,       \* of the client's copy
          slot,              \* its players hold one with its id
          outcome, msg,      \* of the last key
          moved              \* history: when the last move was sent
copy == <<status, has_welcome, speed, slot>>
vars == <<now, ts_last_move, copy, outcome, msg, moved>>

Statuses == {"LOBBY", "RUNNING", "END"}
Keys     == {"r", "wasd", "b", "l", "p", "q", "h", "other"}
-----------------------------------------------------------------------------
Timespec == [sec : Int, nsec : Int]

BadTsNorm(ts) ==                          \* no borrow
  IF ts.nsec >= SecondNs
  THEN [sec |-> ts.sec + ts.nsec \div SecondNs, nsec |-> ts.nsec % SecondNs]
  ELSE ts
TsNorm(ts) ==
  IF ts.nsec >= SecondNs
  THEN [sec |-> ts.sec + ts.nsec \div SecondNs, nsec |-> ts.nsec % SecondNs]
  ELSE IF ts.nsec < 0
  THEN LET sec == (-ts.nsec) \div SecondNs + 1
       IN  [sec |-> ts.sec - sec, nsec |-> ts.nsec + sec * SecondNs]
  ELSE ts

TsDiff(a, b) == TsNorm([sec |-> a.sec - b.sec, nsec |-> a.nsec - b.nsec])

TsLess(a, b) == a.sec < b.sec \/ (a.sec = b.sec /\ a.nsec < b.nsec)

(* clock_gettime *)
Clock(t) == [sec |-> t \div SecondNs, nsec |-> t % SecondNs]

(* At speed 1 a whole second of nanoseconds, which is not normalised. *)
MinInterval(v) == [sec |-> 0, nsec |-> SecondNs \div (IF v = 0 THEN 1 ELSE v)]

Throttled(v) == TsLess(TsDiff(Clock(now), ts_last_move), MinInterval(v))
-----------------------------------------------------------------------------
Init ==
  /\ now \in Starts /\ ts_last_move = [sec |-> 0, nsec |-> 0] /\ moved = 0
  /\ status = "LOBBY" /\ has_welcome = FALSE /\ speed = 0 /\ slot = FALSE
  /\ outcome = "NONE" /\ msg = "NONE"

Pass == now < Horizon /\ now' = now + 1 /\ UNCHANGED <<ts_last_move, copy, outcome, msg, moved>>

(* What the server's messages change; a WELCOME gives the client its player. *)
BadWelcome ==                             \* the id of its own player is left out
  /\ has_welcome' = TRUE /\ status' \in Statuses /\ UNCHANGED <<speed, slot>>
Welcome ==
  /\ has_welcome' = TRUE /\ slot' = TRUE /\ status' \in Statuses /\ UNCHANGED speed
News ==
  /\ \/ Welcome
     \/ status' \in Statuses /\ UNCHANGED <<has_welcome, speed, slot>>
     \/ speed' \in Speeds /\ UNCHANGED <<status, has_welcome, slot>>
  /\ UNCHANGED <<now, ts_last_move, outcome, msg, moved>>

Answers(o, m) == outcome' = o /\ msg' = m
Still == UNCHANGED <<ts_last_move, moved>>

Ready == \/ status = "LOBBY" /\ Answers("OK", "SET_READY")
         \/ status # "LOBBY" /\ Answers("INVALID_INPUT", "NONE")

Move(v) ==
  \/ /\ status = "RUNNING" /\ v # 0 /\ ~Throttled(v)
     /\ Answers("OK", "MOVE_ATTEMPT")
     /\ ts_last_move' = Clock(now) /\ moved' = now
  \/ /\ status # "RUNNING" \/ v = 0 \/ Throttled(v)
     /\ Answers("INVALID_INPUT", "NONE") /\ Still

Bomb ==
  \/ ~has_welcome /\ Answers("FAIL", "NONE")
  \/ has_welcome /\ status # "RUNNING" /\ Answers("INVALID_INPUT", "NONE")
  \/ has_welcome /\ status = "RUNNING" /\ ~slot /\ Answers("FAIL", "NONE")
  \/ has_welcome /\ status = "RUNNING" /\ slot /\ Answers("OK", "BOMB_ATTEMPT")

Lobby == \/ status # "LOBBY" /\ Answers("OK", "SET_STATUS")
         \/ status = "LOBBY" /\ Answers("INVALID_INPUT", "NONE")

(* A command that FAILs ends the client, as q does. *)
Press(key) ==
  /\ outcome \notin {"FAIL", "QUIT"}
  /\ \/ key = "r" /\ Ready /\ Still
     \/ key = "wasd" /\ \E v \in Speeds : (has_welcome => v = speed) /\ Move(v)
     \/ key = "b" /\ Bomb /\ Still
     \/ key = "l" /\ Lobby /\ Still
     \/ key = "p" /\ Answers("OK", "PING") /\ Still
     \/ key = "q" /\ Answers("QUIT", "NONE") /\ Still
     \/ key = "h" /\ Answers("NO_COMMAND", "NONE") /\ Still
     \/ key = "other" /\ Answers("INVALID_INPUT", "NONE") /\ Still
  /\ UNCHANGED <<now, copy>>

Next == Pass \/ News \/ \E key \in Keys : Press(key)
Spec == Init /\ [][Next]_vars
-----------------------------------------------------------------------------
TypeOK ==
  /\ now \in Nat /\ moved \in 0..now /\ ts_last_move = Clock(moved)
  /\ status \in Statuses /\ has_welcome \in BOOLEAN /\ slot \in BOOLEAN
  /\ speed \in 0..UINT16_MAX

(* The limit is exact at every moment and speed: the subtraction with a    *)
(* borrow and the comparison by fields say what the times in nanoseconds   *)
(* say, also where the interval is a second and where fields wrap.         *)
ThrottleIsExact ==
  \A v \in Speeds \ {0} : Throttled(v) <=> now - moved < SecondNs \div v

(* A client sends two moves no closer than the speed it then had allows.   *)
MovesAreSpaced ==
  [][moved' # moved =>
       \E v \in Speeds \ {0} : (has_welcome => v = speed) /\ moved' - moved >= SecondNs \div v]_vars

(* After its WELCOME no key but q ends a client: its own player is found.  *)
KeysDoNotKill == [][outcome' = "FAIL" /\ outcome # "FAIL" => ~has_welcome]_vars
=============================================================================
