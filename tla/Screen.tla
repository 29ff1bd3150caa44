------------------------------- MODULE Screen -------------------------------
(***************************************************************************)
(* Where client/ui.c draws.  The screen buffer sb has MaxRows x MaxCols    *)
(* characters whatever the terminal measures; positions are computed in    *)
(* size_t from the terminal's size, the map's size and fixed offsets.      *)
(* What is drawn is abstracted to the spans of characters that it takes.   *)
(***************************************************************************)
EXTENDS QLog

CONSTANTS MaxRows, MaxCols,          \* of sb, 512 both
          MaxPlayers,
          SizeT,                     \* size_t is a number modulo this, far above the others
          Terminals,                 \* what TIOCGWINSZ may answer
          Maps                       \* sizes of maps

ASSUME BufferAssumption ==           \* room for the sizes before the first measurement
  /\ MaxRows \in Nat /\ MaxCols \in Nat /\ MaxRows >= 128 /\ MaxCols >= 128
  /\ SizeT \in Nat /\ SizeT > MaxRows /\ SizeT > MaxCols
ASSUME TerminalsAssumption == Terminals \subseteq [rows : Nat, cols : Nat]
ASSUME MapsAssumption ==             \* a side is a byte: there is room for the players below
  /\ MaxPlayers \in Nat
  /\ \A m \in Maps : m.rows \in 1..(MaxRows - MaxPlayers - 7) /\ m.cols \in Nat \ {0}

VARIABLES screen_rows, screen_cols, status, map
screen == <<screen_rows, screen_cols, status, map>>

NoMap == [rows |-> 0, cols |-> 0]
Longest == MaxRows - 1               \* of a text: it is formatted into MaxRows bytes

Bound(x, least, most) == IF x < least THEN least ELSE IF x > most THEN most ELSE x
-----------------------------------------------------------------------------
(* before the first measurement *)
ScreenInit == /\ screen_rows = 128 /\ screen_cols = 128
              /\ status = "LOBBY" /\ map = NoMap
              /\ Init

BadUpdateScreenSize ==                    \* as the terminal says
  \E t \in Terminals : screen_rows' = t.rows /\ screen_cols' = t.cols
UpdateScreenSize ==
  \E t \in Terminals : /\ screen_rows' = Bound(t.rows, 0, MaxRows)
                       /\ screen_cols' = Bound(t.cols, 0, MaxCols)

ScreenNext ==
  \/ UpdateScreenSize /\ UNCHANGED <<status, map>> /\ UNCHANGED vars
  \/ status' \in {"LOBBY", "RUNNING", "END"}
       /\ UNCHANGED <<screen_rows, screen_cols, map>> /\ UNCHANGED vars
  \/ map' \in Maps /\ UNCHANGED <<screen_rows, screen_cols, status>> /\ UNCHANGED vars
  \/ Next /\ UNCHANGED screen
ScreenSpec == ScreenInit /\ [][ScreenNext]_<<screen, vars>>
-----------------------------------------------------------------------------
Span(row, from, n) == [row |-> row, from |-> from, n |-> n]

(* draw_text_line_format: what does not fit is cut off; right of the       *)
(* screen's edge the room is negative, and memcpy takes that for a size.   *)
Text(row, col) == Span(row, col, Bound(Longest, 0, screen_cols - col))

(* draw_rect, both corners included *)
Rect(r1, c1, r2, c2) == {Span(y, c1, c2 - c1 + 1) : y \in r1..r2}

Lobby    == {Text(5, 10), Text(7, 10), Text(9, 10)}
GameOver == {Text(5, 5), Text(7, 5)}

(* Two characters a cell; players and flames are drawn on its cells.            *)
Game ==
  IF map = NoMap THEN {Text(5, 5)}
  ELSE {Text(3, 5)} \cup {Span(r + 5, 5, 2 * map.cols) : r \in 0..(map.rows - 1)}
         \cup {Text(map.rows + 6, 5)}
         \cup {Text(map.rows + 7 + i, 5) : i \in 0..(MaxPlayers - 1)}

LastRow == (screen_rows - 1) % SizeT
LastCol == (screen_cols - 1) % SizeT

LogBox ==
  LET r1      == (screen_rows - 5 - 2 - 1) % SizeT
      visible == Visible((LastRow - r1 - 1) % SizeT)
      row(k)  == (r1 + 1 + k) % SizeT
      shown   == {k \in 0..(visible - 1) : \A j \in 0..k : row(j) < LastRow}  \* until one is past
  IN  Rect(r1, 0, LastRow, LastCol) \cup {Text(row(k), 2) : k \in shown}

Border == Rect(0, 0, LastRow, LastCol)

Drawn == LogBox \cup Border \cup (CASE status = "LOBBY"   -> Lobby
                                  [] status = "RUNNING" -> Game
                                  [] status = "END"     -> GameOver)

Inside(s) == s.n >= 0 /\ (s.n > 0 => s.row < MaxRows /\ s.from + s.n <= MaxCols)
-----------------------------------------------------------------------------
(* A frame stays within the buffer, each span within its row, exactly when *)
(* the terminal has a row, the columns at which the text of this status    *)
(* begins, and the map is not among the widest.  A pseudo-terminal nobody  *)
(* gave a size (0 x 0) and a map of 254 or 255 columns are outside.        *)
DrawsInside ==
  (\A s \in Drawn : Inside(s)) <=>
    /\ screen_rows >= 1
    /\ screen_cols >= (IF status = "LOBBY" THEN 10 ELSE 5)
    /\ status = "RUNNING" => 2 * map.cols + 5 <= MaxCols
=============================================================================
