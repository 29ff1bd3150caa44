------------------------------- MODULE Levels -------------------------------
(***************************************************************************)
(* What a map file means: the reference that MapLoader, the loop of        *)
(* server_load_map, is checked against, and the way the models of the      *)
(* server are given their boards.  A token stands for its first character, *)
(* the only one the loader looks at.                                       *)
(***************************************************************************)
EXTENDS Integers, Sequences

Digits     == <<"1", "2", "3", "4", "5", "6", "7", "8", "9">>
DigitChars == {Digits[d] : d \in 1..9} \cup {"0"}
CellChars  == {".", "H", "S", "B", "A", "R", "T"}      \* is_supported_cell

CellOf(token) == IF token \in DigitChars THEN "." ELSE token

(* The file is one run of tokens; a row of the board takes cols of them. *)
TokenAt(file, cols, c) == file[c[1] * cols + c[2] + 1]
CellsIn(rows, cols)    == (0..rows-1) \X (0..cols-1)

CellsOf(file, rows, cols) == [c \in CellsIn(rows, cols) |-> CellOf(TokenAt(file, cols, c))]

(* A digit that occurs twice names the later cell. *)
SpawnsOf(file, rows, cols, players) ==
  LET places(s) == {c \in CellsIn(rows, cols) : TokenAt(file, cols, c) = Digits[s]}
      last(s)   == CHOOSE c \in places(s) :
                     \A d \in places(s) : d[1] * cols + d[2] <= c[1] * cols + c[2]
  IN  [s \in {s \in 1..players : places(s) # {}} |-> last(s)]

Readable(file, rows, cols, players) ==
  /\ Len(file) >= rows * cols
  /\ \A k \in 1..rows * cols : file[k] \in CellChars \cup {Digits[s] : s \in 1..players}
=============================================================================
