----------------------------- MODULE MapLoader -----------------------------
(***************************************************************************)
(* server_load_map of server/map_loader.c: the header, the loop that reads *)
(* one token per cell, and the defaults it derives.  The file is whatever  *)
(* was given on the command line.  gs_resize_map cannot fail here except   *)
(* for want of memory, and opening the file is left out.  Bad... are       *)
(* faulty variants of the next definition, outside the model.              *)
(***************************************************************************)
EXTENDS Levels

CONSTANTS MaxPlayers,
          Headers,         \* what fscanf makes of a header: how many numbers, and which
          Files            \* the runs of tokens that may follow

MaxMapSide == 255
UINT8_MAX  == 255
UINT16_MAX == 65535

ASSUME PlayersAssumption == MaxPlayers \in 1..9      \* a digit names each slot
ASSUME HeadersAssumption ==
  \A h \in Headers : {h.read, h.rows, h.cols, h.speed, h.duration, h.radius, h.timer} \subseteq Int
ASSUME FilesAssumption == Files \subseteq Seq(STRING)

VARIABLES header, file,    \* the input
          r, c,            \* the loop counters
          cells, spawns,   \* state.map.cells, and spawn_rows and spawn_cols where defined
          defaults,        \* speed, duration, radius and timer as stored
          outcome          \* "opened", "reading", "loaded" or "failed"
vars == <<header, file, r, c, cells, spawns, defaults, outcome>>

NoDefaults == [speed |-> 3, duration |-> 3, radius |-> 1, timer |-> 60]

Init ==
  /\ header \in Headers /\ file \in Files
  /\ r = 0 /\ c = 0
  /\ cells = << >> /\ spawns = << >>
  /\ defaults = NoDefaults
  /\ outcome = "opened"

GoodHeader ==
  /\ header.read = 6
  /\ header.rows \in 1..MaxMapSide /\ header.cols \in 1..MaxMapSide

(* An accepted header sizes the board, all of it empty. *)
ReadHeader ==
  /\ outcome = "opened"
  /\ \/ /\ GoodHeader
        /\ cells' = [x \in CellsIn(header.rows, header.cols) |-> "."]
        /\ outcome' = "reading"
     \/ ~GoodHeader /\ outcome' = "failed" /\ UNCHANGED cells
  /\ UNCHANGED <<header, file, r, c, spawns, defaults>>

NextToken == file[r * header.cols + c + 1]
AtEnd     == r * header.cols + c >= Len(file)

(* The inner loop's step, and the outer loop's when a row is full. *)
Advance == IF c + 1 < header.cols THEN c' = c + 1 /\ r' = r ELSE c' = 0 /\ r' = r + 1

BadReadSpawn ==             \* a repeated digit keeps its first cell
  /\ outcome = "reading" /\ r < header.rows /\ ~AtEnd
  /\ \E s \in 1..MaxPlayers :
       /\ NextToken = Digits[s]
       /\ spawns' = [t \in DOMAIN spawns \cup {s} |->
                       IF t \in DOMAIN spawns THEN spawns[t] ELSE <<r, c>>]
  /\ cells' = [cells EXCEPT ![<<r, c>>] = "."]
  /\ Advance
  /\ UNCHANGED <<header, file, defaults, outcome>>

ReadSpawn ==
  /\ outcome = "reading" /\ r < header.rows /\ ~AtEnd
  /\ \E s \in 1..MaxPlayers :
       /\ NextToken = Digits[s]
       /\ spawns' = [t \in DOMAIN spawns \cup {s} |-> IF t = s THEN <<r, c>> ELSE spawns[t]]
  /\ cells' = [cells EXCEPT ![<<r, c>>] = "."]
  /\ Advance
  /\ UNCHANGED <<header, file, defaults, outcome>>

ReadCell ==
  /\ outcome = "reading" /\ r < header.rows /\ ~AtEnd
  /\ NextToken \in CellChars
  /\ cells' = [cells EXCEPT ![<<r, c>>] = NextToken]
  /\ Advance
  /\ UNCHANGED <<header, file, spawns, defaults, outcome>>

(* Not enough tokens, a digit that is no slot, or a character that is no cell. *)
Reject ==
  /\ outcome = "reading" /\ r < header.rows
  /\ ~AtEnd => NextToken \notin CellChars \cup {Digits[s] : s \in 1..MaxPlayers}
  /\ outcome' = "failed"
  /\ UNCHANGED <<header, file, r, c, cells, spawns, defaults>>

BadStored(number, default, max) == IF number <= 0 THEN default ELSE number

(* The casts to the fields' widths come after the test for positive. *)
Stored(number, default, max) == IF number <= 0 THEN default ELSE number % (max + 1)

Load ==
  /\ outcome = "reading" /\ r = header.rows
  /\ defaults' = [speed    |-> Stored(header.speed, 3, UINT16_MAX),
                  duration |-> Stored(header.duration, 3, UINT16_MAX),
                  radius   |-> Stored(header.radius, 1, UINT8_MAX),
                  timer    |-> Stored(header.timer, 60, UINT16_MAX)]
  /\ outcome' = "loaded"
  /\ UNCHANGED <<header, file, r, c, cells, spawns>>

Next == ReadHeader \/ ReadSpawn \/ ReadCell \/ Reject \/ Load

Spec == Init /\ [][Next]_vars

-----------------------------------------------------------------------------

(* Whatever the file, what the loader hands to the server satisfies the    *)
(* assumption the model of the server makes about its configuration.       *)
Game == INSTANCE GameState WITH
  MaxBombs <- 64, Rows <- header.rows, Cols <- header.cols,
  InitialCells <- cells, SpawnOf <- spawns,
  DefaultSpeed <- defaults.speed, DefaultRadius <- defaults.radius,
  DefaultTimer <- defaults.timer, ExplosionDuration <- defaults.duration
LoadedIsPlayable == outcome = "loaded" => Game!ConfigOK

(* The loop reads the file as Levels says, a repeated digit included, and  *)
(* gives up exactly on the files that cannot be read so.                   *)
LoadsTheFile ==
  /\ outcome = "loaded" =>
       /\ cells = CellsOf(file, header.rows, header.cols)
       /\ spawns = SpawnsOf(file, header.rows, header.cols, MaxPlayers)
  /\ outcome \in {"loaded", "failed"} =>
       (outcome = "loaded" <=>
          GoodHeader /\ Readable(file, header.rows, header.cols, MaxPlayers))
=============================================================================
