--------------------------- MODULE MapLoaderProofs ---------------------------
(***************************************************************************)
(* Whatever the file, a map the loader accepts meets the assumption of the *)
(* model of the server: ConfigOK, with the slots and fields of the code.   *)
(***************************************************************************)
EXTENDS MapLoader, TLAPS

LEMMA Widths ==
  /\ UINT8_MAX \in Nat /\ UINT16_MAX \in Nat /\ UINT8_MAX >= 60 /\ UINT16_MAX >= 60
  /\ Game!UINT8_MAX = UINT8_MAX /\ Game!UINT16_MAX = UINT16_MAX
  /\ Game!MaxMapSide = MaxMapSide /\ MaxMapSide \in Nat
BY DEF UINT8_MAX, UINT16_MAX, MaxMapSide, Game!UINT8_MAX, Game!UINT16_MAX, Game!MaxMapSide

LEMMA StoredFits ==
  ASSUME NEW max \in Nat, NEW n \in Int, NEW d \in 0..max
  PROVE  Stored(n, d, max) \in 0..max
<1>1. CASE n <= 0
  BY <1>1 DEF Stored
<1>2. CASE n > 0
  <2>1. n \in Nat /\ max + 1 \in Nat \ {0}
    BY <1>2
  <2>2. n % (max + 1) \in 0..max
    BY <2>1
  <2> QED
    BY <1>2, <2>2 DEF Stored
<1> QED
  BY <1>1, <1>2

-----------------------------------------------------------------------------
(* The cells before the next one, in the order of the loop. *)
Before(x, row, col) == x[1] < row \/ (x[1] = row /\ x[2] < col)

Board == CellsIn(header.rows, header.cols)

(* What holds while the cells are read: spawns lie on floor that has been  *)
(* read, each on its own, so that nothing read later can disturb them.     *)
ReadSoFar ==
  /\ GoodHeader
  /\ r \in 0..header.rows /\ c \in 0..(header.cols - 1)
  /\ cells \in [Board -> CellChars]
  /\ DOMAIN spawns \subseteq 1..MaxPlayers
  /\ \A s \in DOMAIN spawns : spawns[s] \in Board /\ cells[spawns[s]] = "." /\ Before(spawns[s], r, c)
  /\ \A s, t \in DOMAIN spawns : s # t => spawns[s] # spawns[t]

DefaultsFit ==
  /\ defaults.speed \in 0..UINT16_MAX /\ defaults.duration \in 0..UINT16_MAX
  /\ defaults.radius \in 0..UINT8_MAX /\ defaults.timer \in 0..UINT16_MAX

LoaderInv ==
  /\ header \in Headers
  /\ outcome = "opened" => r = 0 /\ c = 0 /\ DOMAIN spawns = {}
  /\ outcome \in {"reading", "loaded"} => ReadSoFar
  /\ outcome = "loaded" => DefaultsFit

LEMMA LoaderInit == Init => LoaderInv
BY DEF Init, LoaderInv

LEMMA HeaderTyped ==
  ASSUME header \in Headers
  PROVE  /\ header.rows \in Int /\ header.cols \in Int /\ header.speed \in Int
         /\ header.duration \in Int /\ header.radius \in Int /\ header.timer \in Int
BY HeadersAssumption

LEMMA HeaderStep == LoaderInv /\ ReadHeader => LoaderInv'
<1> SUFFICES ASSUME LoaderInv, ReadHeader PROVE LoaderInv'
  OBVIOUS
<1>1. CASE ~GoodHeader
  BY <1>1 DEF ReadHeader, LoaderInv
<1>2. CASE GoodHeader
  <2>1. /\ cells' = [x \in Board |-> "."] /\ outcome' = "reading"
        /\ UNCHANGED <<header, r, c, spawns>> /\ r = 0 /\ c = 0 /\ DOMAIN spawns = {}
    BY <1>2 DEF ReadHeader, LoaderInv, Board
  <2>2. header.rows \in 1..MaxMapSide /\ header.cols \in 1..MaxMapSide /\ MaxMapSide \in Nat
    BY <1>2, Widths DEF GoodHeader
  <2>3. 0 \in 0..header.rows /\ 0 \in 0..(header.cols - 1)
    BY <2>2
  <2>4. [x \in Board |-> "."] \in [Board -> CellChars]
    BY DEF CellChars
  <2>5. Board' = Board /\ GoodHeader'
    BY <1>2, <2>1 DEF Board, GoodHeader
  <2> QED
    BY <2>1, <2>3, <2>4, <2>5 DEF LoaderInv, ReadSoFar
<1> QED
  BY <1>1, <1>2

(* One turn of the loop: the cell it reads is on the board and new. *)
LEMMA Turn ==
  ASSUME LoaderInv, outcome = "reading", r < header.rows, Advance,
         UNCHANGED <<header, outcome>>
  PROVE  /\ <<r, c>> \in Board /\ Board' = Board /\ GoodHeader' /\ ~Before(<<r, c>>, r, c)
         /\ r' \in 0..header.rows /\ c' \in 0..(header.cols - 1)
         /\ \A x \in Board : Before(x, r, c) \/ x = <<r, c>> => Before(x, r', c')
<1>1. header.rows \in Nat /\ header.cols \in Nat /\ r \in Nat /\ c \in 0..(header.cols - 1)
  BY Widths DEF LoaderInv, ReadSoFar, GoodHeader
<1>2. <<r, c>> \in Board /\ ~Before(<<r, c>>, r, c)
  BY <1>1 DEF Board, CellsIn, Before
<1>3. Board' = Board /\ GoodHeader'
  BY DEF Board, GoodHeader, LoaderInv, ReadSoFar
<1>4. r' \in 0..header.rows /\ c' \in 0..(header.cols - 1)
  BY <1>1 DEF Advance
<1>5. ASSUME NEW x \in Board, Before(x, r, c) \/ x = <<r, c>> PROVE Before(x, r', c')
  <2>1. x[1] \in Int /\ x[2] \in 0..(header.cols - 1)
    BY <1>1 DEF Board, CellsIn
  <2>2. x[1] < r \/ (x[1] = r /\ x[2] <= c)
    BY <1>1, <1>5, <2>1 DEF Before
  <2> QED
    BY <1>1, <2>1, <2>2 DEF Advance, Before
<1> QED
  BY <1>2, <1>3, <1>4, <1>5

LEMMA SpawnStep == LoaderInv /\ ReadSpawn => LoaderInv'
<1> SUFFICES ASSUME LoaderInv, ReadSpawn PROVE LoaderInv'
  OBVIOUS
<1> DEFINE x == <<r, c>>
<1>1. PICK s \in 1..MaxPlayers :
        spawns' = [t \in DOMAIN spawns \cup {s} |-> IF t = s THEN x ELSE spawns[t]]
  BY DEF ReadSpawn
<1>2. /\ outcome = "reading" /\ r < header.rows /\ Advance
      /\ UNCHANGED <<header, outcome>> /\ cells' = [cells EXCEPT ![x] = "."]
  BY DEF ReadSpawn
<1>3. /\ x \in Board /\ Board' = Board /\ GoodHeader' /\ ~Before(x, r, c)
      /\ r' \in 0..header.rows /\ c' \in 0..(header.cols - 1)
      /\ \A y \in Board : Before(y, r, c) \/ y = x => Before(y, r', c')
  BY <1>2, Turn
<1> HIDE DEF x
<1>4. ReadSoFar
  BY <1>2 DEF LoaderInv
<1>5. cells' \in [Board -> CellChars] /\ cells'[x] = "."
      /\ \A y \in Board \ {x} : cells'[y] = cells[y]
  BY <1>2, <1>3, <1>4 DEF ReadSoFar, CellChars
<1>6. DOMAIN spawns' = DOMAIN spawns \cup {s} /\ spawns'[s] = x
      /\ \A t \in DOMAIN spawns \ {s} : spawns'[t] = spawns[t]
  BY <1>1
<1>7. \A t \in DOMAIN spawns : spawns[t] \in Board /\ spawns[t] # x
                              /\ cells[spawns[t]] = "." /\ Before(spawns[t], r', c')
  BY <1>3, <1>4 DEF ReadSoFar
<1>8. \A t \in DOMAIN spawns' : spawns'[t] \in Board /\ cells'[spawns'[t]] = "." /\ Before(spawns'[t], r', c')
  BY <1>3, <1>5, <1>6, <1>7
<1>9. \A t, u \in DOMAIN spawns' : t # u => spawns'[t] # spawns'[u]
  BY <1>4, <1>6, <1>7 DEF ReadSoFar
<1>10. DOMAIN spawns' \subseteq 1..MaxPlayers
  BY <1>4, <1>6 DEF ReadSoFar
<1>11. ReadSoFar'
  BY <1>2, <1>3, <1>5, <1>8, <1>9, <1>10 DEF ReadSoFar
<1> QED
  BY <1>2, <1>11 DEF LoaderInv

LEMMA CellStep == LoaderInv /\ ReadCell => LoaderInv'
<1> SUFFICES ASSUME LoaderInv, ReadCell PROVE LoaderInv'
  OBVIOUS
<1> DEFINE x == <<r, c>>
<1>1. /\ outcome = "reading" /\ r < header.rows /\ Advance
      /\ UNCHANGED <<header, outcome, spawns>> /\ cells' = [cells EXCEPT ![x] = NextToken]
      /\ NextToken \in CellChars
  BY DEF ReadCell
<1>2. /\ x \in Board /\ Board' = Board /\ GoodHeader' /\ ~Before(x, r, c)
      /\ r' \in 0..header.rows /\ c' \in 0..(header.cols - 1)
      /\ \A y \in Board : Before(y, r, c) \/ y = x => Before(y, r', c')
  BY <1>1, Turn
<1> HIDE DEF x
<1>3. ReadSoFar
  BY <1>1 DEF LoaderInv
<1>4. cells' \in [Board -> CellChars] /\ \A y \in Board \ {x} : cells'[y] = cells[y]
  BY <1>1, <1>2, <1>3 DEF ReadSoFar
<1>5. \A t \in DOMAIN spawns : spawns[t] \in Board /\ spawns[t] # x
                              /\ cells[spawns[t]] = "." /\ Before(spawns[t], r', c')
  BY <1>1, <1>2, <1>3 DEF ReadSoFar, Before
<1>6. ReadSoFar'
  BY <1>1, <1>2, <1>3, <1>4, <1>5 DEF ReadSoFar
<1> QED
  BY <1>1, <1>6 DEF LoaderInv

LEMMA LoadStep == LoaderInv /\ Load => LoaderInv'
<1> SUFFICES ASSUME LoaderInv, Load PROVE LoaderInv'
  OBVIOUS
<1>1. UNCHANGED <<header, r, c, cells, spawns>> /\ outcome = "reading" /\ outcome' = "loaded"
  BY DEF Load
<1>2. DefaultsFit'
  <2>1. 3 \in 0..UINT16_MAX /\ 1 \in 0..UINT8_MAX /\ 60 \in 0..UINT16_MAX
    BY Widths
  <2>2. /\ Stored(header.speed, 3, UINT16_MAX) \in 0..UINT16_MAX
        /\ Stored(header.duration, 3, UINT16_MAX) \in 0..UINT16_MAX
        /\ Stored(header.radius, 1, UINT8_MAX) \in 0..UINT8_MAX
        /\ Stored(header.timer, 60, UINT16_MAX) \in 0..UINT16_MAX
    BY <2>1, Widths, HeaderTyped, StoredFits DEF LoaderInv
  <2> QED
    BY <2>2 DEF Load, DefaultsFit
<1>3. ReadSoFar'
  BY <1>1 DEF LoaderInv, ReadSoFar, GoodHeader, Board, Before
<1> QED
  BY <1>1, <1>2, <1>3 DEF LoaderInv

LEMMA LoaderStep == LoaderInv /\ [Next]_vars => LoaderInv'
<1> SUFFICES ASSUME LoaderInv, [Next]_vars PROVE LoaderInv'
  OBVIOUS
<1>1. CASE Reject
  BY <1>1 DEF Reject, LoaderInv
<1>2. CASE UNCHANGED vars
  BY <1>2 DEF vars, LoaderInv, ReadSoFar, DefaultsFit, GoodHeader, Board, Before
<1> QED
  BY <1>1, <1>2, HeaderStep, SpawnStep, CellStep, LoadStep DEF Next

LEMMA Playable == LoaderInv => LoadedIsPlayable
<1> SUFFICES ASSUME LoaderInv, outcome = "loaded" PROVE Game!ConfigOK
  BY DEF LoadedIsPlayable
<1>1. ReadSoFar /\ DefaultsFit
  BY DEF LoaderInv
<1>2. Game!Cell = Board /\ Game!CellType = CellChars /\ Game!EMPTY = "."
  BY DEF Game!Cell, Board, CellsIn, Game!CellType, Game!Bonuses, Game!EMPTY, Game!HARD,
         Game!SOFT, Game!BOMB, Game!BONUS_SPEED, Game!BONUS_RADIUS, Game!BONUS_TIMER, CellChars
<1>3. MaxPlayers \in 1..(UINT8_MAX - 2)
  BY PlayersAssumption, Widths
<1>4. /\ header.rows \in 1..MaxMapSide /\ header.cols \in 1..MaxMapSide
  BY <1>1 DEF ReadSoFar, GoodHeader
<1>5. 64 \in Nat \ {0}
  OBVIOUS
<1> QED
  BY <1>1, <1>2, <1>3, <1>4, <1>5, Widths
     DEF Game!ConfigOK, Game!Slot, Game!U8, Game!U16, ReadSoFar, DefaultsFit

(* What the loader accepts, for every file and every header, the model of  *)
(* the server may assume.                                                  *)
THEOREM LoadedIsPlayableHolds == Spec => []LoadedIsPlayable
BY LoaderInit, LoaderStep, Playable, PTL DEF Spec

-----------------------------------------------------------------------------
(* Digits and cells are different characters, and so are two digits. *)
LEMMA DigitsDiffer ==
  ASSUME NEW s \in 1..9, NEW t \in 1..9, Digits[s] = Digits[t]
  PROVE  s = t
<1>1. /\ Digits[1] = "1" /\ Digits[2] = "2" /\ Digits[3] = "3" /\ Digits[4] = "4"
      /\ Digits[5] = "5" /\ Digits[6] = "6" /\ Digits[7] = "7" /\ Digits[8] = "8"
      /\ Digits[9] = "9"
  BY DEF Digits
<1>2. /\ s = 1 \/ s = 2 \/ s = 3 \/ s = 4 \/ s = 5 \/ s = 6 \/ s = 7 \/ s = 8 \/ s = 9
      /\ t = 1 \/ t = 2 \/ t = 3 \/ t = 4 \/ t = 5 \/ t = 6 \/ t = 7 \/ t = 8 \/ t = 9
  OBVIOUS
<1> QED
  BY <1>1, <1>2

LEMMA DigitsAreNoCells ==
  /\ \A s \in 1..9 : Digits[s] \notin CellChars /\ CellOf(Digits[s]) = "."
  /\ \A t \in CellChars : CellOf(t) = t
<1>1. /\ Digits[1] = "1" /\ Digits[2] = "2" /\ Digits[3] = "3" /\ Digits[4] = "4"
      /\ Digits[5] = "5" /\ Digits[6] = "6" /\ Digits[7] = "7" /\ Digits[8] = "8"
      /\ Digits[9] = "9"
  BY DEF Digits
<1>2. DigitChars = {"0", "1", "2", "3", "4", "5", "6", "7", "8", "9"}
  <2>1. \A d \in 1..9 : d = 1 \/ d = 2 \/ d = 3 \/ d = 4 \/ d = 5 \/ d = 6 \/ d = 7 \/ d = 8 \/ d = 9
    OBVIOUS
  <2>2. 1 \in 1..9 /\ 2 \in 1..9 /\ 3 \in 1..9 /\ 4 \in 1..9 /\ 5 \in 1..9 /\ 6 \in 1..9
        /\ 7 \in 1..9 /\ 8 \in 1..9 /\ 9 \in 1..9
    OBVIOUS
  <2>3. {Digits[d] : d \in 1..9} = {"1", "2", "3", "4", "5", "6", "7", "8", "9"}
    BY <1>1, <2>1, <2>2
  <2> QED
    BY <2>3 DEF DigitChars
<1>3. \A s \in 1..9 : Digits[s] \in DigitChars
  BY DEF DigitChars
<1>4. \A t \in CellChars : t \notin DigitChars
  BY <1>2 DEF CellChars
<1> QED
  BY <1>3, <1>4 DEF CellOf

-----------------------------------------------------------------------------
(* Where the token of a cell is in the file. *)
Place(x) == x[1] * header.cols + x[2]
Token(x) == TokenAt(file, header.cols, x)

LEMMA Distribute ==
  ASSUME NEW a \in Int, NEW b \in Int, NEW w \in Int
  PROVE  b * w = a * w + (b - a) * w
OBVIOUS

LEMMA Division ==
  ASSUME NEW s \in Nat \ {0}, NEW t \in Nat
  PROVE  t \div s \in Int /\ (t % s) \in 0..(s - 1) /\ t = s * (t \div s) + (t % s)
OBVIOUS

LEMMA Product ==
  ASSUME NEW a \in Int, NEW b \in Int
  PROVE  a * b \in Int /\ a * b = b * a
OBVIOUS

LEMMA NotLess ==
  ASSUME NEW a \in Nat, NEW b \in Nat
  PROVE  a * b \in Nat /\ (b >= 1 => a * b >= a)
OBVIOUS

LEMMA Widen ==
  ASSUME NEW w \in Nat, NEW a \in Int, NEW b \in Int, a <= b
  PROVE  w * a \in Int /\ w * b \in Int /\ w * a <= w * b
<1> DEFINE d == b - a
<1>1. d \in Nat /\ w \in Int
  OBVIOUS
<1>2. b * w = a * w + d * w
  BY <1>1, Distribute, Zenon
<1>3. w * a = a * w /\ w * b = b * w /\ w * d = d * w /\ w * a \in Int /\ w * b \in Int
  BY <1>1, Product
<1>4. w * d \in Nat
  <2> HIDE DEF d
  <2> QED
    BY <1>1, NotLess, Zenon
<1> DEFINE wa == w * a
           wb == w * b
           wd == w * d
<1>5. wb = wa + wd /\ wd \in Nat /\ wa \in Int /\ wb \in Int
  BY <1>2, <1>3, <1>4
<1> HIDE DEF wa, wb, wd
<1>6. wa <= wb
  BY <1>5
<1> QED
  BY <1>3, <1>6 DEF wa, wb

(* The row a cell's number is in is one of the map's rows. *)
LEMMA RowBetween ==
  ASSUME NEW w \in Nat \ {0}, NEW h \in Nat, NEW p \in Int, NEW q \in 0..(w - 1),
         NEW n \in Nat, n = w * p + q, n < h * w
  PROVE  p \in 0..(h - 1)
<1>1. w \in Nat /\ w \in Int /\ h \in Int /\ -1 \in Int
  OBVIOUS
<1>2. h * w = w * h /\ w * p \in Int /\ w * h \in Int
  BY <1>1, Product
<1>3. w * (-1) = -w
  OBVIOUS
<1> DEFINE wp == w * p
           wh == w * h
           wm == w * (-1)
<1>4. n = wp + q /\ n < wh /\ wm = -w /\ wp \in Int /\ wh \in Int
  BY <1>2, <1>3
<1>5. ASSUME p >= h PROVE FALSE
  <2>1. wh <= wp
    BY <1>1, <1>5, Widen
  <2> HIDE DEF wp, wh, wm
  <2> QED
    BY <1>4, <2>1
<1>6. ASSUME p <= -1 PROVE FALSE
  <2>1. wp <= wm
    BY <1>1, <1>6, Widen
  <2> HIDE DEF wp, wh, wm
  <2> QED
    BY <1>4, <2>1
<1> QED
  BY <1>5, <1>6

LEMMA Order ==
  ASSUME GoodHeader, NEW x \in Board, NEW y \in Board
  PROVE  /\ Place(x) \in Nat
         /\ Before(x, y[1], y[2]) => Place(x) < Place(y)
         /\ x = y \/ Before(x, y[1], y[2]) \/ Before(y, x[1], x[2])
<1> DEFINE w == header.cols
<1>1. w \in Nat \ {0} /\ header.rows \in Nat
  BY Widths DEF GoodHeader
<1>2. /\ x[1] \in Nat /\ x[2] \in 0..(w - 1) /\ x = <<x[1], x[2]>>
      /\ y[1] \in Nat /\ y[2] \in 0..(w - 1) /\ y = <<y[1], y[2]>>
  BY <1>1 DEF Board, CellsIn
<1>3. x[1] * w \in Nat /\ y[1] * w \in Nat
  BY <1>1, <1>2
<1>4. ASSUME x[1] < y[1] PROVE Place(x) < Place(y)
  <2>1. y[1] * w = x[1] * w + (y[1] - x[1]) * w
    BY <1>1, <1>2
  <2>2. (y[1] - x[1]) * w >= w /\ (y[1] - x[1]) * w \in Int
    <3>1. y[1] - x[1] >= 1 /\ y[1] - x[1] \in Int
      BY <1>2, <1>4
    <3> QED
      BY <1>1, <3>1
  <2> HIDE DEF w
  <2> DEFINE a == x[1] * w
             b == y[1] * w
             d == (y[1] - x[1]) * w
  <2>3. b = a + d /\ d >= w /\ a \in Nat /\ b \in Nat /\ d \in Int
    BY <1>3, <2>1, <2>2
  <2>4. Place(x) = a + x[2] /\ Place(y) = b + y[2]
    BY DEF Place, w
  <2> HIDE DEF a, b, d
  <2> QED
    BY <1>1, <1>2, <2>3, <2>4
<1>5. Place(x) \in Nat
  BY <1>2, <1>3 DEF Place
<1>6. ASSUME Before(x, y[1], y[2]) PROVE Place(x) < Place(y)
  <2>1. CASE x[1] < y[1]
    BY <1>4, <2>1
  <2>2. CASE x[1] = y[1] /\ x[2] < y[2]
    BY <1>2, <1>3, <2>2 DEF Place
  <2> QED
    BY <1>6, <2>1, <2>2 DEF Before
<1>7. x = y \/ Before(x, y[1], y[2]) \/ Before(y, x[1], x[2])
  BY <1>2 DEF Before
<1> QED
  BY <1>5, <1>6, <1>7

(* Every place of the board in the file is a cell's. *)
LEMMA CellAt ==
  ASSUME GoodHeader
  PROVE  /\ header.rows * header.cols \in Nat
         /\ \A x \in Board : Place(x) + 1 \in 1..(header.rows * header.cols)
         /\ \A k \in 1..(header.rows * header.cols) : \E x \in Board : Place(x) + 1 = k
<1> DEFINE w == header.cols
           h == header.rows
<1>1. w \in Nat \ {0} /\ h \in Nat \ {0}
  BY Widths DEF GoodHeader
<1>2. h * w \in Nat
  BY <1>1
<1>3. ASSUME NEW x \in Board PROVE Place(x) + 1 \in 1..(h * w)
  <2>1. x[1] \in 0..(h - 1) /\ x[2] \in 0..(w - 1)
    BY DEF Board, CellsIn
  <2>2. h * w = x[1] * w + (h - x[1]) * w
    <3>1. h \in Int /\ w \in Int /\ x[1] \in Int
      BY <1>1, <2>1
    <3> QED
      BY <3>1, Distribute, Zenon
  <2>3. (h - x[1]) * w >= w /\ (h - x[1]) * w \in Int /\ x[1] * w \in Nat
    <3>1. h - x[1] >= 1 /\ h - x[1] \in Int
      BY <1>1, <2>1
    <3> QED
      BY <1>1, <2>1, <3>1
  <2> DEFINE a == x[1] * w
             d == (h - x[1]) * w
             n == h * w
  <2>4. n = a + d /\ d >= w /\ a \in Nat /\ n \in Nat /\ d \in Int /\ Place(x) = a + x[2]
    BY <1>2, <2>2, <2>3 DEF Place
  <2> HIDE DEF a, d, n, w
  <2>5. Place(x) + 1 \in 1..n
    BY <1>1, <2>1, <2>4
  <2> QED
    BY <2>5 DEF n
<1>4. ASSUME NEW k \in 1..(h * w) PROVE \E x \in Board : Place(x) + 1 = k
  <2> DEFINE p == (k - 1) \div w
             q == (k - 1) % w
             x == <<p, q>>
  <2>1. k \in Nat /\ k - 1 \in Nat /\ k - 1 < h * w
    BY <1>2
  <2>2. p \in Int /\ q \in 0..(w - 1) /\ k - 1 = w * p + q
    BY <1>1, <2>1, Division, Zenon
  <2>3. w * p \in Int /\ w * p = p * w
    <3>1. w \in Int /\ p \in Int
      BY <1>1, <2>2
    <3> HIDE DEF w, p
    <3> QED
      BY <3>1, Product, Zenon
  <2>4. p \in 0..(h - 1)
    <3> HIDE DEF w, h, p, q
    <3> QED
      BY <1>1, <2>1, <2>2, RowBetween
  <2>6. x \in Board
    BY <1>1, <2>2, <2>4 DEF Board, CellsIn
  <2>7. Place(x) + 1 = k
    <3>1. x[1] = p /\ x[2] = q
      OBVIOUS
    <3>2. Place(x) = p * w + q
      BY <3>1 DEF Place
    <3> HIDE DEF p, q, x
    <3> QED
      BY <2>1, <2>2, <2>3, <3>2
  <2> QED
    BY <2>6, <2>7
<1> QED
  BY <1>2, <1>3, <1>4

-----------------------------------------------------------------------------
(* What has been stored says what has been read: a cell its token, a slot  *)
(* the last of its places; and a failed reading has met what no file that  *)
(* can be read contains.                                                   *)
Named == {Digits[s] : s \in 1..MaxPlayers}
Done(x) == Before(x, r, c)

AsRead ==
  /\ \A x \in Board : Done(x) =>
       Place(x) < Len(file) /\ Token(x) \in CellChars \cup Named /\ cells[x] = CellOf(Token(x))
  /\ spawns = [s \in DOMAIN spawns |-> spawns[s]]
  /\ \A s \in 1..MaxPlayers, x \in Board : Done(x) /\ Token(x) = Digits[s] =>
       s \in DOMAIN spawns /\ Place(x) <= Place(spawns[s])
  /\ \A s \in DOMAIN spawns : Token(spawns[s]) = Digits[s]

CanLoad == GoodHeader /\ Readable(file, header.rows, header.cols, MaxPlayers)

FileInv ==
  /\ header \in Headers /\ file \in Files
  /\ outcome = "opened" => r = 0 /\ c = 0 /\ spawns = << >>
  /\ outcome \in {"reading", "loaded"} => AsRead
  /\ outcome = "loaded" => r = header.rows
  /\ outcome = "failed" => ~CanLoad

LEMMA FileInit == Init => FileInv
BY DEF Init, FileInv

LEMMA NoneDone ==
  ASSUME GoodHeader, r = 0, c = 0, NEW x \in Board
  PROVE  ~Done(x)
<1>1. x[1] \in Nat /\ x[2] \in Nat
  BY DEF Board, CellsIn
<1> QED
  BY <1>1 DEF Done, Before

LEMMA FileHeaderStep == LoaderInv /\ FileInv /\ ReadHeader => FileInv'
<1> SUFFICES ASSUME LoaderInv, FileInv, ReadHeader PROVE FileInv'
  OBVIOUS
<1>0. /\ outcome = "opened" /\ r = 0 /\ c = 0 /\ spawns = << >>
      /\ UNCHANGED <<header, file, r, c, spawns, defaults>>
      /\ header \in Headers /\ file \in Files
  BY DEF ReadHeader, FileInv
<1>1. CASE ~GoodHeader
  <2>1. outcome' = "failed" /\ ~CanLoad'
    BY <1>0, <1>1 DEF ReadHeader, CanLoad, GoodHeader
  <2> QED
    BY <1>0, <2>1 DEF FileInv
<1>2. CASE GoodHeader
  <2>1. outcome' = "reading"
    BY <1>2 DEF ReadHeader
  <2>2. Board' = Board /\ GoodHeader'
    BY <1>0, <1>2 DEF Board, GoodHeader
  <2>3. \A x \in Board' : ~Done(x)'
    <3> SUFFICES ASSUME NEW x \in Board PROVE ~Done(x)'
      BY <2>2
    <3>1. ~Done(x)
      BY <1>0, <1>2, NoneDone
    <3> QED
      BY <1>0, <3>1 DEF Done, Before
  <2>4. DOMAIN spawns' = {} /\ spawns' = [s \in DOMAIN spawns' |-> spawns'[s]]
    BY <1>0
  <2>5. AsRead'
    BY <2>3, <2>4 DEF AsRead
  <2> QED
    BY <1>0, <2>1, <2>5 DEF FileInv
<1> QED
  BY <1>1, <1>2

(* One turn of the loop takes the token of the cell it is at. *)
LEMMA TurnReads ==
  ASSUME LoaderInv, outcome = "reading", r < header.rows, Advance,
         UNCHANGED <<header, file, outcome>>
  PROVE  /\ <<r, c>> \in Board /\ Board' = Board /\ ~Done(<<r, c>>)
         /\ Place(<<r, c>>) \in Nat /\ NextToken = Token(<<r, c>>)
         /\ AtEnd <=> Place(<<r, c>>) >= Len(file)
         /\ \A x \in Board : Done(x)' <=> Done(x) \/ x = <<r, c>>
         /\ \A x \in Board : Done(x) => Place(x) < Place(<<r, c>>)
         /\ \A x : Place(x)' = Place(x) /\ Token(x)' = Token(x)
<1> DEFINE at == <<r, c>>
<1>1. /\ at \in Board /\ Board' = Board /\ ~Before(at, r, c)
      /\ \A x \in Board : Before(x, r, c) \/ x = at => Before(x, r', c')
  BY Turn
<1>2. GoodHeader /\ header.rows \in Nat /\ header.cols \in Nat /\ r \in Nat /\ c \in 0..(header.cols - 1)
  BY Widths DEF LoaderInv, ReadSoFar, GoodHeader
<1>3. at[1] = r /\ at[2] = c
  OBVIOUS
<1>4. ASSUME NEW x \in Board, Before(x, r', c') PROVE Before(x, r, c) \/ x = at
  <2>1. x[1] \in Nat /\ x[2] \in 0..(header.cols - 1) /\ x = <<x[1], x[2]>>
    BY <1>2 DEF Board, CellsIn
  <2>2. x[1] < r \/ (x[1] = r /\ x[2] <= c)
    BY <1>2, <1>4, <2>1 DEF Advance, Before
  <2>3. CASE x[1] = r /\ x[2] = c
    BY <2>1, <2>3
  <2> QED
    BY <1>2, <2>1, <2>2, <2>3 DEF Before
<1>5. Place(at) \in Nat /\ \A x \in Board : Before(x, r, c) => Place(x) < Place(at)
  BY <1>1, <1>2, <1>3, Order
<1>6. NextToken = Token(at) /\ (AtEnd <=> Place(at) >= Len(file))
  BY <1>3 DEF NextToken, Token, TokenAt, AtEnd, Place
<1>7. \A x : Place(x)' = Place(x) /\ Token(x)' = Token(x)
  BY DEF Place, Token, TokenAt
<1> QED
  BY <1>1, <1>4, <1>5, <1>6, <1>7 DEF Done

LEMMA FileLength == ASSUME FileInv PROVE Len(file) \in Nat
BY FilesAssumption DEF FileInv

LEMMA FileSpawnStep == LoaderInv /\ FileInv /\ ReadSpawn => FileInv'
<1> SUFFICES ASSUME LoaderInv, FileInv, ReadSpawn PROVE FileInv'
  OBVIOUS
<1> DEFINE at == <<r, c>>
<1>1. PICK s \in 1..MaxPlayers :
        /\ NextToken = Digits[s]
        /\ spawns' = [t \in DOMAIN spawns \cup {s} |-> IF t = s THEN at ELSE spawns[t]]
  BY DEF ReadSpawn
<1>2. /\ outcome = "reading" /\ r < header.rows /\ ~AtEnd /\ Advance
      /\ UNCHANGED <<header, file, outcome>> /\ cells' = [cells EXCEPT ![at] = "."]
  BY DEF ReadSpawn
<1>3. /\ at \in Board /\ Board' = Board /\ ~Done(at)
      /\ Place(at) \in Nat /\ NextToken = Token(at)
      /\ AtEnd <=> Place(at) >= Len(file)
      /\ \A x \in Board : Done(x)' <=> Done(x) \/ x = at
      /\ \A x \in Board : Done(x) => Place(x) < Place(at)
      /\ \A x : Place(x)' = Place(x) /\ Token(x)' = Token(x)
  BY <1>2, TurnReads
<1>4. AsRead /\ cells \in [Board -> CellChars] /\ DOMAIN spawns \subseteq 1..MaxPlayers
      /\ \A t \in DOMAIN spawns : spawns[t] \in Board
  BY <1>2 DEF LoaderInv, FileInv, ReadSoFar
<1>5. 1..MaxPlayers \subseteq 1..9
  BY PlayersAssumption
<1>6. Token(at) = Digits[s] /\ Digits[s] \in Named /\ CellOf(Digits[s]) = "."
  BY <1>1, <1>3, <1>5, DigitsAreNoCells DEF Named
<1>7. Place(at) < Len(file)
  BY <1>2, <1>3, FileLength
<1> HIDE DEF at
<1>8. cells'[at] = "." /\ \A x \in Board \ {at} : cells'[x] = cells[x]
  BY <1>2, <1>3, <1>4
<1>9. DOMAIN spawns' = DOMAIN spawns \cup {s} /\ spawns'[s] = at
      /\ \A t \in DOMAIN spawns \ {s} : spawns'[t] = spawns[t]
  BY <1>1
<1>10. \A x \in Board : Done(x)' =>
         Place(x) < Len(file) /\ Token(x) \in CellChars \cup Named /\ cells'[x] = CellOf(Token(x))
  <2> SUFFICES ASSUME NEW x \in Board, Done(x)'
               PROVE  Place(x) < Len(file) /\ Token(x) \in CellChars \cup Named
                      /\ cells'[x] = CellOf(Token(x))
    OBVIOUS
  <2>1. CASE x = at
    BY <1>6, <1>7, <1>8, <2>1
  <2>2. CASE x # at
    BY <1>3, <1>4, <1>8, <2>2 DEF AsRead
  <2> QED
    BY <2>1, <2>2
<1>11. \A t \in 1..MaxPlayers, x \in Board : Done(x)' /\ Token(x) = Digits[t] =>
         t \in DOMAIN spawns' /\ Place(x) <= Place(spawns'[t])
  <2> SUFFICES ASSUME NEW t \in 1..MaxPlayers, NEW x \in Board, Done(x)', Token(x) = Digits[t]
               PROVE  t \in DOMAIN spawns' /\ Place(x) <= Place(spawns'[t])
    OBVIOUS
  <2>1. CASE t = s
    <3>1. Place(x) <= Place(at)
      <4>1. CASE x = at
        BY <1>3, <4>1
      <4>2. CASE Done(x)
        <5>1. Place(x) \in Nat
          BY <1>2, Order DEF LoaderInv, ReadSoFar
        <5> QED
          BY <1>3, <4>2, <5>1
      <4> QED
        BY <1>3, <4>1, <4>2
    <3> QED
      BY <1>9, <2>1, <3>1
  <2>2. CASE t # s
    <3>1. x # at
      BY <1>5, <1>6, <2>2, DigitsDiffer
    <3>2. Done(x)
      BY <1>3, <3>1
    <3>3. t \in DOMAIN spawns /\ Place(x) <= Place(spawns[t])
      BY <1>4, <3>2 DEF AsRead
    <3> QED
      BY <1>9, <2>2, <3>3
  <2> QED
    BY <2>1, <2>2
<1>12. \A t \in DOMAIN spawns' : Token(spawns'[t]) = Digits[t]
  BY <1>4, <1>6, <1>9 DEF AsRead
<1>13. spawns' = [t \in DOMAIN spawns' |-> spawns'[t]]
  BY <1>1
<1>14. AsRead'
  <2>1. \A x \in Board' : Done(x)' =>
          Place(x)' < Len(file') /\ Token(x)' \in CellChars \cup Named
          /\ cells'[x] = CellOf(Token(x)')
    BY <1>2, <1>3, <1>10
  <2>2. \A t \in 1..MaxPlayers, x \in Board' : Done(x)' /\ Token(x)' = Digits[t] =>
          t \in DOMAIN spawns' /\ Place(x)' <= Place(spawns[t])'
    <3>1. \A t \in 1..MaxPlayers : Place(spawns[t])' = Place(spawns'[t])
      BY <1>2 DEF Place
    <3> QED
      BY <1>3, <1>11, <3>1
  <2>3. \A t \in DOMAIN spawns' : Token(spawns[t])' = Digits[t]
    <3>1. \A t \in DOMAIN spawns' : Token(spawns[t])' = Token(spawns'[t])
      BY <1>2 DEF Token, TokenAt
    <3> QED
      BY <1>12, <3>1
  <2> QED
    BY <1>13, <2>1, <2>2, <2>3, Zenon DEF AsRead, Named
<1> QED
  BY <1>2, <1>14 DEF FileInv

LEMMA FileCellStep == LoaderInv /\ FileInv /\ ReadCell => FileInv'
<1> SUFFICES ASSUME LoaderInv, FileInv, ReadCell PROVE FileInv'
  OBVIOUS
<1> DEFINE at == <<r, c>>
<1>1. /\ outcome = "reading" /\ r < header.rows /\ ~AtEnd /\ Advance
      /\ UNCHANGED <<header, file, outcome, spawns>>
      /\ NextToken \in CellChars /\ cells' = [cells EXCEPT ![at] = NextToken]
  BY DEF ReadCell
<1>2. /\ at \in Board /\ Board' = Board /\ ~Done(at)
      /\ Place(at) \in Nat /\ NextToken = Token(at)
      /\ AtEnd <=> Place(at) >= Len(file)
      /\ \A x \in Board : Done(x)' <=> Done(x) \/ x = at
      /\ \A x : Place(x)' = Place(x) /\ Token(x)' = Token(x)
  BY <1>1, TurnReads
<1>3. AsRead /\ cells \in [Board -> CellChars] /\ DOMAIN spawns \subseteq 1..MaxPlayers
  BY <1>1 DEF LoaderInv, FileInv, ReadSoFar
<1>4. Place(at) < Len(file) /\ CellOf(Token(at)) = Token(at) /\ Token(at) \in CellChars
  BY <1>1, <1>2, FileLength, DigitsAreNoCells
<1> HIDE DEF at
<1>5. cells'[at] = Token(at) /\ \A x \in Board \ {at} : cells'[x] = cells[x]
  BY <1>1, <1>2, <1>3
<1>6. \A x \in Board : Done(x)' =>
        Place(x) < Len(file) /\ Token(x) \in CellChars \cup Named /\ cells'[x] = CellOf(Token(x))
  BY <1>2, <1>3, <1>4, <1>5 DEF AsRead
<1>7. \A t \in 1..MaxPlayers : Token(at) # Digits[t]
  BY <1>4, PlayersAssumption, DigitsAreNoCells
<1>8. \A t \in 1..MaxPlayers, x \in Board : Done(x)' /\ Token(x) = Digits[t] =>
        t \in DOMAIN spawns /\ Place(x) <= Place(spawns[t])
  BY <1>2, <1>3, <1>7 DEF AsRead
<1>9. AsRead'
  <2>1. \A x \in Board' : Done(x)' =>
          Place(x)' < Len(file') /\ Token(x)' \in CellChars \cup Named
          /\ cells'[x] = CellOf(Token(x)')
    BY <1>1, <1>2, <1>6
  <2>2. \A t \in 1..MaxPlayers : Place(spawns[t])' = Place(spawns[t])
    BY <1>1 DEF Place
  <2>3. \A t \in 1..MaxPlayers, x \in Board' : Done(x)' /\ Token(x)' = Digits[t] =>
          t \in DOMAIN spawns' /\ Place(x)' <= Place(spawns[t])'
    BY <1>1, <1>2, <1>8, <2>2
  <2>4. \A t \in DOMAIN spawns' : Token(spawns[t])' = Digits[t]
    <3>1. \A t \in DOMAIN spawns' : Token(spawns[t])' = Token(spawns[t])
      BY <1>1 DEF Token, TokenAt
    <3> QED
      BY <1>1, <1>3, <3>1 DEF AsRead
  <2>5. spawns' = [t \in DOMAIN spawns' |-> spawns'[t]]
    BY <1>1, <1>3 DEF AsRead
  <2> QED
    BY <2>1, <2>3, <2>4, <2>5, Zenon DEF AsRead, Named
<1> QED
  BY <1>1, <1>9 DEF FileInv

LEMMA RejectStep == LoaderInv /\ FileInv /\ Reject => FileInv'
<1> SUFFICES ASSUME LoaderInv, FileInv, Reject PROVE FileInv'
  OBVIOUS
<1> DEFINE at == <<r, c>>
           n == header.rows * header.cols
           k == Place(at) + 1
<1>1. /\ outcome = "reading" /\ r < header.rows /\ outcome' = "failed"
      /\ UNCHANGED <<header, file>>
      /\ ~AtEnd => NextToken \notin CellChars \cup Named
  BY DEF Reject, Named
<1>2. GoodHeader /\ header.rows \in Nat /\ header.cols \in Nat /\ r \in Nat /\ c \in 0..(header.cols - 1)
  BY <1>1, Widths DEF LoaderInv, ReadSoFar, GoodHeader
<1>3. at \in Board
  BY <1>1, <1>2 DEF Board, CellsIn
<1>4. k \in 1..n /\ n \in Nat
  BY <1>2, <1>3, CellAt
<1>5. NextToken = file[k] /\ (AtEnd <=> Place(at) >= Len(file))
  <2>1. Place(at) = r * header.cols + c
    BY DEF Place
  <2> QED
    BY <2>1 DEF NextToken, AtEnd
<1>6. ~CanLoad
  <2> SUFFICES ASSUME Len(file) >= n, \A i \in 1..n : file[i] \in CellChars \cup Named
               PROVE  FALSE
    BY DEF CanLoad, Readable, Named
  <2> HIDE DEF n, at
  <2>1. Place(at) \in Int
    BY <1>2, <1>3, Order DEF at
  <2>2. ~AtEnd
    BY <1>4, <1>5, <2>1, FileLength
  <2> QED
    BY <1>1, <1>4, <1>5, <2>2
<1>7. ~CanLoad'
  BY <1>1, <1>6 DEF CanLoad, GoodHeader
<1> QED
  BY <1>1, <1>7 DEF FileInv

LEMMA FileStep == LoaderInv /\ FileInv /\ [Next]_vars => FileInv'
<1> SUFFICES ASSUME LoaderInv, FileInv, [Next]_vars PROVE FileInv'
  OBVIOUS
<1>1. ASSUME UNCHANGED <<header, file, r, c, cells, spawns>> PROVE AsRead => AsRead'
  BY <1>1 DEF AsRead, Done, Before, Place, Token, TokenAt, Board
<1>2. CASE Load
  BY <1>1, <1>2 DEF Load, FileInv
<1>3. CASE UNCHANGED vars
  BY <1>1, <1>3 DEF vars, FileInv, CanLoad, GoodHeader
<1> QED
  BY <1>2, <1>3, FileHeaderStep, FileSpawnStep, FileCellStep, RejectStep DEF Next

(* When the last row is full, the whole board has been read. *)
LEMMA Complete ==
  ASSUME LoaderInv, FileInv, outcome = "loaded"
  PROVE  /\ GoodHeader /\ AsRead /\ \A x \in Board : Done(x)
         /\ CanLoad
<1>1. GoodHeader /\ AsRead /\ r = header.rows
  BY DEF LoaderInv, ReadSoFar, FileInv
<1>2. header.rows \in Nat \ {0} /\ header.cols \in Nat \ {0}
  BY <1>1, Widths DEF GoodHeader
<1>3. \A x \in Board : Done(x)
  BY <1>1, <1>2 DEF Board, CellsIn, Done, Before
<1> DEFINE n == header.rows * header.cols
<1>4. ASSUME NEW k \in 1..n PROVE k <= Len(file) /\ file[k] \in CellChars \cup Named
  <2>1. PICK x \in Board : Place(x) + 1 = k
    BY <1>1, CellAt
  <2>2. Place(x) < Len(file) /\ Token(x) \in CellChars \cup Named /\ Place(x) \in Nat
    BY <1>1, <1>3, Order DEF AsRead
  <2>3. Token(x) = file[k]
    BY <2>1 DEF Token, TokenAt, Place
  <2>4. Len(file) \in Nat
    BY FileLength
  <2> HIDE DEF n
  <2> QED
    BY <2>1, <2>2, <2>3, <2>4
<1>5. Len(file) >= n
  <2>1. n \in Nat /\ n \in 1..n
    BY <1>2
  <2> QED
    BY <1>4, <2>1, FileLength
<1>6. CanLoad
  BY <1>1, <1>4, <1>5 DEF CanLoad, Readable, Named
<1> QED
  BY <1>1, <1>3, <1>6

LEMMA LoadedSpawns ==
  ASSUME LoaderInv, FileInv, outcome = "loaded"
  PROVE  spawns = SpawnsOf(file, header.rows, header.cols, MaxPlayers)
<1> DEFINE places(s) == {x \in Board : Token(x) = Digits[s]}
           Last(s, x) == x \in places(s) /\ \A d \in places(s) : Place(d) <= Place(x)
           last(s)   == CHOOSE x \in places(s) : \A d \in places(s) : Place(d) <= Place(x)
<1>1. GoodHeader /\ AsRead /\ \A x \in Board : Done(x)
  BY Complete
<1>2. /\ DOMAIN spawns \subseteq 1..MaxPlayers
      /\ \A s \in DOMAIN spawns : spawns[s] \in Board
  BY DEF LoaderInv, ReadSoFar
<1>3. SpawnsOf(file, header.rows, header.cols, MaxPlayers)
        = [s \in {s \in 1..MaxPlayers : places(s) # {}} |-> last(s)]
  BY DEF SpawnsOf, Token, Place, Board
<1>4. DOMAIN spawns = {s \in 1..MaxPlayers : places(s) # {}}
  BY <1>1, <1>2 DEF AsRead
<1>5. ASSUME NEW s \in DOMAIN spawns PROVE spawns[s] = last(s)
  <2>1. Last(s, spawns[s])
    BY <1>1, <1>2 DEF AsRead
  <2>2. ASSUME NEW x, NEW y, Last(s, x), Last(s, y) PROVE x = y
    <3>1. x \in Board /\ y \in Board /\ Place(x) <= Place(y) /\ Place(y) <= Place(x)
      BY <2>2
    <3>2. Place(x) \in Nat /\ Place(y) \in Nat
      BY <1>1, <3>1, Order
    <3>3. /\ x = y \/ Before(x, y[1], y[2]) \/ Before(y, x[1], x[2])
          /\ Before(x, y[1], y[2]) => Place(x) < Place(y)
          /\ Before(y, x[1], x[2]) => Place(y) < Place(x)
      BY <1>1, <3>1, Order
    <3> QED
      BY <3>1, <3>2, <3>3
  <2>3. Last(s, last(s))
    BY <2>1
  <2> HIDE DEF Last, last
  <2> QED
    BY <2>1, <2>2, <2>3
<1>6. spawns = [s \in DOMAIN spawns |-> spawns[s]]
  BY <1>1 DEF AsRead
<1>7. spawns = [s \in DOMAIN spawns |-> last(s)]
  <2> HIDE DEF last
  <2> QED
    BY <1>5, <1>6
<1> QED
  BY <1>3, <1>4, <1>7

LEMMA LoadedCells ==
  ASSUME LoaderInv, FileInv, outcome = "loaded"
  PROVE  cells = CellsOf(file, header.rows, header.cols)
<1>1. AsRead /\ (\A x \in Board : Done(x)) /\ cells \in [Board -> CellChars]
  BY Complete DEF LoaderInv, ReadSoFar
<1>2. \A x \in Board : cells[x] = CellOf(Token(x))
  BY <1>1 DEF AsRead
<1>3. cells = [x \in Board |-> CellOf(Token(x))]
  BY <1>1, <1>2
<1> QED
  BY <1>3 DEF CellsOf, Board, Token

LEMMA Loads == LoaderInv /\ FileInv => LoadsTheFile
<1> SUFFICES ASSUME LoaderInv, FileInv PROVE LoadsTheFile
  OBVIOUS
<1>1. outcome = "loaded" => CanLoad
  BY Complete
<1>2. outcome = "failed" => ~CanLoad
  BY DEF FileInv
<1> QED
  BY <1>1, <1>2, LoadedCells, LoadedSpawns DEF LoadsTheFile, CanLoad

(* Every file is loaded as its tokens say or refused: the loop stores what *)
(* each token says, the last of equal digits counts, and it gives up on    *)
(* just the files that cannot be read so, for boards of any size.          *)
THEOREM LoadsTheFileHolds == Spec => []LoadsTheFile
<1>1. Init => LoaderInv /\ FileInv
  BY LoaderInit, FileInit
<1>2. LoaderInv /\ FileInv /\ [Next]_vars => LoaderInv' /\ FileInv'
  BY LoaderStep, FileStep
<1> QED
  BY <1>1, <1>2, Loads, PTL DEF Spec
=============================================================================
