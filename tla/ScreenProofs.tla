---------------------------- MODULE ScreenProofs ----------------------------
(***************************************************************************)
(* What the client shows: its log box holds the latest lines, for a ring   *)
(* of any size and any number of lines, and a frame stays inside the       *)
(* buffer on exactly the sizes that DrawsInside names, for a buffer, a     *)
(* terminal and a map of any size.                                         *)
(***************************************************************************)
EXTENDS Screen, SequenceTheorems, TLAPS

(* Division with remainder by any positive number. *)
LEMMA Division ==
  ASSUME NEW s \in Nat \ {0}, NEW t \in Nat
  PROVE  /\ t \div s \in Nat /\ (t % s) \in 0..(s - 1)
         /\ t = s * (t \div s) + (t % s)
<1>1. t \div s \in Int
  OBVIOUS
<1>2. (t % s) \in 0..(s - 1)
  OBVIOUS
<1>3. t = s * (t \div s) + (t % s)
  OBVIOUS
<1>4. t \div s >= 0
  BY <1>1, <1>2, <1>3
<1> QED
  BY <1>1, <1>2, <1>3, <1>4

LEMMA Multiples ==
  ASSUME NEW s \in Nat \ {0}, NEW k \in Int
  PROVE  /\ k < 0 => s * k <= -s
         /\ k > 0 => s * k >= s
         /\ k = 0 => s * k = 0
<1>1. ASSUME k < 0 PROVE s * k <= -s
  <2>1. s * (-k) >= s
    BY <1>1
  <2> QED
    BY <2>1
<1>2. ASSUME k > 0 PROVE s * k >= s
  BY <1>2
<1> QED
  BY <1>1, <1>2

LEMMA NoMultipleBetween ==
  ASSUME NEW s \in Nat \ {0}, NEW k \in Int, s * k < s, s * k > -s
  PROVE  k = 0
<1> DEFINE m == s * k
<1>1. m < s /\ m > -s /\ m \in Int
  OBVIOUS
<1>2. (k < 0 => m <= -s) /\ (k > 0 => m >= s)
  BY Multiples
<1> HIDE DEF m
<1> QED
  BY <1>1, <1>2

(* A remainder is determined by its range. *)
LEMMA Remainder ==
  ASSUME NEW s \in Nat \ {0}, NEW t \in Nat, NEW q \in Int, NEW r \in 0..(s - 1),
         t = s * q + r
  PROVE  t % s = r
<1> DEFINE p == t \div s
<1>0. t \div s \in Nat /\ (t % s) \in 0..(s - 1) /\ t = s * (t \div s) + (t % s)
  BY Division
<1>1. p \in Int /\ (t % s) \in 0..(s - 1) /\ t = s * p + (t % s)
  BY <1>0
<1>2. s * p - s * q = s * (p - q) /\ s * p \in Int /\ s * q \in Int
  BY <1>1
<1>3. s * (p - q) = r - (t % s)
  BY <1>1, <1>2
<1>4. p - q = 0
  <2>1. s * (p - q) < s /\ s * (p - q) > -s
    BY <1>1, <1>3
  <2> QED
    BY <1>1, <2>1, NoMultipleBetween
<1>5. p = q
  BY <1>1, <1>4
<1> QED
  BY <1>1, <1>5

(* Adding and taking away within a remainder: the numbers t and u leave   *)
(* the same remainder when t is u moved by whole multiples of s.           *)
Agree(t, u, s) == t % s = u % s

LEMMA SameNear ==
  ASSUME NEW s \in Nat \ {0}, NEW n \in Nat, NEW t \in Nat, NEW u \in Nat,
         t = (n % s) + (u - n)
  PROVE  Agree(t, u, s)
<1> DEFINE p == n \div s
           q == u \div s
           r == u % s
<1>1. p \in Int /\ (n % s) \in Int /\ n = s * p + (n % s)
  BY Division
<1>2. q \in Int /\ r \in 0..(s - 1) /\ u = s * q + r
  BY Division
<1>3. q - p \in Int /\ s * (q - p) = s * q - s * p /\ s * p \in Int /\ s * q \in Int
  BY <1>1, <1>2
<1>4. t = s * (q - p) + r
  <2> DEFINE sp == s * p
             sq == s * q
             sd == s * (q - p)
             m == n % s
  <2>1. /\ n = sp + m /\ u = sq + r /\ sd = sq - sp /\ t = m + (u - n)
        /\ sp \in Int /\ sq \in Int /\ m \in Int /\ r \in Int
    BY <1>1, <1>2, <1>3
  <2> HIDE DEF sp, sq, sd, m, r
  <2>2. t = sd + r
    BY <2>1
  <2> QED
    BY <2>2 DEF sd
<1> QED
  BY <1>2, <1>3, <1>4, Remainder DEF Agree

LEMMA SameFar ==
  ASSUME NEW s \in Nat \ {0}, NEW n \in Nat, NEW t \in Nat, NEW u \in Nat,
         t = (n % s) + s + (u - n)
  PROVE  Agree(t, u, s)
<1> DEFINE m == n % s
           t0 == u + s
<1>1. m \in Int /\ t0 \in Nat /\ t = m + (t0 - n)
  BY Division
<1>2. Agree(t, t0, s)
  <2> HIDE DEF t0
  <2> QED
    BY <1>1, SameNear, Zenon DEF m
<1>3. u \in Nat /\ (u % s) \in 0..(s - 1) /\ (u \div s) \in Int /\ u = s * (u \div s) + (u % s)
  BY Division
<1>4. t0 % s = u % s
  <2> DEFINE q == u \div s
             r == u % s
  <2>1. q + 1 \in Int /\ s * (q + 1) = s * q + s /\ s * q \in Int
    BY <1>3
  <2>2. t0 = s * (q + 1) + r
    <3> DEFINE sq == s * q
               s1 == s * (q + 1)
    <3>1. u = sq + r /\ s1 = sq + s /\ sq \in Int /\ r \in Int
      BY <1>3, <2>1
    <3> HIDE DEF sq, s1, r
    <3>2. t0 = s1 + r
      BY <3>1
    <3> QED
      BY <3>2 DEF s1
  <2>3. q + 1 \in Int /\ r \in 0..(s - 1) /\ t0 = s * (q + 1) + r
    BY <1>3, <2>1, <2>2
  <2> HIDE DEF t0, q, r
  <2>4. t0 % s = r
    <3> DEFINE k == q + 1
    <3>1. k \in Int /\ t0 = s * k + r
      BY <2>3
    <3> HIDE DEF k
    <3> QED
      BY <1>1, <2>3, <3>1, Remainder
  <2> QED
    BY <2>4 DEF r
<1> QED
  BY <1>2, <1>4 DEF Agree

LEMMA Small ==
  ASSUME NEW s \in Nat \ {0}, NEW n \in 0..(s - 1)
  PROVE  n % s = n
OBVIOUS

LEMMA Apart ==
  ASSUME NEW s \in Nat \ {0}, NEW a \in Nat, NEW b \in Nat, a < b, b - a < s
  PROVE  a % s # b % s
<1> SUFFICES ASSUME a % s = b % s PROVE FALSE
  OBVIOUS
<1> DEFINE p == a \div s
           q == b \div s
<1>1. /\ p \in Int /\ q \in Int /\ (a % s) \in Int
      /\ a = s * p + (a % s) /\ b = s * q + (a % s)
  BY Division
<1>2. s * (q - p) = s * q - s * p /\ s * p \in Int /\ s * q \in Int
  BY <1>1
<1>3. s * (q - p) = b - a
  BY <1>1, <1>2
<1>4. q - p = 0
  BY <1>1, <1>3, NoMultipleBetween
<1> QED
  BY <1>1, <1>3, <1>4

-----------------------------------------------------------------------------
(* The ends of the ring in terms of the number of lines logged, and the    *)
(* lines that are still in it, one more than it shows.                     *)
Beg(n) == IF n < Count THEN 0 ELSE (n + 1) % Count
RingInv ==
  /\ lines \in Seq(Line) /\ qlog \in [0..(Count - 1) -> Line \cup {Blank}]
  /\ qlog_end = Len(lines) % Count /\ qlog_beg = Beg(Len(lines))
  /\ \A k \in 1..Len(lines) :
       k > Len(lines) - Count => qlog[(k - 1) % Count] = lines[k]

LEMMA Next1 ==
  ASSUME NEW n \in Nat
  PROVE  ((n % Count) + 1) % Count = (n + 1) % Count
<1> DEFINE t == (n % Count) + 1
           u == n + 1
<1>1. (n % Count) \in Nat /\ Count \in Nat \ {0}
  BY CountAssumption, Division
<1>2. t \in Nat /\ u \in Nat /\ t = (n % Count) + (u - n)
  BY <1>1
<1>3. Agree(t, u, Count)
  <2> HIDE DEF t, u
  <2> QED
    BY <1>1, <1>2, SameNear, Zenon
<1> QED
  BY <1>3 DEF Agree

LEMMA BegStep ==
  ASSUME NEW n \in Nat
  PROVE  Beg(n + 1) = IF Beg(n) = (n + 1) % Count THEN (Beg(n) + 1) % Count ELSE Beg(n)
<1>0. Count \in Nat \ {0} /\ Count >= 2
  BY CountAssumption
<1>1. CASE n + 1 < Count
  <2>1. (n + 1) % Count = n + 1
    BY <1>0, <1>1, Small
  <2> QED
    BY <1>0, <1>1, <2>1 DEF Beg
<1>2. CASE n + 1 >= Count
  <2>1. Beg(n) = (n + 1) % Count
    <3>1. CASE n + 1 = Count
      <4>1. Count % Count = 0
        BY <1>0, Remainder
      <4> QED
        BY <1>0, <3>1, <4>1 DEF Beg
    <3>2. CASE n >= Count
      BY <1>0, <3>2 DEF Beg
    <3> QED
      BY <1>0, <1>2, <3>1, <3>2
  <2>2. (((n + 1) % Count) + 1) % Count = (n + 1 + 1) % Count
    BY Next1
  <2>3. Beg(n + 1) = (n + 1 + 1) % Count
    BY <1>0, <1>2 DEF Beg
  <2> QED
    BY <2>1, <2>2, <2>3
<1> QED
  BY <1>0, <1>1, <1>2

LEMMA RingInit == Init => RingInv
<1> SUFFICES ASSUME Init PROVE RingInv
  OBVIOUS
<1>0. Count \in Nat \ {0}
  BY CountAssumption
<1>1. 0 % Count = 0
  BY <1>0, Small
<1> QED
  BY <1>0, <1>1 DEF Init, RingInv, Beg

LEMMA RingStep == RingInv /\ [Next]_vars => RingInv'
<1> SUFFICES ASSUME RingInv, [Next]_vars PROVE RingInv'
  OBVIOUS
<1>0. Count \in Nat \ {0}
  BY CountAssumption
<1>1. CASE UNCHANGED vars
  BY <1>1 DEF vars, RingInv
<1>2. ASSUME NEW line \in Line, Log(line) PROVE RingInv'
  <2> DEFINE n == Len(lines)
  <2>1. n \in Nat /\ lines' \in Seq(Line) /\ Len(lines') = n + 1
        /\ lines'[n + 1] = line /\ \A k \in 1..n : lines'[k] = lines[k]
    BY <1>2 DEF Log, RingInv
  <2>2. (n % Count) \in 0..(Count - 1)
    BY <1>0, <2>1, Division
  <2>3. qlog' = [qlog EXCEPT ![n % Count] = line]
    BY <1>2 DEF Log, RingInv
  <2>4. qlog' \in [0..(Count - 1) -> Line \cup {Blank}]
    BY <2>2, <2>3 DEF RingInv
  <2>5. qlog_end' = (n + 1) % Count
    BY <1>2, <2>1, Next1 DEF Log, RingInv
  <2>6. qlog_beg' = Beg(n + 1)
    BY <1>2, <2>1, <2>5, BegStep DEF Log, NextBeg, RingInv
  <2>7. ASSUME NEW k \in 1..(n + 1), k > n + 1 - Count
        PROVE  qlog'[(k - 1) % Count] = lines'[k]
    <3>1. CASE k = n + 1
      BY <2>1, <2>2, <2>3, <3>1 DEF RingInv
    <3>2. CASE k \in 1..n
      <4>0. k - 1 \in Nat /\ k - 1 < n /\ n - (k - 1) < Count
        BY <1>0, <2>1, <2>7, <3>2
      <4>1. ((k - 1) % Count) \in 0..(Count - 1)
        BY <1>0, <4>0, Division
      <4>2. (k - 1) % Count # n % Count
        BY <1>0, <2>1, <4>0, Apart
      <4>3. qlog[(k - 1) % Count] = lines[k]
        <5>1. k \in 1..Len(lines) /\ k > Len(lines) - Count
          BY <1>0, <2>1, <2>7, <3>2
        <5>2. \A j \in 1..Len(lines) :
                j > Len(lines) - Count => qlog[(j - 1) % Count] = lines[j]
          BY Zenon DEF RingInv
        <5> QED
          BY <5>1, <5>2, Zenon
      <4> QED
        BY <2>1, <2>3, <3>2, <4>1, <4>2, <4>3 DEF RingInv
    <3> QED
      BY <2>1, <3>1, <3>2
  <2>8. \A k \in 1..Len(lines') :
          k > Len(lines') - Count => qlog'[(k - 1) % Count] = lines'[k]
    <3> HIDE DEF n
    <3> SUFFICES ASSUME NEW k \in 1..Len(lines'), k > Len(lines') - Count
                 PROVE  qlog'[(k - 1) % Count] = lines'[k]
      OBVIOUS
    <3>1. k \in 1..(n + 1) /\ k > n + 1 - Count
      BY <1>0, <2>1
    <3> QED
      BY <2>7, <3>1
  <2> QED
    BY <2>1, <2>4, <2>5, <2>6, <2>8, Zenon DEF RingInv
<1> QED
  BY <1>1, <1>2 DEF Next

-----------------------------------------------------------------------------
LEMMA TotalIs ==
  ASSUME RingInv
  PROVE  Total = IF Len(lines) < Count THEN Len(lines) ELSE Count - 1
<1> DEFINE n == Len(lines)
           e == n % Count
<1>0. Count \in Nat \ {0} /\ Count >= 2 /\ n \in Nat
  BY CountAssumption DEF RingInv
<1>1. e \in 0..(Count - 1) /\ qlog_end = e /\ qlog_beg = Beg(n)
  BY <1>0, Division DEF RingInv
<1>2. CASE n < Count
  <2>1. e = n /\ qlog_beg = 0
    BY <1>0, <1>1, <1>2, Small DEF Beg
  <2>2. (n + Count) % Count = n
    BY <1>0, <1>2, Remainder
  <2> QED
    BY <1>0, <1>1, <1>2, <2>1, <2>2 DEF Total
<1>3. CASE n >= Count
  <2>0. (e + 1) % Count = (n + 1) % Count
    BY <1>0, Next1
  <2>1. qlog_beg = (e + 1) % Count
    BY <1>0, <1>1, <1>3, <2>0 DEF Beg
  <2>2. CASE e = Count - 1
    <3>1. Count % Count = 0
      BY <1>0, Remainder
    <3>2. (Count - 1 + Count) % Count = Count - 1
      BY <1>0, Remainder
    <3>3. qlog_beg = 0
      BY <1>0, <2>1, <2>2, <3>1
    <3> QED
      BY <1>0, <1>1, <1>3, <2>2, <3>2, <3>3 DEF Total
  <2>3. CASE e < Count - 1
    <3>0. e + 1 \in 0..(Count - 1) /\ Count - 1 \in 0..(Count - 1)
      BY <1>0, <1>1, <2>3
    <3>1. (e + 1) % Count = e + 1 /\ (Count - 1) % Count = Count - 1
      BY <1>0, <3>0, Small
    <3>2. e + Count - (e + 1) = Count - 1
      BY <1>0, <1>1
    <3> QED
      BY <1>0, <1>1, <1>3, <2>1, <3>1, <3>2 DEF Total
  <2> QED
    BY <1>0, <1>1, <2>2, <2>3
<1> QED
  BY <1>0, <1>2, <1>3

LEMMA RingShows == RingInv => ShowsLatest
<1> SUFFICES ASSUME RingInv, NEW room \in 0..Count
             PROVE  Shown(room) = SubSeq(lines, Len(lines) - Kept(room) + 1, Len(lines))
  BY DEF ShowsLatest
<1> DEFINE n == Len(lines)
           v == Kept(room)
           first == (qlog_end + Count - v) % Count
<1>0. Count \in Nat \ {0} /\ Count >= 2 /\ n \in Nat /\ lines \in Seq(Line)
  BY CountAssumption DEF RingInv
<1>1. Visible(room) = v
  BY <1>0, TotalIs DEF Visible, Kept
<1>2. v \in 0..n /\ v < Count
  BY <1>0 DEF Kept
<1>3. first = (n - v) % Count
  <2>1. qlog_end = n % Count /\ (n % Count) \in 0..(Count - 1)
    BY <1>0, Division DEF RingInv
  <2> DEFINE t == qlog_end + Count - v
             u == n - v
  <2>2. t \in Nat /\ u \in Nat /\ t = (n % Count) + Count + (u - n)
    BY <1>0, <1>2, <2>1, SMTT(30)
  <2>3. Agree(t, u, Count)
    <3> HIDE DEF t, u
    <3> QED
      BY <1>0, <2>2, SameFar, Zenon
  <2> QED
    BY <2>3 DEF Agree
<1>4. ASSUME NEW i \in 1..v PROVE qlog[(first + i - 1) % Count] = lines[n - v + i]
  <2> DEFINE a == n - v
             k == n - v + i
  <2>0. a \in Nat
    BY <1>0, <1>2
  <2>1. (a % Count) \in 0..(Count - 1)
    BY <1>0, <2>0, Division
  <2> DEFINE t == first + i - 1
             u == k - 1
  <2>2. t \in Nat /\ u \in Nat /\ t = (a % Count) + (u - a)
    <3>1. first \in Nat /\ first = a % Count /\ u - a = i - 1
      BY <1>0, <1>2, <1>3, <2>0, <2>1, SMTT(30)
    <3> HIDE DEF first
    <3>2. t \in Nat /\ t = first + (i - 1) /\ u \in Nat
      BY <1>0, <1>2, <3>1, SMTT(30)
    <3> QED
      BY <3>1, <3>2
  <2>3. Agree(t, u, Count)
    <3> HIDE DEF t, u, a
    <3> QED
      BY <1>0, <2>0, <2>2, SameNear, Zenon
  <2>4. k \in 1..n /\ k > n - Count
    BY <1>0, <1>2
  <2> QED
    BY <2>3, <2>4 DEF RingInv, Agree
<1>5. Shown(room) = [i \in 1..v |-> lines[n - v + i]]
  <2>1. Shown(room) = [i \in 1..v |-> qlog[(first + i - 1) % Count]]
    BY <1>1 DEF Shown
  <2> QED
    BY <1>4, <2>1
<1>6. SubSeq(lines, n - v + 1, n) = [i \in 1..v |-> lines[n - v + i]]
  <2> DEFINE t == SubSeq(lines, n - v + 1, n)
  <2>1. t \in Seq(Line) /\ Len(t) = v /\ \A i \in 1..v : t[i] = lines[n - v + i]
    BY <1>0, <1>2, SubSeqProperties
  <2>2. t = [i \in 1..v |-> t[i]]
    BY <2>1, SMTT(30)
  <2> QED
    BY <2>1, <2>2
<1> QED
  BY <1>5, <1>6

(* Whatever its size, the box shows the latest lines in order, through     *)
(* every wrap of the ring.                                                 *)
THEOREM ShowsLatestHolds == Spec => []ShowsLatest
BY RingInit, RingStep, RingShows, PTL DEF Spec

-----------------------------------------------------------------------------
(* The log goes on underneath the screen's steps. *)
LEMMA LogGoesOn == ScreenSpec => []RingInv
<1>1. ScreenInit => RingInv
  BY RingInit DEF ScreenInit
<1>2. RingInv /\ [ScreenNext]_<<screen, vars>> => RingInv'
  <2>1. [ScreenNext]_<<screen, vars>> => [Next]_vars
    BY DEF ScreenNext, screen, vars
  <2> QED
    BY <2>1, RingStep
<1> QED
  BY <1>1, <1>2, PTL DEF ScreenSpec

(* The box of the log of a screen is the log's. *)
THEOREM ScreenShowsLatest == ScreenSpec => []ShowsLatest
BY LogGoesOn, RingShows, PTL

-----------------------------------------------------------------------------
(* What a frame is drawn from. *)
SizesFit ==
  /\ screen_rows \in 0..MaxRows /\ screen_cols \in 0..MaxCols
  /\ status \in {"LOBBY", "RUNNING", "END"} /\ map \in Maps \cup {NoMap}

LEMMA SizesInit == ScreenInit => SizesFit
BY BufferAssumption DEF ScreenInit, SizesFit

LEMMA SizesStep == SizesFit /\ [ScreenNext]_<<screen, vars>> => SizesFit'
<1> SUFFICES ASSUME SizesFit, [ScreenNext]_<<screen, vars>> PROVE SizesFit'
  OBVIOUS
<1>1. CASE UpdateScreenSize /\ UNCHANGED <<status, map>>
  <2>1. PICK t \in Terminals : /\ screen_rows' = Bound(t.rows, 0, MaxRows)
                               /\ screen_cols' = Bound(t.cols, 0, MaxCols)
    BY <1>1 DEF UpdateScreenSize
  <2>2. t.rows \in Nat /\ t.cols \in Nat
    BY TerminalsAssumption
  <2> QED
    BY <1>1, <2>1, <2>2, BufferAssumption DEF SizesFit, Bound
<1>2. CASE UNCHANGED screen
  BY <1>2 DEF SizesFit, screen
<1>3. CASE status' \in {"LOBBY", "RUNNING", "END"} /\ UNCHANGED <<screen_rows, screen_cols, map>>
  BY <1>3 DEF SizesFit
<1>4. CASE map' \in Maps /\ UNCHANGED <<screen_rows, screen_cols, status>>
  BY <1>4 DEF SizesFit
<1> QED
  BY <1>1, <1>2, <1>3, <1>4 DEF ScreenNext

(* The last row and column as the code computes them, none of them at 0. *)
LEMMA LastIs ==
  ASSUME NEW n \in Nat, n < SizeT
  PROVE  (n - 1) % SizeT = IF n = 0 THEN SizeT - 1 ELSE n - 1
<1>1. SizeT \in Nat \ {0}
  BY BufferAssumption
<1>2. CASE n = 0
  <2>1. (-1) % SizeT = SizeT - 1
    BY <1>1
  <2> QED
    BY <1>2, <2>1
<1>3. CASE n > 0
  BY <1>1, <1>3, Small
<1> QED
  BY <1>2, <1>3

LEMMA SpanIs ==
  ASSUME NEW row, NEW from, NEW n
  PROVE  Span(row, from, n).row = row /\ Span(row, from, n).from = from /\ Span(row, from, n).n = n
BY DEF Span

(* A line of text is inside exactly when the screen reaches its column. *)
LEMMA TextInside ==
  ASSUME SizesFit, NEW row \in Int, row < MaxRows, NEW col \in Nat
  PROVE  Inside(Text(row, col)) <=> screen_cols >= col
<1> DEFINE n == Bound(Longest, 0, screen_cols - col)
<1>1. /\ Text(row, col).row = row /\ Text(row, col).from = col /\ Text(row, col).n = n
  BY SpanIs DEF Text
<1>2. MaxRows - 1 \in Nat /\ screen_cols \in Nat /\ screen_cols <= MaxCols /\ MaxCols \in Nat
  BY BufferAssumption DEF SizesFit
<1>3. CASE screen_cols < col
  <2>1. n \in Int /\ ~(n >= 0)
    BY <1>2, <1>3 DEF Bound, Longest
  <2>2. ~Inside(Text(row, col))
    BY <1>1, <2>1 DEF Inside
  <2> QED
    BY <1>2, <1>3, <2>2
<1>4. CASE screen_cols >= col
  <2>1. n \in Int /\ n >= 0 /\ n <= screen_cols - col
    BY <1>2, <1>4 DEF Bound, Longest
  <2>2. col + n <= MaxCols
    BY <1>2, <2>1
  <2> QED
    BY <1>1, <1>4, <2>1, <2>2 DEF Inside
<1> QED
  BY <1>2, <1>3, <1>4

LEMMA Ends ==
  ASSUME SizesFit
  PROVE  /\ LastRow = IF screen_rows = 0 THEN SizeT - 1 ELSE screen_rows - 1
         /\ LastCol = IF screen_cols = 0 THEN SizeT - 1 ELSE screen_cols - 1
         /\ screen_rows \in Nat /\ screen_cols \in Nat /\ SizeT \in Nat
         /\ screen_rows <= MaxRows /\ screen_cols <= MaxCols /\ MaxRows \in Nat /\ MaxCols \in Nat
         /\ MaxRows < SizeT /\ MaxCols < SizeT
<1>1. /\ screen_rows \in Nat /\ screen_cols \in Nat /\ SizeT \in Nat
      /\ screen_rows <= MaxRows /\ screen_cols <= MaxCols /\ MaxRows \in Nat /\ MaxCols \in Nat
      /\ MaxRows < SizeT /\ MaxCols < SizeT
  BY BufferAssumption DEF SizesFit
<1>2. screen_rows < SizeT /\ screen_cols < SizeT
  BY <1>1
<1> QED
  BY <1>1, <1>2, LastIs DEF LastRow, LastCol

(* A rectangle from the left edge to the last row and column. *)
LEMMA RectInside ==
  ASSUME SizesFit, screen_rows >= 1, screen_cols >= 1, NEW r1 \in Nat,
         NEW s \in Rect(r1, 0, LastRow, LastCol)
  PROVE  Inside(s)
<1>1. PICK y \in r1..LastRow : s = Span(y, 0, LastCol - 0 + 1)
  BY DEF Rect
<1>2. LastRow = screen_rows - 1 /\ LastCol = screen_cols - 1
      /\ screen_rows \in Nat /\ screen_cols \in Nat
      /\ screen_rows <= MaxRows /\ screen_cols <= MaxCols /\ MaxRows \in Nat /\ MaxCols \in Nat
  BY Ends
<1>3. y \in Int /\ y < MaxRows
  BY <1>1, <1>2
<1>4. s.row = y /\ s.from = 0 /\ s.n = screen_cols
  BY <1>1, <1>2, SpanIs
<1> QED
  BY <1>2, <1>3, <1>4 DEF Inside

(* At no rows, or no columns, the last one is the largest number there is. *)
LEMMA BorderNeeds ==
  ASSUME SizesFit, \A s \in Border : Inside(s)
  PROVE  screen_rows >= 1 /\ screen_cols >= 1
<1> DEFINE s == Span(LastRow, 0, LastCol - 0 + 1)
<1>1. LastRow \in Nat /\ LastCol \in Nat
  BY Ends
<1>2. s \in Border
  BY <1>1 DEF Border, Rect
<1>3. s.row = LastRow /\ s.from = 0 /\ s.n = LastCol + 1
  BY <1>1, SpanIs
<1>4. Inside(s)
  BY <1>2
<1>5. LastRow < MaxRows /\ LastCol + 1 <= MaxCols
  BY <1>1, <1>3, <1>4 DEF Inside
<1> QED
  BY <1>5, Ends

LEMMA LogBoxInside ==
  ASSUME SizesFit, screen_rows >= 1, screen_cols >= 2, NEW s \in LogBox
  PROVE  Inside(s)
<1> DEFINE r1      == (screen_rows - 5 - 2 - 1) % SizeT
           visible == Visible((LastRow - r1 - 1) % SizeT)
           row(k)  == (r1 + 1 + k) % SizeT
           shown   == {k \in 0..(visible - 1) : \A j \in 0..k : row(j) < LastRow}
<1>1. LogBox = Rect(r1, 0, LastRow, LastCol) \cup {Text(row(k), 2) : k \in shown}
  BY DEF LogBox
<1>2. SizeT \in Nat \ {0} /\ screen_rows \in Nat /\ screen_cols \in Nat
  BY Ends
<1>3. r1 \in Nat
  BY <1>2
<1>4. CASE s \in Rect(r1, 0, LastRow, LastCol)
  BY <1>2, <1>3, <1>4, RectInside
<1>5. CASE s \in {Text(row(k), 2) : k \in shown}
  <2>1. PICK k \in shown : s = Text(row(k), 2)
    BY <1>5
  <2>2. k \in 0..(visible - 1) /\ \A j \in 0..k : row(j) < LastRow
    BY <2>1
  <2>3. k \in Nat /\ k \in 0..k
    BY <2>2
  <2>4. row(k) \in Int
    <3> HIDE DEF r1
    <3>1. r1 + 1 + k \in Int
      BY <1>3, <2>3
    <3> QED
      BY <1>2, <3>1
  <2>5. row(k) < LastRow
    BY <2>2, <2>3
  <2>6. row(k) < MaxRows
    BY <2>4, <2>5, Ends
  <2> HIDE DEF row
  <2> QED
    BY <1>2, <2>1, <2>4, <2>6, TextInside
<1> QED
  BY <1>1, <1>4, <1>5

-----------------------------------------------------------------------------
(* The screens of the three statuses. *)
Contents == CASE status = "LOBBY" -> Lobby [] status = "RUNNING" -> Game [] status = "END" -> GameOver

LEMMA LobbyInside ==
  ASSUME SizesFit
  PROVE  (\A s \in Lobby : Inside(s)) <=> screen_cols >= 10
<1>1. Inside(Text(5, 10)) <=> screen_cols >= 10
  BY BufferAssumption, TextInside
<1>2. Inside(Text(7, 10)) <=> screen_cols >= 10
  BY BufferAssumption, TextInside
<1>3. Inside(Text(9, 10)) <=> screen_cols >= 10
  BY BufferAssumption, TextInside
<1> QED
  BY <1>1, <1>2, <1>3 DEF Lobby

LEMMA GameOverInside ==
  ASSUME SizesFit
  PROVE  (\A s \in GameOver : Inside(s)) <=> screen_cols >= 5
<1>1. Inside(Text(5, 5)) <=> screen_cols >= 5
  BY BufferAssumption, TextInside
<1>2. Inside(Text(7, 5)) <=> screen_cols >= 5
  BY BufferAssumption, TextInside
<1> QED
  BY <1>1, <1>2 DEF GameOver

(* A row of the board takes two characters a cell. *)
LEMMA BoardRowInside ==
  ASSUME SizesFit, map \in Maps, NEW r \in 0..(map.rows - 1)
  PROVE  Inside(Span(r + 5, 5, 2 * map.cols)) <=> 2 * map.cols + 5 <= MaxCols
<1>1. map.rows \in 1..(MaxRows - MaxPlayers - 7) /\ map.cols \in Nat \ {0}
      /\ MaxPlayers \in Nat /\ MaxRows \in Nat /\ MaxCols \in Nat
  BY MapsAssumption, BufferAssumption
<1> DEFINE s == Span(r + 5, 5, 2 * map.cols)
<1>2. s.row = r + 5 /\ s.from = 5 /\ s.n = 2 * map.cols
  BY SpanIs
<1>3. r + 5 < MaxRows /\ 2 * map.cols \in Nat /\ 2 * map.cols > 0
  BY <1>1
<1>4. Inside(s) <=> 5 + 2 * map.cols <= MaxCols
  <2> HIDE DEF s
  <2> QED
    BY <1>2, <1>3 DEF Inside
<1> QED
  BY <1>1, <1>4

LEMMA GameInside ==
  ASSUME SizesFit
  PROVE  (\A s \in Game : Inside(s)) <=> screen_cols >= 5 /\ 2 * map.cols + 5 <= MaxCols
<1>0. MaxRows \in Nat /\ MaxRows >= 128 /\ MaxCols \in Nat /\ MaxCols >= 128 /\ MaxPlayers \in Nat
  BY BufferAssumption, MapsAssumption
<1>1. CASE map = NoMap
  <2>1. 2 * map.cols + 5 <= MaxCols
    BY <1>0, <1>1 DEF NoMap
  <2>2. Inside(Text(5, 5)) <=> screen_cols >= 5
    BY <1>0, TextInside
  <2> QED
    BY <1>1, <2>1, <2>2 DEF Game
<1>2. CASE map # NoMap
  <2> DEFINE above == {Text(3, 5)}
             board == {Span(r + 5, 5, 2 * map.cols) : r \in 0..(map.rows - 1)}
             below == {Text(map.rows + 6, 5)}
             list  == {Text(map.rows + 7 + i, 5) : i \in 0..(MaxPlayers - 1)}
  <2>0. map \in Maps
    BY <1>2 DEF SizesFit
  <2>1. map.rows \in 1..(MaxRows - MaxPlayers - 7) /\ map.cols \in Nat \ {0}
    BY <2>0, MapsAssumption
  <2>2. Game = above \cup board \cup below \cup list
    BY <1>2 DEF Game
  <2>3. (\A s \in above : Inside(s)) <=> screen_cols >= 5
    BY <1>0, TextInside
  <2>4. (\A s \in below : Inside(s)) <=> screen_cols >= 5
    BY <1>0, <2>1, TextInside
  <2>5. ASSUME NEW s \in list, screen_cols >= 5 PROVE Inside(s)
    <3>1. PICK i \in 0..(MaxPlayers - 1) : s = Text(map.rows + 7 + i, 5)
      OBVIOUS
    <3>2. map.rows + 7 + i \in Int /\ map.rows + 7 + i < MaxRows
      BY <1>0, <2>1
    <3> QED
      BY <2>5, <3>1, <3>2, TextInside
  <2>6. (\A s \in board : Inside(s)) <=> 2 * map.cols + 5 <= MaxCols
    <3>1. \A r \in 0..(map.rows - 1) :
            Inside(Span(r + 5, 5, 2 * map.cols)) <=> 2 * map.cols + 5 <= MaxCols
      BY <2>0, BoardRowInside
    <3>2. 0 \in 0..(map.rows - 1)
      BY <1>0, <2>1
    <3> QED
      BY <3>1, <3>2
  <2> QED
    <3> HIDE DEF above, board, below, list
    <3>1. (\A s \in above \cup below \cup list : Inside(s)) <=> screen_cols >= 5
      BY <2>3, <2>4, <2>5
    <3> QED
      BY <2>2, <2>6, <3>1
<1> QED
  BY <1>1, <1>2

LEMMA FrameInside == SizesFit => DrawsInside
<1> SUFFICES ASSUME SizesFit PROVE DrawsInside
  OBVIOUS
<1> DEFINE least == IF status = "LOBBY" THEN 10 ELSE 5
           fits  == screen_cols >= least /\ (status = "RUNNING" => 2 * map.cols + 5 <= MaxCols)
<1>1. (\A s \in Contents : Inside(s)) <=> fits
  <2>1. CASE status = "LOBBY"
    BY <2>1, LobbyInside DEF Contents
  <2>2. CASE status = "RUNNING"
    BY <2>2, GameInside DEF Contents
  <2>3. CASE status = "END"
    BY <2>3, GameOverInside DEF Contents
  <2> QED
    BY <2>1, <2>2, <2>3 DEF SizesFit
<1>2. Drawn = LogBox \cup Border \cup Contents
  BY DEF Drawn, Contents
<1>3. ASSUME \A s \in Drawn : Inside(s) PROVE screen_rows >= 1 /\ fits
  BY <1>1, <1>2, <1>3, BorderNeeds
<1>4. ASSUME screen_rows >= 1, fits, NEW s \in Drawn PROVE Inside(s)
  <2>1. screen_cols \in Nat /\ screen_cols >= 5
    BY <1>4, Ends
  <2>2. screen_cols >= 1 /\ screen_cols >= 2
    BY <2>1
  <2>3. CASE s \in LogBox
    BY <1>4, <2>2, <2>3, LogBoxInside
  <2>4. CASE s \in Border
    BY <1>4, <2>2, <2>4, RectInside DEF Border
  <2>5. CASE s \in Contents
    BY <1>1, <1>4, <2>5
  <2> QED
    BY <1>2, <2>3, <2>4, <2>5
<1> QED
  BY <1>3, <1>4 DEF DrawsInside

(* Whatever the terminal says of its size and whatever map the server has, *)
(* a frame stays inside the buffer on just the sizes that DrawsInside      *)
(* names: where a subtraction in size_t wraps, a rectangle is empty or the  *)
(* sum wraps back.                                                         *)
THEOREM DrawsInsideHolds == ScreenSpec => []DrawsInside
BY SizesInit, SizesStep, FrameInside, PTL DEF ScreenSpec
=============================================================================
