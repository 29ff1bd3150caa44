----------------------------- MODULE WireProofs -----------------------------
(***************************************************************************)
(* First the codec: for messages filled in with anything their fields can  *)
(* hold, the decoder finds what the encoder put, and every size that is    *)
(* computed of a payload is the length that it has.  Then the stream: a    *)
(* connection hands over what was sent, whole and in order, wherever it is *)
(* cut into chunks and wherever its sender dies: Wire implements Channel,  *)
(* for messages and buffers of any size and any number of them.            *)
(***************************************************************************)
EXTENDS Wire, Integers, WellFoundedInduction, SequenceTheorems, TLAPS

-----------------------------------------------------------------------------
(* Every set of numbers has a least one: what is proved by induction below *)
(* is proved by looking at the first number for which it would fail.       *)
LEMMA Least ==
  ASSUME NEW S, S \subseteq Nat, S # {}
  PROVE  \E x \in S : \A y \in S : x <= y
<1> DEFINE R == {ss \in Nat \X Nat : ss[1] < ss[2]}
<1>1. IsWellFoundedOn(R, Nat)
  BY NatLessThanWellFounded DEF OpToRel
<1> HIDE DEF R
<1>2. PICK x \in S : \A y \in S : ~(<<y, x>> \in R)
  BY <1>1, WFMin
<1>3. ASSUME NEW y \in S PROVE x <= y
  <2>1. x \in Nat /\ y \in Nat /\ ~(<<y, x>> \in R)
    BY <1>2
  <2>2. <<y, x>>[1] = y /\ <<y, x>>[2] = x /\ <<y, x>> \in Nat \X Nat
    BY <2>1
  <2>3. ~(y < x)
    BY <2>1, <2>2, Zenon DEF R
  <2> QED
    BY <2>1, <2>3
<1> QED
  BY <1>3

(* A set of numbers with 0, and with the next of each below n, has all up to n. *)
LEMMA Climb ==
  ASSUME NEW n \in Nat, NEW T, 0 \in T, \A k \in 0..n : k < n /\ k \in T => k + 1 \in T
  PROVE  \A k \in 0..n : k \in T
<1> DEFINE S == {k \in 0..n : k \notin T}
<1>1. SUFFICES ASSUME S # {} PROVE FALSE
  OBVIOUS
<1>2. S \subseteq Nat
  OBVIOUS
<1>3. PICK x \in S : \A y \in S : x <= y
  BY <1>1, <1>2, Least
<1>4. x \in 0..n /\ x \notin T /\ x # 0
  OBVIOUS
<1>5. x - 1 \in 0..n /\ x - 1 < n /\ x - 1 < x /\ x - 1 + 1 = x
  BY <1>4
<1>6. x - 1 \notin S
  BY <1>3, <1>4, <1>5
<1> QED
  BY <1>4, <1>5, <1>6

-----------------------------------------------------------------------------
(* Runs of bytes joined one after the other: start says where each begins. *)
Joined(parts, n, f) ==
  f = [i \in 1..n |-> IF i = 1 THEN parts[i] ELSE f[i - 1] \o parts[i]]

LEMMA JoinExists ==
  ASSUME NEW n \in Nat, NEW parts
  PROVE  \E f : Joined(parts, n, f)
<1> DEFINE T == {k \in 0..n : \E f : Joined(parts, k, f)}
<1>1. 0 \in T
  <2> DEFINE f == [i \in 1..0 |-> parts[i]]
  <2>1. Joined(parts, 0, f)
    BY DEF Joined
  <2> QED
    BY <2>1
<1>2. ASSUME NEW k \in 0..n, k < n, k \in T PROVE k + 1 \in T
  <2>1. PICK f : Joined(parts, k, f)
    BY <1>2
  <2> DEFINE g == [i \in 1..(k + 1) |-> IF i = k + 1
                                        THEN IF k = 0 THEN parts[1] ELSE f[k] \o parts[k + 1]
                                        ELSE f[i]]
  <2>2. ASSUME NEW i \in 1..(k + 1)
        PROVE  g[i] = IF i = 1 THEN parts[i] ELSE g[i - 1] \o parts[i]
    <3>1. CASE i = k + 1
      <4>1. CASE k = 0
        BY <3>1, <4>1
      <4>2. CASE k # 0
        <5>1. i # 1 /\ i - 1 = k /\ k \in 1..(k + 1) /\ k # k + 1
          BY <1>2, <3>1, <4>2
        <5>2. g[k] = f[k] /\ g[i] = f[k] \o parts[k + 1]
          BY <3>1, <4>2, <5>1
        <5> HIDE DEF g
        <5> QED
          BY <3>1, <5>1, <5>2
      <4> QED
        BY <4>1, <4>2
    <3>2. CASE i # k + 1
      <4>1. i \in 1..k /\ g[i] = f[i]
        BY <1>2, <3>2
      <4>2. f[i] = IF i = 1 THEN parts[i] ELSE f[i - 1] \o parts[i]
        BY <2>1, <4>1, Zenon DEF Joined
      <4>3. i # 1 => i - 1 \in 1..(k + 1) /\ i - 1 # k + 1
        BY <1>2, <4>1
      <4>4. i # 1 => g[i - 1] = f[i - 1]
        BY <4>3
      <4> HIDE DEF g
      <4> QED
        BY <4>1, <4>2, <4>4
    <3> QED
      BY <3>1, <3>2
  <2>3. Joined(parts, k + 1, g)
    <3>1. g = [i \in 1..(k + 1) |-> g[i]]
      OBVIOUS
    <3> HIDE DEF g
    <3>2. g = [i \in 1..(k + 1) |-> IF i = 1 THEN parts[i] ELSE g[i - 1] \o parts[i]]
      BY <2>2, <3>1
    <3> QED
      BY <3>2, Zenon DEF Joined
  <2>4. k + 1 \in 0..n
    BY <1>2
  <2> QED
    BY <2>3, <2>4
<1>3. \A k \in 0..n : k \in T
  <2> HIDE DEF T
  <2> QED
    BY <1>1, <1>2, Climb
<1>4. n \in 0..n
  OBVIOUS
<1> QED
  BY <1>3, <1>4

StartsAt(parts, n, start) ==
  /\ start \in [0..n -> Nat] /\ start[0] = 0
  /\ \A i \in 1..n : start[i] = start[i - 1] + Len(parts[i])

IsJoin(f, parts, n, start) ==
  /\ f \in Seq(Nat) /\ Len(f) = start[n]
  /\ \A i \in 1..n, j \in Nat \ {0} :
       j <= Len(parts[i]) => f[start[i - 1] + j] = parts[i][j]

LEMMA Flattened ==
  ASSUME NEW n \in Nat, NEW parts \in [1..n -> Seq(Nat)], NEW start, StartsAt(parts, n, start)
  PROVE  IsJoin(FlattenSeq(parts), parts, n, start)
<1>1. parts \in Seq(Seq(Nat)) /\ Len(parts) = n
  OBVIOUS
<1>2. CASE n = 0
  <2>1. parts = << >>
    BY <1>1, <1>2
  <2>2. FlattenSeq(parts) = << >>
    BY <2>1 DEF FlattenSeq
  <2> QED
    BY <1>2, <2>2 DEF StartsAt, IsJoin
<1>3. CASE n # 0
  <2> DEFINE f == CHOOSE f : f = [i \in 1..Len(parts) |-> IF i = 1 THEN parts[i] ELSE f[i - 1] \o parts[i]]
  <2>1. FlattenSeq(parts) = f[n]
    BY <1>1, <1>3 DEF FlattenSeq
  <2>2. Joined(parts, n, f)
    <3>1. \E g : Joined(parts, n, g)
      BY JoinExists
    <3> QED
      BY <1>1, <3>1, Zenon DEF Joined
  <2> HIDE DEF f
  <2>3. \A i \in 1..n : f[i] = IF i = 1 THEN parts[i] ELSE f[i - 1] \o parts[i]
    BY <2>2, Zenon DEF Joined
  <2> DEFINE Good(k) ==
               /\ f[k] \in Seq(Nat) /\ Len(f[k]) = start[k]
               /\ \A i \in 1..k, j \in Nat \ {0} :
                    j <= Len(parts[i]) => f[k][start[i - 1] + j] = parts[i][j]
             T == {k \in 0..n : k # 0 => Good(k)}
  <2>4. 0 \in T
    OBVIOUS
  <2>5. ASSUME NEW k \in 0..n, k < n, k \in T PROVE k + 1 \in T
    <3>1. k + 1 \in 1..n /\ k + 1 \in 0..n /\ k + 1 # 0 /\ k + 1 - 1 = k
      BY <2>5
    <3>2. /\ start[k + 1] = start[k] + Len(parts[k + 1]) /\ start[k] \in Nat /\ start[0] = 0
          /\ parts[k + 1] \in Seq(Nat)
      BY <3>1 DEF StartsAt
    <3>3. CASE k = 0
      <4>1. f[k + 1] = parts[k + 1]
        BY <2>3, <3>1, <3>3
      <4>2. \A i \in 1..(k + 1) : i = k + 1 /\ start[i - 1] = 0
        BY <3>2, <3>3
      <4>3. Good(k + 1)
        BY <3>2, <3>3, <4>1, <4>2
      <4> QED
        BY <3>1, <4>3
    <3>4. CASE k # 0
      <4>1. f[k + 1] = f[k] \o parts[k + 1]
        <5>1. f[k + 1] = IF k + 1 = 1 THEN parts[k + 1] ELSE f[k + 1 - 1] \o parts[k + 1]
          <6> DEFINE e == k + 1
          <6>1. e \in 1..n
            BY <3>1
          <6> HIDE DEF e
          <6>2. f[e] = IF e = 1 THEN parts[e] ELSE f[e - 1] \o parts[e]
            BY <2>3, <6>1, Zenon
          <6> QED
            BY <6>2 DEF e
        <5>2. k + 1 # 1
          BY <3>4
        <5> QED
          BY <3>1, <5>1, <5>2, Zenon
      <4>2. Good(k)
        BY <2>5, <3>4
      <4> DEFINE a == f[k]
                 p == parts[k + 1]
      <4>3. a \in Seq(Nat) /\ p \in Seq(Nat) /\ Len(a) = start[k]
        BY <3>2, <4>2
      <4>4. /\ a \o p \in Seq(Nat) /\ Len(a \o p) = start[k] + Len(p)
            /\ \A i \in 1..(Len(a) + Len(p)) : (a \o p)[i] = IF i <= Len(a) THEN a[i] ELSE p[i - Len(a)]
        <5> HIDE DEF a, p
        <5>1. /\ a \o p \in Seq(Nat) /\ Len(a \o p) = Len(a) + Len(p)
              /\ \A i \in 1..(Len(a) + Len(p)) :
                   (a \o p)[i] = IF i <= Len(a) THEN a[i] ELSE p[i - Len(a)]
          BY <4>3, ConcatProperties, Zenon
        <5> QED
          BY <4>3, <5>1, Zenon
      <4>5. ASSUME NEW i \in 1..(k + 1), NEW j \in Nat \ {0}, j <= Len(parts[i])
            PROVE  (a \o p)[start[i - 1] + j] = parts[i][j]
        <5>1. CASE i = k + 1
          <6>1. start[i - 1] = Len(a) /\ parts[i] = p
            BY <3>1, <4>3, <5>1
          <6> HIDE DEF a, p
          <6>2. Len(a) \in Nat /\ Len(p) \in Nat /\ j <= Len(p)
            BY <4>3, <4>5, <6>1
          <6>3. Len(a) + j \in 1..(Len(a) + Len(p)) /\ ~(Len(a) + j <= Len(a)) /\ Len(a) + j - Len(a) = j
            BY <6>2
          <6> QED
            BY <4>4, <6>1, <6>3
        <5>2. CASE i # k + 1
          <6>1. i \in 1..k /\ i \in 1..n /\ i - 1 \in 0..n
            BY <3>1, <5>2
          <6>2. a[start[i - 1] + j] = parts[i][j]
            BY <4>2, <4>5, <6>1
          <6>3. start[i - 1] \in Nat /\ start[i] = start[i - 1] + Len(parts[i]) /\ start[i] \in Nat
            BY <6>1 DEF StartsAt
          <6>4. start[i] <= start[k]
            <7> DEFINE U == {c \in 0..(k - i) : start[i] <= start[i + c]}
            <7>1. 0 \in U
              BY <6>1, <6>3
            <7>2. ASSUME NEW c \in 0..(k - i), c < k - i, c \in U PROVE c + 1 \in U
              <8>1. i + (c + 1) \in 1..n /\ i + (c + 1) - 1 = i + c /\ i + c \in 0..n /\ c + 1 \in 0..(k - i)
                BY <3>1, <6>1, <7>2
              <8>2. start[i + (c + 1)] = start[i + c] + Len(parts[i + (c + 1)])
                BY <8>1 DEF StartsAt
              <8>3. start[i + c] \in Nat /\ Len(parts[i + (c + 1)]) \in Nat
                BY <8>1, SMTT(30) DEF StartsAt
              <8>4. start[i] <= start[i + c]
                BY <7>2
              <8> QED
                BY <6>3, <8>1, <8>2, <8>3, <8>4, SMTT(30)
            <7>3. k - i \in Nat
              BY <6>1
            <7> HIDE DEF U
            <7>4. k - i \in U
              <8>1. k - i \in 0..(k - i)
                BY <7>3
              <8> QED
                BY <7>1, <7>2, <7>3, <8>1, Climb
            <7>5. i + (k - i) = k
              BY <6>1
            <7> QED
              BY <7>4, <7>5 DEF U
          <6>5. start[i - 1] + j \in 1..(Len(a) + Len(p)) /\ start[i - 1] + j <= Len(a)
            <7> HIDE DEF a, p
            <7>1. Len(a) \in Nat /\ Len(p) \in Nat
              BY <4>3
            <7>2. Len(parts[i]) \in Nat
              BY <6>1
            <7> DEFINE u == start[i - 1]
                       v == start[i]
                       l == Len(parts[i])
            <7>3. u \in Nat /\ v = u + l /\ v <= Len(a) /\ j \in Nat /\ j >= 1 /\ j <= l /\ l \in Nat
              BY <4>3, <4>5, <6>3, <6>4, <7>2
            <7> HIDE DEF u, v, l
            <7>4. u + j \in 1..(Len(a) + Len(p)) /\ u + j <= Len(a)
              BY <7>1, <7>3
            <7> QED
              BY <7>4 DEF u
          <6> HIDE DEF a, p
          <6> QED
            BY <4>4, <6>2, <6>5
        <5> QED
          BY <5>1, <5>2
      <4>6. Good(k + 1)
        <5>1. f[k + 1] = a \o p /\ start[k + 1] = start[k] + Len(p)
          BY <3>2, <4>1
        <5> HIDE DEF a, p
        <5> QED
          BY <4>4, <4>5, <5>1
      <4> HIDE DEF Good
      <4> QED
        BY <3>1, <4>6
    <3> QED
      BY <3>3, <3>4
  <2>6. n \in T
    <3> HIDE DEF T
    <3>1. n \in 0..n
      OBVIOUS
    <3> QED
      BY <2>4, <2>5, <3>1, Climb
  <2>7. Good(n)
    <3> HIDE DEF Good
    <3> QED
      BY <1>3, <2>6
  <2> QED
    BY <2>1, <2>7 DEF IsJoin
<1> QED
  BY <1>2, <1>3

-----------------------------------------------------------------------------
(* One field: what is read is what was written, in as many bytes. *)
Kinds == {"u8", "u16", "bool", "id", "name"}

LEMMA BytesAre ==
  /\ \A v \in Byte : v \in Nat /\ v <= 255
  /\ \A v \in Char : v \in Nat /\ v # 0
  /\ \A v \in Word : v \in Nat
<1>1. UINT16_MAX \in Nat
  BY DEF UINT16_MAX
<1> QED
  BY <1>1 DEF Byte, Char, Word

LEMMA LessIsWord == ASSUME NEW x \in Nat, NEW y \in Word, x <= y PROVE x \in Word
<1>1. UINT16_MAX \in Nat
  BY DEF UINT16_MAX
<1> QED
  BY <1>1 DEF Word

LEMMA WidthIs ==
  /\ Width("u8") = 1 /\ Width("u16") = 2 /\ Width("bool") = 1
  /\ Width("id") = MaxIdLen /\ Width("name") = MaxNameLen
  /\ \A k \in Kinds : Width(k) \in Nat
BY LimitsAssumption, BytesAre DEF Width, Kinds

LEMMA WordIs ==
  ASSUME NEW v \in Word
  PROVE  v \div 256 \in Nat /\ v % 256 \in Nat /\ (v \div 256) * 256 + (v % 256) = v
<1> DEFINE q == v \div 256
           r == v % 256
<1>1. v \in Nat
  BY BytesAre
<1>2. q \in Int /\ r \in Nat /\ v = 256 * q + r /\ q >= 0
  BY <1>1
<1> HIDE DEF q, r
<1>3. q \in Nat /\ q * 256 = 256 * q
  BY <1>2
<1>4. q * 256 + r = v
  BY <1>2, <1>3
<1> QED
  BY <1>2, <1>3, <1>4 DEF q, r

LEMMA StringIs ==
  ASSUME NEW n \in Nat, NEW s \in Seq(Char), Len(s) <= n
  PROVE  /\ WriteFixedString(s, n) \in Seq(Nat) /\ Len(WriteFixedString(s, n)) = n
         /\ ReadFixedString(WriteFixedString(s, n)) = s
<1> DEFINE b == WriteFixedString(s, n)
<1>1. b = [i \in 1..n |-> IF i <= Len(s) THEN s[i] ELSE 0]
  BY DEF WriteFixedString
<1>2. Len(s) \in Nat /\ \A i \in 1..Len(s) : s[i] \in Nat /\ s[i] # 0
  <2>1. Len(s) \in Nat /\ \A i \in 1..Len(s) : s[i] \in Char
    OBVIOUS
  <2> QED
    BY <2>1, BytesAre
<1>3. ASSUME NEW i \in 1..n PROVE b[i] \in Nat /\ (i <= Len(s) => b[i] = s[i]) /\ (b[i] # 0 <=> i <= Len(s))
  <2>1. b[i] = IF i <= Len(s) THEN s[i] ELSE 0
    BY <1>1
  <2>2. i <= Len(s) => s[i] \in Nat /\ s[i] # 0
    BY <1>2
  <2> HIDE DEF b
  <2> QED
    BY <2>1, <2>2
<1>4. b \in [1..n -> Nat]
  BY <1>1, <1>3
<1>5. b \in Seq(Nat) /\ Len(b) = n /\ DOMAIN b = 1..n
  <2> HIDE DEF b
  <2> QED
    BY <1>4
<1> HIDE DEF b
<1>6. {0} \cup {i \in DOMAIN b : b[i] # 0} = 0..Len(s)
  BY <1>2, <1>3, <1>5
<1>7. Max(0..Len(s)) = Len(s)
  <2>1. Len(s) \in 0..Len(s) /\ \A y \in 0..Len(s) : Len(s) >= y
    BY <1>2
  <2>2. \A x \in 0..Len(s) : (\A y \in 0..Len(s) : x >= y) => x = Len(s)
    BY <1>2
  <2> QED
    BY <2>1, <2>2 DEF Max
<1>8. ReadFixedString(b) = SubSeq(b, 1, Len(s))
  BY <1>6, <1>7 DEF ReadFixedString
<1>9. SubSeq(b, 1, Len(s)) = s
  <2>1. \A i \in 1..Len(s) : b[i] \in Nat /\ b[i] = s[i]
    BY <1>2, <1>3
  <2> DEFINE c == SubSeq(b, 1, Len(s))
             l == Len(s)
  <2>2. /\ c \in Seq(Nat) /\ Len(c) = IF 1 <= l THEN l - 1 + 1 ELSE 0
        /\ \A i \in 1..(l - 1 + 1) : c[i] = b[1 + i - 1]
    BY <1>2, <1>5, <2>1, SubSeqProperties
  <2>3. l \in Nat
    BY <1>2
  <2> HIDE DEF c, l
  <2>4. Len(c) = l /\ \A i \in 1..l : c[i] = b[i]
    BY <2>2, <2>3
  <2>5. \A i \in 1..l : c[i] = s[i]
    BY <2>1, <2>4 DEF l
  <2>6. c \in Seq(Nat) /\ s \in Seq(Nat) /\ Len(c) = Len(s)
    <3>1. s \in Seq(Nat)
      BY <1>2
    <3> QED
      BY <2>2, <2>4, <3>1 DEF l
  <2>7. c = s
    BY <2>5, <2>6, SMTT(30) DEF l
  <2> QED
    BY <2>7 DEF c
<1> QED
  BY <1>5, <1>8, <1>9 DEF b

LEMMA FieldIs ==
  ASSUME NEW k \in Kinds, NEW v, Value(k, v)
  PROVE  /\ WriteField(k, v) \in Seq(Nat) /\ Len(WriteField(k, v)) = Width(k)
         /\ ReadField(k, WriteField(k, v)) = v
<1>1. CASE k = "u8"
  <2>1. v \in Nat /\ WriteField(k, v) = <<v>>
    BY <1>1, BytesAre DEF Value, WriteField
  <2>2. ReadField(k, <<v>>) = v
    BY <1>1 DEF ReadField
  <2>3. <<v>> \in Seq(Nat) /\ Len(<<v>>) = 1 /\ Width(k) = 1
    BY <1>1, <2>1, WidthIs
  <2> QED
    BY <2>1, <2>2, <2>3
<1>2. CASE k = "u16"
  <2>1. v \in Word /\ WriteField(k, v) = <<v \div 256, v % 256>>
    BY <1>2 DEF Value, WriteField, WriteU16
  <2>2. v \div 256 \in Nat /\ v % 256 \in Nat /\ (v \div 256) * 256 + (v % 256) = v
    BY <2>1, WordIs
  <2> DEFINE x == v \div 256
             y == v % 256
  <2> HIDE DEF x, y
  <2>3. ReadField(k, <<x, y>>) = x * 256 + y
    BY <1>2 DEF ReadField, ReadU16
  <2>4. x \in Nat /\ y \in Nat /\ x * 256 + y = v /\ WriteField(k, v) = <<x, y>>
    BY <2>1, <2>2 DEF x, y
  <2>5. <<x, y>> \in Seq(Nat) /\ Len(<<x, y>>) = 2
    BY <2>4
  <2> QED
    BY <1>2, <2>3, <2>4, <2>5, WidthIs
<1>3. CASE k = "bool"
  <2>1. v \in BOOLEAN /\ WriteField(k, v) = <<IF v THEN 1 ELSE 0>>
    BY <1>3 DEF Value, WriteField
  <2> DEFINE x == IF v THEN 1 ELSE 0
  <2>2. x \in Nat /\ (x # 0) = v
    BY <2>1
  <2> HIDE DEF x
  <2>3. ReadField(k, <<x>>) = (x # 0)
    BY <1>3 DEF ReadField
  <2>4. WriteField(k, v) = <<x>>
    BY <2>1 DEF x
  <2>5. <<x>> \in Seq(Nat) /\ Len(<<x>>) = 1 /\ Width(k) = 1
    BY <1>3, <2>2, WidthIs
  <2> QED
    BY <2>2, <2>3, <2>4, <2>5
<1>4. CASE k \in {"id", "name"}
  <2>1. v \in Seq(Char) /\ Len(v) <= Width(k) /\ WriteField(k, v) = WriteFixedString(v, Width(k))
    BY <1>4 DEF Value, WriteField
  <2>2. Width(k) \in Nat
    BY WidthIs
  <2>3. \A b : ReadField(k, b) = ReadFixedString(b)
    BY <1>4 DEF ReadField
  <2> QED
    BY <2>1, <2>2, <2>3, StringIs
<1> QED
  BY <1>1, <1>2, <1>3, <1>4 DEF Kinds

-----------------------------------------------------------------------------
(* The fields of a layout, one after the other. *)
Field == [field : {"client_id", "player_name", "server_id", "game_status", "player_count", "id",
                   "ready", "name", "status", "direction", "player_id", "cell_index", "radius",
                   "bonus_type", "winner_id", "len", "char", "rows", "cols", "cell", "lives",
                   "alive", "bomb_count", "bomb_radius", "bomb_timer_ticks", "speed"},
          kind : Kinds]

Starts(fields, start) ==
  /\ start \in [0..Len(fields) -> Nat] /\ start[0] = 0
  /\ \A i \in 1..Len(fields) : start[i] = start[i - 1] + Width(fields[i].kind)

LEMMA KindsOf ==
  ASSUME NEW fields \in Seq(Field)
  PROVE  /\ Len(fields) \in Nat /\ DOMAIN fields = 1..Len(fields)
         /\ \A i \in 1..Len(fields) : fields[i].kind \in Kinds
<1>1. \A i \in 1..Len(fields) : fields[i] \in Field
  OBVIOUS
<1>2. \A x \in Field : x.kind \in Kinds
  BY DEF Field
<1> QED
  BY <1>1, <1>2

LEMMA StartsExist ==
  ASSUME NEW n \in Nat, NEW w \in [1..n -> Nat]
  PROVE  \E start \in [0..n -> Nat] :
           start[0] = 0 /\ \A i \in 1..n : start[i] = start[i - 1] + w[i]
<1> DEFINE P(k, s) == s \in [0..k -> Nat] /\ s[0] = 0 /\ \A i \in 1..k : s[i] = s[i - 1] + w[i]
           T == {k \in 0..n : \E s : P(k, s)}
<1>1. 0 \in T
  <2> DEFINE s == [i \in 0..0 |-> 0]
  <2>1. P(0, s)
    OBVIOUS
  <2>2. 0 \in 0..n
    OBVIOUS
  <2> HIDE DEF P, s
  <2> QED
    BY <2>1, <2>2
<1>2. ASSUME NEW k \in 0..n, k < n, k \in T PROVE k + 1 \in T
  <2>1. PICK s : P(k, s)
    BY <1>2
  <2> DEFINE t == [i \in 0..(k + 1) |-> IF i = k + 1 THEN s[k] + w[k + 1] ELSE s[i]]
  <2>2. k + 1 \in 1..n /\ k + 1 \in 0..n /\ w[k + 1] \in Nat /\ s[k] \in Nat /\ k \in Nat
    BY <1>2, <2>1
  <2>3. \A i \in 0..k : t[i] = s[i]
    BY <2>2
  <2>4. t[k + 1] = s[k] + w[k + 1]
    BY <2>2
  <2>5. t \in [0..(k + 1) -> Nat]
    <3> SUFFICES ASSUME NEW i \in 0..(k + 1)
                 PROVE  (IF i = k + 1 THEN s[k] + w[k + 1] ELSE s[i]) \in Nat
      OBVIOUS
    <3>1. i # k + 1 => i \in 0..k
      BY <2>2
    <3> QED
      BY <2>1, <2>2, <3>1
  <2> HIDE DEF t
  <2>6. \A i \in 1..(k + 1) : t[i] = t[i - 1] + w[i]
    <3> SUFFICES ASSUME NEW i \in 1..(k + 1) PROVE t[i] = t[i - 1] + w[i]
      OBVIOUS
    <3>1. CASE i = k + 1
      <4>1. i - 1 = k /\ k \in 0..k
        BY <2>2, <3>1
      <4> QED
        BY <2>3, <2>4, <3>1, <4>1
    <3>2. CASE i # k + 1
      <4>1. i \in 1..k /\ i \in 0..k /\ i - 1 \in 0..k
        BY <2>2, <3>2
      <4> QED
        BY <2>1, <2>3, <4>1
    <3> QED
      BY <3>1, <3>2
  <2>7. t[0] = 0
    <3>1. 0 \in 0..k
      BY <2>2
    <3> QED
      BY <2>1, <2>3, <3>1
  <2>8. P(k + 1, t)
    BY <2>5, <2>6, <2>7
  <2> QED
    BY <2>2, <2>8
<1>3. n \in T
  <2> HIDE DEF T
  <2>1. n \in 0..n
    OBVIOUS
  <2> QED
    BY <1>1, <1>2, <2>1, Climb
<1>4. PICK s : P(n, s)
  BY <1>3
<1> QED
  BY <1>4

LEMMA FieldsStart ==
  ASSUME NEW fields \in Seq(Field)
  PROVE  \E start : Starts(fields, start)
<1> DEFINE n == Len(fields)
           w == [i \in 1..n |-> Width(fields[i].kind)]
<1>1. n \in Nat /\ \A i \in 1..n : fields[i].kind \in Kinds
  BY KindsOf
<1>2. w \in [1..n -> Nat]
  BY <1>1, WidthIs
<1>3. \A i \in 1..n : w[i] = Width(fields[i].kind)
  OBVIOUS
<1> HIDE DEF w
<1>4. PICK start \in [0..n -> Nat] : start[0] = 0 /\ \A i \in 1..n : start[i] = start[i - 1] + w[i]
  BY <1>1, <1>2, StartsExist
<1>5. Starts(fields, start)
  BY <1>3, <1>4 DEF Starts
<1> QED
  BY <1>5

LEMMA Offsets ==
  ASSUME NEW fields \in Seq(Field), NEW start, Starts(fields, start)
  PROVE  \A i \in 1..Len(fields) : Offset(fields, i) = start[i - 1]
<1> DEFINE n == Len(fields)
           Off(f) == f = [k \in DOMAIN fields |->
                            IF k = 1 THEN 0 ELSE f[k - 1] + Width(fields[k - 1].kind)]
           g == CHOOSE f : Off(f)
           s == [k \in 1..n |-> start[k - 1]]
<1>1. n \in Nat /\ DOMAIN fields = 1..n
  OBVIOUS
<1>2. \A k \in 1..n : k # 1 => k - 1 \in 1..n /\ s[k - 1] = start[k - 1 - 1]
  BY <1>1
<1>3. \A k \in 1..n : start[k - 1] = IF k = 1 THEN 0 ELSE s[k - 1] + Width(fields[k - 1].kind)
  <2> SUFFICES ASSUME NEW k \in 1..n
               PROVE  start[k - 1] = IF k = 1 THEN 0 ELSE s[k - 1] + Width(fields[k - 1].kind)
    OBVIOUS
  <2>1. CASE k = 1
    BY <2>1 DEF Starts
  <2>2. CASE k # 1
    BY <1>2, <2>2 DEF Starts
  <2> QED
    BY <2>1, <2>2
<1>4. Off(s)
  <2>1. s = [k \in 1..n |-> IF k = 1 THEN 0 ELSE s[k - 1] + Width(fields[k - 1].kind)]
    BY <1>3
  <2> HIDE DEF s
  <2> QED
    BY <1>1, <2>1
<1>5. Off(g)
  <2> HIDE DEF s, Off
  <2> QED
    BY <1>4
<1>6. \A i : Offset(fields, i) = g[i]
  BY DEF Offset
<1> HIDE DEF g, s
<1>7. \A k \in 1..n : g[k] = IF k = 1 THEN 0 ELSE g[k - 1] + Width(fields[k - 1].kind)
  BY <1>1, <1>5
<1> DEFINE T == {k \in 0..n : k # 0 => g[k] = start[k - 1]}
<1>8. 0 \in T
  BY <1>1
<1>9. ASSUME NEW k \in 0..n, k < n, k \in T PROVE k + 1 \in T
  <2> DEFINE e == k + 1
  <2>1. e \in 1..n /\ e \in 0..n /\ e - 1 = k /\ (k # 0 => e # 1) /\ (k = 0 => e = 1) /\ k \in Nat
    BY <1>1, <1>9
  <2> HIDE DEF e
  <2>2. g[e] = IF e = 1 THEN 0 ELSE g[e - 1] + Width(fields[e - 1].kind)
    BY <1>7, <2>1
  <2>3. CASE k = 0
    BY <2>1, <2>2, <2>3 DEF e, Starts
  <2>4. CASE k # 0
    <3>1. g[k] = start[k - 1] /\ k \in 1..n
      BY <1>9, <2>4
    <3>2. start[k] = start[k - 1] + Width(fields[k].kind)
      BY <3>1 DEF Starts
    <3>3. g[e] = start[e - 1]
      BY <2>1, <2>2, <2>4, <3>1, <3>2
    <3> QED
      BY <2>1, <3>3 DEF e
  <2> QED
    BY <2>3, <2>4
<1>10. \A k \in 0..n : k \in T
  <2> HIDE DEF T
  <2> QED
    BY <1>1, <1>8, <1>9, Climb
<1>11. \A k \in 1..n : k \in 0..n /\ k # 0
  BY <1>1
<1> QED
  BY <1>6, <1>10, <1>11

(* What a record's fields are written into. *)
PutsAt(fields, rec, start) ==
  \A i \in 1..Len(fields), j \in Nat \ {0} :
    j <= Width(fields[i].kind)
      => Put(fields, rec)[start[i - 1] + j]
           = WriteField(fields[i].kind, rec[fields[i].field])[j]

LEMMA PutIs ==
  ASSUME NEW fields \in Seq(Field), NEW start, Starts(fields, start), NEW rec, Carries(fields, rec)
  PROVE  /\ Put(fields, rec) \in Seq(Nat) /\ Len(Put(fields, rec)) = start[Len(fields)]
         /\ PutsAt(fields, rec, start)
<1> DEFINE n == Len(fields)
           parts == [i \in DOMAIN fields |-> WriteField(fields[i].kind, rec[fields[i].field])]
<1>1. n \in Nat /\ DOMAIN fields = 1..n /\ \A i \in 1..n : fields[i].kind \in Kinds
  BY KindsOf
<1>2. \A i \in 1..n : /\ parts[i] = WriteField(fields[i].kind, rec[fields[i].field])
                      /\ parts[i] \in Seq(Nat) /\ Len(parts[i]) = Width(fields[i].kind)
  <2> SUFFICES ASSUME NEW i \in 1..n
               PROVE  /\ WriteField(fields[i].kind, rec[fields[i].field]) \in Seq(Nat)
                      /\ Len(WriteField(fields[i].kind, rec[fields[i].field])) = Width(fields[i].kind)
    BY <1>1
  <2>1. Value(fields[i].kind, rec[fields[i].field]) /\ fields[i].kind \in Kinds
    BY <1>1 DEF Carries
  <2> QED
    BY <2>1, FieldIs
<1>3. parts \in [1..n -> Seq(Nat)]
  BY <1>1, <1>2
<1>4. Put(fields, rec) = FlattenSeq(parts)
  BY DEF Put
<1> HIDE DEF parts
<1>5. StartsAt(parts, n, start)
  BY <1>2 DEF Starts, StartsAt
<1>6. IsJoin(FlattenSeq(parts), parts, n, start)
  BY <1>1, <1>3, <1>5, Flattened, Zenon
<1> QED
  BY <1>2, <1>4, <1>6, ZenonT(30) DEF IsJoin, PutsAt

Distinct(fields) == \A i, j \in DOMAIN fields : fields[i].field = fields[j].field => i = j

(* Where a field is, there is room for it. *)
LEMMA RoomFor ==
  ASSUME NEW fields \in Seq(Field), NEW start, Starts(fields, start), NEW i \in 1..Len(fields)
  PROVE  /\ start[i - 1] \in Nat /\ start[i] = start[i - 1] + Width(fields[i].kind)
         /\ start[i] <= start[Len(fields)] /\ start[i] \in Nat
<1> DEFINE n == Len(fields)
           U == {c \in 0..(n - i) : start[i] <= start[i + c]}
<1>1. n \in Nat /\ i \in Nat /\ i \in 0..n /\ i - 1 \in 0..n /\ n - i \in Nat /\ i + (n - i) = n
  OBVIOUS
<1>2. start[i - 1] \in Nat /\ start[i] \in Nat /\ start[i] = start[i - 1] + Width(fields[i].kind)
  BY <1>1 DEF Starts
<1>3. 0 \in U
  BY <1>1, <1>2
<1>4. ASSUME NEW c \in 0..(n - i), c < n - i, c \in U PROVE c + 1 \in U
  <2>1. i + (c + 1) \in 1..n /\ i + (c + 1) - 1 = i + c /\ i + c \in 0..n /\ c + 1 \in 0..(n - i)
    BY <1>1, <1>4
  <2>2. start[i + (c + 1)] = start[i + c] + Width(fields[i + (c + 1)].kind)
    BY <2>1 DEF Starts
  <2>3. start[i + c] \in Nat
    BY <2>1 DEF Starts
  <2>4. Width(fields[i + (c + 1)].kind) \in Nat
    <3>1. fields[i + (c + 1)] \in Field
      BY <2>1
    <3>2. fields[i + (c + 1)].kind \in Kinds
      BY <3>1 DEF Field
    <3> QED
      BY <3>2, WidthIs
  <2>5. start[i] <= start[i + c]
    BY <1>4
  <2> QED
    BY <1>2, <2>1, <2>2, <2>3, <2>4, <2>5
<1>5. n - i \in 0..(n - i)
  BY <1>1
<1> HIDE DEF U
<1>6. n - i \in U
  BY <1>1, <1>3, <1>4, <1>5, Climb
<1> QED
  BY <1>1, <1>2, <1>6 DEF U

LEMMA Slice ==
  ASSUME NEW b \in Seq(Nat), NEW at \in Nat, NEW w \in Nat, at + w <= Len(b)
  PROVE  /\ SubSeq(b, at + 1, at + w) \in Seq(Nat) /\ Len(SubSeq(b, at + 1, at + w)) = w
         /\ \A j \in 1..w : SubSeq(b, at + 1, at + w)[j] = b[at + j]
<1> DEFINE m == at + 1
           n == at + w
           c == SubSeq(b, m, n)
<1>1. m \in Int /\ n \in Int /\ m >= 1 /\ n <= Len(b) /\ n - m + 1 = w /\ (m <= n <=> w >= 1)
      /\ \A j \in 1..w : m + j - 1 = at + j
  OBVIOUS
<1> HIDE DEF m, n
<1>2. \A i \in m..n : b[i] \in Nat
  BY <1>1
<1>3. /\ c \in Seq(Nat) /\ Len(c) = IF m <= n THEN n - m + 1 ELSE 0
      /\ \A i \in 1..(n - m + 1) : c[i] = b[m + i - 1]
  BY <1>1, <1>2, SubSeqProperties
<1> HIDE DEF c
<1>4. Len(c) = w
  BY <1>1, <1>3
<1>5. ASSUME NEW j \in 1..w PROVE c[j] = b[at + j]
  <2>1. c[j] = b[m + j - 1]
    BY <1>1, <1>3
  <2>2. m + j - 1 = at + j
    BY <1>1
  <2> QED
    BY <2>1, <2>2
<1> QED
  BY <1>3, <1>4, <1>5 DEF c, m, n

LEMMA GetIs ==
  ASSUME NEW fields \in Seq(Field), Distinct(fields), NEW start, Starts(fields, start),
         NEW rec, Carries(fields, rec),
         NEW b \in Seq(Nat), Len(b) >= start[Len(fields)],
         \A j \in 1..start[Len(fields)] : b[j] = Put(fields, rec)[j]
  PROVE  Get(fields, b) = rec
<1> DEFINE n == Len(fields)
           names == {fields[i].field : i \in DOMAIN fields}
<1>1. n \in Nat /\ DOMAIN fields = 1..n /\ \A i \in 1..n : fields[i].kind \in Kinds
  BY KindsOf
<1>p. \A i \in 1..n, j \in Nat \ {0} :
        j <= Width(fields[i].kind)
          => Put(fields, rec)[start[i - 1] + j] = WriteField(fields[i].kind, rec[fields[i].field])[j]
  <2>1. PutsAt(fields, rec, start)
    BY PutIs, Zenon
  <2> QED
    BY <2>1, Zenon DEF PutsAt
<1>2. ASSUME NEW i \in 1..n
      PROVE  LET at == Offset(fields, i)
             IN  ReadField(fields[i].kind, SubSeq(b, at + 1, at + Width(fields[i].kind)))
                   = rec[fields[i].field]
  <2> DEFINE k == fields[i].kind
             v == rec[fields[i].field]
             at == start[i - 1]
             w == Width(k)
             c == SubSeq(b, at + 1, at + w)
             e == WriteField(k, v)
             top == start[n]
  <2>1. Offset(fields, i) = at
    BY Offsets
  <2>2. k \in Kinds /\ Value(k, v)
    BY <1>1 DEF Carries
  <2>3. e \in Seq(Nat) /\ Len(e) = w /\ ReadField(k, e) = v
    BY <2>2, FieldIs
  <2>4. at \in Nat /\ w \in Nat /\ at + w <= top /\ top \in Nat
    <3>1. at \in Nat /\ start[i] = at + w /\ start[i] <= top /\ w \in Nat
      BY <2>2, RoomFor, WidthIs
    <3>2. n \in 0..n
      BY <1>1
    <3>3. top \in Nat
      BY <3>2 DEF Starts
    <3> QED
      BY <3>1, <3>3
  <2>5. \A j \in 1..w : b[at + j] = e[j]
    <3> SUFFICES ASSUME NEW j \in 1..w PROVE b[at + j] = e[j]
      OBVIOUS
    <3>1. j \in Nat \ {0} /\ j <= w
      OBVIOUS
    <3>2. Put(fields, rec)[at + j] = e[j]
      BY <1>p, <3>1, Zenon
    <3> HIDE DEF at, w, e, top
    <3>3. at + j \in 1..top
      BY <2>4, <3>1
    <3> QED
      BY <3>2, <3>3 DEF top
  <2> HIDE DEF k, v, at, w, c, e, top
  <2>6. Len(b) \in Nat /\ Len(b) >= top
    BY DEF top
  <2>7. c = e
    <3>1. at + w <= Len(b)
      BY <2>4, <2>6
    <3>2. c \in Seq(Nat) /\ Len(c) = w /\ \A j \in 1..w : c[j] = b[at + j]
      BY <2>4, <3>1, Slice DEF c
    <3>3. \A j \in 1..w : c[j] = e[j]
      BY <2>5, <3>2
    <3> QED
      BY <2>3, <3>2, <3>3
  <2> QED
    BY <2>1, <2>3, <2>7 DEF c, k, v, w
<1>3. \A i \in 1..n : (CHOOSE j \in DOMAIN fields : fields[j].field = fields[i].field) = i
  BY <1>1 DEF Distinct
<1>4. \A f \in names : \E i \in 1..n : f = fields[i].field
  BY <1>1
<1> DEFINE Got(f)  == LET i  == CHOOSE j \in DOMAIN fields : fields[j].field = f
                          at == Offset(fields, i)
                      IN  ReadField(fields[i].kind, SubSeq(b, at + 1, at + Width(fields[i].kind)))
<1>5. \A f \in names : Got(f) = rec[f]
  <2> SUFFICES ASSUME NEW f \in names PROVE Got(f) = rec[f]
    OBVIOUS
  <2>1. PICK i \in 1..n : f = fields[i].field
    BY <1>4
  <2>2. (CHOOSE j \in DOMAIN fields : fields[j].field = f) = i
    BY <1>3, <2>1
  <2> QED
    BY <1>2, <2>1, <2>2
<1>6. Get(fields, b) = [f \in names |-> Got(f)]
  BY DEF Get
<1>7. rec = [f \in names |-> rec[f]]
  BY DEF Carries
<1> HIDE DEF Got, names
<1> QED
  BY <1>5, <1>6, <1>7

-----------------------------------------------------------------------------
(* The layouts: each field once, encoder and decoder alike, and as long as *)
(* the decoder insists.                                                    *)
IsLayout(l) ==
  /\ l.put \in Seq(Field) /\ l.get = l.put /\ Distinct(l.put) /\ l.len \in Nat
  /\ \A start : Starts(l.put, start) => start[Len(l.put)] = l.len

LEMMA NoFields == IsLayout(Empty)
<1>1. Empty.put = << >> /\ Empty.get = << >> /\ Empty.len = 0
  BY DEF Empty
<1>2. << >> \in Seq(Field) /\ Len(<< >>) = 0 /\ Distinct(<< >>)
  BY DEF Distinct
<1>3. \A start : Starts(<< >>, start) => start[Len(<< >>)] = 0
  BY <1>2 DEF Starts
<1> QED
  BY <1>1, <1>2, <1>3 DEF IsLayout

LEMMA OneField ==
  ASSUME NEW a \in Field, NEW n, n = Width(a.kind)
  PROVE  IsLayout([put |-> <<a>>, get |-> <<a>>, len |-> n])
<1> DEFINE fields == <<a>>
<1>1. fields \in Seq(Field) /\ Len(fields) = 1 /\ fields[1] = a /\ DOMAIN fields = {1}
  OBVIOUS
<1>2. a.kind \in Kinds /\ n \in Nat
  BY WidthIs DEF Field
<1> HIDE DEF fields
<1>3. Distinct(fields)
  BY <1>1 DEF Distinct
<1>4. ASSUME NEW start, Starts(fields, start) PROVE start[1] = n
  <2>1. start[0] = 0 /\ start[1] = start[0] + Width(a.kind)
    <3>1. 1 \in 1..Len(fields)
      BY <1>1
    <3>2. start[1] = start[1 - 1] + Width(fields[1].kind)
      BY <1>4, <3>1, Zenon DEF Starts
    <3>3. start[0] = 0 /\ 1 - 1 = 0
      BY <1>4 DEF Starts
    <3> QED
      BY <1>1, <3>2, <3>3
  <2> QED
    BY <1>2, <2>1
<1> QED
  BY <1>1, <1>2, <1>3, <1>4 DEF IsLayout, fields

LEMMA TwoFields ==
  ASSUME NEW a \in Field, NEW b \in Field, a.field # b.field,
         NEW n, n = Width(a.kind) + Width(b.kind)
  PROVE  IsLayout([put |-> <<a, b>>, get |-> <<a, b>>, len |-> n])
<1> DEFINE fields == <<a, b>>
<1>1. fields \in Seq(Field) /\ Len(fields) = 2 /\ fields[1] = a /\ fields[2] = b /\ DOMAIN fields = {1, 2}
  OBVIOUS
<1>2. a.kind \in Kinds /\ b.kind \in Kinds
  BY DEF Field
<1>3. Width(a.kind) \in Nat /\ Width(b.kind) \in Nat /\ n \in Nat
  BY <1>2, WidthIs
<1> HIDE DEF fields
<1>4. Distinct(fields)
  BY <1>1 DEF Distinct
<1>5. ASSUME NEW start, Starts(fields, start) PROVE start[2] = n
  <2>1. 1 \in 1..Len(fields) /\ 2 \in 1..Len(fields)
    BY <1>1
  <2>2. /\ start[0] = 0 /\ start[1] = start[1 - 1] + Width(fields[1].kind)
        /\ start[2] = start[2 - 1] + Width(fields[2].kind)
    BY <1>5, <2>1, Zenon DEF Starts
  <2>3. 1 - 1 = 0 /\ 2 - 1 = 1
    OBVIOUS
  <2> QED
    BY <1>1, <1>3, <2>2, <2>3
<1> QED
  BY <1>1, <1>3, <1>4, <1>5 DEF IsLayout, fields

LEMMA ThreeFields ==
  ASSUME NEW a \in Field, NEW b \in Field, NEW c \in Field,
         a.field # b.field, a.field # c.field, b.field # c.field,
         NEW n, n = Width(a.kind) + Width(b.kind) + Width(c.kind)
  PROVE  IsLayout([put |-> <<a, b, c>>, get |-> <<a, b, c>>, len |-> n])
<1> DEFINE fields == <<a, b, c>>
<1>1. /\ fields \in Seq(Field) /\ Len(fields) = 3
      /\ fields[1] = a /\ fields[2] = b /\ fields[3] = c /\ DOMAIN fields = {1, 2, 3}
  OBVIOUS
<1>2. a.kind \in Kinds /\ b.kind \in Kinds /\ c.kind \in Kinds
  BY DEF Field
<1>3. Width(a.kind) \in Nat /\ Width(b.kind) \in Nat /\ Width(c.kind) \in Nat /\ n \in Nat
  BY <1>2, WidthIs
<1> HIDE DEF fields
<1>4. Distinct(fields)
  BY <1>1 DEF Distinct
<1>5. ASSUME NEW start, Starts(fields, start) PROVE start[3] = n
  <2>1. 1 \in 1..Len(fields) /\ 2 \in 1..Len(fields) /\ 3 \in 1..Len(fields)
    BY <1>1
  <2>2. /\ start[0] = 0 /\ start[1] = start[1 - 1] + Width(fields[1].kind)
        /\ start[2] = start[2 - 1] + Width(fields[2].kind)
        /\ start[3] = start[3 - 1] + Width(fields[3].kind)
    BY <1>5, <2>1, Zenon DEF Starts
  <2>3. 1 - 1 = 0 /\ 2 - 1 = 1 /\ 3 - 1 = 2
    OBVIOUS
  <2> QED
    BY <1>1, <1>3, <2>2, <2>3
<1> QED
  BY <1>1, <1>3, <1>4, <1>5 DEF IsLayout, fields

LEMMA SyncPlayerIs == IsLayout(SyncPlayer)
<1> DEFINE a == U8("id")
           b == U8("lives")
           c == U16("cell_index")
           d == Flag("alive")
           e == Flag("ready")
           f == U8("bomb_count")
           g == U8("bomb_radius")
           h == U16("bomb_timer_ticks")
           k == U16("speed")
           fields == <<a, b, c, d, e, f, g, h, k>>
<1>1. SyncPlayer = [put |-> fields, get |-> fields, len |-> 12]
  BY DEF SyncPlayer
<1>2. /\ a \in Field /\ b \in Field /\ c \in Field /\ d \in Field /\ e \in Field
      /\ f \in Field /\ g \in Field /\ h \in Field /\ k \in Field
  BY DEF U8, U16, Flag, Field, Kinds
<1>3. /\ a.field = "id" /\ b.field = "lives" /\ c.field = "cell_index"
      /\ d.field = "alive" /\ e.field = "ready" /\ f.field = "bomb_count"
      /\ g.field = "bomb_radius" /\ h.field = "bomb_timer_ticks" /\ k.field = "speed"
  BY DEF U8, U16, Flag
<1>4. /\ a.kind = "u8" /\ b.kind = "u8" /\ c.kind = "u16" /\ d.kind = "bool" /\ e.kind = "bool"
      /\ f.kind = "u8" /\ g.kind = "u8" /\ h.kind = "u16" /\ k.kind = "u16"
  BY DEF U8, U16, Flag
<1> HIDE DEF a, b, c, d, e, f, g, h, k
<1>5. /\ fields \in Seq(Field) /\ Len(fields) = 9
      /\ DOMAIN fields = {1, 2, 3, 4, 5, 6, 7, 8, 9}
  BY <1>2
<1>6. /\ fields[1] = a /\ fields[2] = b /\ fields[3] = c /\ fields[4] = d /\ fields[5] = e
      /\ fields[6] = f /\ fields[7] = g /\ fields[8] = h /\ fields[9] = k
  OBVIOUS
<1> HIDE DEF fields
<1>7. Distinct(fields)
  BY <1>3, <1>5, <1>6 DEF Distinct
<1>8. ASSUME NEW start, Starts(fields, start) PROVE start[9] = 12
  <2>1. \A i \in {1, 2, 3, 4, 5, 6, 7, 8, 9} : i \in 1..Len(fields)
    BY <1>5
  <2>2. start[0] = 0
    BY <1>8 DEF Starts
  <2>3. \A i \in {1, 2, 3, 4, 5, 6, 7, 8, 9} : start[i] = start[i - 1] + Width(fields[i].kind)
    BY <1>8, <2>1, Zenon DEF Starts
  <2>4. start[1] = 1 /\ start[2] = 2 /\ start[3] = 4
    BY <1>4, <1>6, <2>2, <2>3, WidthIs
  <2>5. start[4] = 5 /\ start[5] = 6 /\ start[6] = 7
    BY <1>4, <1>6, <2>3, <2>4, WidthIs
  <2> QED
    BY <1>4, <1>6, <2>3, <2>5, WidthIs
<1> QED
  BY <1>1, <1>5, <1>7, <1>8 DEF IsLayout

LEMMA ByteLayout ==
  ASSUME NEW a \in Field, a.kind = "u8"
  PROVE  IsLayout([put |-> <<a>>, get |-> <<a>>, len |-> 1])
BY OneField, WidthIs

LEMMA WordLayout ==
  ASSUME NEW a \in Field, a.kind = "u16"
  PROVE  IsLayout([put |-> <<a>>, get |-> <<a>>, len |-> 2])
BY OneField, WidthIs

LEMMA ByteWordLayout ==
  ASSUME NEW a \in Field, NEW b \in Field, a.kind = "u8", b.kind = "u16", a.field # b.field
  PROVE  IsLayout([put |-> <<a, b>>, get |-> <<a, b>>, len |-> 3])
BY TwoFields, WidthIs

LEMMA ByteByteLayout ==
  ASSUME NEW a \in Field, NEW b \in Field, a.kind = "u8", b.kind = "u8", a.field # b.field
  PROVE  IsLayout([put |-> <<a, b>>, get |-> <<a, b>>, len |-> 2])
BY TwoFields, WidthIs

LEMMA HelloIs == IsLayout(Hello)
<1> DEFINE a == Id("client_id")
           b == Name("player_name")
<1>1. /\ a \in Field /\ a.kind = "id" /\ b \in Field /\ b.kind = "name"
      /\ a.field # b.field
  BY DEF Id, Name, Field, Kinds
<1>2. Hello = [put |-> <<a, b>>, get |-> <<a, b>>, len |-> MaxIdLen + MaxNameLen]
  BY DEF Hello
<1> HIDE DEF a, b
<1>3. MaxIdLen + MaxNameLen = Width(a.kind) + Width(b.kind)
  BY <1>1, WidthIs, LimitsAssumption
<1> QED
  BY <1>1, <1>2, <1>3, TwoFields

LEMMA WelcomeIs == IsLayout(Welcome)
<1> DEFINE a == Id("server_id")
           b == U8("game_status")
           c == U8("player_count")
<1>1. /\ a \in Field /\ a.kind = "id" /\ b \in Field /\ b.kind = "u8" /\ c \in Field /\ c.kind = "u8"
      /\ a.field # b.field /\ a.field # c.field /\ b.field # c.field
  BY DEF U8, Id, Field, Kinds
<1>2. Welcome = [put |-> <<a, b, c>>, get |-> <<a, b, c>>, len |-> MaxIdLen + 2]
  BY DEF Welcome
<1> HIDE DEF a, b, c
<1>3. MaxIdLen + 2 = Width(a.kind) + Width(b.kind) + Width(c.kind)
  BY <1>1, WidthIs, LimitsAssumption
<1> QED
  BY <1>1, <1>2, <1>3, ThreeFields

LEMMA WelcomePlayerIs == IsLayout(WelcomePlayer)
<1> DEFINE a == U8("id")
           b == Flag("ready")
           c == Name("name")
<1>1. /\ a \in Field /\ a.kind = "u8" /\ b \in Field /\ b.kind = "bool" /\ c \in Field /\ c.kind = "name"
      /\ a.field # b.field /\ a.field # c.field /\ b.field # c.field
  BY DEF U8, Flag, Name, Field, Kinds
<1>2. WelcomePlayer = [put |-> <<a, b, c>>, get |-> <<a, b, c>>, len |-> 2 + MaxNameLen]
  BY DEF WelcomePlayer
<1> HIDE DEF a, b, c
<1>3. 2 + MaxNameLen = Width(a.kind) + Width(b.kind) + Width(c.kind)
  BY <1>1, WidthIs, LimitsAssumption
<1> QED
  BY <1>1, <1>2, <1>3, ThreeFields

LEMMA SetStatusIs == IsLayout(SetStatus)
<1> DEFINE a == U8("status")
<1>1. a \in Field /\ a.kind = "u8"
  BY DEF U8, Field, Kinds
<1>2. SetStatus = [put |-> <<a>>, get |-> <<a>>, len |-> 1]
  BY DEF SetStatus
<1> HIDE DEF a
<1> QED
  BY <1>1, <1>2, ByteLayout

LEMMA MoveAttemptIs == IsLayout(MoveAttempt)
<1> DEFINE a == U8("direction")
<1>1. a \in Field /\ a.kind = "u8"
  BY DEF U8, Field, Kinds
<1>2. MoveAttempt = [put |-> <<a>>, get |-> <<a>>, len |-> 1]
  BY DEF MoveAttempt
<1> HIDE DEF a
<1> QED
  BY <1>1, <1>2, ByteLayout

LEMMA DeathIs == IsLayout(Death)
<1> DEFINE a == U8("player_id")
<1>1. a \in Field /\ a.kind = "u8"
  BY DEF U8, Field, Kinds
<1>2. Death = [put |-> <<a>>, get |-> <<a>>, len |-> 1]
  BY DEF Death
<1> HIDE DEF a
<1> QED
  BY <1>1, <1>2, ByteLayout

LEMMA WinnerIs == IsLayout(Winner)
<1> DEFINE a == U8("winner_id")
<1>1. a \in Field /\ a.kind = "u8"
  BY DEF U8, Field, Kinds
<1>2. Winner = [put |-> <<a>>, get |-> <<a>>, len |-> 1]
  BY DEF Winner
<1> HIDE DEF a
<1> QED
  BY <1>1, <1>2, ByteLayout

LEMMA ErrorTextIs == IsLayout(ErrorText)
<1> DEFINE a == U8("char")
<1>1. a \in Field /\ a.kind = "u8"
  BY DEF U8, Field, Kinds
<1>2. ErrorText = [put |-> <<a>>, get |-> <<a>>, len |-> 1]
  BY DEF ErrorText
<1> HIDE DEF a
<1> QED
  BY <1>1, <1>2, ByteLayout

LEMMA MapCellIs == IsLayout(MapCell)
<1> DEFINE a == U8("cell")
<1>1. a \in Field /\ a.kind = "u8"
  BY DEF U8, Field, Kinds
<1>2. MapCell = [put |-> <<a>>, get |-> <<a>>, len |-> 1]
  BY DEF MapCell
<1> HIDE DEF a
<1> QED
  BY <1>1, <1>2, ByteLayout

LEMMA BombAttemptIs == IsLayout(BombAttempt)
<1> DEFINE a == U16("cell_index")
<1>1. a \in Field /\ a.kind = "u16"
  BY DEF U16, Field, Kinds
<1>2. BombAttempt = [put |-> <<a>>, get |-> <<a>>, len |-> 2]
  BY DEF BombAttempt
<1> HIDE DEF a
<1> QED
  BY <1>1, <1>2, WordLayout

LEMMA ExplosionEndIs == IsLayout(ExplosionEnd)
<1> DEFINE a == U16("cell_index")
<1>1. a \in Field /\ a.kind = "u16"
  BY DEF U16, Field, Kinds
<1>2. ExplosionEnd = [put |-> <<a>>, get |-> <<a>>, len |-> 2]
  BY DEF ExplosionEnd
<1> HIDE DEF a
<1> QED
  BY <1>1, <1>2, WordLayout

LEMMA BlockDestroyedIs == IsLayout(BlockDestroyed)
<1> DEFINE a == U16("cell_index")
<1>1. a \in Field /\ a.kind = "u16"
  BY DEF U16, Field, Kinds
<1>2. BlockDestroyed = [put |-> <<a>>, get |-> <<a>>, len |-> 2]
  BY DEF BlockDestroyed
<1> HIDE DEF a
<1> QED
  BY <1>1, <1>2, WordLayout

LEMMA ErrorIs == IsLayout(Error)
<1> DEFINE a == U16("len")
<1>1. a \in Field /\ a.kind = "u16"
  BY DEF U16, Field, Kinds
<1>2. Error = [put |-> <<a>>, get |-> <<a>>, len |-> 2]
  BY DEF Error
<1> HIDE DEF a
<1> QED
  BY <1>1, <1>2, WordLayout

LEMMA MovedIs == IsLayout(Moved)
<1> DEFINE a == U8("player_id")
           b == U16("cell_index")
<1>1. /\ a \in Field /\ a.kind = "u8" /\ b \in Field /\ b.kind = "u16"
      /\ a.field # b.field
  BY DEF U8, U16, Field, Kinds
<1>2. Moved = [put |-> <<a, b>>, get |-> <<a, b>>, len |-> 3]
  BY DEF Moved
<1> HIDE DEF a, b
<1> QED
  BY <1>1, <1>2, ByteWordLayout

LEMMA BombPlacedIs == IsLayout(BombPlaced)
<1> DEFINE a == U8("player_id")
           b == U16("cell_index")
<1>1. /\ a \in Field /\ a.kind = "u8" /\ b \in Field /\ b.kind = "u16"
      /\ a.field # b.field
  BY DEF U8, U16, Field, Kinds
<1>2. BombPlaced = [put |-> <<a, b>>, get |-> <<a, b>>, len |-> 3]
  BY DEF BombPlaced
<1> HIDE DEF a, b
<1> QED
  BY <1>1, <1>2, ByteWordLayout

LEMMA ExplosionStartIs == IsLayout(ExplosionStart)
<1> DEFINE a == U8("radius")
           b == U16("cell_index")
<1>1. /\ a \in Field /\ a.kind = "u8" /\ b \in Field /\ b.kind = "u16"
      /\ a.field # b.field
  BY DEF U8, U16, Field, Kinds
<1>2. ExplosionStart = [put |-> <<a, b>>, get |-> <<a, b>>, len |-> 3]
  BY DEF ExplosionStart
<1> HIDE DEF a, b
<1> QED
  BY <1>1, <1>2, ByteWordLayout

LEMMA BonusAvailableIs == IsLayout(BonusAvailable)
<1> DEFINE a == U8("bonus_type")
           b == U16("cell_index")
<1>1. /\ a \in Field /\ a.kind = "u8" /\ b \in Field /\ b.kind = "u16"
      /\ a.field # b.field
  BY DEF U8, U16, Field, Kinds
<1>2. BonusAvailable = [put |-> <<a, b>>, get |-> <<a, b>>, len |-> 3]
  BY DEF BonusAvailable
<1> HIDE DEF a, b
<1> QED
  BY <1>1, <1>2, ByteWordLayout

LEMMA BonusRetrievedIs == IsLayout(BonusRetrieved)
<1> DEFINE a == U8("player_id")
           b == U16("cell_index")
<1>1. /\ a \in Field /\ a.kind = "u8" /\ b \in Field /\ b.kind = "u16"
      /\ a.field # b.field
  BY DEF U8, U16, Field, Kinds
<1>2. BonusRetrieved = [put |-> <<a, b>>, get |-> <<a, b>>, len |-> 3]
  BY DEF BonusRetrieved
<1> HIDE DEF a, b
<1> QED
  BY <1>1, <1>2, ByteWordLayout

LEMMA MapIs == IsLayout(Map)
<1> DEFINE a == U8("rows")
           b == U8("cols")
<1>1. /\ a \in Field /\ a.kind = "u8" /\ b \in Field /\ b.kind = "u8"
      /\ a.field # b.field
  BY DEF U8, Field, Kinds
<1>2. Map = [put |-> <<a, b>>, get |-> <<a, b>>, len |-> 2]
  BY DEF Map
<1> HIDE DEF a, b
<1> QED
  BY <1>1, <1>2, ByteByteLayout

LEMMA SyncBoardIs == IsLayout(SyncBoard)
<1> DEFINE a == U8("status")
           b == U8("player_count")
<1>1. /\ a \in Field /\ a.kind = "u8" /\ b \in Field /\ b.kind = "u8"
      /\ a.field # b.field
  BY DEF U8, Field, Kinds
<1>2. SyncBoard = [put |-> <<a, b>>, get |-> <<a, b>>, len |-> 2]
  BY DEF SyncBoard
<1> HIDE DEF a, b
<1> QED
  BY <1>1, <1>2, ByteByteLayout

LEMMA LayoutsAre ==
  /\ \A t \in MsgTypes : IsLayout(Layout(t))
  /\ \A t \in Variable : IsLayout(ItemLayout(t))
<1>1. \A t \in MsgTypes : IsLayout(Layout(t))
  BY NoFields, HelloIs, WelcomeIs, SetStatusIs, MoveAttemptIs, DeathIs, WinnerIs, BombAttemptIs,
     ExplosionEndIs, BlockDestroyedIs, ErrorIs, MovedIs, BombPlacedIs, ExplosionStartIs,
     BonusAvailableIs, BonusRetrievedIs, MapIs, SyncBoardIs, Zenon DEF Layout
<1>2. \A t \in Variable : IsLayout(ItemLayout(t))
  BY WelcomePlayerIs, SyncPlayerIs, ErrorTextIs, MapCellIs DEF Variable, ItemLayout
<1> QED
  BY <1>1, <1>2

-----------------------------------------------------------------------------
(* A head or an item: as long as its layout says, and read as it was put. *)
LEMMA PutLength ==
  ASSUME NEW l, IsLayout(l), NEW rec, Carries(l.put, rec)
  PROVE  Put(l.put, rec) \in Seq(Nat) /\ Len(Put(l.put, rec)) = l.len
<1>1. l.put \in Seq(Field)
  BY DEF IsLayout
<1>2. PICK start : Starts(l.put, start)
  BY <1>1, FieldsStart
<1>3. start[Len(l.put)] = l.len
  BY <1>2 DEF IsLayout
<1> QED
  BY <1>1, <1>2, <1>3, PutIs

LEMMA ReadBack ==
  ASSUME NEW l, IsLayout(l), NEW rec, Carries(l.put, rec),
         NEW b \in Seq(Nat), Len(b) >= l.len, \A j \in 1..l.len : b[j] = Put(l.put, rec)[j]
  PROVE  Get(l.get, b) = rec
<1>1. l.put \in Seq(Field) /\ l.get = l.put /\ Distinct(l.put)
  BY DEF IsLayout
<1>2. PICK start : Starts(l.put, start)
  BY <1>1, FieldsStart
<1>3. start[Len(l.put)] = l.len
  BY <1>2 DEF IsLayout
<1> QED
  BY <1>1, <1>2, <1>3, GetIs

LEMMA Steps ==
  ASSUME NEW i \in Nat, NEW w \in Nat
  PROVE  (i + 1) * w = i * w + w /\ i * w \in Nat
OBVIOUS

LEMMA WithinItems ==
  ASSUME NEW n \in Nat, NEW w \in Nat, NEW i \in 1..n
  PROVE  (i - 1) * w \in Nat /\ (i - 1) * w + w = i * w /\ i * w <= n * w
<1> DEFINE c == i - 1
           d == n - i
<1>1. c \in Nat /\ d \in Nat /\ n = (c + 1) + d /\ i = c + 1
  OBVIOUS
<1> HIDE DEF c, d
<1>2. (c + 1) * w = c * w + w /\ ((c + 1) + d) * w = (c * w + w) + d * w
      /\ c * w \in Nat /\ d * w \in Nat
  BY <1>1
<1>3. c * w + w = i * w /\ i * w <= n * w
  BY <1>1, <1>2
<1> QED
  BY <1>2, <1>3 DEF c

(* Items of one length. *)
LEMMA ItemsAre ==
  ASSUME NEW n \in Nat, NEW w \in Nat, NEW parts \in [1..n -> Seq(Nat)],
         \A i \in 1..n : Len(parts[i]) = w
  PROVE  /\ FlattenSeq(parts) \in Seq(Nat) /\ Len(FlattenSeq(parts)) = n * w
         /\ \A i \in 1..n, j \in 1..w : FlattenSeq(parts)[(i - 1) * w + j] = parts[i][j]
<1> DEFINE start == [i \in 0..n |-> i * w]
<1>1. start \in [0..n -> Nat]
  BY Steps
<1>2. \A i \in 0..n : start[i] = i * w
  OBVIOUS
<1> HIDE DEF start
<1>3. start[0] = 0
  BY <1>2
<1>4. ASSUME NEW i \in 1..n PROVE start[i] = start[i - 1] + Len(parts[i])
  <2>1. i - 1 \in Nat /\ i - 1 \in 0..n /\ i \in 0..n /\ (i - 1) + 1 = i
    OBVIOUS
  <2>2. ((i - 1) + 1) * w = (i - 1) * w + w
    BY <2>1, Steps
  <2> QED
    BY <1>2, <2>1, <2>2
<1>5. StartsAt(parts, n, start)
  BY <1>1, <1>3, <1>4, Zenon DEF StartsAt
<1>6. IsJoin(FlattenSeq(parts), parts, n, start)
  BY <1>5, Flattened, Zenon
<1>7. n \in 0..n
  OBVIOUS
<1>8. \A i \in 1..n, j \in 1..w : FlattenSeq(parts)[(i - 1) * w + j] = parts[i][j]
  <2> SUFFICES ASSUME NEW i \in 1..n, NEW j \in 1..w
               PROVE  FlattenSeq(parts)[(i - 1) * w + j] = parts[i][j]
    OBVIOUS
  <2>1. j \in Nat \ {0} /\ j <= Len(parts[i])
    OBVIOUS
  <2>2. FlattenSeq(parts)[start[i - 1] + j] = parts[i][j]
    BY <1>6, <2>1 DEF IsJoin
  <2>3. i - 1 \in 0..n
    OBVIOUS
  <2>4. start[i - 1] = (i - 1) * w
    BY <1>2, <2>3
  <2> QED
    BY <2>2, <2>4
<1> QED
  BY <1>2, <1>6, <1>7, <1>8 DEF IsJoin

-----------------------------------------------------------------------------
(* A whole message. *)
ItemLen(t) == IF t \in Variable THEN ItemLayout(t).len ELSE 0

(* What a head says of the items is in bounds, and the head that is sent   *)
(* is one that its layout can carry.                                       *)
LEMMA HeadSent ==
  ASSUME NEW m, Filled(m), CountOK(m.type, Count(m.type, SentHead(m)))
  PROVE  /\ m.type \in MsgTypes /\ Carries(Layout(m.type).put, SentHead(m))
         /\ Count(m.type, SentHead(m)) \in Nat
         /\ m.type \notin Variable => Count(m.type, SentHead(m)) = 0
<1> DEFINE t == m.type
           n == Count(t, SentHead(m))
<1>1. t \in MsgTypes /\ Carries(Layout(t).put, m.head) /\ n \in Nat
  BY DEF Filled
<1>2. CASE t = "ERROR" /\ m.head.len = 0
  <2> DEFINE h == [len |-> Len(m.items)]
             a == U16("len")
  <2>1. SentHead(m) = h /\ n = Len(m.items)
    BY <1>2 DEF SentHead, Count
  <2>2. n <= MaxErrorLen
    BY <1>2 DEF CountOK
  <2>3. Len(m.items) \in Word
    <3>1. n \in Nat /\ MaxErrorLen \in Word
      BY <1>1, LimitsAssumption
    <3> HIDE DEF n
    <3>2. n \in Word
      BY <2>2, <3>1, LessIsWord
    <3> QED
      BY <2>1, <3>2
  <2>4. Layout(t).put = <<a>>
    BY <1>2 DEF Layout, Error
  <2>5. a.field = "len" /\ a.kind = "u16"
    BY DEF U16
  <2> HIDE DEF a
  <2>6. {<<a>>[i].field : i \in DOMAIN <<a>>} = {"len"}
    BY <2>5
  <2>7. h = [f \in {"len"} |-> h[f]]
    OBVIOUS
  <2>8. \A i \in DOMAIN <<a>> : <<a>>[i] = a
    OBVIOUS
  <2>9. Value("u16", h.len)
    BY <2>3 DEF Value
  <2>10. Carries(<<a>>, h)
    BY <2>5, <2>6, <2>7, <2>8, <2>9 DEF Carries
  <2> QED
    BY <1>1, <1>2, <2>1, <2>4, <2>10 DEF Variable
<1>3. CASE ~(t = "ERROR" /\ m.head.len = 0)
  <2>1. SentHead(m) = m.head
    BY <1>3 DEF SentHead
  <2>2. t \notin Variable => n = 0
    BY DEF Variable, Count
  <2> QED
    BY <1>1, <2>1, <2>2
<1> QED
  BY <1>2, <1>3

LEMMA Encoded ==
  ASSUME NEW m, Filled(m), CountOK(m.type, Count(m.type, SentHead(m)))
  PROVE  LET t == m.type
             b == Encode(m)
             n == Count(t, SentHead(m))
             l == Layout(t).len
             w == ItemLen(t)
         IN  /\ b \in Seq(Nat) /\ Len(b) = l + n * w /\ l \in Nat /\ w \in Nat /\ n \in Nat
             /\ \A j \in 1..l : b[j] = Put(Layout(t).put, SentHead(m))[j]
             /\ \A i \in 1..n, j \in 1..w :
                  b[l + (i - 1) * w + j] = Put(ItemLayout(t).put, m.items[i])[j]
<1> DEFINE t == m.type
           b == Encode(m)
           n == Count(t, SentHead(m))
           l == Layout(t).len
           w == ItemLen(t)
           h == Put(Layout(t).put, SentHead(m))
           parts == [i \in 1..n |-> Put(ItemLayout(t).put, m.items[i])]
           r == FlattenSeq(parts)
<1>1. /\ t \in MsgTypes /\ Carries(Layout(t).put, SentHead(m)) /\ n \in Nat
      /\ t \notin Variable => n = 0
  BY HeadSent
<1>2. IsLayout(Layout(t)) /\ l \in Nat
  BY <1>1, LayoutsAre DEF IsLayout
<1>3. h \in Seq(Nat) /\ Len(h) = l
  BY <1>1, <1>2, PutLength
<1>4. w \in Nat
  BY LayoutsAre DEF ItemLen, IsLayout
<1>5. ASSUME NEW i \in 1..n PROVE parts[i] \in Seq(Nat) /\ Len(parts[i]) = w
  <2>1. t \in Variable
    BY <1>1
  <2>2. IsLayout(ItemLayout(t)) /\ w = ItemLayout(t).len
    BY <2>1, LayoutsAre DEF ItemLen
  <2>3. Carries(ItemLayout(t).put, m.items[i])
    BY DEF Filled
  <2> QED
    BY <2>2, <2>3, PutLength
<1>6. parts \in [1..n -> Seq(Nat)] /\ \A i \in 1..n : parts[i] = Put(ItemLayout(t).put, m.items[i])
  BY <1>5
<1>7. b = h \o r
  BY DEF Encode
<1> HIDE DEF b, n, l, w, h, parts, t
<1>8. /\ r \in Seq(Nat) /\ Len(r) = n * w
      /\ \A i \in 1..n, j \in 1..w : r[(i - 1) * w + j] = parts[i][j]
  BY <1>1, <1>4, <1>5, <1>6, ItemsAre, ZenonT(30)
<1> HIDE DEF r
<1>9. /\ b \in Seq(Nat) /\ Len(b) = l + n * w
      /\ \A j \in 1..(Len(h) + Len(r)) : b[j] = IF j <= Len(h) THEN h[j] ELSE r[j - Len(h)]
  BY <1>3, <1>7, <1>8, ConcatProperties
<1>10. Len(r) \in Nat /\ n * w \in Nat
  BY <1>8
<1>11. \A j \in 1..l : b[j] = h[j]
  <2>1. \A j \in 1..l : j \in 1..(Len(h) + Len(r)) /\ j <= Len(h)
    BY <1>2, <1>3, <1>10
  <2> QED
    BY <1>9, <2>1
<1>12. ASSUME NEW i \in 1..n, NEW j \in 1..w PROVE b[l + (i - 1) * w + j] = parts[i][j]
  <2> DEFINE k == (i - 1) * w + j
  <2>1. k \in 1..(n * w)
    <3> DEFINE x == (i - 1) * w
    <3>1. x \in Nat /\ x + w <= n * w /\ n * w \in Nat
      BY <1>1, <1>4, <1>10, WithinItems
    <3> HIDE DEF x
    <3>2. x + j \in 1..(n * w)
      BY <1>4, <3>1
    <3> QED
      BY <3>2 DEF x
  <2>2. r[k] = parts[i][j]
    BY <1>8
  <2> HIDE DEF k
  <2>3. l + k \in 1..(Len(h) + Len(r)) /\ ~(l + k <= Len(h)) /\ (l + k) - Len(h) = k
    BY <1>2, <1>3, <1>8, <1>10, <2>1
  <2>4. b[l + k] = r[k]
    BY <1>9, <2>3
  <2>5. l + k = l + (i - 1) * w + j
    <3> DEFINE x == (i - 1) * w
    <3>1. x \in Int /\ k = x + j
      BY <1>1, <1>4 DEF k
    <3> HIDE DEF x
    <3>2. l + k = l + x + j
      BY <1>2, <3>1
    <3> QED
      BY <3>2 DEF x
  <2> QED
    BY <2>2, <2>4, <2>5
<1>13. \A i \in 1..n, j \in 1..w : b[l + (i - 1) * w + j] = Put(ItemLayout(t).put, m.items[i])[j]
  BY <1>6, <1>12
<1> QED
  BY <1>1, <1>2, <1>4, <1>9, <1>11, <1>13 DEF b, n, l, w, h, t

(* Whatever begins like a message has its head. *)
LEMMA HeadRead ==
  ASSUME NEW m, Filled(m), CountOK(m.type, Count(m.type, SentHead(m))),
         NEW c \in Seq(Nat), Len(c) >= Layout(m.type).len,
         \A j \in 1..Layout(m.type).len : c[j] = Encode(m)[j]
  PROVE  Get(Layout(m.type).get, c) = SentHead(m)
<1> DEFINE l == Layout(m.type)
           h == SentHead(m)
<1>1. IsLayout(l) /\ Carries(l.put, h)
  BY HeadSent, LayoutsAre
<1>2. \A j \in 1..l.len : Encode(m)[j] = Put(l.put, h)[j]
  BY Encoded
<1>3. \A j \in 1..l.len : c[j] = Put(l.put, h)[j]
  BY <1>2
<1> HIDE DEF h, l
<1>4. Get(l.get, c) = h
  BY <1>1, <1>3, ReadBack DEF l
<1> QED
  BY <1>4 DEF h, l

(* It is taken if it is as long as the message, and refused otherwise. *)
LEMMA TakenIfWhole ==
  ASSUME NEW m, Filled(m), CountOK(m.type, Count(m.type, SentHead(m))),
         NEW c \in Seq(Nat), Len(c) >= Layout(m.type).len,
         \A j \in 1..Layout(m.type).len : c[j] = Encode(m)[j]
  PROVE  Decodable(m.type, c) <=> Len(c) = Len(Encode(m))
<1> DEFINE t == m.type
           n == Count(t, SentHead(m))
           l == Layout(t).len
           w == ItemLen(t)
<1>1. Get(Layout(t).get, c) = SentHead(m)
  BY HeadRead
<1>2. /\ n \in Nat /\ w \in Nat /\ l \in Nat /\ Len(Encode(m)) = l + n * w
      /\ t \notin Variable => n = 0
  BY Encoded, HeadSent
<1>3. (IF n = 0 THEN 0 ELSE n * ItemLayout(t).len) = n * w
  <2>1. CASE n = 0
    <3>1. 0 * w = 0
      BY <1>2
    <3> QED
      BY <2>1, <3>1
  <2>2. CASE n # 0
    BY <1>2, <2>2 DEF ItemLen
  <2> QED
    BY <2>1, <2>2
<1>4. Len(Encode(m)) = l + (IF n = 0 THEN 0 ELSE n * ItemLayout(t).len)
  BY <1>2, <1>3
<1> QED
  BY <1>1, <1>4 DEF Decodable

LEMMA Decoded ==
  ASSUME NEW m, Filled(m), CountOK(m.type, Count(m.type, SentHead(m)))
  PROVE  Same(m)
<1> DEFINE t == m.type
           b == Encode(m)
           n == Count(t, SentHead(m))
           l == Layout(t).len
           w == ItemLen(t)
           item == IF t \in Variable THEN ItemLayout(t) ELSE Empty
<1>1. /\ b \in Seq(Nat) /\ Len(b) = l + n * w /\ l \in Nat /\ w \in Nat /\ n \in Nat
      /\ \A i \in 1..n, j \in 1..w :
           b[l + (i - 1) * w + j] = Put(ItemLayout(t).put, m.items[i])[j]
      /\ t \notin Variable => n = 0
  BY Encoded, HeadSent
<1>2. Get(Layout(t).get, b) = SentHead(m)
  <2>1. Len(b) >= l
    <3>1. n * w \in Nat
      BY <1>1
    <3> HIDE DEF b, l, n, w
    <3> QED
      BY <1>1, <3>1
  <2> QED
    BY <1>1, <2>1, HeadRead
<1>3. w = item.len
  BY DEF ItemLen, Empty
<1>4. ASSUME NEW i \in 1..n
      PROVE  Get(item.get, SubSeq(b, l + (i - 1) * item.len + 1, l + i * item.len)) = m.items[i]
  <2> DEFINE at == l + (i - 1) * w
             c == SubSeq(b, at + 1, at + w)
  <2>1. t \in Variable /\ item = ItemLayout(t) /\ IsLayout(item)
    BY <1>1, LayoutsAre
  <2>2. Carries(item.put, m.items[i])
    BY <2>1 DEF Filled
  <2>3. at \in Nat /\ at + w = l + i * w /\ at + w <= Len(b)
    <3> DEFINE x == (i - 1) * w
               y == i * w
               z == n * w
    <3>1. n \in Nat /\ w \in Nat /\ l \in Nat /\ Len(b) = l + z
      BY <1>1
    <3> HIDE DEF n, w, l, b
    <3>2. x \in Nat /\ x + w = y /\ y <= z
      BY <3>1, WithinItems
    <3>3. z \in Nat
      BY <3>1
    <3> HIDE DEF x, y, z
    <3>4. l + x \in Nat /\ l + x + w = l + y /\ l + x + w <= Len(b)
      BY <3>1, <3>2, <3>3
    <3> QED
      BY <3>4 DEF x, y
  <2>4. c \in Seq(Nat) /\ Len(c) = w /\ \A j \in 1..w : c[j] = b[at + j]
    <3> HIDE DEF at, b, w
    <3> QED
      BY <1>1, <2>3, Slice
  <2>5. \A j \in 1..w : c[j] = Put(item.put, m.items[i])[j]
    <3>1. \A j \in 1..w : b[at + j] = Put(item.put, m.items[i])[j]
      BY <1>1, <2>1
    <3> HIDE DEF c, at, b, w, item
    <3> QED
      BY <2>4, <3>1
  <2>6. Get(item.get, c) = m.items[i]
    <3> HIDE DEF c, item, w, b, l, n, at
    <3>1. Len(c) >= item.len /\ \A j \in 1..item.len : c[j] = Put(item.put, m.items[i])[j]
      BY <1>1, <1>3, <2>4, <2>5
    <3> QED
      BY <2>1, <2>2, <2>4, <3>1, ReadBack
  <2>7. SubSeq(b, l + (i - 1) * item.len + 1, l + i * item.len) = c
    BY <1>3, <2>3
  <2> QED
    BY <2>6, <2>7
<1>5. [i \in 1..n |-> Get(item.get, SubSeq(b, l + (i - 1) * item.len + 1, l + i * item.len))] = m.items
  <2>1. m.items = [i \in 1..n |-> m.items[i]]
    BY DEF Filled
  <2> QED
    BY <1>4, <2>1
<1>6. Decode(t, b) = [type |-> t, head |-> SentHead(m), items |-> m.items]
  BY <1>2, <1>5 DEF Decode
<1> QED
  BY <1>6 DEF Same

-----------------------------------------------------------------------------
(* The tables of sizes repeat the layouts in numbers of their own. *)
LEMMA FixedSizeIs ==
  ASSUME NEW t \in KnownFixed
  PROVE  FixedSize(t) = Layout(t).len /\ t \notin Variable
BY DEF KnownFixed, MsgTypes, Code, VariablePayload, Variable, FixedSize, Layout, Empty, Hello,
       SetStatus, MoveAttempt, Moved, BombAttempt, BombPlaced, ExplosionStart, ExplosionEnd,
       Death, BonusAvailable, BonusRetrieved, BlockDestroyed, Winner

LEMMA BaseLenIs ==
  ASSUME NEW t \in VariablePayload
  PROVE  BaseLen(t) = Layout(t).len /\ t \in Variable
BY LimitsAssumption DEF VariablePayload, Variable, BaseLen, Layout, Welcome, Error, Map, SyncBoard

LEMMA ByteAt ==
  ASSUME NEW fields \in Seq(Field), NEW start, Starts(fields, start), NEW rec, Carries(fields, rec),
         NEW i \in 1..Len(fields), fields[i].kind = "u8"
  PROVE  /\ Put(fields, rec)[start[i - 1] + 1] = rec[fields[i].field]
         /\ rec[fields[i].field] \in Byte
<1>1. Width(fields[i].kind) = 1 /\ 1 \in Nat \ {0}
  BY WidthIs
<1>2. Put(fields, rec)[start[i - 1] + 1] = WriteField(fields[i].kind, rec[fields[i].field])[1]
  <2>1. PutsAt(fields, rec, start)
    BY PutIs, Zenon
  <2> QED
    BY <1>1, <2>1 DEF PutsAt
<1>3. WriteField("u8", rec[fields[i].field])[1] = rec[fields[i].field]
  BY DEF WriteField
<1>4. DOMAIN fields = 1..Len(fields)
  BY KindsOf
<1>5. Value("u8", rec[fields[i].field])
  BY <1>4 DEF Carries
<1>6. rec[fields[i].field] \in Byte
  BY <1>5 DEF Value
<1> QED
  BY <1>2, <1>3, <1>6

(* What the first bytes of each of the four types say. *)
LEMMA WelcomeSays ==
  ASSUME NEW h, Carries(Welcome.put, h)
  PROVE  Put(Welcome.put, h)[MaxIdLen + 2] = h.player_count /\ h.player_count \in Byte
<1> DEFINE a == Id("server_id")
           b == U8("game_status")
           c == U8("player_count")
           fields == <<a, b, c>>
<1>1. /\ a \in Field /\ b \in Field /\ c \in Field
      /\ a.kind = "id" /\ b.kind = "u8" /\ c.kind = "u8" /\ c.field = "player_count"
  BY DEF Id, U8, Field, Kinds
<1>2. Welcome.put = fields
  BY DEF Welcome
<1> HIDE DEF a, b, c
<1>3. fields \in Seq(Field) /\ Len(fields) = 3 /\ fields[1] = a /\ fields[2] = b /\ fields[3] = c
  BY <1>1
<1> HIDE DEF fields
<1>4. PICK start : Starts(fields, start)
  BY <1>3, FieldsStart
<1>5. start[2] = MaxIdLen + 1
  <2>1. 1 \in 1..Len(fields) /\ 2 \in 1..Len(fields)
    BY <1>3
  <2>2. /\ start[0] = 0 /\ start[1] = start[1 - 1] + Width(fields[1].kind)
        /\ start[2] = start[2 - 1] + Width(fields[2].kind)
    BY <1>4, <2>1, Zenon DEF Starts
  <2>3. 1 - 1 = 0 /\ 2 - 1 = 1 /\ MaxIdLen \in Nat
    BY LimitsAssumption
  <2> QED
    BY <1>1, <1>3, <2>2, <2>3, WidthIs
<1>6. 3 \in 1..Len(fields) /\ 3 - 1 = 2 /\ (MaxIdLen + 1) + 1 = MaxIdLen + 2
  BY <1>3, LimitsAssumption
<1>7. Put(fields, h)[start[3 - 1] + 1] = h[fields[3].field] /\ h[fields[3].field] \in Byte
  BY <1>1, <1>2, <1>3, <1>4, <1>6, ByteAt
<1> QED
  BY <1>1, <1>2, <1>3, <1>5, <1>6, <1>7

LEMMA TwoBytesSay ==
  ASSUME NEW a \in Field, NEW b \in Field, a.kind = "u8", b.kind = "u8",
         NEW h, Carries(<<a, b>>, h)
  PROVE  /\ Put(<<a, b>>, h)[1] = h[a.field] /\ Put(<<a, b>>, h)[2] = h[b.field]
         /\ h[a.field] \in Byte /\ h[b.field] \in Byte
<1> DEFINE fields == <<a, b>>
<1>1. fields \in Seq(Field) /\ Len(fields) = 2 /\ fields[1] = a /\ fields[2] = b
  OBVIOUS
<1> HIDE DEF fields
<1>2. PICK start : Starts(fields, start)
  BY <1>1, FieldsStart
<1>3. start[0] = 0 /\ start[1] = 1
  <2>1. 1 \in 1..Len(fields)
    BY <1>1
  <2>2. start[0] = 0 /\ start[1] = start[1 - 1] + Width(fields[1].kind)
    BY <1>2, <2>1, Zenon DEF Starts
  <2>3. 1 - 1 = 0
    OBVIOUS
  <2> QED
    BY <1>1, <2>2, <2>3, WidthIs
<1>4. /\ 1 \in 1..Len(fields) /\ 2 \in 1..Len(fields)
      /\ 1 - 1 = 0 /\ 2 - 1 = 1 /\ 0 + 1 = 1 /\ 1 + 1 = 2
  BY <1>1
<1>5. Carries(fields, h)
  BY DEF fields
<1>6. Put(fields, h)[start[1 - 1] + 1] = h[fields[1].field] /\ h[fields[1].field] \in Byte
  BY <1>1, <1>2, <1>4, <1>5, ByteAt
<1>7. Put(fields, h)[start[2 - 1] + 1] = h[fields[2].field] /\ h[fields[2].field] \in Byte
  BY <1>1, <1>2, <1>4, <1>5, ByteAt
<1>8. Put(fields, h)[1] = h[a.field] /\ Put(fields, h)[2] = h[b.field]
  BY <1>1, <1>3, <1>4, <1>6, <1>7
<1> QED
  BY <1>1, <1>6, <1>7, <1>8 DEF fields

LEMMA ErrorSays ==
  ASSUME NEW h, Carries(Error.put, h)
  PROVE  /\ Put(Error.put, h)[1] * 256 + Put(Error.put, h)[2] = h.len /\ h.len \in Nat
<1> DEFINE a == U16("len")
           fields == <<a>>
<1>1. a \in Field /\ a.kind = "u16" /\ a.field = "len"
  BY DEF U16, Field, Kinds
<1>2. Error.put = fields
  BY DEF Error
<1> HIDE DEF a
<1>3. fields \in Seq(Field) /\ Len(fields) = 1 /\ fields[1] = a /\ 1 \in DOMAIN fields
  BY <1>1
<1> HIDE DEF fields
<1>4. PICK start : Starts(fields, start)
  BY <1>3, FieldsStart
<1>5. start[0] = 0 /\ 1 \in 1..Len(fields) /\ 1 - 1 = 0 /\ 0 + 1 = 1 /\ 0 + 2 = 2
  BY <1>3, <1>4 DEF Starts
<1>6. h.len \in Word
  <2>1. Value("u16", h["len"])
    BY <1>1, <1>2, <1>3 DEF Carries
  <2> QED
    BY <2>1 DEF Value
<1>7. \A j \in {1, 2} : Put(fields, h)[start[1 - 1] + j] = WriteField("u16", h.len)[j]
  <2>1. Width("u16") = 2
    BY WidthIs
  <2>2. \A j \in {1, 2} : j \in Nat \ {0} /\ j <= 2
    OBVIOUS
  <2>3. \A j \in Nat \ {0} :
          j <= Width(fields[1].kind)
            => Put(fields, h)[start[1 - 1] + j] = WriteField(fields[1].kind, h[fields[1].field])[j]
    <3>1. PutsAt(fields, h, start)
      BY <1>2, <1>3, <1>4, <1>5, PutIs
    <3>2. 1 \in 1..Len(fields)
      BY <1>1, <1>3
    <3> QED
      BY <3>1, <3>2, Zenon DEF PutsAt
  <2> QED
    BY <1>1, <1>3, <2>1, <2>2, <2>3
<1>8. Put(fields, h)[1] = WriteField("u16", h.len)[1] /\ Put(fields, h)[2] = WriteField("u16", h.len)[2]
  BY <1>5, <1>7
<1>9. WriteField("u16", h.len) = <<h.len \div 256, h.len % 256>>
  BY DEF WriteField, WriteU16
<1>10. (h.len \div 256) * 256 + (h.len % 256) = h.len
  BY <1>6, WordIs
<1> DEFINE q == h.len \div 256
           r == h.len % 256
<1> HIDE DEF q, r
<1>11. WriteField("u16", h.len) = <<q, r>> /\ q * 256 + r = h.len
  BY <1>9, <1>10 DEF q, r
<1>12. Put(fields, h)[1] = q /\ Put(fields, h)[2] = r
  BY <1>8, <1>11
<1>13. h.len \in Nat
  BY <1>6, BytesAre
<1> QED
  BY <1>2, <1>11, <1>12, <1>13

-----------------------------------------------------------------------------
(* The number of bytes that a base announces. *)
LEMMA Monotone ==
  ASSUME NEW a \in Nat, NEW b \in Nat, NEW c \in Nat, a <= b
  PROVE  a * c <= b * c /\ a * c \in Nat /\ b * c \in Nat
<1> DEFINE d == b - a
<1>1. d \in Nat /\ b = a + d
  OBVIOUS
<1> HIDE DEF d
<1>2. (a + d) * c = a * c + d * c /\ a * c \in Nat /\ d * c \in Nat
  BY <1>1
<1> QED
  BY <1>1, <1>2

LEMMA CellsOfBytes ==
  ASSUME NEW x \in Byte, NEW y \in Byte
  PROVE  (x * y) % 2^16 = x * y /\ x * y \in Nat
<1>1. x \in Nat /\ y \in Nat /\ x <= 255 /\ y <= 255
  BY DEF Byte
<1>2. x * y <= 255 * y /\ x * y \in Nat
  BY <1>1, Monotone
<1>3. 255 * y <= 65025 /\ 65025 < 2^16
  BY <1>1
<1> DEFINE z == x * y
           w == 2^16
<1>4. z \in Nat /\ w \in Nat /\ z < w
  BY <1>2, <1>3, <1>1
<1> HIDE DEF z, w
<1>5. z % w = z
  BY <1>4
<1> QED
  BY <1>2, <1>5 DEF z, w

LEMMA ExtraIs ==
  ASSUME NEW m, Filled(m), CountOK(m.type, Count(m.type, SentHead(m))),
         m.type \in VariablePayload
  PROVE  /\ ExtraLen(m.type, Encode(m)) = Count(m.type, SentHead(m)) * ItemLen(m.type)
         /\ ExtraOK(m.type, Encode(m))
<1> DEFINE t == m.type
           b == Encode(m)
           h == SentHead(m)
           n == Count(t, h)
<1>1. Carries(Layout(t).put, h) /\ n \in Nat
  BY HeadSent
<1>2. \A j \in 1..Layout(t).len : b[j] = Put(Layout(t).put, h)[j]
  BY Encoded
<1>3. CountOK(t, n)
  OBVIOUS
<1> HIDE DEF b, h
<1>4. CASE t = "WELCOME"
  <2>1. n = h.player_count /\ n <= MaxPlayers
    BY <1>3, <1>4 DEF Count, CountOK
  <2>2. Layout(t) = Welcome /\ Welcome.len = MaxIdLen + 2 /\ ItemLen(t) = 2 + MaxNameLen
    BY <1>4 DEF Layout, Welcome, ItemLen, Variable, ItemLayout, WelcomePlayer
  <2>3. MaxIdLen + 2 \in 1..(MaxIdLen + 2)
    BY LimitsAssumption
  <2>4. b[MaxIdLen + 2] = n
    BY <1>1, <1>2, <2>1, <2>2, <2>3, WelcomeSays
  <2>5. 1 + 1 + MaxNameLen = 2 + MaxNameLen /\ 2 + MaxNameLen \in Nat
    BY LimitsAssumption
  <2>6. ExtraLen(t, b) = n * (2 + MaxNameLen)
    BY <1>4, <2>4, <2>5 DEF ExtraLen
  <2>7. MaxIdLen + 1 + 1 + n * (2 + MaxNameLen) <= MaxPayload
    <3> DEFINE x == n * (2 + MaxNameLen)
               y == MaxPlayers * (2 + MaxNameLen)
    <3>1. MaxPlayers \in Nat /\ MaxIdLen \in Nat /\ MaxPayload \in Nat
          /\ MaxIdLen + 2 + y <= MaxPayload
      BY LimitsAssumption
    <3>2. x <= y /\ x \in Nat /\ y \in Nat
      BY <1>1, <2>1, <2>5, <3>1, Monotone
    <3> HIDE DEF x, y
    <3>3. MaxIdLen + 1 + 1 + x <= MaxPayload
      BY <3>1, <3>2
    <3> QED
      BY <3>3 DEF x
  <2>8. ExtraOK(t, b)
    BY <1>4, <2>1, <2>4, <2>6, <2>7 DEF ExtraOK, BaseLen
  <2> QED
    BY <2>2, <2>6, <2>8 DEF b, h
<1>5. CASE t = "SYNC_BOARD"
  <2> DEFINE x == U8("status")
             y == U8("player_count")
  <2>1. n = h.player_count /\ n <= MaxPlayers
    BY <1>3, <1>5 DEF Count, CountOK
  <2>2. /\ Layout(t).put = <<x, y>> /\ Layout(t).len = 2 /\ ItemLen(t) = 12
        /\ x \in Field /\ y \in Field /\ x.kind = "u8" /\ y.kind = "u8" /\ y.field = "player_count"
    BY <1>5 DEF Layout, SyncBoard, ItemLen, Variable, ItemLayout, SyncPlayer, U8, Field, Kinds
  <2> HIDE DEF x, y
  <2>3. 2 \in 1..2
    OBVIOUS
  <2>4. b[2] = n
    BY <1>1, <1>2, <2>1, <2>2, <2>3, TwoBytesSay
  <2>5. ExtraLen(t, b) = n * 12
    BY <1>5, <2>4 DEF ExtraLen
  <2>6. 2 + n * 12 <= MaxPayload
    BY <1>1, <2>1, LimitsAssumption
  <2>7. ExtraOK(t, b)
    BY <1>5, <2>1, <2>4, <2>5, <2>6 DEF ExtraOK, BaseLen
  <2> QED
    BY <2>2, <2>5, <2>7 DEF b, h
<1>6. CASE t = "ERROR"
  <2>1. n = h.len /\ n <= MaxErrorLen
    BY <1>3, <1>6 DEF Count, CountOK
  <2>2. Layout(t) = Error /\ Error.len = 2 /\ ItemLen(t) = 1
    BY <1>6 DEF Layout, Error, ItemLen, Variable, ItemLayout, ErrorText
  <2>3. 1 \in 1..2 /\ 2 \in 1..2
    OBVIOUS
  <2>4. b[1] = Put(Error.put, h)[1] /\ b[2] = Put(Error.put, h)[2]
    BY <1>2, <2>2, <2>3
  <2>5. b[1] * 256 + b[2] = n
    BY <1>1, <2>1, <2>2, <2>4, ErrorSays
  <2>6. ExtraLen(t, b) = n /\ n * 1 = n
    BY <1>1, <1>6, <2>5 DEF ExtraLen
  <2>7. 2 + n <= MaxPayload
    <3>1. MaxErrorLen \in Nat /\ MaxPayload \in Nat /\ 2 + MaxErrorLen <= MaxPayload
      BY LimitsAssumption, BytesAre
    <3> HIDE DEF n
    <3> QED
      BY <1>1, <2>1, <3>1
  <2>8. ExtraOK(t, b)
    BY <1>6, <2>1, <2>6, <2>7 DEF ExtraOK, BaseLen
  <2> QED
    BY <2>2, <2>6, <2>8 DEF b, h
<1>7. CASE t = "MAP"
  <2> DEFINE x == U8("rows")
             y == U8("cols")
  <2>1. n = (h.rows * h.cols) % 2^16 /\ n \in 1..MaxMapCells
    BY <1>3, <1>7, Zenon DEF Count, CountOK
  <2>2. /\ Layout(t).put = <<x, y>> /\ Layout(t).len = 2 /\ ItemLen(t) = 1
        /\ x \in Field /\ y \in Field /\ x.kind = "u8" /\ y.kind = "u8"
        /\ x.field = "rows" /\ y.field = "cols"
    BY <1>7 DEF Layout, Map, ItemLen, Variable, ItemLayout, MapCell, U8, Field, Kinds
  <2> HIDE DEF x, y
  <2>3. 1 \in 1..2 /\ 2 \in 1..2
    OBVIOUS
  <2>4. b[1] = h.rows /\ b[2] = h.cols /\ h.rows \in Byte /\ h.cols \in Byte
    BY <1>1, <1>2, <2>2, <2>3, TwoBytesSay
  <2>5. n = h.rows * h.cols
    BY <2>1, <2>4, CellsOfBytes
  <2>6. ExtraLen(t, b) = n /\ n * 1 = n
    <3>1. ExtraLen(t, b) = b[1] * b[2]
      BY <1>7 DEF ExtraLen
    <3> HIDE DEF n
    <3> QED
      BY <1>1, <2>4, <2>5, <3>1
  <2>7. 2 + n <= MaxPayload
    <3>1. MaxMapCells \in Nat /\ MaxPayload \in Nat /\ 2 + MaxMapCells <= MaxPayload
      BY LimitsAssumption
    <3> HIDE DEF n
    <3> QED
      BY <1>1, <2>1, <3>1
  <2>8. ExtraOK(t, b)
    <3> HIDE DEF n
    <3> QED
      BY <1>7, <2>1, <2>6, <2>7 DEF ExtraOK, BaseLen
  <2> QED
    BY <2>2, <2>6, <2>8 DEF b, h
<1> QED
  BY <1>4, <1>5, <1>6, <1>7 DEF VariablePayload

-----------------------------------------------------------------------------
(* What the readers compute, what the decoders insist on and what the size *)
(* functions give are the length of what the encoder wrote.                *)
LEMMA FitsIs ==
  ASSUME NEW m, Filled(m), CountOK(m.type, Count(m.type, SentHead(m)))
  PROVE  Encode(m) \in Seq(Nat) /\ Fits(m.type, Encode(m))
<1> DEFINE t == m.type
           b == Encode(m)
           n == Count(t, SentHead(m))
           l == Layout(t).len
           w == ItemLen(t)
<1>1. /\ b \in Seq(Nat) /\ Len(b) = l + n * w /\ l \in Nat /\ w \in Nat /\ n \in Nat
      /\ \A j \in 1..l : b[j] = Put(Layout(t).put, SentHead(m))[j]
  BY Encoded
<1>2. t \in MsgTypes /\ (t \notin Variable => n = 0)
  BY HeadSent
<1>3. Len(b) >= l
  <2>1. n * w \in Nat
    BY <1>1
  <2> HIDE DEF b, n, l, w
  <2> QED
    BY <1>1, <2>1
<1>4. Decodable(t, b)
  BY <1>1, <1>3, TakenIfWhole
<1>5. CASE t \in VariablePayload
  <2>1. ExtraLen(t, b) = n * w /\ ExtraOK(t, b)
    BY <1>5, ExtraIs
  <2>2. BaseLen(t) = l
    BY <1>5, BaseLenIs
  <2> QED
    BY <1>1, <1>4, <1>5, <2>1, <2>2 DEF Fits, SizeRead
<1>6. CASE t \notin VariablePayload
  <2>1. FixedSize(t) = l /\ t \notin Variable
    BY <1>2, <1>6, FixedSizeIs DEF KnownFixed
  <2>2. n * w = 0
    <3>1. 0 * w = 0
      BY <1>1
    <3> QED
      BY <1>2, <2>1, <3>1
  <2>3. Len(b) = l
    BY <1>1, <2>2
  <2> QED
    BY <1>1, <1>4, <1>6, <2>1, <2>3 DEF Fits, SizeRead
<1> QED
  BY <1>5, <1>6

LEMMA ExactIs ==
  ASSUME NEW m, Filled(m), CountOK(m.type, Count(m.type, SentHead(m)))
  PROVE  Exact(m.type, Encode(m))
<1> DEFINE t == m.type
           b == Encode(m)
           l == Layout(t).len
<1>1. b \in Seq(Nat) /\ Len(b) >= l /\ l \in Nat
  <2>1. b \in Seq(Nat) /\ l \in Nat /\ Decodable(t, b)
    BY Encoded, FitsIs DEF Fits
  <2> QED
    BY <2>1 DEF Decodable
<1>2. ASSUME NEW c \in Seq(Nat), Len(c) # Len(b), \A j \in 1..Len(c) : j <= Len(b) => c[j] = b[j]
      PROVE  ~Decodable(t, c)
  <2>1. CASE Len(c) >= l
    <3>1. \A j \in 1..l : c[j] = b[j]
      <4> HIDE DEF b, l
      <4> QED
        BY <1>1, <1>2, <2>1
    <3> QED
      BY <1>2, <2>1, <3>1, TakenIfWhole
  <2>2. CASE ~(Len(c) >= l)
    BY <2>2 DEF Decodable
  <2> QED
    BY <2>1, <2>2
<1>3. ASSUME b # << >> PROVE ~Decodable(t, SubSeq(b, 1, Len(b) - 1))
  <2> DEFINE c == SubSeq(b, 1, Len(b) - 1)
  <2>1. c \in Seq(Nat) /\ Len(c) = Len(b) - 1 /\ \A j \in 1..Len(c) : c[j] = b[j]
    <3> DEFINE k == Len(b) - 1
    <3>1. Len(b) \in Nat /\ Len(b) # 0
      BY <1>1, <1>3
    <3> HIDE DEF b
    <3>2. k \in Nat /\ 0 + k <= Len(b) /\ 0 + 1 = 1 /\ 0 + k = k /\ 0 \in Nat
      BY <3>1
    <3>3. \A j \in 1..k : 0 + j = j
      OBVIOUS
    <3> HIDE DEF k
    <3>4. SubSeq(b, 1, k) \in Seq(Nat) /\ Len(SubSeq(b, 1, k)) = k /\ \A j \in 1..k : SubSeq(b, 1, k)[j] = b[0 + j]
      BY <1>1, <3>2, Slice
    <3> QED
      BY <3>3, <3>4 DEF k
  <2>2. Len(c) # Len(b)
    <3> HIDE DEF b, c
    <3> QED
      BY <1>1, <2>1
  <2> HIDE DEF c
  <2>3. ~Decodable(t, c)
    BY <1>2, <2>1, <2>2
  <2> QED
    BY <2>3 DEF c
<1>4. ~Decodable(t, Append(b, 0))
  <2> DEFINE c == Append(b, 0)
  <2>1. c \in Seq(Nat) /\ Len(c) = Len(b) + 1 /\ \A j \in 1..Len(b) : c[j] = b[j]
    <3> HIDE DEF b
    <3> QED
      BY <1>1
  <2>2. Len(c) # Len(b) /\ \A j \in 1..Len(c) : j <= Len(b) => c[j] = b[j]
    <3> HIDE DEF b, c
    <3> QED
      BY <1>1, <2>1
  <2> HIDE DEF c
  <2>3. ~Decodable(t, c)
    BY <1>2, <2>1, <2>2
  <2> QED
    BY <2>3 DEF c
<1> QED
  BY <1>3, <1>4 DEF Exact

LEMMA AsSizedIs ==
  ASSUME NEW m, Filled(m), CountOK(m.type, Count(m.type, SentHead(m)))
  PROVE  AsSized(m, Encode(m))
<1> DEFINE t == m.type
           n == Count(t, SentHead(m))
           l == Layout(t).len
           w == ItemLen(t)
<1>1. Len(Encode(m)) = l + n * w /\ n \in Nat
  BY Encoded
<1>2. t # "ERROR" => SentHead(m) = m.head
  BY DEF SentHead
<1>3. ASSUME t = "WELCOME" PROVE Len(Encode(m)) = PayloadSize(m)
  <2>1. n = m.head.player_count /\ l = MaxIdLen + 2 /\ w = 2 + MaxNameLen
    BY <1>2, <1>3 DEF Count, Layout, Welcome, ItemLen, Variable, ItemLayout, WelcomePlayer
  <2>2. 1 + 1 + MaxNameLen = 2 + MaxNameLen /\ MaxIdLen + 1 + 1 = MaxIdLen + 2
    BY LimitsAssumption
  <2>3. PayloadSize(m) = MaxIdLen + 1 + 1 + m.head.player_count * (1 + 1 + MaxNameLen)
    BY <1>3 DEF PayloadSize
  <2> HIDE DEF n, l, w
  <2> QED
    BY <1>1, <2>1, <2>2, <2>3
<1>4. ASSUME t = "MAP" PROVE Len(Encode(m)) = PayloadSize(m)
  <2>1. n = (m.head.rows * m.head.cols) % 2^16 /\ l = 2 /\ w = 1
    <3>1. l = 2 /\ w = 1
      BY <1>4 DEF Layout, Map, ItemLen, Variable, ItemLayout, MapCell
    <3>2. n = (m.head.rows * m.head.cols) % 2^16
      BY <1>2, <1>4, Zenon DEF Count
    <3> QED
      BY <3>1, <3>2
  <2>2. PayloadSize(m) = 2 + ((m.head.rows * m.head.cols) % 2^16)
    BY <1>4, Zenon DEF PayloadSize
  <2>3. PayloadSize(m) = 2 + n
    BY <2>1, <2>2
  <2> HIDE DEF n, l, w
  <2> QED
    BY <1>1, <2>1, <2>3
<1>5. ASSUME t = "SYNC_BOARD" PROVE Len(Encode(m)) = PayloadSize(m)
  <2>1. n = m.head.player_count /\ l = 2 /\ w = 12
    BY <1>2, <1>5 DEF Count, Layout, SyncBoard, ItemLen, Variable, ItemLayout, SyncPlayer
  <2>2. PayloadSize(m) = 2 + m.head.player_count * 12
    BY <1>5 DEF PayloadSize
  <2> HIDE DEF n, l, w
  <2> QED
    BY <1>1, <2>1, <2>2
<1> QED
  BY <1>3, <1>4, <1>5 DEF AsSized
Own     == FromClient \cup FromServer
Message == Own \cup ForeignMessages

-----------------------------------------------------------------------------
(* The numbers of the types name one type each. *)
LEMMA Codes == \A t, u \in MsgTypes : Code[t] = Code[u] => t = u
BY DEF MsgTypes, Code

LEMMA Known == "UNKNOWN" \notin MsgTypes /\ VariablePayload \subseteq MsgTypes
BY DEF MsgTypes, Code, VariablePayload

LEMMA CodesAre == \A t \in MsgTypes : Code[t] \in Nat
BY DEF MsgTypes, Code

LEMMA TypeIs == ASSUME NEW t \in MsgTypes PROVE TypeOf(Code[t]) = t
BY Codes DEF TypeOf

LEMMA TypeTyped == ASSUME NEW x PROVE TypeOf(x) \in MsgTypes \cup {"UNKNOWN"}
BY DEF TypeOf

-----------------------------------------------------------------------------
(* What the first bytes of a payload of variable length say of the rest. *)
LEMMA BaseIs ==
  ASSUME NEW t
  PROVE  BaseLen(t) \in Nat /\ BaseLen(t) >= 2 /\ (t = "WELCOME" => BaseLen(t) = MaxIdLen + 2)
BY LimitsAssumption DEF BaseLen

LEMMA BaseSays ==
  ASSUME NEW t \in VariablePayload, NEW x \in Seq(Nat), NEW y \in Seq(Nat),
         Len(x) >= BaseLen(t), Len(y) >= BaseLen(t), \A i \in 1..BaseLen(t) : x[i] = y[i]
  PROVE  ExtraLen(t, x) = ExtraLen(t, y) /\ ExtraOK(t, x) = ExtraOK(t, y)
<1>1. CASE t = "WELCOME"
  <2>1. MaxIdLen + 2 \in 1..BaseLen(t)
    BY <1>1, LimitsAssumption, BaseIs
  <2>2. x[MaxIdLen + 2] = y[MaxIdLen + 2]
    BY <2>1
  <2> QED
    BY <1>1, <2>2 DEF ExtraLen, ExtraOK
<1>2. CASE t # "WELCOME"
  <2>1. 1 \in 1..BaseLen(t) /\ 2 \in 1..BaseLen(t)
    BY BaseIs
  <2>2. x[1] = y[1] /\ x[2] = y[2]
    BY <2>1
  <2>3. t \in {"ERROR", "MAP", "SYNC_BOARD"}
    BY <1>2 DEF VariablePayload
  <2>4. CASE t = "ERROR"
    BY <2>2, <2>4 DEF ExtraLen, ExtraOK
  <2>5. CASE t = "MAP"
    BY <2>2, <2>5 DEF ExtraLen, ExtraOK
  <2>6. CASE t = "SYNC_BOARD"
    BY <2>2, <2>6 DEF ExtraLen, ExtraOK
  <2> QED
    BY <2>3, <2>4, <2>5, <2>6
<1> QED
  BY <1>1, <1>2

LEMMA ExtraTyped ==
  ASSUME NEW t \in VariablePayload, NEW x \in Seq(Nat), Len(x) >= BaseLen(t)
  PROVE  ExtraLen(t, x) \in Nat
<1>1. CASE t = "WELCOME"
  <2>1. MaxIdLen + 2 \in 1..Len(x)
    BY <1>1, LimitsAssumption, BaseIs
  <2>2. x[MaxIdLen + 2] \in Nat /\ 1 + 1 + MaxNameLen \in Nat
    BY <2>1, LimitsAssumption
  <2> QED
    BY <1>1, <2>2 DEF ExtraLen
<1>2. CASE t # "WELCOME"
  <2>1. 1 \in 1..Len(x) /\ 2 \in 1..Len(x)
    BY BaseIs
  <2>2. x[1] \in Nat /\ x[2] \in Nat
    BY <2>1
  <2>3. x[1] * x[2] \in Nat /\ x[1] * 256 + x[2] \in Nat /\ x[2] * 12 \in Nat
    BY <2>2
  <2> QED
    BY <1>2, <2>3 DEF ExtraLen, VariablePayload
<1> QED
  BY <1>1, <1>2

LEMMA FixedFits ==
  ASSUME NEW t \in KnownFixed
  PROVE  FixedSize(t) \in 0..MaxPayload
<1>1. /\ MaxIdLen + MaxNameLen \in 0..MaxPayload /\ 0 \in 0..MaxPayload /\ 1 \in 0..MaxPayload
      /\ 2 \in 0..MaxPayload /\ 3 \in 0..MaxPayload
  BY LimitsAssumption
<1> QED
  BY <1>1 DEF KnownFixed, VariablePayload, MsgTypes, Code, FixedSize

-----------------------------------------------------------------------------
(* A frame of this program, and a run of bytes that is none. *)
Proper(f) ==
  LET t == TypeOf(f[1])
  IN  /\ t \in MsgTypes
      /\ t \in KnownFixed => Len(f) = HeaderSize + FixedSize(t)
      /\ t \in VariablePayload =>
           /\ Len(f) = HeaderSize + BaseLen(t) + ExtraLen(t, Base(f)) /\ Len(f) >= HeaderSize + BaseLen(t)
           /\ ExtraOK(t, Base(f))
      /\ Decodable(t, Base(f))

Improper(f) ==
  LET t == TypeOf(f[1])
  IN  \/ t = "UNKNOWN"
      \/ /\ t \in VariablePayload /\ Len(f) >= HeaderSize + BaseLen(t)
         /\ ~ExtraOK(t, Base(f))

Says(f) == Received(f[2], f[3], Decode(TypeOf(f[1]), Base(f)))

LEMMA OwnMessage ==
  ASSUME NEW m \in Own
  PROVE  /\ m.type \in MsgTypes /\ m.from \in Nat /\ m.to \in Nat /\ Encode(m) \in Seq(Nat)
         /\ Fits(m.type, Encode(m))
         /\ Received(m.from, m.to, Decode(m.type, Encode(m))) = m
<1>1. /\ Filled(m) /\ CountOK(m.type, Count(m.type, SentHead(m))) /\ SentHead(m) = m.head
      /\ m.from \in Nat /\ m.to \in Nat
      /\ m = [from |-> m.from, to |-> m.to, type |-> m.type, head |-> m.head, items |-> m.items]
  BY MessagesAssumption DEF Own
<1>2. m.type \in MsgTypes
  BY <1>1 DEF Filled
<1>3. Encode(m) \in Seq(Nat) /\ Fits(m.type, Encode(m))
  BY <1>1, FitsIs
<1>4. Decode(m.type, Encode(m)) = [type |-> m.type, head |-> m.head, items |-> m.items]
  BY <1>1, Decoded DEF Same
<1>5. Received(m.from, m.to, Decode(m.type, Encode(m))) = m
  BY <1>1, <1>4 DEF Received
<1> QED
  BY <1>1, <1>2, <1>3, <1>5

LEMMA OwnFrame ==
  ASSUME NEW m \in Own
  PROVE  /\ Bytes(m) \in Seq(Nat) /\ Len(Bytes(m)) >= HeaderSize
         /\ Proper(Bytes(m)) /\ Says(Bytes(m)) = m
<1> DEFINE f == Bytes(m)
           e == Encode(m)
           t == m.type
           h == [type |-> m.type, sender |-> m.from, target |-> m.to]
           w == <<Code[t], m.from, m.to>>
<1>1. /\ t \in MsgTypes /\ m.from \in Nat /\ m.to \in Nat /\ e \in Seq(Nat)
      /\ Fits(t, e) /\ Received(m.from, m.to, Decode(t, e)) = m
  BY OwnMessage
<1>2. f = w \o e
  <2>1. t # "UNKNOWN"
    BY <1>1, Known
  <2>2. WriteHeader(h) = w
    BY DEF WriteHeader
  <2> QED
    BY <2>1, <2>2 DEF Bytes, Frame
<1>3. w \in Seq(Nat) /\ Len(w) = 3 /\ w[1] = Code[t] /\ w[2] = m.from /\ w[3] = m.to
  <2>1. Code[t] \in Nat /\ m.from \in Nat /\ m.to \in Nat
    BY <1>1, CodesAre
  <2> QED
    BY <2>1
<1> HIDE DEF w, e, f
<1>4. /\ f \in Seq(Nat) /\ Len(f) = 3 + Len(e) /\ f[1] = Code[t] /\ f[2] = m.from /\ f[3] = m.to
      /\ \A i \in 1..Len(e) : f[3 + i] = e[i]
  <2>1. /\ f \in Seq(Nat) /\ Len(f) = Len(w) + Len(e)
        /\ \A i \in 1..(Len(w) + Len(e)) : f[i] = IF i <= Len(w) THEN w[i] ELSE e[i - Len(w)]
    BY <1>1, <1>2, <1>3, ConcatProperties, Zenon
  <2>2. Len(e) \in Nat
    BY <1>1
  <2>3. 1 \in 1..(3 + Len(e)) /\ 2 \in 1..(3 + Len(e)) /\ 3 \in 1..(3 + Len(e))
    BY <2>2
  <2>4. ASSUME NEW i \in 1..Len(e) PROVE f[3 + i] = e[i]
    <3>1. 3 + i \in 1..(3 + Len(e)) /\ ~(3 + i <= 3) /\ 3 + i - 3 = i
      BY <2>2
    <3>2. \A j \in 1..(3 + Len(e)) : f[j] = IF j <= 3 THEN w[j] ELSE e[j - 3]
      BY <1>3, <2>1
    <3>3. f[3 + i] = e[3 + i - 3]
      BY <3>1, <3>2
    <3> QED
      BY <3>1, <3>3, Zenon
  <2> QED
    BY <1>3, <2>1, <2>3, <2>4
<1>5. Base(f) = e
  <2>1. /\ SubSeq(f, 4, Len(f)) \in Seq(Nat) /\ Len(SubSeq(f, 4, Len(f))) = Len(e)
        /\ \A i \in 1..Len(e) : SubSeq(f, 4, Len(f))[i] = e[i]
    <3>1. 4 \in 1..(Len(f) + 1) /\ Len(f) \in 3..Len(f) /\ Len(e) \in Nat /\ Len(f) - 4 + 1 = Len(e)
      BY <1>1, <1>4
    <3>2. /\ SubSeq(f, 4, Len(f)) \in Seq(Nat)
          /\ Len(SubSeq(f, 4, Len(f))) = IF 4 <= Len(f) THEN Len(f) - 4 + 1 ELSE 0
          /\ \A i \in 1..(Len(f) - 4 + 1) : SubSeq(f, 4, Len(f))[i] = f[4 + i - 1]
      BY <1>4, <3>1, SubSeqProperties, SMTT(30)
    <3>3. \A i \in 1..Len(e) : 4 + i - 1 = 3 + i
      OBVIOUS
    <3> QED
      BY <1>4, <3>1, <3>2, <3>3
  <2>2. SubSeq(f, 4, Len(f)) = e
    <3> DEFINE g == SubSeq(f, 4, Len(f))
    <3>1. g \in Seq(Nat) /\ e \in Seq(Nat) /\ Len(g) = Len(e) /\ \A i \in 1..Len(e) : g[i] = e[i]
      BY <1>1, <2>1
    <3> HIDE DEF g
    <3>2. g = e
      BY <3>1, SMTT(30)
    <3> QED
      BY <3>2 DEF g
  <2> QED
    BY <2>2 DEF Base, HeaderSize
<1>6. TypeOf(f[1]) = t
  BY <1>1, <1>4, TypeIs
<1>7. /\ Len(e) = SizeRead(t, e) /\ (t \in VariablePayload => ExtraOK(t, e)) /\ Decodable(t, e)
  BY <1>1 DEF Fits
<1>8. t \in VariablePayload => Len(e) = BaseLen(t) + ExtraLen(t, e) /\ Len(e) >= BaseLen(t)
  <2> SUFFICES ASSUME t \in VariablePayload PROVE Len(e) = BaseLen(t) + ExtraLen(t, e) /\ Len(e) >= BaseLen(t)
    OBVIOUS
  <2>1. Len(e) = BaseLen(t) + ExtraLen(t, e)
    BY <1>7 DEF SizeRead
  <2>2. Len(e) >= Layout(t).len
    BY <1>7 DEF Decodable
  <2>3. Layout(t).len = BaseLen(t)
    BY BaseLenIs
  <2> QED
    BY <2>1, <2>2, <2>3
<1>9. t \in KnownFixed => Len(e) = FixedSize(t)
  BY <1>7 DEF SizeRead, KnownFixed
<1>10. Proper(f)
  <2>1. Len(e) \in Nat
    BY <1>1
  <2>2. t \in KnownFixed => Len(f) = 3 + FixedSize(t)
    BY <1>4, <1>9
  <2>3. t \in VariablePayload =>
          Len(f) = 3 + BaseLen(t) + ExtraLen(t, e) /\ Len(f) >= 3 + BaseLen(t)
    <3> SUFFICES ASSUME t \in VariablePayload
                 PROVE  Len(f) = 3 + BaseLen(t) + ExtraLen(t, e) /\ Len(f) >= 3 + BaseLen(t)
      OBVIOUS
    <3>1. BaseLen(t) \in Nat /\ ExtraLen(t, e) \in Nat
      BY <1>1, <1>8, BaseIs, ExtraTyped
    <3> QED
      BY <1>4, <1>8, <2>1, <3>1
  <2> QED
    BY <1>1, <1>5, <1>6, <1>7, <2>2, <2>3, Zenon DEF Proper, HeaderSize
<1>11. Says(f) = m
  BY <1>1, <1>4, <1>5, <1>6 DEF Says
<1> QED
  BY <1>1, <1>4, <1>10, <1>11 DEF HeaderSize, f

LEMMA ForeignFrame ==
  ASSUME NEW m \in ForeignMessages
  PROVE  /\ Bytes(m) \in Seq(Nat) /\ Len(Bytes(m)) >= HeaderSize
         /\ Improper(Bytes(m)) /\ m.type = "UNKNOWN"
<1>1. PICK b \in Foreign : m = [type |-> "UNKNOWN", bytes |-> b]
  BY DEF ForeignMessages
<1>2. Bytes(m) = b /\ m.type = "UNKNOWN"
  BY <1>1 DEF Bytes
<1> DEFINE t == TypeOf(b[1])
           y == Base(b)
<1>3. b \in Seq(Nat) /\ Len(b) >= HeaderSize
  BY ForeignAssumption
<1>4. CASE t = "UNKNOWN"
  BY <1>2, <1>3, <1>4 DEF Improper
<1>5. CASE t # "UNKNOWN"
  <2>1. /\ t \in VariablePayload /\ Len(b) >= HeaderSize + BaseLen(t)
        /\ t = "WELCOME"    => b[HeaderSize + MaxIdLen + 2] > MaxPlayers
        /\ t = "SYNC_BOARD" => b[HeaderSize + 2] > MaxPlayers
        /\ t = "ERROR"      => b[HeaderSize + 1] * 256 + b[HeaderSize + 2] > MaxErrorLen
        /\ t = "MAP"        => b[HeaderSize + 1] * b[HeaderSize + 2] \notin 1..MaxMapCells
    BY <1>5, ForeignAssumption
  <2>2. BaseLen(t) \in Nat /\ BaseLen(t) >= 2 /\ (t = "WELCOME" => BaseLen(t) = MaxIdLen + 2)
    BY BaseIs
  <2>3. ASSUME NEW i \in 1..BaseLen(t) PROVE y[i] = b[3 + i]
    <3> DEFINE n == BaseLen(t)
    <3>1. n \in Nat /\ Len(b) \in Nat /\ Len(b) >= 3 + n /\ y = SubSeq(b, 4, Len(b))
      BY <1>3, <2>1, <2>2 DEF Base, HeaderSize
    <3> HIDE DEF n, y
    <3>2. \A k \in 4..Len(b) : b[k] \in Nat
      BY <1>3
    <3>3. \A k \in 1..(Len(b) - 4 + 1) : y[k] = b[4 + k - 1]
      BY <3>1, <3>2, SubSeqProperties
    <3>4. i \in 1..(Len(b) - 4 + 1) /\ 4 + i - 1 = 3 + i
      BY <3>1 DEF n
    <3> QED
      BY <3>3, <3>4
  <2>4. 1 \in 1..BaseLen(t) /\ 2 \in 1..BaseLen(t)
    BY <2>2
  <2>5. y[1] = b[3 + 1] /\ y[2] = b[3 + 2]
    BY <2>3, <2>4
  <2>6. MaxPlayers \in Nat /\ MaxErrorLen \in Nat /\ MaxIdLen \in Nat
    BY LimitsAssumption, BytesAre
  <2>7. ~ExtraOK(t, y)
    <3>1. CASE t = "WELCOME"
      <4>1. MaxIdLen + 2 \in 1..BaseLen(t) /\ 3 + (MaxIdLen + 2) = 3 + MaxIdLen + 2
        BY <2>2, <2>6, <3>1
      <4>2. y[MaxIdLen + 2] = b[3 + MaxIdLen + 2] /\ b[3 + MaxIdLen + 2] > MaxPlayers
        BY <2>1, <2>3, <3>1, <4>1 DEF HeaderSize
      <4>3. b[3 + MaxIdLen + 2] \in Nat
        <5> DEFINE l == Len(b)
                   k == 3 + MaxIdLen + 2
        <5>1. l \in Nat /\ l >= 3 + (MaxIdLen + 2)
          BY <1>3, <2>1, <2>2, <3>1 DEF HeaderSize
        <5> HIDE DEF l
        <5>2. k \in 1..l
          BY <2>6, <5>1
        <5> HIDE DEF k
        <5>3. b[k] \in Nat
          BY <1>3, <5>2 DEF l
        <5> QED
          BY <5>3 DEF k
      <4>4. ~(y[MaxIdLen + 2] <= MaxPlayers)
        BY <2>6, <4>2, <4>3
      <4> QED
        BY <3>1, <4>4 DEF ExtraOK
    <3>2. CASE t # "WELCOME"
      <4>1. b[3 + 1] \in Nat /\ b[3 + 2] \in Nat
        <5> DEFINE n == BaseLen(t)
                   l == Len(b)
        <5>1. n \in Nat /\ n >= 2 /\ l \in Nat /\ l >= 3 + n
          BY <1>3, <2>1, <2>2 DEF HeaderSize
        <5> HIDE DEF n, l
        <5>2. 3 + 1 \in 1..l /\ 3 + 2 \in 1..l
          BY <5>1
        <5> QED
          BY <1>3, <5>2 DEF l
      <4>2. y[1] \in Nat /\ y[2] \in Nat
        BY <2>5, <4>1
      <4> HIDE DEF y
      <4>3. CASE t = "SYNC_BOARD"
        <5>1. ~(y[2] <= MaxPlayers)
          BY <2>1, <2>5, <2>6, <4>2, <4>3 DEF HeaderSize
        <5> QED
          BY <4>3, <5>1 DEF ExtraOK
      <4>4. CASE t = "ERROR"
        <5>1. ExtraLen(t, y) = y[1] * 256 + y[2]
          BY <4>4 DEF ExtraLen
        <5>2. ~(y[1] * 256 + y[2] <= MaxErrorLen)
          BY <2>1, <2>5, <2>6, <4>2, <4>4 DEF HeaderSize
        <5> QED
          BY <4>4, <5>1, <5>2 DEF ExtraOK
      <4>5. CASE t = "MAP"
        <5>1. ExtraLen(t, y) = y[1] * y[2]
          BY <4>5 DEF ExtraLen
        <5>2. y[1] * y[2] \notin 1..MaxMapCells
          BY <2>1, <2>5, <4>5 DEF HeaderSize
        <5> QED
          BY <4>5, <5>1, <5>2 DEF ExtraOK
      <4> QED
        BY <2>1, <3>2, <4>3, <4>4, <4>5 DEF VariablePayload
    <3> QED
      BY <3>1, <3>2
  <2> QED
    BY <1>2, <1>3, <2>1, <2>7 DEF Improper
<1> QED
  BY <1>4, <1>5

LEMMA Frames ==
  ASSUME NEW m \in Message
  PROVE  /\ Bytes(m) \in Seq(Nat) /\ Len(Bytes(m)) \in Nat /\ Len(Bytes(m)) >= 3
         /\ \/ Proper(Bytes(m)) /\ Says(Bytes(m)) = m
            \/ Improper(Bytes(m)) /\ m.type = "UNKNOWN"
BY OwnFrame, ForeignFrame DEF Message, HeaderSize

-----------------------------------------------------------------------------
(* The bytes that have not been handed over stand for what was sent after  *)
(* the first d messages: cut says where each begins.  Once the sender is   *)
(* gone they may end before the last of them does.                         *)
CutsAt(cut, bytes, msgs, d, all) ==
  LET n == Len(msgs)
  IN  /\ cut[d] = 0 /\ \A k \in d..n : cut[k] \in Nat
      /\ \A k \in d..n : k # d => cut[k] = cut[k - 1] + Len(Bytes(msgs[k]))
      /\ \A i, k \in d..n : i <= k => cut[i] <= cut[k]
      /\ Len(bytes) <= cut[n] /\ (all => Len(bytes) = cut[n])
      /\ \A k \in d..n, j \in Nat \ {0} :
           k # d /\ j <= Len(Bytes(msgs[k])) /\ cut[k - 1] + j <= Len(bytes)
             => bytes[cut[k - 1] + j] = Bytes(msgs[k])[j]

Stands(bytes, msgs, d, all) == \E cut : CutsAt(cut, bytes, msgs, d, all)

LEMMA StandsEmpty == Stands(<< >>, << >>, 0, TRUE)
<1> DEFINE cut == [k \in {0} |-> 0]
<1>1. cut[0] = 0 /\ \A k \in 0..0 : k = 0
  OBVIOUS
<1>2. Len(<< >>) = 0
  OBVIOUS
<1>3. CutsAt(cut, << >>, << >>, 0, TRUE)
  BY <1>1, <1>2 DEF CutsAt
<1> QED
  BY <1>3 DEF Stands

(* Less of the stream. *)
LEMMA StandsLess ==
  ASSUME NEW b \in Seq(Nat), NEW q \in Seq(Nat), NEW msgs \in Seq(Message), NEW d \in 0..Len(msgs),
         NEW all, Stands(b, msgs, d, all),
         Len(q) <= Len(b), \A i \in 1..Len(q) : q[i] = b[i]
  PROVE  Stands(q, msgs, d, FALSE)
<1>1. PICK cut : CutsAt(cut, b, msgs, d, all)
  BY DEF Stands
<1> DEFINE n == Len(msgs)
<1>2. n \in Nat /\ n \in d..n /\ cut[n] \in Nat /\ Len(q) \in Nat /\ Len(b) \in Nat
  BY <1>1 DEF CutsAt
<1>3. Len(q) <= cut[n]
  BY <1>1, <1>2 DEF CutsAt
<1>4. ASSUME NEW k \in d..n, NEW j \in Nat \ {0},
             k # d, j <= Len(Bytes(msgs[k])), cut[k - 1] + j <= Len(q)
      PROVE  q[cut[k - 1] + j] = Bytes(msgs[k])[j]
  <2>1. k - 1 \in d..n
    BY <1>2, <1>4
  <2>2. cut[k - 1] \in Nat
    BY <1>1, <2>1 DEF CutsAt
  <2>3. cut[k - 1] + j \in 1..Len(q) /\ cut[k - 1] + j <= Len(b)
    <3> DEFINE u == cut[k - 1]
               x == Len(q)
               y == Len(b)
    <3>1. u \in Nat /\ x \in Nat /\ y \in Nat /\ x <= y /\ u + j <= x /\ j \in Nat \ {0}
      BY <1>2, <1>4, <2>2
    <3> HIDE DEF u, x, y
    <3>2. u + j \in 1..x /\ u + j <= y
      BY <3>1
    <3> QED
      BY <3>2 DEF u, x, y
  <2> QED
    BY <1>1, <1>4, <2>3 DEF CutsAt
<1>5. CutsAt(cut, q, msgs, d, FALSE)
  BY <1>1, <1>3, <1>4 DEF CutsAt
<1> QED
  BY <1>5 DEF Stands

(* Another message at its end. *)
LEMMA StandsMore ==
  ASSUME NEW b \in Seq(Nat), NEW msgs \in Seq(Message), NEW d \in 0..Len(msgs),
         Stands(b, msgs, d, TRUE), NEW m \in Message
  PROVE  Stands(b \o Bytes(m), Append(msgs, m), d, TRUE)
<1>1. PICK cut : CutsAt(cut, b, msgs, d, TRUE)
  BY DEF Stands
<1> DEFINE n    == Len(msgs)
           f    == Bytes(m)
           new  == Append(msgs, m)
           c    == [k \in d..(n + 1) |-> IF k = n + 1 THEN cut[n] + Len(f) ELSE cut[k]]
           all  == b \o f
<1>2. /\ n \in Nat /\ d \in 0..n /\ n \in d..n /\ Len(b) \in Nat /\ Len(b) = cut[n]
      /\ f \in Seq(Nat) /\ Len(f) \in Nat
  BY <1>1, Frames DEF CutsAt
<1>3. /\ Len(new) = n + 1 /\ new[n + 1] = m /\ \A k \in 1..n : new[k] = msgs[k]
  BY AppendProperties
<1>4. /\ Len(all) = cut[n] + Len(f)
      /\ \A i \in 1..Len(b) : all[i] = b[i]
      /\ \A j \in 1..Len(f) : all[cut[n] + j] = f[j]
  <2>1. /\ Len(all) = Len(b) + Len(f)
        /\ \A i \in 1..(Len(b) + Len(f)) : all[i] = IF i <= Len(b) THEN b[i] ELSE f[i - Len(b)]
    BY <1>2, ConcatProperties
  <2>2. \A i \in 1..Len(b) : i \in 1..(Len(b) + Len(f)) /\ i <= Len(b)
    BY <1>2
  <2>3. \A j \in 1..Len(f) : Len(b) + j \in 1..(Len(b) + Len(f)) /\ ~(Len(b) + j <= Len(b))
                             /\ Len(b) + j - Len(b) = j
    BY <1>2
  <2> HIDE DEF all
  <2>4. \A i \in 1..Len(b) : all[i] = b[i]
    BY <2>1, <2>2
  <2>5. \A j \in 1..Len(f) : all[Len(b) + j] = f[j]
    BY <2>1, <2>3
  <2> QED
    BY <1>2, <2>1, <2>4, <2>5
<1> HIDE DEF all, new, f
<1>5. /\ \A k \in d..n : c[k] = cut[k] /\ cut[k] \in Nat
      /\ c[n + 1] = cut[n] + Len(f) /\ c[n + 1] \in Nat
  <2>1. \A k \in d..n : k \in d..(n + 1) /\ k # n + 1 /\ cut[k] \in Nat
    BY <1>1, <1>2 DEF CutsAt
  <2>2. n + 1 \in d..(n + 1)
    BY <1>2
  <2> QED
    BY <1>2, <2>1, <2>2
<1> HIDE DEF c
<1>6. \A k \in d..(n + 1) : k = n + 1 \/ k \in d..n
  BY <1>2
<1>7. c[d] = 0 /\ \A k \in d..(n + 1) : c[k] \in Nat
  <2>1. d \in d..n /\ cut[d] = 0
    BY <1>1, <1>2 DEF CutsAt
  <2> QED
    BY <1>5, <1>6, <2>1
<1>8. ASSUME NEW k \in d..(n + 1), k # d PROVE c[k] = c[k - 1] + Len(Bytes(new[k]))
  <2>1. CASE k = n + 1
    BY <1>2, <1>3, <1>5, <2>1 DEF f
  <2>2. CASE k \in d..n
    <3>1. k - 1 \in d..n /\ k \in 1..n
      BY <1>2, <1>8, <2>2
    <3> QED
      BY <1>1, <1>3, <1>5, <1>8, <2>2, <3>1 DEF CutsAt
  <2> QED
    BY <1>6, <2>1, <2>2
<1>9. ASSUME NEW i \in d..(n + 1), NEW k \in d..(n + 1), i <= k PROVE c[i] <= c[k]
  <2>1. CASE i = n + 1
    <3>1. k = i
      BY <1>2, <1>9, <2>1
    <3> QED
      BY <1>7, <3>1
  <2>2. CASE i \in d..n /\ k = n + 1
    <3>1. cut[i] <= cut[n] /\ cut[i] \in Nat /\ cut[n] \in Nat
      BY <1>1, <1>2, <2>2 DEF CutsAt
    <3> QED
      BY <1>2, <1>5, <2>2, <3>1
  <2>3. CASE i \in d..n /\ k \in d..n
    BY <1>1, <1>5, <1>9, <2>3 DEF CutsAt
  <2> QED
    BY <1>6, <2>1, <2>2, <2>3
<1>10. ASSUME NEW k \in d..(n + 1), NEW j \in Nat \ {0},
              k # d, j <= Len(Bytes(new[k])), c[k - 1] + j <= Len(all)
       PROVE  all[c[k - 1] + j] = Bytes(new[k])[j]
  <2>1. CASE k = n + 1
    <3>1. c[k - 1] = cut[n] /\ Bytes(new[k]) = f
      BY <1>2, <1>3, <1>5, <2>1 DEF f
    <3>2. j \in 1..Len(f)
      BY <1>2, <1>10, <3>1
    <3> QED
      BY <1>4, <3>1, <3>2
  <2>2. CASE k \in d..n
    <3>1. k - 1 \in d..n /\ k \in 1..n
      BY <1>2, <1>10, <2>2
    <3>2. c[k - 1] = cut[k - 1] /\ cut[k - 1] \in Nat /\ new[k] = msgs[k]
          /\ cut[k] = cut[k - 1] + Len(Bytes(msgs[k])) /\ cut[k] <= cut[n] /\ cut[n] \in Nat
      BY <1>1, <1>2, <1>3, <1>5, <1>10, <2>2, <3>1, SMTT(30) DEF CutsAt
    <3>3. msgs[k] \in Message
      BY <3>1
    <3>4. Len(Bytes(msgs[k])) \in Nat
      BY <3>3, Frames
    <3>5. cut[k - 1] + j \in 1..Len(b)
      <4>1. j <= Len(Bytes(msgs[k]))
        BY <1>10, <3>2
      <4> DEFINE a == cut[k - 1]
                 e == cut[k]
                 l == Len(Bytes(msgs[k]))
                 z == cut[n]
      <4>2. /\ a \in Nat /\ l \in Nat /\ z \in Nat /\ e = a + l /\ e <= z /\ j <= l
            /\ Len(b) = z
        BY <1>2, <3>2, <3>4, <4>1
      <4> HIDE DEF a, e, l, z
      <4>3. a + j \in 1..Len(b)
        BY <4>2
      <4> QED
        BY <4>3 DEF a
    <3>6. b[cut[k - 1] + j] = Bytes(msgs[k])[j]
      <4>1. cut[k - 1] + j <= Len(b) /\ j <= Len(Bytes(msgs[k]))
        BY <1>10, <3>2, <3>5
      <4> QED
        BY <1>1, <1>10, <2>2, <4>1 DEF CutsAt
    <3> QED
      BY <1>4, <3>2, <3>5, <3>6
  <2> QED
    BY <1>6, <2>1, <2>2
<1>11. Len(all) = c[n + 1] /\ Len(all) <= c[n + 1]
  BY <1>4, <1>5
<1>12. CutsAt(c, all, new, d, TRUE)
  BY <1>3, <1>7, <1>8, <1>9, <1>10, <1>11, Zenon DEF CutsAt
<1> QED
  BY <1>12 DEF Stands, all, new, f

(* What is there begins with the first message not handed over. *)
LEMMA StandsFront ==
  ASSUME NEW b \in Seq(Nat), NEW msgs \in Seq(Message), NEW d \in 0..Len(msgs),
         NEW all, Stands(b, msgs, d, all), b # << >>
  PROVE  /\ d + 1 \in 1..Len(msgs)
         /\ \A j \in 1..Len(b) : j <= Len(Bytes(msgs[d + 1])) => b[j] = Bytes(msgs[d + 1])[j]
<1>1. PICK cut : CutsAt(cut, b, msgs, d, all)
  BY DEF Stands
<1> DEFINE n == Len(msgs)
<1>2. n \in Nat /\ n \in d..n /\ cut[n] \in Nat /\ Len(b) \in Nat /\ Len(b) > 0 /\ cut[d] = 0
      /\ Len(b) <= cut[n]
  BY <1>1 DEF CutsAt
<1>3. d # n
  BY <1>2
<1>4. d + 1 \in d..n /\ d + 1 # d /\ d + 1 - 1 = d /\ d + 1 \in 1..n
  BY <1>2, <1>3
<1>5. ASSUME NEW j \in 1..Len(b), j <= Len(Bytes(msgs[d + 1])) PROVE b[j] = Bytes(msgs[d + 1])[j]
  <2>1. cut[d + 1 - 1] + j = j /\ j <= Len(b) /\ j \in Nat \ {0}
    BY <1>2, <1>4
  <2>2. b[cut[d + 1 - 1] + j] = Bytes(msgs[d + 1])[j]
    BY <1>1, <1>4, <1>5, <2>1 DEF CutsAt
  <2> QED
    BY <2>1, <2>2
<1> QED
  BY <1>4, <1>5

(* That message is taken away whole. *)
LEMMA StandsTaken ==
  ASSUME NEW q \in Seq(Nat), NEW msgs \in Seq(Message), NEW d \in 0..Len(msgs), NEW all,
         d + 1 \in 1..Len(msgs), Stands(Bytes(msgs[d + 1]) \o q, msgs, d, all)
  PROVE  Stands(q, msgs, d + 1, all)
<1> DEFINE f == Bytes(msgs[d + 1])
           b == f \o q
           n == Len(msgs)
<1>1. PICK cut : CutsAt(cut, b, msgs, d, all)
  BY DEF Stands
<1>2. f \in Seq(Nat) /\ Len(f) \in Nat
  BY Frames
<1>3. Len(b) = Len(f) + Len(q) /\ \A i \in 1..Len(q) : b[Len(f) + i] = q[i]
  <2>1. /\ Len(b) = Len(f) + Len(q)
        /\ \A i \in 1..(Len(f) + Len(q)) : b[i] = IF i <= Len(f) THEN f[i] ELSE q[i - Len(f)]
    BY <1>2, ConcatProperties
  <2>2. \A i \in 1..Len(q) : Len(f) + i \in 1..(Len(f) + Len(q)) /\ ~(Len(f) + i <= Len(f))
                             /\ Len(f) + i - Len(f) = i
    BY <1>2
  <2> HIDE DEF b, f
  <2> QED
    BY <2>1, <2>2, SMTT(30)
<1> HIDE DEF b, f
<1> DEFINE l == Len(f)
           c == [k \in (d + 1)..n |-> cut[k] - l]
<1>4. n \in Nat /\ d \in Nat /\ d + 1 \in d..n /\ n \in d..n /\ d \in d..n /\ d + 1 # d
      /\ d + 1 - 1 = d /\ l \in Nat /\ Len(q) \in Nat
  BY <1>2
<1>5. cut[d] = 0 /\ cut[d + 1] = cut[d] + l
  BY <1>1, <1>4 DEF CutsAt, f
<1>6. cut[d + 1] = l
  BY <1>4, <1>5
<1>7. \A k \in (d + 1)..n : k \in d..n /\ k # d /\ cut[k] \in Nat /\ l <= cut[k]
  <2> SUFFICES ASSUME NEW k \in (d + 1)..n PROVE k \in d..n /\ k # d /\ cut[k] \in Nat /\ l <= cut[k]
    OBVIOUS
  <2>1. k \in d..n /\ k # d /\ d + 1 <= k
    BY <1>4
  <2> QED
    BY <1>1, <1>4, <1>6, <2>1 DEF CutsAt
<1>8. \A k \in (d + 1)..n : c[k] = cut[k] - l /\ c[k] \in Nat
  BY <1>4, <1>7
<1> HIDE DEF c, l
<1>9. c[d + 1] = 0
  <2>1. d + 1 \in (d + 1)..n
    BY <1>4
  <2> QED
    BY <1>4, <1>6, <1>8, <2>1
<1>10. ASSUME NEW k \in (d + 1)..n, k # d + 1 PROVE c[k] = c[k - 1] + Len(Bytes(msgs[k]))
  <2>1. k - 1 \in (d + 1)..n /\ k \in 1..n
    BY <1>4, <1>10
  <2>2. cut[k] = cut[k - 1] + Len(Bytes(msgs[k]))
    BY <1>1, <1>7 DEF CutsAt
  <2>3. Len(Bytes(msgs[k])) \in Nat
    BY <2>1, Frames
  <2>4. cut[k - 1] \in Nat /\ c[k] = cut[k] - l /\ c[k - 1] = cut[k - 1] - l
    BY <1>7, <1>8, <2>1
  <2> QED
    BY <1>4, <2>2, <2>3, <2>4
<1>11. ASSUME NEW i \in (d + 1)..n, NEW k \in (d + 1)..n, i <= k PROVE c[i] <= c[k]
  <2>1. cut[i] <= cut[k] /\ cut[i] \in Nat /\ cut[k] \in Nat /\ c[i] = cut[i] - l /\ c[k] = cut[k] - l
    BY <1>1, <1>7, <1>8, <1>11 DEF CutsAt
  <2> QED
    BY <1>4, <2>1
<1>12. Len(q) <= c[n] /\ (all => Len(q) = c[n])
  <2>1. n \in (d + 1)..n
    BY <1>4
  <2>2. c[n] = cut[n] - l /\ cut[n] \in Nat /\ Len(b) = l + Len(q)
    BY <1>3, <1>7, <1>8, <2>1 DEF l
  <2>3. Len(b) <= cut[n] /\ (all => Len(b) = cut[n])
    BY <1>1 DEF CutsAt
  <2> QED
    BY <1>4, <2>2, <2>3
<1>13. ASSUME NEW k \in (d + 1)..n, NEW j \in Nat \ {0},
              k # d + 1, j <= Len(Bytes(msgs[k])), c[k - 1] + j <= Len(q)
       PROVE  q[c[k - 1] + j] = Bytes(msgs[k])[j]
  <2>1. k - 1 \in (d + 1)..n
    BY <1>4, <1>13
  <2>2. c[k - 1] \in Nat /\ cut[k - 1] \in Nat /\ c[k - 1] = cut[k - 1] - l
    BY <1>7, <1>8, <2>1, Zenon
  <2> DEFINE u == c[k - 1]
             o == cut[k - 1]
             lq == Len(q)
  <2>a. /\ u \in Nat /\ o \in Nat /\ u = o - l /\ lq \in Nat /\ l \in Nat
        /\ j \in Nat \ {0} /\ u + j <= lq
    BY <1>4, <1>13, <2>2, Zenon
  <2>3. c[k - 1] + j \in 1..Len(q)
    <3> HIDE DEF u, o, lq
    <3>1. u + j \in 1..lq
      BY <2>a
    <3> QED
      BY <3>1 DEF u, lq
  <2>4. q[c[k - 1] + j] = b[cut[k - 1] + j] /\ cut[k - 1] + j <= Len(b)
    <3>1. l + (c[k - 1] + j) = cut[k - 1] + j /\ cut[k - 1] + j <= l + Len(q)
      <4> HIDE DEF u, o, lq
      <4>1. l + (u + j) = o + j /\ o + j <= l + lq
        BY <2>a
      <4> QED
        BY <4>1, Zenon DEF u, o, lq
    <3>2. b[l + (c[k - 1] + j)] = q[c[k - 1] + j] /\ Len(b) = l + Len(q)
      BY <1>3, <2>3 DEF l
    <3> QED
      BY <3>1, <3>2
  <2> QED
    BY <1>1, <1>7, <1>13, <2>4 DEF CutsAt
<1>14. CutsAt(c, q, msgs, d + 1, all)
  BY <1>8, <1>9, <1>10, <1>11, <1>12, <1>13, Zenon DEF CutsAt
<1> QED
  BY <1>14 DEF Stands

-----------------------------------------------------------------------------
(* Where a reader is that has these bytes of a message. *)
Stages == {"idle", "header", "payload", "base", "rest"}

ReadingAt(s, b) ==
  LET t == TypeOf(b[1])
  IN  /\ s = "idle" => b = << >>
      /\ s = "header" => Len(b) < HeaderSize
      /\ s = "payload" =>
           /\ t \in KnownFixed /\ FixedSize(t) \in 1..MaxPayload
           /\ Len(b) >= HeaderSize /\ Len(b) < HeaderSize + FixedSize(t)
      /\ s = "base" =>
           /\ t \in VariablePayload
           /\ Len(b) >= HeaderSize /\ Len(b) < HeaderSize + BaseLen(t)
      /\ s = "rest" =>
           /\ t \in VariablePayload /\ ExtraOK(t, Base(b))
           /\ Len(b) >= HeaderSize + BaseLen(t)
           /\ Len(b) < HeaderSize + BaseLen(t) + ExtraLen(t, Base(b))

(* A reader of this program never leaves the message it is in, and what it *)
(* has not handed over stands for what has not been delivered.             *)
WireInv ==
  /\ side \in {"server", "client"} /\ peer \in {"up", "gone"} /\ open \in BOOLEAN
  /\ sent \in Seq(Message) /\ delivered \in Seq(Message) /\ Len(delivered) <= Len(sent)
  /\ got \in Seq(Nat) /\ pipe \in Seq(Nat) /\ sending \in Seq(Nat) /\ stage \in Stages
  /\ open => Stands(got \o pipe \o sending, sent, Len(delivered), peer = "up")
  /\ open => ReadingAt(stage, got)
  /\ ~open => stage = "idle"
  /\ refused => ~open
  /\ RefusesOnlyForeign

(* The first so many bytes of a frame. *)
Begins(b, f) == Len(b) <= Len(f) /\ \A i \in 1..Len(b) : b[i] = f[i]

LEMMA BaseTyped ==
  ASSUME NEW b \in Seq(Nat), Len(b) >= 3
  PROVE  /\ Base(b) \in Seq(Nat) /\ Len(Base(b)) = Len(b) - 3
         /\ \A i \in 1..(Len(b) - 3) : Base(b)[i] = b[3 + i]
<1> DEFINE y == Base(b)
<1>1. Len(b) \in Nat /\ \A i \in 4..Len(b) : b[i] \in Nat
  OBVIOUS
<1>2. y = SubSeq(b, 4, Len(b))
  BY DEF Base, HeaderSize
<1> HIDE DEF y
<1>3. /\ y \in Seq(Nat)
      /\ Len(y) = IF 4 <= Len(b) THEN Len(b) - 4 + 1 ELSE 0
      /\ \A i \in 1..(Len(b) - 4 + 1) : y[i] = b[4 + i - 1]
  BY <1>1, <1>2, SubSeqProperties
<1>4. Len(b) - 4 + 1 = Len(b) - 3 /\ \A i \in 1..(Len(b) - 3) : 4 + i - 1 = 3 + i
  BY <1>1
<1>5. Len(y) = Len(b) - 3
  <2> DEFINE l == Len(b)
  <2>1. l \in Nat /\ l >= 3 /\ Len(y) = IF 4 <= l THEN l - 4 + 1 ELSE 0
    BY <1>1, <1>3
  <2> HIDE DEF l
  <2>2. Len(y) = l - 3
    BY <2>1
  <2> QED
    BY <2>2 DEF l
<1>6. \A i \in 1..(Len(b) - 3) : y[i] = b[3 + i]
  BY <1>3, <1>4, Zenon
<1> QED
  BY <1>3, <1>5, <1>6 DEF y

(* Two runs of bytes with the same head and base announce the same. *)
LEMMA Announces ==
  ASSUME NEW x \in Seq(Nat), NEW f \in Seq(Nat), NEW t \in VariablePayload,
         Len(x) >= 3 + BaseLen(t), Len(f) >= 3 + BaseLen(t),
         \A i \in 1..(3 + BaseLen(t)) : x[i] = f[i]
  PROVE  /\ ExtraLen(t, Base(x)) = ExtraLen(t, Base(f)) /\ ExtraLen(t, Base(x)) \in Nat
         /\ ExtraOK(t, Base(x)) = ExtraOK(t, Base(f))
<1> DEFINE n == BaseLen(t)
           lx == Len(x)
           lf == Len(f)
<1>0. n \in Nat /\ lx \in Nat /\ lf \in Nat /\ lx >= 3 + n /\ lf >= 3 + n
  <2>1. n \in Nat
    BY BaseIs
  <2> QED
    BY <2>1
<1>1. n \in Nat /\ Len(x) \in Nat /\ Len(f) \in Nat /\ Len(x) >= 3 /\ Len(f) >= 3
  <2> HIDE DEF n, lx, lf
  <2>1. lx >= 3 /\ lf >= 3
    BY <1>0
  <2> QED
    BY <1>0, <2>1, Zenon DEF lx, lf
<1>2. /\ Base(x) \in Seq(Nat) /\ Len(Base(x)) = Len(x) - 3
      /\ \A i \in 1..(Len(x) - 3) : Base(x)[i] = x[3 + i]
  BY <1>1, BaseTyped
<1>3. /\ Base(f) \in Seq(Nat) /\ Len(Base(f)) = Len(f) - 3
      /\ \A i \in 1..(Len(f) - 3) : Base(f)[i] = f[3 + i]
  BY <1>1, BaseTyped
<1>4. Len(Base(x)) >= n /\ Len(Base(f)) >= n
  <2>1. Len(Base(x)) = lx - 3 /\ Len(Base(f)) = lf - 3
    BY <1>2, <1>3, Zenon
  <2> HIDE DEF n, lx, lf
  <2> QED
    BY <1>0, <2>1
<1>5. \A i \in 1..n : i \in 1..(Len(x) - 3) /\ i \in 1..(Len(f) - 3) /\ 3 + i \in 1..(3 + n)
  <2> HIDE DEF n, lx, lf
  <2>1. \A i \in 1..n : i \in 1..(lx - 3) /\ i \in 1..(lf - 3) /\ 3 + i \in 1..(3 + n)
    BY <1>0
  <2> QED
    BY <2>1 DEF lx, lf
<1>6. \A i \in 1..n : Base(x)[i] = Base(f)[i]
  <2> SUFFICES ASSUME NEW i \in 1..n PROVE Base(x)[i] = Base(f)[i]
    OBVIOUS
  <2>1. Base(x)[i] = x[3 + i] /\ Base(f)[i] = f[3 + i] /\ x[3 + i] = f[3 + i]
    BY <1>2, <1>3, <1>5, Zenon
  <2> QED
    BY <2>1, Zenon
<1> QED
  BY <1>2, <1>3, <1>4, <1>6, BaseSays, ExtraTyped

(* What the reader asks for is in the message it is in. *)
LEMMA NeedFits ==
  ASSUME stage \in Stages \ {"idle"}, ReadingAt(stage, got), got \in Seq(Nat),
         NEW m \in Message,
         \A i \in 1..Len(got) : i <= Len(Bytes(m)) => got[i] = Bytes(m)[i]
  PROVE  Need \in Nat /\ Len(got) < Need /\ Need <= Len(Bytes(m))
<1> DEFINE f == Bytes(m)
<1>1. /\ f \in Seq(Nat) /\ Len(f) \in Nat /\ Len(f) >= 3
      /\ Proper(f) \/ Improper(f)
  BY Frames
<1> HIDE DEF f
<1>2. Len(got) \in Nat
  OBVIOUS
<1>3. CASE stage = "header"
  BY <1>1, <1>2, <1>3 DEF Need, ReadingAt, HeaderSize, f
<1>4. ASSUME Len(got) >= 3 PROVE Type = TypeOf(f[1])
  <2>1. 1 \in 1..Len(got) /\ 1 <= Len(f)
    BY <1>1, <1>2, <1>4
  <2> QED
    BY <2>1 DEF Type, f
<1>5. CASE stage = "payload"
  <2>1. Type \in KnownFixed /\ Len(got) >= 3 /\ Len(got) < 3 + FixedSize(Type) /\ FixedSize(Type) \in Nat
    BY <1>5, FixedFits DEF ReadingAt, HeaderSize, Type
  <2>2. Type = TypeOf(f[1])
    BY <1>4, <2>1
  <2>3. ~Improper(f)
    BY <2>1, <2>2, Known DEF Improper, KnownFixed
  <2>4. Len(f) = 3 + FixedSize(Type)
    BY <1>1, <2>1, <2>2, <2>3 DEF Proper, HeaderSize
  <2>5. Need = 3 + FixedSize(Type)
    BY <1>5 DEF Need, HeaderSize
  <2> QED
    BY <2>1, <2>4, <2>5 DEF f
<1>6. ASSUME stage \in {"base", "rest"}
      PROVE  /\ Type \in VariablePayload /\ Len(got) >= 3 /\ Type = TypeOf(f[1])
             /\ BaseLen(Type) \in Nat /\ Len(f) >= 3 + BaseLen(Type)
  <2>0. BaseLen(Type) \in Nat
    BY BaseIs
  <2>1. Type \in VariablePayload /\ Len(got) >= 3
    BY <1>2, <1>6, <2>0 DEF ReadingAt, HeaderSize, Type
  <2>2. Type = TypeOf(f[1])
    BY <1>4, <2>1
  <2>3. Len(f) >= 3 + BaseLen(Type)
    BY <1>1, <2>1, <2>2, Known DEF Proper, Improper, HeaderSize
  <2> QED
    BY <2>0, <2>1, <2>2, <2>3
<1>7. CASE stage = "base"
  <2>1. Len(got) < 3 + BaseLen(Type)
    BY <1>7 DEF ReadingAt, HeaderSize, Type
  <2>2. Need = 3 + BaseLen(Type)
    BY <1>7 DEF Need, HeaderSize
  <2> QED
    BY <1>6, <1>7, <2>1, <2>2 DEF f
<1>8. CASE stage = "rest"
  <2>1. /\ Len(got) >= 3 + BaseLen(Type) /\ ExtraOK(Type, Base(got))
        /\ Len(got) < 3 + BaseLen(Type) + ExtraLen(Type, Base(got))
    BY <1>8 DEF ReadingAt, HeaderSize, Type
  <2>2. \A i \in 1..(3 + BaseLen(Type)) : got[i] = f[i]
    <3>1. \A i \in 1..(3 + BaseLen(Type)) : i \in 1..Len(got) /\ i <= Len(f)
      BY <1>1, <1>2, <1>6, <1>8, <2>1, SMTT(30)
    <3> QED
      BY <3>1 DEF f
  <2>3. /\ ExtraLen(Type, Base(got)) = ExtraLen(Type, Base(f)) /\ ExtraLen(Type, Base(got)) \in Nat
        /\ ExtraOK(Type, Base(got)) = ExtraOK(Type, Base(f))
    BY <1>1, <1>6, <1>8, <2>1, <2>2, Announces
  <2>4. ~Improper(f)
    BY <1>6, <1>8, <2>1, <2>3, Known DEF Improper
  <2>5. Len(f) = 3 + BaseLen(Type) + ExtraLen(Type, Base(f))
    BY <1>1, <1>6, <1>8, <2>4 DEF Proper, HeaderSize
  <2>6. Need = 3 + BaseLen(Type) + ExtraLen(Type, Base(got))
    BY <1>8 DEF Need, HeaderSize
  <2> QED
    BY <1>6, <1>8, <2>1, <2>3, <2>5, <2>6 DEF f
<1> QED
  BY <1>3, <1>5, <1>7, <1>8 DEF Stages

-----------------------------------------------------------------------------
(* Joining three runs of bytes, either pair first. *)
Joins(g, p, s) == (g \o p) \o s = g \o (p \o s)

LEMMA Associative ==
  \A g, p, s \in Seq(Nat) : (g \o p) \o s = g \o (p \o s)
<1>1. \A S : \A g, p, s \in Seq(S) : Joins(g, p, s)
  BY ConcatAssociative, Zenon DEF Joins
<1>2. \A g, p, s \in Seq(Nat) : Joins(g, p, s)
  BY <1>1, Zenon
<1> QED
  BY <1>2, Zenon DEF Joins

(* Seq facts for the three parts of a stream. *)
LEMMA Parts ==
  ASSUME NEW g \in Seq(Nat), NEW p \in Seq(Nat), NEW s \in Seq(Nat)
  PROVE  /\ g \o p \o s \in Seq(Nat) /\ Len(g \o p \o s) = Len(g) + Len(p) + Len(s)
         /\ g \o p \o s = g \o (p \o s)
         /\ \A i \in 1..Len(g) : (g \o p \o s)[i] = g[i]
         /\ \A i \in 1..(Len(g) + Len(p)) : (g \o p \o s)[i] = (g \o p)[i]
<1> DEFINE a == g \o p
           b == a \o s
<1>1. /\ a \in Seq(Nat) /\ Len(a) = Len(g) + Len(p)
      /\ \A i \in 1..(Len(g) + Len(p)) : a[i] = IF i <= Len(g) THEN g[i] ELSE p[i - Len(g)]
  BY ConcatProperties
<1>2. /\ b \in Seq(Nat) /\ Len(b) = Len(a) + Len(s)
      /\ \A i \in 1..(Len(a) + Len(s)) : b[i] = IF i <= Len(a) THEN a[i] ELSE s[i - Len(a)]
  BY <1>1, ConcatProperties
<1>3. b = g \o (p \o s)
  BY Associative, Zenon
<1> HIDE DEF a, b
<1>4. Len(g) \in Nat /\ Len(p) \in Nat /\ Len(s) \in Nat
  OBVIOUS
<1>5. \A i \in 1..Len(a) : b[i] = a[i]
  <2>1. \A i \in 1..Len(a) : i \in 1..(Len(a) + Len(s)) /\ i <= Len(a)
    BY <1>1, <1>4
  <2> QED
    BY <1>2, <2>1
<1>6. \A i \in 1..Len(g) : b[i] = g[i]
  <2>1. \A i \in 1..Len(g) : i \in 1..(Len(g) + Len(p)) /\ i <= Len(g)
    BY <1>4
  <2> QED
    BY <1>1, <1>5, <2>1
<1>7. Len(b) = Len(g) + Len(p) + Len(s)
  BY <1>1, <1>2
<1>8. \A i \in 1..(Len(g) + Len(p)) : b[i] = a[i]
  BY <1>1, <1>5
<1> QED
  BY <1>2, <1>3, <1>6, <1>7, <1>8 DEF a, b

LEMMA SplitAt ==
  ASSUME NEW p \in Seq(Nat), NEW n \in 0..Len(p)
  PROVE  /\ SubSeq(p, 1, n) \in Seq(Nat) /\ Len(SubSeq(p, 1, n)) = n
         /\ SubSeq(p, n + 1, Len(p)) \in Seq(Nat)
         /\ SubSeq(p, 1, n) \o SubSeq(p, n + 1, Len(p)) = p
         /\ \A i \in 1..n : SubSeq(p, 1, n)[i] = p[i]
<1>1. Len(p) \in Nat /\ n \in Nat /\ n <= Len(p)
  OBVIOUS
<1>2. /\ SubSeq(p, 1, n) \in Seq(Nat)
      /\ Len(SubSeq(p, 1, n)) = IF 1 <= n THEN n - 1 + 1 ELSE 0
      /\ \A i \in 1..(n - 1 + 1) : SubSeq(p, 1, n)[i] = p[1 + i - 1]
  <2>1. \A i \in 1..n : p[i] \in Nat
    BY <1>1
  <2> QED
    BY <1>1, <2>1, SubSeqProperties
<1>3. SubSeq(p, n + 1, Len(p)) \in Seq(Nat)
  <2>1. \A i \in (n + 1)..Len(p) : p[i] \in Nat
    BY <1>1
  <2> QED
    BY <1>1, <2>1, SubSeqProperties
<1>4. SubSeq(p, 1, n) \o SubSeq(p, n + 1, Len(p)) = SubSeq(p, 1, Len(p))
  <2>1. 1 \in 1..(Len(p) + 1) /\ n \in (1 - 1)..Len(p) /\ Len(p) \in n..Len(p)
    BY <1>1
  <2> QED
    BY <2>1, ConcatAdjacentSubSeq
<1>5. SubSeq(p, 1, Len(p)) = p
  BY SubSeqFull
<1>6. n - 1 + 1 = n /\ \A i \in 1..n : 1 + i - 1 = i
  BY <1>1
<1>7. Len(SubSeq(p, 1, n)) = n
  BY <1>1, <1>2
<1> QED
  BY <1>2, <1>3, <1>4, <1>5, <1>6, <1>7, Zenon

LEMMA SameBytes ==
  ASSUME NEW b \in Seq(Nat), NEW f \in Seq(Nat), Begins(b, f), Len(b) = Len(f)
  PROVE  b = f
<1>1. \A i \in 1..Len(b) : b[i] = f[i]
  BY DEF Begins
<1>2. DOMAIN b = 1..Len(b) /\ DOMAIN f = 1..Len(b)
  BY LenProperties, Zenon
<1>3. b = [i \in 1..Len(b) |-> b[i]] /\ f = [i \in 1..Len(b) |-> f[i]]
  BY <1>2
<1>4. [i \in 1..Len(b) |-> b[i]] = [i \in 1..Len(b) |-> f[i]]
  BY <1>1, Zenon
<1> QED
  BY <1>3, <1>4, Zenon

LEMMA MinOfTwo ==
  ASSUME NEW x \in Int, NEW y \in Int
  PROVE  Min({x, y}) \in Int /\ Min({x, y}) <= x /\ Min({x, y}) <= y
<1> DEFINE least == IF x <= y THEN x ELSE y
<1>1. least \in {x, y} /\ \A z \in {x, y} : least <= z
  OBVIOUS
<1>2. Min({x, y}) \in {x, y} /\ \A z \in {x, y} : Min({x, y}) <= z
  BY <1>1 DEF Min
<1> QED
  BY <1>2

-----------------------------------------------------------------------------
(* The message that the reader is in: got is how it begins. *)
LEMMA InFront ==
  ASSUME WireInv, open, got \o pipe \o sending # << >>
  PROVE  /\ Len(delivered) + 1 \in 1..Len(sent) /\ sent[Len(delivered) + 1] \in Message
         /\ \A i \in 1..(Len(got) + Len(pipe)) :
              i <= Len(Bytes(sent[Len(delivered) + 1]))
                => (got \o pipe)[i] = Bytes(sent[Len(delivered) + 1])[i]
<1> DEFINE d == Len(delivered)
           b == got \o pipe \o sending
<1>1. got \in Seq(Nat) /\ pipe \in Seq(Nat) /\ sending \in Seq(Nat)
      /\ sent \in Seq(Message) /\ d \in 0..Len(sent) /\ Stands(b, sent, d, peer = "up")
  BY DEF WireInv
<1>2. /\ b \in Seq(Nat) /\ Len(b) = Len(got) + Len(pipe) + Len(sending)
      /\ \A i \in 1..(Len(got) + Len(pipe)) : b[i] = (got \o pipe)[i]
  BY <1>1, Parts
<1>3. /\ d + 1 \in 1..Len(sent)
      /\ \A i \in 1..Len(b) : i <= Len(Bytes(sent[d + 1])) => b[i] = Bytes(sent[d + 1])[i]
  <2> HIDE DEF b, d
  <2> QED
    BY <1>1, <1>2, StandsFront DEF b
<1>4. sent[d + 1] \in Message
  BY <1>1, <1>3
<1>5. \A i \in 1..(Len(got) + Len(pipe)) : i \in 1..Len(b)
  <2> HIDE DEF b
  <2>1. Len(got) \in Nat /\ Len(pipe) \in Nat /\ Len(sending) \in Nat
    BY <1>1
  <2> QED
    BY <1>2, <2>1
<1> QED
  BY <1>2, <1>3, <1>4, <1>5

(* What one recv reads: more of that message, and never beyond its end. *)
LEMMA Within ==
  ASSUME WireInv, stage # "idle", pipe # << >>,
         NEW n \in 1..Min({Len(pipe), Need - Len(got)})
  PROVE  LET b == got \o SubSeq(pipe, 1, n)
             rest == SubSeq(pipe, n + 1, Len(pipe))
             m == sent[Len(delivered) + 1]
         IN  /\ open /\ Len(delivered) + 1 \in 1..Len(sent) /\ m \in Message
             /\ b \in Seq(Nat) /\ rest \in Seq(Nat) /\ b \o rest = got \o pipe
             /\ Need \in Nat /\ Len(b) > Len(got) /\ Len(b) <= Need
             /\ Begins(b, Bytes(m))
             /\ \A i \in 1..Len(got) : b[i] = got[i]
<1> DEFINE p == SubSeq(pipe, 1, n)
           b == got \o p
           rest == SubSeq(pipe, n + 1, Len(pipe))
           d == Len(delivered)
           m == sent[d + 1]
           f == Bytes(m)
<1>1. /\ open /\ got \in Seq(Nat) /\ pipe \in Seq(Nat) /\ sending \in Seq(Nat)
      /\ ReadingAt(stage, got) /\ stage \in Stages
  BY DEF WireInv
<1>2. Len(got) \in Nat /\ Len(pipe) \in Nat /\ Len(sending) \in Nat /\ Len(pipe) > 0
  BY <1>1
<1>3. got \o pipe \o sending # << >>
  <2>1. Len(got \o pipe \o sending) > 0
    BY <1>1, <1>2, Parts
  <2> QED
    BY <2>1
<1>4. /\ d + 1 \in 1..Len(sent) /\ m \in Message
      /\ \A i \in 1..(Len(got) + Len(pipe)) : i <= Len(f) => (got \o pipe)[i] = f[i]
  BY <1>1, <1>3, InFront
<1>5. /\ Len(got \o pipe) = Len(got) + Len(pipe)
      /\ \A i \in 1..Len(got) : (got \o pipe)[i] = got[i]
  <2>1. \A i \in 1..Len(got) : i \in 1..(Len(got) + Len(pipe)) /\ i <= Len(got)
    BY <1>2
  <2> QED
    BY <1>1, <2>1, ConcatProperties
<1>6. \A i \in 1..Len(got) : i <= Len(f) => got[i] = f[i]
  <2>1. \A i \in 1..Len(got) : i \in 1..(Len(got) + Len(pipe))
    BY <1>2
  <2> HIDE DEF f
  <2> QED
    BY <1>4, <1>5, <2>1
<1>7. Need \in Nat /\ Len(got) < Need /\ Need <= Len(f)
  <2>1. stage \in Stages \ {"idle"}
    BY <1>1
  <2> QED
    BY <1>1, <1>4, <1>6, <2>1, NeedFits
<1>8. n \in Nat \ {0} /\ n <= Len(pipe) /\ n <= Need - Len(got)
  <2>1. /\ Min({Len(pipe), Need - Len(got)}) \in Int
        /\ Min({Len(pipe), Need - Len(got)}) <= Len(pipe)
        /\ Min({Len(pipe), Need - Len(got)}) <= Need - Len(got)
    <3>1. Len(pipe) \in Int /\ Need - Len(got) \in Int
      BY <1>2, <1>7
    <3> QED
      BY <3>1, MinOfTwo, Zenon
  <2> DEFINE least == Min({Len(pipe), Need - Len(got)})
  <2>2. least \in Int /\ least <= Len(pipe) /\ least <= Need - Len(got) /\ n \in 1..least
    BY <2>1
  <2> HIDE DEF least
  <2> QED
    BY <1>2, <1>7, <2>2
<1>9. /\ p \in Seq(Nat) /\ Len(p) = n /\ rest \in Seq(Nat) /\ p \o rest = pipe
  <2>1. n \in 0..Len(pipe)
    BY <1>2, <1>8
  <2>2. pipe \in Seq(Nat)
    BY <1>1, Zenon
  <2> QED
    BY <2>1, <2>2, SplitAt, Zenon
<1>10. b \in Seq(Nat) /\ Len(b) = Len(got) + n
       /\ \A i \in 1..(Len(got) + n) : b[i] = IF i <= Len(got) THEN got[i] ELSE p[i - Len(got)]
  BY <1>1, <1>9, ConcatProperties, ZenonT(30)
<1>11. b \o rest = got \o pipe
  <2>1. (got \o p) \o rest = got \o (p \o rest)
    <3>1. got \in Seq(Nat) /\ p \in Seq(Nat) /\ rest \in Seq(Nat)
      BY <1>1, <1>9
    <3> HIDE DEF p, rest
    <3> QED
      BY <3>1, Associative
  <2> QED
    BY <1>9, <2>1, Zenon
<1>12. \A i \in 1..Len(b) : (got \o pipe)[i] = b[i]
  <2>1. /\ Len(b \o rest) = Len(b) + Len(rest)
        /\ \A i \in 1..(Len(b) + Len(rest)) :
             (b \o rest)[i] = IF i <= Len(b) THEN b[i] ELSE rest[i - Len(b)]
    BY <1>9, <1>10, ConcatProperties
  <2>2. \A i \in 1..Len(b) : i \in 1..(Len(b) + Len(rest)) /\ i <= Len(b)
    <3>1. Len(b) \in Nat /\ Len(rest) \in Nat
      BY <1>9, <1>10
    <3> HIDE DEF b, rest
    <3> QED
      BY <3>1
  <2> QED
    BY <1>11, <2>1, <2>2
<1>13. Len(b) <= Len(f) /\ Len(b) <= Need /\ Len(b) > Len(got)
  <2>1. Len(f) \in Nat
    BY <1>4, Frames
  <2> HIDE DEF b, f
  <2> QED
    BY <1>2, <1>7, <1>8, <1>10, <2>1
<1>14. \A i \in 1..Len(b) : i \in 1..(Len(got) + Len(pipe)) /\ i <= Len(f)
  <2>1. Len(f) \in Nat
    BY <1>4, Frames
  <2> HIDE DEF b, f
  <2> QED
    BY <1>2, <1>8, <1>10, <1>13, <2>1
<1>15. Begins(b, f)
  <2> HIDE DEF b, f
  <2> QED
    BY <1>4, <1>12, <1>13, <1>14 DEF Begins
<1>16. \A i \in 1..Len(got) : b[i] = got[i]
  <2>1. \A i \in 1..Len(got) : i \in 1..(Len(got) + n) /\ i <= Len(got)
    BY <1>2, <1>8
  <2> HIDE DEF b, p
  <2> QED
    BY <1>10, <2>1
<1> QED
  BY <1>1, <1>4, <1>7, <1>9, <1>10, <1>11, <1>13, <1>15, <1>16

-----------------------------------------------------------------------------
(* What a recv leads to: more to read, a message handed over that is the   *)
(* one sent, or an end on bytes that this program did not write.           *)
Outcome(b) ==
  LET m == sent[Len(delivered) + 1]
  IN  \/ stage' \in Stages \ {"idle"} /\ ReadingAt(stage', b) /\ Read(stage', b)
      \/ /\ b = Bytes(m) /\ delivered' = Append(delivered, m)
         /\ stage' = "idle" /\ got' = << >> /\ UNCHANGED <<open, refused>>
      \/ Refuse /\ m.type = "UNKNOWN"

(* A complete frame of this program is decoded. *)
LEMMA Hands ==
  ASSUME NEW b \in Seq(Nat), Len(b) >= 3, NEW m \in Message, m = sent[Len(delivered) + 1],
         Proper(Bytes(m)), Says(Bytes(m)) = m, b = Bytes(m), Handle(b)
  PROVE  Outcome(b)
<1>1. Base(b) = SubSeq(b, HeaderSize + 1, Len(b))
  BY DEF Base
<1>2. ReadHeader(b).type = TypeOf(b[1]) /\ ReadHeader(b).sender = b[2] /\ ReadHeader(b).target = b[3]
  BY DEF ReadHeader
<1>3. Decodable(TypeOf(b[1]), Base(b))
  BY DEF Proper
<1>4. /\ delivered' = Append(delivered, Received(b[2], b[3], Decode(TypeOf(b[1]), Base(b))))
      /\ stage' = "idle" /\ got' = << >> /\ UNCHANGED <<open, refused>>
  BY <1>1, <1>2, <1>3 DEF Handle
<1>5. delivered' = Append(delivered, m)
  BY <1>4 DEF Says
<1> QED
  BY <1>4, <1>5 DEF Outcome

LEMMA HeaderOutcome ==
  ASSUME NEW b \in Seq(Nat), Len(b) = 3, NEW m \in Message, m = sent[Len(delivered) + 1],
         Begins(b, Bytes(m)), HeaderRead(b)
  PROVE  Outcome(b)
<1> DEFINE f == Bytes(m)
           t == TypeOf(b[1])
<1>1. /\ f \in Seq(Nat) /\ Len(f) \in Nat /\ Len(f) >= 3
      /\ \/ Proper(f) /\ Says(f) = m
         \/ Improper(f) /\ m.type = "UNKNOWN"
  BY Frames
<1>2. TypeOf(f[1]) = t
  <2>1. 1 \in 1..Len(b)
    OBVIOUS
  <2> QED
    BY <2>1 DEF Begins
<1>3. CASE t \in VariablePayload /\ Read("base", b)
  <2>1. ReadingAt("base", b)
    <3>1. BaseLen(t) \in Nat /\ BaseLen(t) >= 2
      BY BaseIs
    <3>2. 3 < 3 + BaseLen(t)
      BY <3>1
    <3> QED
      BY <1>3, <3>2 DEF ReadingAt, HeaderSize
  <2>2. stage' = "base"
    BY <1>3 DEF Read
  <2> QED
    BY <1>3, <2>1, <2>2, Zenon DEF Outcome, Stages
<1>4. ASSUME t \in KnownFixed
      PROVE  /\ FixedSize(t) \in Nat /\ FixedSize(t) <= MaxPayload /\ Proper(f) /\ Says(f) = m
             /\ Len(f) = 3 + FixedSize(t)
  <2>1. FixedSize(t) \in 0..MaxPayload /\ MaxPayload \in Nat
    BY <1>4, FixedFits, LimitsAssumption
  <2>2. ~Improper(f)
    BY <1>2, <1>4, Known DEF Improper, KnownFixed
  <2>3. Proper(f) /\ Says(f) = m
    BY <1>1, <2>2
  <2>4. Len(f) = 3 + FixedSize(t)
    BY <1>2, <1>4, <2>3 DEF Proper, HeaderSize
  <2> QED
    BY <2>1, <2>3, <2>4
<1>5. CASE t \in KnownFixed /\ FixedSize(t) > MaxPayload /\ Refuse
  <2>1. MaxPayload \in Nat
    BY LimitsAssumption
  <2> QED
    BY <1>4, <1>5, <2>1
<1>6. CASE t \in KnownFixed /\ FixedSize(t) = 0 /\ Handle(b)
  <2>1. Len(f) = 3
    BY <1>4, <1>6
  <2>2. b = f
    BY <1>1, <2>1, SameBytes
  <2>3. Len(b) >= 3
    OBVIOUS
  <2> QED
    BY <1>4, <1>6, <2>2, <2>3, Hands
<1>7. CASE t \in KnownFixed /\ FixedSize(t) \in 1..MaxPayload /\ Read("payload", b)
  <2>1. ReadingAt("payload", b)
    BY <1>4, <1>7 DEF ReadingAt, HeaderSize
  <2>2. stage' = "payload"
    BY <1>7 DEF Read
  <2> QED
    BY <1>7, <2>1, <2>2, Zenon DEF Outcome, Stages
<1>8. CASE t = "UNKNOWN" /\ Refuse
  <2>1. ~Proper(f)
    BY <1>2, <1>8, Known DEF Proper
  <2> QED
    BY <1>1, <1>8, <2>1 DEF Outcome
<1> QED
  BY <1>3, <1>5, <1>6, <1>7, <1>8 DEF HeaderRead

LEMMA BaseOutcome ==
  ASSUME NEW b \in Seq(Nat), NEW m \in Message, m = sent[Len(delivered) + 1],
         Begins(b, Bytes(m)), Type = TypeOf(b[1]), Type \in VariablePayload,
         Len(b) = 3 + BaseLen(Type), BaseRead(b)
  PROVE  Outcome(b)
<1> DEFINE f == Bytes(m)
           n == BaseLen(Type)
<1>1. /\ f \in Seq(Nat) /\ Len(f) \in Nat /\ Len(f) >= 3
      /\ \/ Proper(f) /\ Says(f) = m
         \/ Improper(f) /\ m.type = "UNKNOWN"
  BY Frames
<1>2. n \in Nat /\ Len(b) = 3 + n /\ Len(f) >= 3 + n /\ Len(b) >= 3
  BY BaseIs DEF Begins
<1>3. TypeOf(f[1]) = Type
  <2>1. 1 \in 1..Len(b)
    BY <1>2
  <2> QED
    BY <2>1 DEF Begins
<1>4. /\ ExtraLen(Type, Base(b)) = ExtraLen(Type, Base(f)) /\ ExtraLen(Type, Base(b)) \in Nat
      /\ ExtraOK(Type, Base(b)) = ExtraOK(Type, Base(f))
  <2>1. \A i \in 1..(3 + BaseLen(Type)) : b[i] = f[i]
    BY <1>2 DEF Begins
  <2>2. Type \in VariablePayload /\ b \in Seq(Nat) /\ f \in Seq(Nat)
    BY <1>1
  <2>3. Len(b) >= 3 + BaseLen(Type) /\ Len(f) >= 3 + BaseLen(Type)
    BY <1>2
  <2> QED
    BY <2>1, <2>2, <2>3, Announces, Zenon
<1>5. CASE ~ExtraOK(Type, Base(b)) /\ Refuse
  <2>1. ~Proper(f)
    BY <1>3, <1>4, <1>5 DEF Proper
  <2> QED
    BY <1>1, <1>5, <2>1 DEF Outcome
<1>6. ASSUME ExtraOK(Type, Base(b))
      PROVE  Proper(f) /\ Says(f) = m /\ Len(f) = 3 + n + ExtraLen(Type, Base(b))
  <2>1. ~Improper(f)
    BY <1>3, <1>4, <1>6, Known DEF Improper
  <2>2. Proper(f) /\ Says(f) = m
    BY <1>1, <2>1
  <2>3. Len(f) = 3 + n + ExtraLen(Type, Base(f))
    BY <1>3, <2>2 DEF Proper, HeaderSize
  <2> QED
    BY <1>4, <2>2, <2>3
<1>7. CASE ExtraOK(Type, Base(b)) /\ ExtraLen(Type, Base(b)) = 0 /\ Handle(b)
  <2>1. Len(f) = Len(b)
    BY <1>2, <1>6, <1>7
  <2>2. b = f
    BY <1>1, <2>1, SameBytes
  <2> QED
    BY <1>2, <1>6, <1>7, <2>2, Hands
<1>8. CASE ExtraOK(Type, Base(b)) /\ ExtraLen(Type, Base(b)) > 0 /\ Read("rest", b)
  <2>1. Len(b) >= 3 + n /\ Len(b) < 3 + n + ExtraLen(Type, Base(b))
    BY <1>2, <1>4, <1>8
  <2>2. ReadingAt("rest", b)
    BY <1>8, <2>1 DEF ReadingAt, HeaderSize
  <2>3. stage' = "rest"
    BY <1>8 DEF Read
  <2> QED
    BY <1>8, <2>2, <2>3, Zenon DEF Outcome, Stages
<1> QED
  BY <1>5, <1>7, <1>8 DEF BaseRead

(* The last part of a message has come. *)
LEMMA LastOutcome ==
  ASSUME NEW b \in Seq(Nat), NEW m \in Message, m = sent[Len(delivered) + 1],
         Begins(b, Bytes(m)), stage \in {"payload", "rest"}, ReadingAt(stage, got),
         got \in Seq(Nat), Len(b) > Len(got), \A i \in 1..Len(got) : b[i] = got[i],
         Len(b) = Need, Handle(b)
  PROVE  Outcome(b)
<1> DEFINE f == Bytes(m)
           n == BaseLen(Type)
<1>1. /\ f \in Seq(Nat) /\ Len(f) \in Nat /\ Len(f) >= 3
      /\ \/ Proper(f) /\ Says(f) = m
         \/ Improper(f) /\ m.type = "UNKNOWN"
  BY Frames
<1>2. Len(got) \in Nat /\ Len(b) \in Nat /\ BaseLen(Type) \in Nat
  BY BaseIs
<1>3. Len(got) >= 3
  BY <1>2 DEF ReadingAt, HeaderSize, Type
<1>4. Len(b) >= 3 /\ Type = TypeOf(b[1]) /\ Type = TypeOf(f[1])
  <2>1. 1 \in 1..Len(got) /\ 1 \in 1..Len(b)
    BY <1>2, <1>3
  <2> QED
    BY <1>2, <1>3, <2>1 DEF Type, Begins
<1>5. Proper(f) /\ Says(f) = m /\ Len(f) = Need
  <2>1. CASE stage = "payload"
    <3>1. Type \in KnownFixed /\ Need = 3 + FixedSize(Type)
      BY <2>1 DEF ReadingAt, Type, Need, HeaderSize
    <3>2. ~Improper(f)
      BY <1>4, <3>1, Known DEF Improper, KnownFixed
    <3>3. Proper(f) /\ Says(f) = m
      BY <1>1, <3>2
    <3> QED
      BY <1>4, <3>1, <3>3 DEF Proper, HeaderSize
  <2>2. CASE stage = "rest"
    <3>1. /\ Type \in VariablePayload /\ ExtraOK(Type, Base(got)) /\ Len(got) >= 3 + n
          /\ Need = 3 + n + ExtraLen(Type, Base(got))
      BY <2>2 DEF ReadingAt, Type, Need, HeaderSize
    <3>2. Len(f) >= 3 + n /\ \A i \in 1..(3 + n) : got[i] = f[i]
      <4>1. Len(f) >= Len(b)
        BY DEF Begins
      <4>2. \A i \in 1..(3 + n) : i \in 1..Len(got) /\ i \in 1..Len(b)
        <5> DEFINE lg == Len(got)
                   lb == Len(b)
        <5>1. n \in Nat /\ lg \in Nat /\ lb \in Nat /\ lg >= 3 + n /\ lg <= lb
          BY <1>2, <3>1
        <5> HIDE DEF n, lg, lb
        <5>2. \A i \in 1..(3 + n) : i \in 1..lg /\ i \in 1..lb
          BY <5>1
        <5> QED
          BY <5>2, Zenon DEF lg, lb
      <4>3. \A i \in 1..(3 + n) : got[i] = b[i] /\ b[i] = f[i]
        BY <4>2 DEF Begins
      <4>4. ASSUME NEW x \in Nat, NEW y \in Nat, NEW z \in Nat, NEW k \in Nat,
                   x >= y, y > z, z >= 3 + k
            PROVE  x >= 3 + k
        BY <4>4
      <4>5. Len(f) >= 3 + n
        <5> HIDE DEF f, n
        <5> QED
          BY <1>1, <1>2, <3>1, <4>1, <4>4 DEF n
      <4> QED
        BY <4>3, <4>5
    <3>3. /\ ExtraLen(Type, Base(got)) = ExtraLen(Type, Base(f))
          /\ ExtraOK(Type, Base(got)) = ExtraOK(Type, Base(f))
      BY <1>1, <3>1, <3>2, Announces
    <3>4. ~Improper(f)
      BY <1>4, <3>1, <3>3, Known DEF Improper
    <3>5. Proper(f) /\ Says(f) = m
      BY <1>1, <3>4
    <3> QED
      BY <1>4, <3>1, <3>3, <3>5 DEF Proper, HeaderSize
  <2> QED
    BY <2>1, <2>2
<1>6. b = f
  BY <1>1, <1>5, SameBytes
<1> QED
  BY <1>4, <1>5, <1>6, Hands

(* There is more of the message to come. *)
LEMMA MoreToRead ==
  ASSUME NEW b \in Seq(Nat), got \in Seq(Nat), stage \in Stages \ {"idle"}, ReadingAt(stage, got),
         Len(b) > Len(got), \A i \in 1..Len(got) : b[i] = got[i], Need \in Nat, Len(b) < Need
  PROVE  ReadingAt(stage, b)
<1> DEFINE n == BaseLen(Type)
<1>1. Len(got) \in Nat /\ Len(b) \in Nat /\ n \in Nat
  BY BaseIs
<1>2. CASE stage = "header"
  BY <1>2 DEF Need, ReadingAt, HeaderSize
<1>3. ASSUME stage # "header" PROVE Len(got) >= 3
  BY <1>1, <1>3 DEF ReadingAt, HeaderSize, Stages, Type
<1>4. ASSUME stage # "header" PROVE Type = TypeOf(b[1])
  <2>1. 1 \in 1..Len(got)
    BY <1>1, <1>3, <1>4
  <2> QED
    BY <2>1 DEF Type
<1>5. CASE stage = "payload"
  <2>1. /\ Type \in KnownFixed /\ FixedSize(Type) \in 1..MaxPayload
        /\ Len(got) >= 3 /\ Need = 3 + FixedSize(Type)
    BY <1>5 DEF ReadingAt, Type, Need, HeaderSize
  <2>2. Len(b) >= 3
    BY <1>1, <2>1
  <2> QED
    BY <1>4, <1>5, <2>1, <2>2 DEF ReadingAt, HeaderSize
<1>6. CASE stage = "base"
  <2>1. Type \in VariablePayload /\ Len(got) >= 3 /\ Need = 3 + n
    BY <1>6 DEF ReadingAt, Type, Need, HeaderSize
  <2>2. Len(b) >= 3
    BY <1>1, <2>1
  <2> QED
    BY <1>4, <1>6, <2>1, <2>2 DEF ReadingAt, HeaderSize
<1>7. CASE stage = "rest"
  <2>1. /\ Type \in VariablePayload /\ ExtraOK(Type, Base(got)) /\ Len(got) >= 3 + n
        /\ Need = 3 + n + ExtraLen(Type, Base(got))
    BY <1>7 DEF ReadingAt, Type, Need, HeaderSize
  <2>2. Len(b) >= 3 + n /\ \A i \in 1..(3 + n) : i \in 1..Len(got)
    <3> HIDE DEF n
    <3> QED
      BY <1>1, <2>1
  <2>3. \A i \in 1..(3 + n) : got[i] = b[i]
    BY <2>2
  <2>4. /\ ExtraLen(Type, Base(got)) = ExtraLen(Type, Base(b))
        /\ ExtraOK(Type, Base(got)) = ExtraOK(Type, Base(b))
    BY <2>1, <2>2, <2>3, Announces
  <2>5. Len(b) < 3 + n + ExtraLen(Type, Base(b))
    BY <2>1, <2>4
  <2> QED
    BY <1>4, <1>7, <2>1, <2>2, <2>4, <2>5 DEF ReadingAt, HeaderSize
<1> QED
  BY <1>2, <1>5, <1>6, <1>7 DEF Stages

(* Whatever recv gives, one of the three. *)
LEMMA RecvOutcome ==
  ASSUME WireInv, Recv
  PROVE  \E b, rest \in Seq(Nat) :
           /\ open /\ Len(delivered) + 1 \in 1..Len(sent) /\ sent[Len(delivered) + 1] \in Message
           /\ Len(b) > Len(got) /\ b \o rest = got \o pipe /\ pipe' = rest
           /\ Outcome(b) /\ UNCHANGED <<side, sent, sending, peer>>
<1>1. /\ stage # "idle" /\ pipe # << >> /\ UNCHANGED <<side, sent, sending, peer>>
  BY DEF Recv, sender
<1>2. PICK n \in 1..Min({Len(pipe), Need - Len(got)}) :
        LET b == got \o SubSeq(pipe, 1, n)
        IN  /\ pipe' = SubSeq(pipe, n + 1, Len(pipe))
            /\ \/ Len(b) < Need /\ Read(stage, b)
               \/ Len(b) = Need /\ stage = "header" /\ HeaderRead(b)
               \/ Len(b) = Need /\ stage = "base" /\ BaseRead(b)
               \/ Len(b) = Need /\ stage \in {"payload", "rest"} /\ Handle(b)
  BY Zenon DEF Recv
<1> DEFINE b == got \o SubSeq(pipe, 1, n)
           rest == SubSeq(pipe, n + 1, Len(pipe))
           m == sent[Len(delivered) + 1]
<1>3. /\ open /\ Len(delivered) + 1 \in 1..Len(sent) /\ m \in Message
      /\ b \in Seq(Nat) /\ rest \in Seq(Nat) /\ b \o rest = got \o pipe
      /\ Need \in Nat /\ Len(b) > Len(got) /\ Len(b) <= Need
      /\ Begins(b, Bytes(m))
      /\ \A i \in 1..Len(got) : b[i] = got[i]
  BY <1>1, Within, Zenon
<1>4. /\ pipe' = rest
      /\ \/ Len(b) < Need /\ Read(stage, b)
         \/ Len(b) = Need /\ stage = "header" /\ HeaderRead(b)
         \/ Len(b) = Need /\ stage = "base" /\ BaseRead(b)
         \/ Len(b) = Need /\ stage \in {"payload", "rest"} /\ Handle(b)
  BY <1>2, Zenon
<1> HIDE DEF b, rest
<1>5. got \in Seq(Nat) /\ ReadingAt(stage, got) /\ stage \in Stages \ {"idle"}
  BY <1>1, <1>3 DEF WireInv
<1>6. Outcome(b)
  <2>1. CASE Len(b) < Need /\ Read(stage, b)
    <3>1. ReadingAt(stage, b)
      BY <1>3, <1>5, <2>1, MoreToRead
    <3>2. stage' = stage
      BY <2>1 DEF Read
    <3> QED
      BY <1>5, <2>1, <3>1, <3>2, Zenon DEF Outcome
  <2>2. CASE Len(b) = Need /\ stage = "header" /\ HeaderRead(b)
    <3>1. Len(b) = 3
      BY <2>2 DEF Need, HeaderSize
    <3> QED
      BY <1>3, <2>2, <3>1, HeaderOutcome
  <2>3. CASE Len(b) = Need /\ stage = "base" /\ BaseRead(b)
    <3>1. Type \in VariablePayload /\ Len(got) >= 3 /\ Need = 3 + BaseLen(Type)
      BY <1>5, <2>3 DEF ReadingAt, Type, Need, HeaderSize
    <3>2. Type = TypeOf(b[1])
      <4>1. 1 \in 1..Len(got)
        BY <1>5, <3>1
      <4> QED
        BY <1>3, <4>1 DEF Type
    <3> QED
      BY <1>3, <2>3, <3>1, <3>2, BaseOutcome
  <2>4. CASE Len(b) = Need /\ stage \in {"payload", "rest"} /\ Handle(b)
    BY <1>3, <1>5, <2>4, LastOutcome
  <2> QED
    BY <1>4, <2>1, <2>2, <2>3, <2>4
<1> QED
  BY <1>1, <1>3, <1>4, <1>6, Zenon

-----------------------------------------------------------------------------
(* Each step keeps WireInv, and is a step of Channel or none. *)
LEMMA InitHolds == Init => WireInv /\ Abstract!Init
<1> SUFFICES ASSUME Init PROVE WireInv /\ Abstract!Init
  OBVIOUS
<1>1. /\ side \in {"server", "client"} /\ sent = << >> /\ delivered = << >> /\ sending = << >>
      /\ pipe = << >> /\ peer = "up" /\ open = TRUE /\ stage = "idle" /\ got = << >> /\ refused = FALSE
  BY DEF Init
<1>2. << >> \o << >> \o << >> = << >> /\ Len(<< >>) = 0
  OBVIOUS
<1>3. Stands(got \o pipe \o sending, sent, Len(delivered), peer = "up")
  BY <1>1, <1>2, StandsEmpty
<1>4. ReadingAt(stage, got)
  BY <1>1 DEF ReadingAt
<1>5. sent \in Seq(Message) /\ delivered \in Seq(Message) /\ got \in Seq(Nat) /\ pipe \in Seq(Nat)
      /\ sending \in Seq(Nat) /\ Len(delivered) <= Len(sent) /\ stage \in Stages
  BY <1>1 DEF Stages
<1>6. WireInv
  BY <1>1, <1>3, <1>4, <1>5 DEF WireInv, RefusesOnlyForeign
<1> QED
  BY <1>1, <1>6 DEF Abstract!Init

LEMMA SendHolds == ASSUME WireInv, Send PROVE WireInv' /\ Abstract!Send
<1>1. PICK m \in Message : sent' = Append(sent, m) /\ sending' = Bytes(m)
  BY DEF Send, Outgoing, Message, Own
<1>2. /\ peer = "up" /\ open /\ sending = << >>
      /\ UNCHANGED <<side, pipe, peer, delivered, open, stage, got, refused>>
  BY DEF Send, reader
<1>3. /\ got \in Seq(Nat) /\ pipe \in Seq(Nat) /\ sent \in Seq(Message) /\ delivered \in Seq(Message)
      /\ Len(delivered) <= Len(sent) /\ Stands(got \o pipe \o sending, sent, Len(delivered), TRUE)
  BY <1>2 DEF WireInv
<1>4. got \o pipe \in Seq(Nat) /\ (got \o pipe) \o << >> = got \o pipe
  BY <1>3
<1>5. sent' \in Seq(Message) /\ Len(sent') = Len(sent) + 1 /\ sending' \in Seq(Nat)
  BY <1>1, <1>3, Frames, AppendProperties
<1>6. Len(delivered) \in 0..Len(sent)
  BY <1>3
<1>7. Stands((got \o pipe) \o Bytes(m), sent', Len(delivered), TRUE)
  <2>1. Stands(got \o pipe, sent, Len(delivered), TRUE)
    BY <1>2, <1>3, <1>4
  <2> QED
    BY <1>1, <1>3, <1>4, <1>6, <2>1, StandsMore
<1>8. WireInv'
  <2>1. Stands(got' \o pipe' \o sending', sent', Len(delivered'), peer' = "up")
    BY <1>1, <1>2, <1>7
  <2>2. Len(delivered') <= Len(sent')
    BY <1>2, <1>5, <1>6
  <2>3. ~refused'
    BY <1>2 DEF WireInv
  <2> QED
    BY <1>2, <1>3, <1>5, <2>1, <2>2, <2>3 DEF WireInv, RefusesOnlyForeign
<1> QED
  BY <1>1, <1>2, <1>8 DEF Abstract!Send, Message, Own

LEMMA PushHolds == ASSUME WireInv, Push PROVE WireInv' /\ UNCHANGED <<sent, delivered, open>>
<1>1. /\ open /\ sending # << >>
      /\ UNCHANGED <<side, sent, peer, delivered, open, stage, got, refused>>
  BY DEF Push, reader
<1>2. PICK n \in 1..Min({Len(sending), PipeCap - Len(pipe)}) :
        /\ pipe' = pipe \o SubSeq(sending, 1, n)
        /\ sending' = SubSeq(sending, n + 1, Len(sending))
  BY Zenon DEF Push
<1> DEFINE p == SubSeq(sending, 1, n)
           q == SubSeq(sending, n + 1, Len(sending))
<1>3. got \in Seq(Nat) /\ pipe \in Seq(Nat) /\ sending \in Seq(Nat)
  BY DEF WireInv
<1>4. n \in 0..Len(sending)
  <2> DEFINE l == Len(sending)
             room == PipeCap - Len(pipe)
  <2>1. l \in Nat /\ room \in Int
    BY <1>3, PipeAssumption
  <2>2. n \in 1..Min({l, room})
    OBVIOUS
  <2> HIDE DEF l, room
  <2>3. Min({l, room}) \in Int /\ Min({l, room}) <= l
    <3>1. l \in Int /\ room \in Int
      BY <2>1
    <3> QED
      BY <3>1, MinOfTwo, Zenon
  <2>4. n \in 0..l
    BY <2>1, <2>2, <2>3
  <2> QED
    BY <2>4 DEF l
<1>5. p \in Seq(Nat) /\ q \in Seq(Nat) /\ p \o q = sending
  BY <1>3, <1>4, SplitAt
<1>6. got' \o pipe' \o sending' = got \o pipe \o sending
  <2>1. pipe' = pipe \o p /\ sending' = q /\ got' = got
    BY <1>1, <1>2
  <2> HIDE DEF p, q
  <2>2. (got \o pipe) \o p = got \o (pipe \o p)
    <3>1. got \in Seq(Nat) /\ pipe \in Seq(Nat) /\ p \in Seq(Nat)
      BY <1>3, <1>5, Zenon
    <3> QED
      BY <3>1, Associative, Zenon
  <2>3. got \o pipe \in Seq(Nat)
    BY <1>3
  <2>4. ((got \o pipe) \o p) \o q = (got \o pipe) \o (p \o q)
    <3> DEFINE a == got \o pipe
    <3>1. a \in Seq(Nat) /\ p \in Seq(Nat) /\ q \in Seq(Nat)
      BY <1>5, <2>3, Zenon
    <3> HIDE DEF a
    <3>2. (a \o p) \o q = a \o (p \o q)
      BY <3>1, Associative, Zenon
    <3> QED
      BY <3>2 DEF a
  <2> QED
    BY <1>5, <2>1, <2>2, <2>4
<1>7. pipe' \in Seq(Nat) /\ sending' \in Seq(Nat)
  <2> HIDE DEF p, q
  <2> QED
    BY <1>2, <1>3, <1>5, SMTT(30) DEF p, q
<1> QED
  BY <1>1, <1>6, <1>7 DEF WireInv, RefusesOnlyForeign

LEMMA VanishHolds == ASSUME WireInv, Vanish PROVE WireInv' /\ UNCHANGED <<sent, delivered, open>>
<1>1. /\ peer = "up" /\ peer' = "gone" /\ sending' = << >>
      /\ UNCHANGED <<side, sent, delivered, open, stage, got, refused>>
  BY DEF Vanish, reader
<1>2. PICK n \in 0..Len(pipe) : pipe' = SubSeq(pipe, 1, n)
  BY DEF Vanish
<1> DEFINE p == SubSeq(pipe, 1, n)
           r == SubSeq(pipe, n + 1, Len(pipe))
<1>3. /\ got \in Seq(Nat) /\ pipe \in Seq(Nat) /\ sending \in Seq(Nat)
      /\ sent \in Seq(Message) /\ Len(delivered) \in 0..Len(sent)
  BY DEF WireInv
<1>4. p \in Seq(Nat) /\ r \in Seq(Nat) /\ p \o r = pipe /\ Len(p) = n
  BY <1>3, SplitAt
<1>5. ASSUME open PROVE Stands(got' \o pipe' \o sending', sent', Len(delivered'), peer' = "up")
  <2> DEFINE b == got \o pipe \o sending
             q == got \o p
  <2>1. Stands(b, sent, Len(delivered), TRUE)
    BY <1>1, <1>5 DEF WireInv
  <2>2. b = q \o (r \o sending)
    <3> HIDE DEF p, r
    <3>0. p \in Seq(Nat) /\ r \in Seq(Nat)
      BY <1>4
    <3>1. (got \o p) \o r = got \o (p \o r)
      BY <1>3, <3>0, Associative, ZenonT(30)
    <3>2. got \o p \in Seq(Nat)
      BY <1>3, <3>0
    <3>3. ((got \o p) \o r) \o sending = (got \o p) \o (r \o sending)
      BY <1>3, <3>0, <3>2, Associative, ZenonT(30)
    <3> QED
      BY <1>4, <3>1, <3>3
  <2>3. q \in Seq(Nat) /\ r \o sending \in Seq(Nat)
    <3> HIDE DEF p, r
    <3> QED
      BY <1>3, <1>4
  <2>4. b \in Seq(Nat)
    BY <1>3, Parts
  <2> DEFINE s == r \o sending
  <2> HIDE DEF b, q, s
  <2>5. /\ Len(q \o s) = Len(q) + Len(s)
        /\ \A i \in 1..(Len(q) + Len(s)) : (q \o s)[i] = IF i <= Len(q) THEN q[i] ELSE s[i - Len(q)]
    BY <2>3, ConcatProperties DEF s
  <2>6. Len(q) <= Len(b) /\ \A i \in 1..Len(q) : q[i] = b[i]
    <3>1. Len(q) \in Nat /\ Len(s) \in Nat /\ b = q \o s
      BY <2>2, <2>3 DEF s
    <3>2. \A i \in 1..Len(q) : i \in 1..(Len(q) + Len(s)) /\ i <= Len(q)
      BY <3>1
    <3> QED
      BY <2>5, <3>1, <3>2
  <2>7. Stands(q, sent, Len(delivered), FALSE)
    BY <1>3, <2>1, <2>3, <2>4, <2>6, StandsLess
  <2>8. got' \o pipe' \o sending' = q
    <3>1. q \o << >> = q
      BY <2>3
    <3> QED
      BY <1>1, <1>2, <3>1 DEF q
  <2>9. sent' = sent /\ delivered' = delivered /\ (peer' = "up") = FALSE
    BY <1>1
  <2> QED
    BY <2>7, <2>8, <2>9
<1>6. pipe' \in Seq(Nat) /\ sending' \in Seq(Nat)
  <2>1. pipe' = p /\ sending' = << >>
    BY <1>1, <1>2
  <2> HIDE DEF p
  <2> QED
    BY <1>4, <2>1
<1> QED
  BY <1>1, <1>5, <1>6 DEF WireInv, RefusesOnlyForeign

LEMMA SelectHolds == ASSUME WireInv, Select PROVE WireInv' /\ UNCHANGED <<sent, delivered, open>>
<1>1. /\ open /\ stage = "idle" /\ stage' = "header"
      /\ UNCHANGED <<side, sent, sending, peer, pipe, delivered, open, got, refused>>
  BY DEF Select, sender
<1>2. got = << >>
  BY <1>1 DEF WireInv, ReadingAt
<1>3. ReadingAt("header", got)
  BY <1>2 DEF ReadingAt, HeaderSize
<1>4. stage' \in Stages
  BY <1>1 DEF Stages
<1> QED
  BY <1>1, <1>3, <1>4 DEF WireInv, RefusesOnlyForeign

LEMMA RecvHolds == ASSUME WireInv, Recv
                   PROVE  WireInv' /\ (Abstract!Next \/ UNCHANGED <<sent, delivered, open>>)
<1> DEFINE d == Len(delivered)
           m == sent[d + 1]
<1>1. PICK b \in Seq(Nat), rest \in Seq(Nat) :
        /\ open /\ d + 1 \in 1..Len(sent) /\ m \in Message
        /\ b \o rest = got \o pipe /\ pipe' = rest
        /\ Outcome(b) /\ UNCHANGED <<side, sent, sending, peer>>
  BY RecvOutcome, Zenon
<1>2. /\ sending \in Seq(Nat) /\ sent \in Seq(Message) /\ delivered \in Seq(Message)
      /\ d \in Nat /\ d <= Len(sent) /\ ~refused
      /\ Stands(got \o pipe \o sending, sent, d, peer = "up")
  BY <1>1 DEF WireInv
<1>3. (b \o rest) \o sending = got \o pipe \o sending
  BY <1>1
<1>4. CASE stage' \in Stages \ {"idle"} /\ ReadingAt(stage', b) /\ Read(stage', b)
  <2>1. got' = b /\ UNCHANGED <<open, delivered, refused>>
    BY <1>4 DEF Read
  <2>2. Stands(got' \o pipe' \o sending', sent', Len(delivered'), peer' = "up")
    <3>1. got' \o pipe' \o sending' = got \o pipe \o sending
      BY <1>1, <1>3, <2>1
    <3> QED
      BY <1>1, <1>2, <2>1, <3>1
  <2>3. WireInv'
    BY <1>1, <1>2, <1>4, <2>1, <2>2 DEF WireInv, RefusesOnlyForeign
  <2> QED
    BY <1>1, <2>1, <2>3
<1>5. CASE /\ b = Bytes(m) /\ delivered' = Append(delivered, m)
           /\ stage' = "idle" /\ got' = << >> /\ UNCHANGED <<open, refused>>
  <2>1. b \o (rest \o sending) = got \o pipe \o sending
    BY <1>2, <1>3, Associative
  <2>2. rest \o sending \in Seq(Nat)
    BY <1>2
  <2>3. Stands(rest \o sending, sent, d + 1, peer = "up")
    <3>1. Stands(Bytes(m) \o (rest \o sending), sent, d, peer = "up")
      BY <1>2, <1>5, <2>1
    <3>2. d \in 0..Len(sent)
      BY <1>2
    <3> QED
      BY <1>1, <1>2, <2>2, <3>1, <3>2, StandsTaken
  <2>4. delivered' \in Seq(Message) /\ Len(delivered') = d + 1
    BY <1>1, <1>2, <1>5, AppendProperties
  <2>5. got' \o pipe' \o sending' = rest \o sending
    <3>1. << >> \o rest = rest
      OBVIOUS
    <3> QED
      BY <1>1, <1>5, <3>1
  <2>6. ReadingAt("idle", << >>) /\ "idle" \in Stages
    BY DEF ReadingAt, Stages
  <2>7. Stands(got' \o pipe' \o sending', sent', Len(delivered'), peer' = "up")
    BY <1>1, <2>3, <2>4, <2>5
  <2>8. Len(delivered') <= Len(sent')
    BY <1>1, <2>4
  <2>9. << >> \in Seq(Nat) /\ pipe' \in Seq(Nat) /\ sending' \in Seq(Nat)
    BY <1>1, <1>2
  <2>10. WireInv'
    BY <1>1, <1>2, <1>5, <2>4, <2>6, <2>7, <2>8, <2>9 DEF WireInv, RefusesOnlyForeign
  <2>11. d < Len(sent)
    BY <1>1, <1>2
  <2>12. Abstract!Deliver
    BY <1>1, <1>5, <2>11 DEF Abstract!Deliver
  <2> QED
    BY <2>10, <2>12 DEF Abstract!Next
<1>6. CASE Refuse /\ m.type = "UNKNOWN"
  <2>1. /\ ~open' /\ stage' = "idle" /\ got' = << >> /\ delivered' = delivered /\ refused'
        /\ open' = FALSE
    BY <1>6 DEF Refuse, Close
  <2>2. d < Len(sent) /\ sent'[d + 1].type = "UNKNOWN" /\ sent' = sent
    BY <1>1, <1>2, <1>6
  <2>3. RefusesOnlyForeign'
    BY <2>1, <2>2 DEF RefusesOnlyForeign
  <2>4. << >> \in Seq(Nat) /\ pipe' \in Seq(Nat) /\ sending' \in Seq(Nat) /\ "idle" \in Stages
    BY <1>1, <1>2 DEF Stages
  <2>5. WireInv'
    BY <1>1, <1>2, <2>1, <2>3, <2>4 DEF WireInv
  <2>6. Abstract!Break
    BY <1>1, <2>1 DEF Abstract!Break
  <2> QED
    BY <2>5, <2>6 DEF Abstract!Next
<1> QED
  BY <1>1, <1>4, <1>5, <1>6, Zenon DEF Outcome

(* The other two ways in which a reader in the middle of a message ends. *)
LEMMA CloseHolds ==
  ASSUME WireInv, stage # "idle", Close, UNCHANGED <<pipe, refused, side, sent, sending, peer>>
  PROVE  WireInv' /\ Abstract!Break
<1>1. open /\ ~refused
  BY DEF WireInv
<1>2. open' = FALSE /\ stage' = "idle" /\ got' = << >> /\ delivered' = delivered
  BY DEF Close
<1>3. << >> \in Seq(Nat) /\ "idle" \in Stages
  BY DEF Stages
<1>4. WireInv'
  BY <1>1, <1>2, <1>3 DEF WireInv, RefusesOnlyForeign
<1> QED
  BY <1>1, <1>2, <1>4 DEF Abstract!Break

LEMMA StepHolds ==
  ASSUME WireInv, [Next]_vars
  PROVE  WireInv' /\ (Abstract!Next \/ UNCHANGED <<sent, delivered, open>>)
<1>1. CASE Send
  BY <1>1, SendHolds DEF Abstract!Next
<1>2. CASE Push
  BY <1>2, PushHolds
<1>3. CASE Vanish
  BY <1>3, VanishHolds
<1>4. CASE Select
  BY <1>4, SelectHolds
<1>5. CASE Recv
  BY <1>5, RecvHolds
<1>6. CASE EndOfStream
  BY <1>6, CloseHolds DEF EndOfStream, sender, Abstract!Next
<1>7. CASE Timeout
  BY <1>7, CloseHolds DEF Timeout, sender, Abstract!Next
<1>8. CASE UNCHANGED vars
  BY <1>8 DEF vars, WireInv, RefusesOnlyForeign
<1> QED
  BY <1>1, <1>2, <1>3, <1>4, <1>5, <1>6, <1>7, <1>8 DEF Next, ReaderStep

LEMMA WireInvHolds == Spec => []WireInv
<1>1. Init => WireInv
  BY InitHolds
<1>2. WireInv /\ [Next]_vars => WireInv'
  BY StepHolds
<1> QED
  BY <1>1, <1>2, PTL DEF Spec

(* What deserialize_* makes of a payload is what serialize_* was given, of *)
(* every type and every content that fits its fields: each field at its    *)
(* place and in its byte order, and every item that the head counts.       *)
THEOREM RoundTripHolds == Spec => []RoundTrip
<1>1. ASSUME NEW m \in Written PROVE Same(m)
  <2>1. Filled(m) /\ CountOK(m.type, Count(m.type, SentHead(m)))
    BY FilledAssumption DEF Written, Encodable
  <2> QED
    BY <2>1, Decoded
<1>2. RoundTrip
  BY <1>1 DEF RoundTrip
<1> QED
  BY <1>2, PTL

(* The length of a payload is what sock_recv_payload_by_type reads for its *)
(* type and first bytes, what the size functions give, and the one length  *)
(* that its decoder takes: a byte less or more and it is refused.          *)
THEOREM SizesAgreeHolds == Spec => []SizesAgree
<1>1. ASSUME NEW m \in Written
      PROVE  LET b == Encode(m) IN Fits(m.type, b) /\ Exact(m.type, b) /\ AsSized(m, b)
  <2>1. Filled(m) /\ CountOK(m.type, Count(m.type, SentHead(m)))
    BY FilledAssumption DEF Written, Encodable
  <2> QED
    BY <2>1, FitsIs, ExactIs, AsSizedIs
<1>2. SizesAgree
  BY <1>1 DEF SizesAgree
<1> QED
  BY <1>2, PTL

(* Neither side ever closes a connection because of what this program      *)
(* wrote: the sizes that the reader goes by, from the header and from the  *)
(* first bytes of a payload, never leave a message of protocol.h.          *)
THEOREM RefusesOnlyForeignHolds == Spec => []RefusesOnlyForeign
<1>1. WireInv => RefusesOnlyForeign
  BY DEF WireInv
<1> QED
  BY <1>1, WireInvHolds, PTL

(* What the handlers are given is what the other process sent, whole, in   *)
(* order and each message once, however send and recv cut the stream and   *)
(* wherever the sender dies: sock_send_all, sock_recv_all and the framing  *)
(* of socket_io.c implement the abstract channel.                          *)
THEOREM WireImplementsChannel == Spec => RefinesChannel
<1>1. Init => Abstract!Init
  BY InitHolds
<1>2. WireInv /\ [Next]_vars => [Abstract!Next]_(Abstract!vars)
  BY StepHolds DEF Abstract!vars
<1> QED
  BY <1>1, <1>2, WireInvHolds, PTL DEF Spec, RefinesChannel, Abstract!Spec
-----------------------------------------------------------------------------
(* Every recv of a message has room for a byte and none beyond the buffer, *)
(* and takes the message further.                                          *)

RoomToRead ==
  stage # "idle" => Need \in Nat /\ Len(got) < Need /\ Need <= HeaderSize + MaxPayload

ReadsAdvance ==
  [][stage # "idle" /\ stage' # "idle" =>
       \/ UNCHANGED <<stage, got>>
       \/ Len(got') > Len(got) /\ Len(pipe') < Len(pipe)]_vars

LEMMA BaseFits ==
  ASSUME NEW t
  PROVE  BaseLen(t) <= MaxPayload
<1>1. ASSUME NEW x \in Nat, NEW y \in Nat PROVE x * y \in Nat
  OBVIOUS
<1>2. 2 + MaxNameLen \in Nat
  BY LimitsAssumption
<1> DEFINE more == MaxPlayers * (2 + MaxNameLen)
<1>3. more \in Nat
  BY <1>1, <1>2, LimitsAssumption
<1>4. MaxIdLen + 2 + more <= MaxPayload /\ MaxIdLen \in Nat /\ MaxPayload \in Nat /\ 3 <= MaxPayload
  BY LimitsAssumption
<1> HIDE DEF more
<1> QED
  BY <1>3, <1>4 DEF BaseLen

LEMMA RoomHolds == WireInv => RoomToRead
<1> SUFFICES ASSUME WireInv, stage # "idle"
             PROVE  Need \in Nat /\ Len(got) < Need /\ Need <= HeaderSize + MaxPayload
  BY DEF RoomToRead
<1>1. stage \in Stages \ {"idle"} /\ ReadingAt(stage, got) /\ got \in Seq(Nat)
  BY DEF WireInv
<1>2. HeaderSize = 3 /\ MaxPayload \in Nat
  BY LimitsAssumption DEF HeaderSize
<1> DEFINE have == Len(got)
<1>3. have \in Nat
  BY <1>1
<1>4. CASE stage = "header"
  BY <1>1, <1>2, <1>4 DEF ReadingAt, Need
<1>5. CASE stage = "payload"
  <2>1. FixedSize(Type) \in 1..MaxPayload /\ have < 3 + FixedSize(Type)
    BY <1>1, <1>2, <1>5 DEF ReadingAt, Type
  <2>2. Need = 3 + FixedSize(Type)
    BY <1>2, <1>5 DEF Need
  <2> HIDE DEF have
  <2>3. Need \in Nat /\ have < Need /\ Need <= 3 + MaxPayload
    BY <1>2, <2>1, <2>2
  <2> QED
    BY <1>2, <2>3 DEF have
<1>6. CASE stage = "base"
  <2>1. BaseLen(Type) \in Nat /\ BaseLen(Type) <= MaxPayload /\ have < 3 + BaseLen(Type)
    BY <1>1, <1>2, <1>6, BaseIs, BaseFits DEF ReadingAt, Type
  <2>2. Need = 3 + BaseLen(Type)
    BY <1>2, <1>6 DEF Need
  <2> HIDE DEF have
  <2>3. Need \in Nat /\ have < Need /\ Need <= 3 + MaxPayload
    BY <1>2, <2>1, <2>2
  <2> QED
    BY <1>2, <2>3 DEF have
<1>7. CASE stage = "rest"
  <2> DEFINE base == BaseLen(Type)
             extra == ExtraLen(Type, Base(got))
  <2>1. /\ Type \in VariablePayload /\ ExtraOK(Type, Base(got))
        /\ have >= 3 + base /\ have < 3 + base + extra
    BY <1>1, <1>2, <1>7 DEF ReadingAt, Type
  <2>2. base \in Nat /\ base + extra <= MaxPayload
    BY <2>1, BaseIs DEF ExtraOK
  <2>3. extra \in Nat
    <3>1. Len(got) >= 3
      <4> HIDE DEF have, base
      <4>1. have >= 3
        BY <1>3, <2>1, <2>2
      <4> QED
        BY <4>1 DEF have
    <3>2. Base(got) \in Seq(Nat) /\ Len(Base(got)) = have - 3
      BY <1>1, <3>1, BaseTyped
    <3>3. have - 3 >= base
      <4> HIDE DEF have, base
      <4> QED
        BY <1>3, <2>1, <2>2
    <3> QED
      BY <2>1, <3>2, <3>3, ExtraTyped
  <2>4. Need = 3 + base + extra
    BY <1>2, <1>7 DEF Need
  <2> HIDE DEF have, base, extra
  <2>5. Need \in Nat /\ have < Need /\ Need <= 3 + MaxPayload
    BY <1>2, <2>1, <2>2, <2>3, <2>4
  <2> QED
    BY <1>2, <2>5 DEF have
<1> QED
  BY <1>1, <1>4, <1>5, <1>6, <1>7 DEF Stages

(* No recv asks for nothing, which would be taken for the end of the       *)
(* stream, or for more than what is left of the caller's payload buffer,   *)
(* whatever lengths the bytes read so far announce, foreign ones included. *)
THEOREM RoomToReadHolds == Spec => []RoomToRead
<1> QED
  BY WireInvHolds, RoomHolds, PTL

LEMMA AdvanceStep ==
  WireInv /\ [Next]_vars =>
    [stage # "idle" /\ stage' # "idle" =>
       \/ UNCHANGED <<stage, got>>
       \/ Len(got') > Len(got) /\ Len(pipe') < Len(pipe)]_vars
<1> SUFFICES ASSUME WireInv, Next, stage # "idle", stage' # "idle"
             PROVE  \/ UNCHANGED <<stage, got>>
                    \/ Len(got') > Len(got) /\ Len(pipe') < Len(pipe)
  OBVIOUS
<1>1. CASE Send \/ Push \/ Vanish
  BY <1>1 DEF Send, Push, Vanish, reader
<1>2. CASE Recv
  <2>1. PICK b \in Seq(Nat), rest \in Seq(Nat) :
          Len(b) > Len(got) /\ b \o rest = got \o pipe /\ pipe' = rest /\ Outcome(b)
    BY <1>2, RecvOutcome, Zenon
  <2>2. got' = b
    BY <2>1 DEF Outcome, Read, Refuse, Close
  <2>3. got \in Seq(Nat) /\ pipe \in Seq(Nat)
    BY DEF WireInv
  <2> DEFINE lb == Len(b)
             lr == Len(rest)
             lg == Len(got)
             lp == Len(pipe)
  <2>4. lb \in Nat /\ lr \in Nat /\ lg \in Nat /\ lp \in Nat /\ lb > lg
    BY <2>1, <2>3
  <2>5. lb + lr = lg + lp
    <3>1. Len(b \o rest) = lb + lr
      OBVIOUS
    <3>2. Len(got \o pipe) = lg + lp
      BY <2>3
    <3> QED
      BY <2>1, <3>1, <3>2
  <2> HIDE DEF lb, lr, lg, lp
  <2>6. lr < lp
    BY <2>4, <2>5
  <2> QED
    BY <2>1, <2>2, <2>4, <2>6 DEF lb, lr, lg, lp
<1>3. ~Select /\ ~EndOfStream /\ ~Timeout
  BY DEF Select, EndOfStream, Timeout, Close
<1> QED
  BY <1>1, <1>2, <1>3 DEF Next, ReaderStep

(* Until it is done with a message or closes, every step of the reader     *)
(* moves bytes from the stream to the message, and no step of the sender   *)
(* takes any back.  With RoomToRead: a message takes at most as many calls *)
(* of recv as the header and the buffer have bytes.                        *)
THEOREM ReadsAdvanceHolds == Spec => ReadsAdvance
<1> QED
  BY WireInvHolds, AdvanceStep, PTL DEF Spec, ReadsAdvance
=============================================================================
