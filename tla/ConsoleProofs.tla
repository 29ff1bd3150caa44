---------------------------- MODULE ConsoleProofs ----------------------------
(***************************************************************************)
(* The client's limit on moves is exact for a second of any number of      *)
(* units, every speed and every moment, and no key ends a welcomed client. *)
(***************************************************************************)
EXTENDS Console, TLAPS

(* Division with remainder by any positive number. *)
LEMMA Division ==
  ASSUME NEW s \in Nat \ {0}, NEW t \in Nat
  PROVE  /\ t \div s \in Nat /\ (t % s) \in 0..(s - 1)
         /\ t = s * (t \div s) + (t % s)
<1>1. t \div s \in Int
  OBVIOUS
<1>2. (t % s) \in 0..(s - 1)
  OBVIOUS
<1>3. t = s * (t \div s) + (t % s)
  OBVIOUS
<1>4. t \div s >= 0
  BY <1>1, <1>2, <1>3
<1> QED
  BY <1>1, <1>2, <1>3, <1>4

LEMMA Multiples ==
  ASSUME NEW s \in Nat \ {0}, NEW k \in Int
  PROVE  /\ k < 0 => s * k <= -s
         /\ k > 0 => s * k >= s
         /\ k = 0 => s * k = 0
<1>1. ASSUME k < 0 PROVE s * k <= -s
  <2>1. s * (-k) >= s
    BY <1>1
  <2> QED
    BY <2>1
<1>2. ASSUME k > 0 PROVE s * k >= s
  BY <1>2
<1> QED
  BY <1>1, <1>2

LEMMA Share ==
  ASSUME NEW v \in Nat \ {0}, NEW s \in Nat \ {0}
  PROVE  s \div v \in 0..s
<1>1. s \div v \in Nat /\ (s % v) \in Nat /\ s = v * (s \div v) + (s % v)
  BY Division
<1>2. v * (s \div v) >= s \div v
  BY <1>1
<1> QED
  BY <1>1, <1>2

(* Seconds and what is left of one compare as the whole does. *)
LEMMA ByFields ==
  ASSUME NEW s \in Nat \ {0}, NEW k \in Int, NEW r \in 0..(s - 1), NEW i \in 0..s,
         NEW d \in Nat, d = s * k + r
  PROVE  (k < 0 \/ (k = 0 /\ r < i)) <=> d < i
<1> DEFINE m == s * k
<1>1. m \in Int /\ d = m + r
  OBVIOUS
<1>2. (k < 0 => m <= -s) /\ (k > 0 => m >= s) /\ (k = 0 => m = 0)
  BY Multiples
<1> HIDE DEF m
<1> QED
  BY <1>1, <1>2

LEMMA Spread ==
  ASSUME NEW s \in Nat \ {0}, NEW a \in Int, NEW b \in Int
  PROVE  s * a - s * b = s * (a - b) /\ s * (a - b) - s = s * (a - b - 1)
OBVIOUS

(* The difference of two clock readings, whether it borrows or not. *)
LEMMA Difference ==
  ASSUME NEW a \in Nat, NEW b \in 0..a
  PROVE  \E k \in Int, r \in 0..(SecondNs - 1) :
           TsDiff(Clock(a), Clock(b)) = [sec |-> k, nsec |-> r] /\ a - b = SecondNs * k + r
<1> DEFINE s == SecondNs
           p == a \div s
           q == b \div s
           n == (a % s) - (b % s)
<1>1. s \in Nat \ {0}
  BY SecondAssumption
<1>2. /\ p \in Nat /\ (a % s) \in 0..(s - 1) /\ a = s * p + (a % s)
      /\ q \in Nat /\ (b % s) \in 0..(s - 1) /\ b = s * q + (b % s)
  BY <1>1, Division
<1>3. TsDiff(Clock(a), Clock(b)) = TsNorm([sec |-> p - q, nsec |-> n])
  <2>1. /\ Clock(a).sec = p /\ Clock(a).nsec = (a % s)
        /\ Clock(b).sec = q /\ Clock(b).nsec = (b % s)
    BY DEF Clock
  <2> QED
    BY <2>1, ZenonT(30) DEF TsDiff, n
<1>4. s * p - s * q = s * (p - q) /\ s * (p - q) - s = s * (p - q - 1)
  BY <1>1, <1>2, Spread
<1>5. s * p \in Int /\ s * q \in Int /\ s * (p - q) \in Int /\ s * (p - q - 1) \in Int
  BY <1>1, <1>2
<1>6. a - b = s * (p - q) + n /\ a - b = s * (p - q - 1) + (n + s)
  BY <1>1, <1>2, <1>4, <1>5
<1>7. n \in Int /\ n < s /\ n > -s
  BY <1>1, <1>2
<1>8. CASE n >= 0
  <2>1. TsNorm([sec |-> p - q, nsec |-> n]) = [sec |-> p - q, nsec |-> n]
    BY <1>1, <1>7, <1>8 DEF TsNorm
  <2>2. p - q \in Int /\ n \in 0..(s - 1)
    BY <1>1, <1>2, <1>7, <1>8
  <2> QED
    BY <1>3, <1>6, <2>1, <2>2
<1>9. CASE n < 0
  <2>1. (-n) \div s = 0
    BY <1>1, <1>7, <1>9
  <2>2. TsNorm([sec |-> p - q, nsec |-> n]) = [sec |-> p - q - 1, nsec |-> n + s]
    BY <1>1, <1>2, <1>7, <1>9, <2>1 DEF TsNorm
  <2>3. p - q - 1 \in Int /\ n + s \in 0..(s - 1)
    BY <1>1, <1>2, <1>7, <1>9
  <2> QED
    BY <1>3, <1>6, <2>2, <2>3
<1> QED
  BY <1>7, <1>8, <1>9

LEMMA SpeedsAreNumbers == Speeds \subseteq Nat
<1>1. UINT16_MAX \in Nat
  BY DEF UINT16_MAX
<1> QED
  BY <1>1, SpeedsAssumption

-----------------------------------------------------------------------------
Times == now \in Nat /\ moved \in 0..now /\ ts_last_move = Clock(moved)

LEMMA TimesInit == Init => Times
<1> SUFFICES ASSUME Init PROVE Times
  OBVIOUS
<1>1. 0 \div SecondNs = 0 /\ 0 % SecondNs = 0
  BY SecondAssumption
<1> QED
  BY <1>1, StartsAssumption DEF Init, Times, Clock

LEMMA TimesStep == Times /\ [Next]_vars => Times'
<1> SUFFICES ASSUME Times, [Next]_vars PROVE Times'
  OBVIOUS
<1>1. CASE Pass
  BY <1>1 DEF Pass, Times, Clock
<1>2. ASSUME UNCHANGED <<now, ts_last_move, moved>> PROVE Times'
  BY <1>2 DEF Times, Clock
<1>3. ASSUME now' = now, ts_last_move' = Clock(now), moved' = now PROVE Times'
  BY <1>3 DEF Times, Clock
<1>4. ASSUME NEW key \in Keys, Press(key) PROVE Times'
  BY <1>2, <1>3, <1>4 DEF Press, Move, Still
<1> QED
  BY <1>1, <1>2, <1>4 DEF Next, News, vars

LEMMA Exact == Times => ThrottleIsExact
<1> SUFFICES ASSUME Times, NEW v \in Speeds \ {0}
             PROVE  Throttled(v) <=> now - moved < SecondNs \div v
  BY DEF ThrottleIsExact
<1>1. v \in Nat \ {0} /\ SecondNs \in Nat \ {0}
  BY SpeedsAreNumbers, SecondAssumption
<1>2. SecondNs \div v \in 0..SecondNs
  BY <1>1, Share
<1>3. PICK k \in Int, r \in 0..(SecondNs - 1) :
        /\ TsDiff(Clock(now), Clock(moved)) = [sec |-> k, nsec |-> r]
        /\ now - moved = SecondNs * k + r
  BY Difference DEF Times
<1>4. Throttled(v) <=> k < 0 \/ (k = 0 /\ r < SecondNs \div v)
  BY <1>1, <1>3 DEF Throttled, TsLess, MinInterval, Times
<1>5. now - moved \in Nat
  BY DEF Times
<1> QED
  BY <1>1, <1>2, <1>3, <1>4, <1>5, ByFields

(* The limit is exact at every moment and speed. *)
THEOREM ThrottleIsExactHolds == Spec => []ThrottleIsExact
BY TimesInit, TimesStep, Exact, PTL DEF Spec

LEMMA Spaced ==
  Times /\ [Next]_vars =>
    [moved' # moved =>
       \E v \in Speeds \ {0} : (has_welcome => v = speed) /\ moved' - moved >= SecondNs \div v]_vars
<1> SUFFICES ASSUME Times, [Next]_vars, moved' # moved
             PROVE  \E v \in Speeds \ {0} :
                      (has_welcome => v = speed) /\ moved' - moved >= SecondNs \div v
  OBVIOUS
<1>1. PICK v \in Speeds : /\ has_welcome => v = speed
                          /\ v # 0 /\ ~Throttled(v) /\ moved' = now
  BY DEF Next, Pass, News, Press, Move, Still, vars
<1>2. ~(now - moved < SecondNs \div v)
  BY <1>1, Exact DEF ThrottleIsExact
<1>3. v \in Nat \ {0} /\ SecondNs \in Nat \ {0}
  BY <1>1, SpeedsAreNumbers, SecondAssumption
<1>4. SecondNs \div v \in Int /\ now - moved \in Int
  BY <1>3, Share DEF Times
<1>5. moved' - moved >= SecondNs \div v
  BY <1>1, <1>2, <1>4
<1> QED
  BY <1>1, <1>5

(* Two moves are sent no closer than the client's speed allows. *)
THEOREM MovesAreSpacedHolds == Spec => MovesAreSpaced
BY TimesInit, TimesStep, Spaced, PTL DEF Spec, MovesAreSpaced

-----------------------------------------------------------------------------
KnowsItself == has_welcome => slot

LEMMA KnowsItselfStep == KnowsItself /\ [Next]_vars => KnowsItself'
BY DEF KnowsItself, Next, Pass, News, Welcome, Press, copy, vars

LEMMA NoKill ==
  KnowsItself /\ [Next]_vars => [outcome' = "FAIL" /\ outcome # "FAIL" => ~has_welcome]_vars
<1> SUFFICES ASSUME KnowsItself, [Next]_vars, outcome' = "FAIL", outcome # "FAIL"
             PROVE  ~has_welcome
  OBVIOUS
<1> QED
  BY DEF KnowsItself, Next, Pass, News, Press, Ready, Move, Bomb, Lobby, Answers, vars

(* After its WELCOME no key but q ends a client. *)
THEOREM KeysDoNotKillHolds == Spec => KeysDoNotKill
<1>1. Init => KnowsItself
  BY DEF Init, KnowsItself
<1> QED
  BY <1>1, KnowsItselfStep, NoKill, PTL DEF Spec, KeysDoNotKill
=============================================================================
