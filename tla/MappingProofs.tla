--------------------------- MODULE MappingProofs ---------------------------
(***************************************************************************)
(* Proofs about module Mapping, for every device, every config, every      *)
(* list of toggles and every range Yandex may advertise: the fingerprint   *)
(* determines the accessory, no control is dead, no reading is lost, and   *)
(* no pair of conversions drifts.                                          *)
(***************************************************************************)
EXTENDS Mapping, WellFoundedInduction, TLAPS

-----------------------------------------------------------------------------
(* Induction over a list, and what Only returns.                            *)

\* Every set of numbers has a smallest one.
LEMMA SmallestNat ==
  ASSUME NEW T, T \subseteq Nat, T # {}
  PROVE  \E x \in T : \A y \in T : x <= y
<1> DEFINE R == {ss \in Nat \X Nat : ss[1] < ss[2]}
<1>1. OpToRel(<, Nat) = R
  BY DEF OpToRel
<1>2. IsWellFoundedOn(R, Nat)
  BY <1>1, NatLessThanWellFounded
<1>3. \E x \in T : \A y \in T : ~(<<y, x>> \in R)
  <2> HIDE DEF R
  <2> QED BY <1>2, WFMin
<1>4. PICK x \in T : \A y \in T : ~(<<y, x>> \in R)
  BY <1>3
<1>5. ASSUME NEW y \in T
      PROVE  x <= y
  <2>1. <<y, x>> \in Nat \X Nat /\ <<y, x>>[1] = y /\ <<y, x>>[2] = x
    OBVIOUS
  <2>2. ~(y < x)
    BY <1>4, <2>1
  <2> QED BY <2>2
<1> QED
  BY <1>5

\* Counting up, without the theorem of induction: what holds of 0 and of the
\* successor of each number it holds of, holds up to the last.
LEMMA UpTo ==
  ASSUME NEW N, NEW last \in Nat, 0 \in N, \A n \in 0 .. last - 1 : n \in N => n + 1 \in N
  PROVE  0 .. last \subseteq N
<1> SUFFICES ASSUME (0 .. last) \ N # {} PROVE FALSE
  OBVIOUS
<1>1. PICK x \in (0 .. last) \ N : \A y \in (0 .. last) \ N : x <= y
  <2>1. (0 .. last) \ N \subseteq Nat
    OBVIOUS
  <2> QED BY <2>1, SmallestNat
<1>2. x # 0 /\ x - 1 \in 0 .. last - 1
  BY <1>1
<1>3. x - 1 \in N
  BY <1>1, <1>2
<1> QED BY <1>1, <1>2, <1>3

Kept(list, set, f, last) ==
  f = [n \in 0 .. last |->
         IF n = 0 THEN <<>>
         ELSE IF list[n] \in set THEN Append(f[n - 1], list[n])
         ELSE f[n - 1]]

\* What Only has kept after n entries.
LEMMA KeptAt ==
  ASSUME NEW list, NEW set, NEW f, NEW last, Kept(list, set, f, last), NEW n \in 0 .. last
  PROVE  f[n] = IF n = 0 THEN <<>>
                ELSE IF list[n] \in set THEN Append(f[n - 1], list[n])
                ELSE f[n - 1]
BY DEF Kept

\* The recursive function Only picks exists.
LEMMA KeptExists ==
  ASSUME NEW list, NEW set, Len(list) \in Nat
  PROVE  \E f : Kept(list, set, f, Len(list))
<1> DEFINE N == {m \in 0 .. Len(list) : \E f : Kept(list, set, f, m)}
<1>1. 0 \in N
  <2> DEFINE f == [n \in 0 .. 0 |-> <<>>]
  <2>1. Kept(list, set, f, 0)
    BY DEF Kept
  <2> QED BY <2>1
<1>2. ASSUME NEW m \in 0 .. Len(list) - 1, m \in N PROVE m + 1 \in N
  <2>1. PICK f : Kept(list, set, f, m)
    BY <1>2
  <2> DEFINE g == [n \in 0 .. m + 1 |->
                     IF n = 0 THEN <<>>
                     ELSE IF list[n] \in set THEN Append(f[n - 1], list[n])
                     ELSE f[n - 1]]
  <2>2. ASSUME NEW n \in 0 .. m
        PROVE  g[n] = f[n]
    <3>1. n \in 0 .. m + 1
      OBVIOUS
    <3>2. g[n] = IF n = 0 THEN <<>>
                 ELSE IF list[n] \in set THEN Append(f[n - 1], list[n]) ELSE f[n - 1]
      BY <3>1
    <3>3. f[n] = IF n = 0 THEN <<>>
                 ELSE IF list[n] \in set THEN Append(f[n - 1], list[n]) ELSE f[n - 1]
      BY <2>1 DEF Kept
    <3> QED BY <3>2, <3>3
  <2>3. \A n \in 0 .. m + 1 : n # 0 => n - 1 \in 0 .. m
    OBVIOUS
  <2>4. \A n \in 0 .. m + 1 : n # 0 => g[n - 1] = f[n - 1]
    BY <2>2, <2>3
  <2>5. Kept(list, set, g, m + 1)
    BY <2>4 DEF Kept
  <2> QED BY <2>5
<1>3. Len(list) \in N
  <2> HIDE DEF N
  <2>1. 0 .. Len(list) \subseteq N
    BY <1>1, <1>2, UpTo
  <2> QED BY <2>1
<1> QED BY <1>3

\* Only is that function at the end of the list.
LEMMA OnlySteps ==
  ASSUME NEW list, NEW set, Len(list) \in Nat
  PROVE  \E f : Kept(list, set, f, Len(list)) /\ Only(list, set) = f[Len(list)]
<1> DEFINE f == CHOOSE f : Kept(list, set, f, Len(list))
<1>1. Kept(list, set, f, Len(list))
  BY KeptExists
<1>2. Only(list, set) = f[Len(list)]
  BY DEF Only, Kept
<1> HIDE DEF f
<1> QED BY <1>1, <1>2

\* Only returns a list of the members of the set.
LEMMA OnlyIs ==
  ASSUME NEW S, NEW list \in Seq(S), NEW set
  PROVE  Only(list, set) \in Seq(S) /\ ToSet(Only(list, set)) = ToSet(list) \cap set
<1>1. PICK f : Kept(list, set, f, Len(list)) /\ Only(list, set) = f[Len(list)]
  BY OnlySteps
<1> DEFINE Good(m) ==
      /\ f[m] \in Seq(S \cap set)
      /\ \A i \in 1 .. m : list[i] \in set => \E j \in DOMAIN f[m] : f[m][j] = list[i]
      /\ \A j \in DOMAIN f[m] : \E i \in 1 .. m : list[i] = f[m][j]
    N == {m \in 0 .. Len(list) : Good(m)}
<1>2. 0 \in N
  BY <1>1 DEF Kept
<1>3. ASSUME NEW m \in 0 .. Len(list) - 1, m \in N PROVE m + 1 \in N
  <2>1. Good(m)
    BY <1>3
  <2>2. m + 1 \in DOMAIN list /\ list[m + 1] \in S
    OBVIOUS
  <2>3. f[m + 1] = IF list[m + 1] \in set THEN Append(f[m], list[m + 1]) ELSE f[m]
    <3>1. /\ m + 1 \in 0 .. Len(list) /\ m + 1 # 0 /\ m + 1 - 1 = m
      OBVIOUS
    <3>2. f[m + 1] = IF m + 1 = 0 THEN <<>>
                     ELSE IF list[m + 1] \in set THEN Append(f[m + 1 - 1], list[m + 1])
                     ELSE f[m + 1 - 1]
      BY <1>1, <3>1, KeptAt
    <3> QED BY <3>1, <3>2
  <2>4. Good(m + 1)
    <3>1. CASE list[m + 1] \in set
      <4>1. f[m + 1] = Append(f[m], list[m + 1])
        BY <2>3, <3>1
      <4>2. f[m + 1] \in Seq(S \cap set)
        BY <2>1, <2>2, <3>1, <4>1
      <4>3. /\ DOMAIN f[m] = 1 .. Len(f[m]) /\ Len(f[m]) \in Nat
            /\ DOMAIN f[m + 1] = 1 .. Len(f[m]) + 1
            /\ f[m + 1][Len(f[m]) + 1] = list[m + 1]
            /\ \A j \in 1 .. Len(f[m]) : f[m + 1][j] = f[m][j]
        BY <2>1, <4>1
      <4>4. ASSUME NEW i \in 1 .. m + 1, list[i] \in set
            PROVE  \E j \in DOMAIN f[m + 1] : f[m + 1][j] = list[i]
        <5>1. CASE i = m + 1
          BY <4>3, <5>1
        <5>2. CASE i # m + 1
          <6>1. PICK j \in DOMAIN f[m] : f[m][j] = list[i]
            BY <2>1, <4>4, <5>2
          <6> QED BY <4>3, <6>1
        <5> QED BY <5>1, <5>2
      <4>5. ASSUME NEW j \in DOMAIN f[m + 1]
            PROVE  \E i \in 1 .. m + 1 : list[i] = f[m + 1][j]
        <5>1. CASE j = Len(f[m]) + 1
          BY <4>3, <5>1
        <5>2. CASE j # Len(f[m]) + 1
          <6>1. PICK i \in 1 .. m : list[i] = f[m][j]
            BY <2>1, <4>3, <5>2
          <6>2. j \in 1 .. Len(f[m])
            <7> DEFINE n == Len(f[m])
            <7>1. n \in Nat /\ j \in 1 .. n + 1 /\ j # n + 1
              BY <4>3, <5>2
            <7> HIDE DEF n
            <7>2. j \in 1 .. n
              BY <7>1
            <7> QED BY <7>2 DEF n
          <6>3. f[m + 1][j] = f[m][j]
            BY <4>3, <6>2
          <6>4. i \in 1 .. m + 1
            OBVIOUS
          <6> QED BY <6>1, <6>3, <6>4
        <5> QED BY <5>1, <5>2
      <4> QED BY <4>2, <4>4, <4>5
    <3>2. CASE list[m + 1] \notin set
      <4>1. f[m + 1] = f[m]
        BY <2>3, <3>2
      <4>2. \A i \in 1 .. m + 1 : list[i] \in set => i \in 1 .. m
        BY <3>2
      <4>3. \A i \in 1 .. m : i \in 1 .. m + 1
        OBVIOUS
      <4> QED BY <2>1, <4>1, <4>2, <4>3
    <3> QED BY <3>1, <3>2
  <2> HIDE DEF Good
  <2> QED BY <2>4
<1>4. Len(list) \in N
  <2> HIDE DEF N
  <2>1. 0 .. Len(list) \subseteq N
    BY <1>2, <1>3, UpTo
  <2> QED BY <2>1
<1>5. Good(Len(list))
  BY <1>4
<1>6. DOMAIN list = 1 .. Len(list)
  OBVIOUS
<1>7. Only(list, set) \in Seq(S \cap set)
  BY <1>1, <1>5
<1>8. \A i \in DOMAIN list :
        list[i] \in set => \E j \in DOMAIN Only(list, set) : Only(list, set)[j] = list[i]
  BY <1>1, <1>5, <1>6
<1>9. ASSUME NEW j \in DOMAIN Only(list, set)
      PROVE  \E i \in DOMAIN list : list[i] = Only(list, set)[j] /\ list[i] \in set
  <2>1. Only(list, set)[j] \in set
    BY <1>7
  <2>2. PICK i \in 1 .. Len(list) : list[i] = Only(list, set)[j]
    BY <1>1, <1>5
  <2> QED BY <1>6, <2>1, <2>2
<1>10. Only(list, set) \in Seq(S)
  BY <1>7
<1> DEFINE only == Only(list, set)
<1> HIDE DEF only
<1>11. ToSet(only) = ToSet(list) \cap set
  BY <1>8, <1>9 DEF only, ToSet
<1> QED
  BY <1>10, <1>11 DEF only
-----------------------------------------------------------------------------
(* The conversions.                                                        *)

\* math.Round, by the inequalities that fix it.
LEMMA QuotientIs ==
  ASSUME NEW n \in Nat, NEW d \in Nat \ {0}
  PROVE  /\ Quotient(n, d) \in Nat
         /\ 2 * (d * Quotient(n, d)) <= 2 * n + d
         /\ 2 * n + d < 2 * (d * Quotient(n, d)) + 2 * d
<1> DEFINE a == 2 * n + d
           b == 2 * d
<1>1. a \in Nat /\ b \in Nat \ {0}
  OBVIOUS
<1>2. a \div b \in Nat /\ b * (a \div b) <= a /\ a < b * (a \div b) + b
  <2> HIDE DEF a, b
  <2> QED BY <1>1
<1>3. Quotient(n, d) = a \div b
  BY DEF Quotient
<1>4. b * (a \div b) = 2 * (d * (a \div b))
  BY <1>2
<1> QED
  BY <1>2, <1>3, <1>4

\* The quotient is the only whole number so close.
LEMMA QuotientOnly ==
  ASSUME NEW n \in Nat, NEW d \in Nat \ {0}, NEW q \in Int,
         2 * (d * q) <= 2 * n + d, 2 * n + d < 2 * (d * q) + 2 * d
  PROVE  Quotient(n, d) = q
<1> DEFINE p == Quotient(n, d)
<1>1. /\ p \in Nat
      /\ 2 * (d * p) <= 2 * n + d
      /\ 2 * n + d < 2 * (d * p) + 2 * d
  BY QuotientIs
<1> HIDE DEF p
<1>2. d * p < d * (q + 1) /\ d * q < d * (p + 1)
  BY <1>1
<1>3. p < q + 1 /\ q < p + 1
  BY <1>1, <1>2
<1> QED
  BY <1>1, <1>3 DEF p

\* A range of percent is passed on as it is (accessory.go:1018-1029).
LEMMA PercentRangeAgrees ==
  ASSUME NEW r, r.min \in Int, r.max \in Int, isPercentRange(r)
  PROVE  BrightnessAgrees(r)
<1>1. ASSUME NEW v \in r.min .. r.max
      PROVE  /\ v \in Int /\ brightnessToPercent(r, v) = v
             /\ percentToBrightness(r, v) = v
  BY DEF brightnessToPercent, percentToBrightness, isPercentRange, Clamp
<1> QED
  BY <1>1 DEF BrightnessAgrees

\* Any other range is scaled onto percent and back.
LEMMA WideRangeAgrees ==
  ASSUME NEW r, r.min \in Int, r.max \in Int, r.min < r.max, ~isPercentRange(r)
  PROVE  BrightnessAgrees(r)
<1> DEFINE width == r.max - r.min
<1>1. width \in Nat \ {0}
  OBVIOUS
<1>2. ~(r.min \in {0, 1} /\ r.max = 100)
  BY DEF isPercentRange
<1>3. SUFFICES ASSUME NEW v \in r.min .. r.max
               PROVE  LET shown == brightnessToPercent(r, v)
                          sent  == percentToBrightness(r, shown)
                      IN  /\ sent \in r.min .. r.max
                          /\ brightnessToPercent(r, sent) = shown
  BY <1>2 DEF BrightnessAgrees
<1> DEFINE s == v - r.min
           q == Quotient(100 * s, width)
           t == Quotient(q * width, 100)
           x == width * q
<1>4. s \in 0 .. width /\ 100 * s \in Nat /\ v = r.min + s
  OBVIOUS
<1>5. q \in Nat /\ 2 * x <= 200 * s + width /\ 200 * s + width < 2 * x + 2 * width
  <2> HIDE DEF s, width
  <2> QED BY <1>1, <1>4, QuotientIs
<1>6. q \in 0 .. 100
  <2> HIDE DEF q, s
  <2>1. 2 * x <= 201 * width
    BY <1>4, <1>5
  <2>2. q <= 100
    <3> HIDE DEF width
    <3>1. SUFFICES ASSUME q >= 101 PROVE FALSE
      BY <1>5
    <3>2. width * q >= width * 101
      BY <1>1, <1>5, <3>1
    <3> QED BY <1>1, <1>5, <2>1, <3>2
  <2> QED BY <1>5, <2>2
<1>7. x \in Nat /\ q * width = x
  <2> HIDE DEF q, width
  <2> QED BY <1>1, <1>6
<1>8. t \in Nat /\ 200 * t <= 2 * x + 100 /\ 2 * x + 100 < 200 * t + 200
  <2> HIDE DEF q, width, x
  <2> QED BY <1>7, QuotientIs
<1>9. t \in 0 .. width
  <2>1. x <= 100 * width
    <3> HIDE DEF q, width
    <3> QED BY <1>1, <1>6
  <2> HIDE DEF t, x, width
  <2> QED BY <1>1, <1>7, <1>8, <2>1
<1>10. Quotient(100 * t, width) = q
  <2> HIDE DEF t, q, s, width
  <2>1. CASE width < 100
    <3>1. 200 * s <= 2 * x + 100 /\ 2 * x + 100 < 200 * s + 200
      <4> HIDE DEF x
      <4> QED BY <1>1, <1>4, <1>5, <1>7, <2>1
    <3>2. t = s
      <4> HIDE DEF x
      <4> QED BY <1>1, <1>4, <1>7, <1>8, <1>9, <3>1
    <3> QED BY <3>2 DEF q
  <2>2. CASE width >= 100
    <3>1. 2 * x <= 200 * t + width /\ 200 * t + width < 2 * x + 2 * width
      <4>1. CASE width = 100
        BY <1>6, <1>8, <1>9, <4>1
      <4>2. CASE width > 100
        <5> HIDE DEF x
        <5> QED BY <1>1, <1>7, <1>8, <1>9, <4>2
      <4> QED BY <1>1, <2>2, <4>1, <4>2
    <3>2. 100 * t \in Nat /\ 2 * (100 * t) = 200 * t
      BY <1>9, <1>1
    <3> QED BY <1>1, <1>6, <3>1, <3>2, QuotientOnly
  <2> QED BY <1>1, <2>1, <2>2
<1>11. brightnessToPercent(r, v) = q
  <2>1. (v - r.min) * 100 = 100 * s
    OBVIOUS
  <2>2. brightnessToPercent(r, v) = Clamp(q, 0, 100)
    BY <2>1 DEF brightnessToPercent
  <2> HIDE DEF q
  <2> QED BY <1>6, <2>2 DEF Clamp
<1>12. percentToBrightness(r, q) = r.min + t
  <2>1. percentToBrightness(r, q) = Clamp(r.min + t, r.min, r.max)
    BY DEF percentToBrightness
  <2>2. r.min + t \in r.min .. r.max
    <3> HIDE DEF t
    <3> QED BY <1>9
  <2> HIDE DEF t, q
  <2> QED BY <2>1, <2>2 DEF Clamp
<1>13. brightnessToPercent(r, r.min + t) = q
  <2> DEFINE u == r.min + t
  <2>1. (u - r.min) * 100 = 100 * t
    <3> HIDE DEF t
    <3> QED BY <1>9
  <2>2. Quotient((u - r.min) * 100, r.max - r.min) = q
    <3> HIDE DEF t, q, u
    <3> QED BY <1>10, <2>1, Zenon
  <2>3. brightnessToPercent(r, u) = Clamp(q, 0, 100)
    <3> HIDE DEF t, q, u, width, s, x
    <3> QED BY <2>2 DEF brightnessToPercent
  <2> HIDE DEF q
  <2> QED BY <1>6, <2>3 DEF Clamp
<1>14. r.min + t \in r.min .. r.max
  <2> HIDE DEF t
  <2> QED BY <1>9
<1> HIDE DEF t, q
<1> QED BY <1>11, <1>12, <1>13, <1>14

\* Together: brightness agrees on every range.
LEMMA BrightnessAlwaysAgrees ==
  ASSUME NEW r, r.min \in Int, r.max \in Int, r.min < r.max
  PROVE  BrightnessAgrees(r)
BY PercentRangeAgrees, WideRangeAgrees

\* A larger divisor gives no larger quotient.
LEMMA QuotientFalls ==
  ASSUME NEW n \in Nat, NEW a \in Nat \ {0}, NEW b \in Nat, a <= b
  PROVE  Quotient(n, b) <= Quotient(n, a)
<1> DEFINE p == Quotient(n, b)
           q == Quotient(n, a)
<1>1. b \in Nat \ {0}
  OBVIOUS
<1>2. p \in Nat /\ 2 * (b * p) <= 2 * n + b
  BY <1>1, QuotientIs
<1>3. q \in Nat /\ 2 * n + a < 2 * (a * q) + 2 * a
  BY QuotientIs
<1> HIDE DEF p, q
<1>4. SUFFICES ASSUME p >= q + 1 PROVE FALSE
  BY <1>2, <1>3 DEF p, q
<1>5. b * p >= b * q + b
  BY <1>1, <1>2, <1>3, <1>4
<1>6. a * q <= b * q /\ a * q \in Nat /\ b * q \in Nat /\ b * p \in Nat
  BY <1>1, <1>2, <1>3
<1> QED
  BY <1>1, <1>2, <1>3, <1>5, <1>6

\* A colour temperature in mired survives the way to kelvin and back, which
\* needs 500 * 500 <= 1000000: rounding to whole kelvin is finer than a mired.
LEMMA QuotientReturns ==
  ASSUME NEW n \in Nat, 500 * 500 <= n, NEW m \in 140 .. 500
  PROVE  /\ Quotient(n, m) \in Nat \ {0}
         /\ Quotient(n, Quotient(n, m)) = m
<1> DEFINE k == Quotient(n, m)
<1>1. k \in Nat /\ 2 * (m * k) <= 2 * n + m /\ 2 * n + m < 2 * (m * k) + 2 * m
  <2>1. m \in Nat \ {0}
    OBVIOUS
  <2> QED BY <2>1, QuotientIs
<1> HIDE DEF k
<1>2. m * k \in Nat /\ k * m = m * k
  BY <1>1
<1>3. m <= k
  <2>1. SUFFICES ASSUME k <= m - 1 PROVE FALSE
    BY <1>1
  <2>2. m * k <= m * (m - 1) /\ m * (m - 1) = m * m - m /\ m * m <= 500 * 500
    BY <1>1, <2>1
  <2> QED BY <1>1, <1>2, <2>2
<1>4. 2 * (k * m) <= 2 * n + k /\ 2 * n + k < 2 * (k * m) + 2 * k
  BY <1>1, <1>2, <1>3
<1>5. k \in Nat \ {0}
  BY <1>1, <1>3
<1>6. Quotient(n, k) = m
  BY <1>4, <1>5, QuotientOnly
<1> QED
  BY <1>5, <1>6 DEF k

\* Brings the literal of the conversions into reach of the lemma above.
LEMMA MiredSurvives ==
  ASSUME NEW m \in 140 .. 500
  PROVE  /\ Quotient(1000000, m) \in Nat \ {0}
         /\ Quotient(1000000, Quotient(1000000, m)) = m
<1> DEFINE n == 1000000
<1>1. n \in Nat /\ 500 * 500 <= n
  BY SMT
<1>2. Quotient(n, m) \in Nat \ {0} /\ Quotient(n, Quotient(n, m)) = m
  <2> HIDE DEF n
  <2> QED BY <1>1, QuotientReturns
<1> QED
  BY <1>2, SMT

\* HomeKit shows 140 to 500 mired, whatever Yandex reports.
LEMMA MiredRange ==
  ASSUME NEW k \in Int
  PROVE  kelvinToMired(k) \in 140 .. 500
<1>1. CASE k <= 0
  BY <1>1, SMT DEF kelvinToMired
<1>2. CASE k > 0
  <2>1. Quotient(1000000, k) \in Nat
    BY <1>2, QuotientIs, SMT
  <2> QED BY <1>2, <2>1, SMT DEF kelvinToMired, Clamp
<1> QED BY <1>1, <1>2, SMT


\* Together: colour temperature agrees on every range.
LEMMA KelvinAlwaysAgrees ==
  ASSUME NEW r, r.min \in Int, r.max \in Int, r.min < r.max
  PROVE  KelvinAgrees(r)
<1> SUFFICES ASSUME NEW m \in kelvinToMired(r.max) .. kelvinToMired(r.min)
             PROVE  kelvinToMired(KelvinSent(r, m)) = m
  BY SMT DEF KelvinAgrees
<1>1. \A k \in Nat \ {0} : Quotient(1000000, k) \in Nat
  BY SMT, QuotientIs
<1>2. kelvinToMired(r.max) \in 140 .. 500 /\ kelvinToMired(r.min) \in 140 .. 500
  BY SMT, MiredRange
<1>3. m \in 140 .. 500 /\ kelvinToMired(r.max) <= m /\ m <= kelvinToMired(r.min)
  BY SMT, <1>2
<1> DEFINE k == Quotient(1000000, m)
<1>4. k \in Nat \ {0} /\ Quotient(1000000, k) = m
  BY SMT, <1>3, MiredSurvives
<1>5. KelvinSent(r, m) = Clamp(k, r.min, r.max)
  BY SMT DEF KelvinSent
<1> HIDE DEF k
<1>6. CASE k \in r.min .. r.max
  BY SMT, <1>3, <1>4, <1>5, <1>6 DEF Clamp, kelvinToMired
<1>7. CASE k > r.max
  <2>1. KelvinSent(r, m) = r.max
    BY SMT, <1>4, <1>5, <1>7 DEF Clamp
  <2>2. CASE r.max <= 0
    BY SMT, <1>3, <2>1, <2>2 DEF kelvinToMired
  <2>3. CASE r.max > 0
    <3>1. m <= Quotient(1000000, r.max) /\ Quotient(1000000, r.max) \in Nat
      BY SMT, <1>1, <1>4, <1>7, <2>3, QuotientFalls
    <3>2. kelvinToMired(r.max) >= m
      BY SMT, <1>3, <2>3, <3>1 DEF kelvinToMired, Clamp
    <3> QED BY SMT, <1>2, <1>3, <2>1, <3>2
  <2> QED BY SMT, <2>2, <2>3
<1>8. CASE k < r.min
  <2>1. KelvinSent(r, m) = r.min /\ r.min \in Nat \ {0}
    BY SMT, <1>4, <1>5, <1>8 DEF Clamp
  <2>2. Quotient(1000000, r.min) <= m /\ Quotient(1000000, r.min) \in Nat
    BY SMT, <1>1, <1>4, <1>8, <2>1, QuotientFalls
  <2>3. kelvinToMired(r.min) <= m
    BY SMT, <1>3, <2>1, <2>2 DEF kelvinToMired, Clamp
  <2> QED BY SMT, <1>2, <1>3, <2>1, <2>3
<1> QED BY SMT, <1>4, <1>6, <1>7, <1>8
-----------------------------------------------------------------------------
(* The fingerprint.                                                        *)

(* Two shapes with one fingerprint agree in every field but the order of    *)
(* their readings, of which only the set counts (ShapeHash, spec.go:131).   *)
LEMMA HashFields ==
  ASSUME NEW s, NEW t, ShapeHash(s) = ShapeHash(t)
  PROVE  /\ s.kind = t.kind /\ s.color = t.color
         /\ s.brightness = t.brightness /\ s.kelvin = t.kelvin /\ s.target = t.target
         /\ ToSet(s.sensors) = ToSet(t.sensors)
         /\ s.toggles = t.toggles
  BY DEF ShapeHash

(* BuildAccessory reads nothing the fingerprint leaves out, so equal         *)
(* fingerprints give equal services, in the same order and with the same     *)
(* limits, and the same conversions (spec.go:131-138, accessory.go:113-116). *)
LEMMA HashDeterminesLayout ==
  ASSUME NEW s, NEW t, ShapeHash(s) = ShapeHash(t)
  PROVE  /\ BuildAccessory(s) = BuildAccessory(t)
         /\ Converts(s) = Converts(t)
<1>1. addPrimaryService(s) = addPrimaryService(t)
  BY HashFields DEF addPrimaryService, LightbulbCharacteristics
<1>2. addSensorServices(ToSet(s.sensors)) = addSensorServices(ToSet(t.sensors))
  BY HashFields
<1>3. addToggleServices(s.toggles) = addToggleServices(t.toggles)
  BY HashFields
<1>4. Converts(s) = Converts(t)
  BY HashFields DEF Converts
<1> QED
  BY <1>1, <1>2, <1>3, <1>4 DEF BuildAccessory

(* As long as the fingerprint stays, what HomeKit has cached stays right:    *)
(* no poll can change the layout without changing the fingerprint.           *)
THEOREM ShapeFixesLayout == Spec => SameShapeSameLayout
<1>1. ASSUME ShapeHash(spec)' = ShapeHash(spec)
      PROVE  /\ BuildAccessory(spec)' = BuildAccessory(spec)
             /\ Converts(spec)' = Converts(spec)
  <2>1. ShapeHash(spec') = ShapeHash(spec)
    BY <1>1 DEF ShapeHash
  <2>2. /\ BuildAccessory(spec') = BuildAccessory(spec)
        /\ Converts(spec') = Converts(spec)
    BY <2>1, HashDeterminesLayout
  <2> QED
    BY <2>2
<1> QED
  BY <1>1, PTL DEF Spec, SameShapeSameLayout

-----------------------------------------------------------------------------
(* What is invariant: the lists hold what Yandex may report, nothing twice, *)
(* and spec is what BuildSpec makes of them.                                *)

NoRepeats(list) == \A i, j \in DOMAIN list : Same(list[i], list[j]) => i = j

MInv ==
  /\ override \in Overrides
  /\ device \in [type : Types, caps : Seq(Capabilities), props : Seq(Properties)]
  /\ NoRepeats(device.caps) /\ NoRepeats(device.props)
  /\ spec = BuildSpec(device, override)

\* What the steps do to a list.
LEMMA SwappedKeeps ==
  ASSUME NEW S, NEW list \in Seq(S), NoRepeats(list), NEW i \in 1 .. Len(list) - 1
  PROVE  /\ Swapped(list, i) \in Seq(S)
         /\ NoRepeats(Swapped(list, i))
         /\ ToSet(Swapped(list, i)) = ToSet(list)
<1> DEFINE new == Swapped(list, i)
           at(j) == IF j = i THEN i + 1 ELSE IF j = i + 1 THEN i ELSE j
<1>1. /\ i \in DOMAIN list /\ i + 1 \in DOMAIN list /\ i # i + 1
      /\ DOMAIN list = 1 .. Len(list) /\ Len(list) \in Nat
      /\ \A j \in DOMAIN list : list[j] \in S
  OBVIOUS
<1>2. DOMAIN new = DOMAIN list /\ \A j \in DOMAIN list : new[j] = list[at(j)]
  BY <1>1 DEF Swapped
<1>3. /\ \A j \in DOMAIN list : at(j) \in DOMAIN list /\ at(at(j)) = j
  BY <1>1
<1>4. new \in Seq(S)
  <2>1. new \in [1 .. Len(list) -> S]
    BY <1>1 DEF Swapped
  <2> QED BY <1>1, <2>1
<1> HIDE DEF at, new
<1>5. NoRepeats(new)
  BY <1>2, <1>3 DEF NoRepeats
<1>6. ToSet(new) = ToSet(list)
  BY <1>2, <1>3 DEF ToSet
<1> QED BY <1>4, <1>5, <1>6 DEF new

\* A new entry at the end makes no duplicate.
LEMMA AppendKeeps ==
  ASSUME NEW S, NEW list \in Seq(S), NoRepeats(list), NEW x \in S, New(list, x)
  PROVE  Append(list, x) \in Seq(S) /\ NoRepeats(Append(list, x))
BY DEF NoRepeats, New, Same

\* Where the second of two joined lists goes.
LEMMA SecondPart ==
  ASSUME NEW S, NEW a \in Seq(S), NEW b \in Seq(S), NEW k \in 1 .. Len(b)
  PROVE  (a \o b)[Len(a) + k] = b[k]
<1>1. /\ Len(a) \in Nat /\ Len(b) \in Nat
      /\ \A n \in Len(a) + 1 .. Len(a) + Len(b) : (a \o b)[n] = b[n - Len(a)]
  OBVIOUS
<1> DEFINE m == Len(a)
           l == Len(b)
<1> HIDE DEF m, l
<1>2. m + k \in m + 1 .. m + l /\ (m + k) - m = k
  BY <1>1 DEF m, l
<1> QED BY <1>1, <1>2 DEF m, l

\* Taking an entry away makes no duplicate.
LEMMA RemoveKeeps ==
  ASSUME NEW S, NEW list \in Seq(S), NoRepeats(list), NEW i \in DOMAIN list
  PROVE  RemoveAt(list, i) \in Seq(S) /\ NoRepeats(RemoveAt(list, i))
<1> DEFINE new == RemoveAt(list, i)
           at(j) == IF j < i THEN j ELSE j + 1
<1>1. /\ new \in Seq(S) /\ Len(new) = Len(list) - 1
      /\ \A j \in DOMAIN new : new[j] = list[at(j)]
  <2> DEFINE before == SubSeq(list, 1, i - 1)
             after == SubSeq(list, i + 1, Len(list))
  <2>1. before \in Seq(S) /\ Len(before) = i - 1 /\ \A j \in 1 .. i - 1 : before[j] = list[j]
    OBVIOUS
  <2>2. /\ after \in Seq(S) /\ Len(after) = Len(list) - i
        /\ \A j \in 1 .. Len(list) - i : after[j] = list[j + i]
    OBVIOUS
  <2>3. new = before \o after
    BY DEF RemoveAt
  <2> HIDE DEF before, after, new
  <2>4. new \in Seq(S) /\ Len(new) = Len(list) - 1 /\ DOMAIN new = 1 .. Len(list) - 1
    BY <2>1, <2>2, <2>3
  <2>5. ASSUME NEW j \in DOMAIN new
        PROVE  new[j] = list[at(j)]
    <3>1. CASE j < i
      BY <2>1, <2>2, <2>3, <2>4, <3>1
    <3>2. CASE j >= i
      <4> DEFINE k == j - (i - 1)
      <4>1. i \in 1 .. Len(list) /\ Len(list) \in Nat
        OBVIOUS
      <4>2. k \in 1 .. Len(list) - i /\ j = (i - 1) + k /\ k + i = j + 1
        BY <2>4, <3>2, <4>1
      <4> HIDE DEF k
      <4>3. new[(i - 1) + k] = after[k]
        <5>1. k \in 1 .. Len(after)
          BY <2>2, <4>2
        <5>2. (before \o after)[Len(before) + k] = after[k]
          BY <2>1, <2>2, <5>1, SecondPart
        <5> QED BY <2>1, <2>3, <5>2
      <4>4. after[k] = list[j + 1]
        BY <2>2, <4>2
      <4> QED BY <3>2, <4>1, <4>2, <4>3, <4>4
    <3> QED BY <2>4, <3>1, <3>2
  <2> QED BY <2>4, <2>5
<1>2. \A j \in DOMAIN new : at(j) \in DOMAIN list
  BY <1>1
<1>3. \A j, k \in DOMAIN new : at(j) = at(k) => j = k
  BY <1>1
<1> HIDE DEF at, new
<1>4. NoRepeats(new)
  BY <1>1, <1>2, <1>3 DEF NoRepeats
<1> QED BY <1>1, <1>4 DEF new

\* Nor does changing what an entry advertises.
LEMMA ChangeKeeps ==
  ASSUME NEW S, NEW list \in Seq(S), NoRepeats(list), NEW i \in DOMAIN list,
         NEW x \in S, Same(list[i], x)
  PROVE  [list EXCEPT ![i] = x] \in Seq(S) /\ NoRepeats([list EXCEPT ![i] = x])
<1>1. [list EXCEPT ![i] = x] \in Seq(S)
  <2>1. list \in [1 .. Len(list) -> S] /\ Len(list) \in Nat
    OBVIOUS
  <2>2. [list EXCEPT ![i] = x] \in [1 .. Len(list) -> S]
    BY <2>1
  <2> QED BY <2>1, <2>2
<1>2. NoRepeats([list EXCEPT ![i] = x])
  BY DEF NoRepeats, Same
<1> QED BY <1>1, <1>2

\* A device starts with empty lists.
LEMMA InitKeeps == Init => MInv
BY DEF Init, MInv, NoRepeats

\* A poll stores the lists and the spec built from them.
LEMMA PolledKeeps ==
  ASSUME MInv, NEW caps \in Seq(Capabilities), NEW props \in Seq(Properties),
         NoRepeats(caps), NoRepeats(props), Polled(caps, props)
  PROVE  MInv'
BY DEF MInv, Polled

\* Every step keeps the invariant.
LEMMA NextKeeps == MInv /\ [Next]_vars => MInv'
<1> SUFFICES ASSUME MInv, [Next]_vars PROVE MInv'
  OBVIOUS
<1>0. /\ device.caps \in Seq(Capabilities) /\ NoRepeats(device.caps)
      /\ device.props \in Seq(Properties) /\ NoRepeats(device.props)
  BY DEF MInv
<1>1. CASE Reordered
  <2>1. ASSUME NEW i \in 1 .. Len(device.caps) - 1,
               Polled(Swapped(device.caps, i), device.props)
        PROVE  MInv'
    <3>1. /\ Swapped(device.caps, i) \in Seq(Capabilities)
          /\ NoRepeats(Swapped(device.caps, i))
      BY <1>0, SwappedKeeps
    <3> QED BY <1>0, <2>1, <3>1, PolledKeeps
  <2>2. ASSUME NEW i \in 1 .. Len(device.props) - 1,
               Polled(device.caps, Swapped(device.props, i))
        PROVE  MInv'
    <3>1. /\ Swapped(device.props, i) \in Seq(Properties)
          /\ NoRepeats(Swapped(device.props, i))
      BY <1>0, SwappedKeeps
    <3> QED BY <1>0, <2>2, <3>1, PolledKeeps
  <2> QED BY <1>1, <2>1, <2>2 DEF Reordered
<1>2. ASSUME NEW c \in Capabilities, GainsCapability(c)
      PROVE  MInv'
  BY <1>0, <1>2, AppendKeeps, PolledKeeps DEF GainsCapability
<1>3. ASSUME NEW i \in DOMAIN device.caps, LosesCapability(i)
      PROVE  MInv'
  BY <1>0, <1>3, RemoveKeeps, PolledKeeps DEF LosesCapability
<1>4. ASSUME NEW i \in DOMAIN device.caps, NEW c \in Capabilities, ChangesCapability(i, c)
      PROVE  MInv'
  BY <1>0, <1>4, ChangeKeeps, PolledKeeps DEF ChangesCapability
<1>5. ASSUME NEW p \in Properties, GainsProperty(p)
      PROVE  MInv'
  BY <1>0, <1>5, AppendKeeps, PolledKeeps DEF GainsProperty
<1>6. ASSUME NEW i \in DOMAIN device.props, LosesProperty(i)
      PROVE  MInv'
  BY <1>0, <1>6, RemoveKeeps, PolledKeeps DEF LosesProperty
<1>7. CASE UNCHANGED vars
  BY <1>7 DEF vars, MInv
<1> QED
  BY <1>1, <1>2, <1>3, <1>4, <1>5, <1>6, <1>7 DEF Next

\* The lists and the spec belong together in every reachable state.
THEOREM Invariance == Spec => []MInv
BY InitKeeps, NextKeeps, PTL DEF Spec

-----------------------------------------------------------------------------
(* What BuildSpec finds.                                                    *)

\* First is an entry that matches.
LEMMA FirstIs ==
  ASSUME NEW S, NEW caps \in Seq(S), NEW type, NEW of, Offers(caps, type, of)
  PROVE  \E i \in DOMAIN caps : /\ First(caps, type, of) = caps[i]
                                /\ caps[i].type = type /\ caps[i].of = of
<1> DEFINE M == Matching(caps, type, of)
           first == CHOOSE i \in M : \A j \in M : i <= j
<1>1. M \subseteq Nat /\ M # {}
  BY DEF Offers, Matching
<1>2. \E i \in M : \A j \in M : i <= j
  <2> HIDE DEF M
  <2> QED BY <1>1, SmallestNat
<1>3. first \in M
  BY <1>2
<1>4. First(caps, type, of) = caps[first]
  BY DEF First
<1> HIDE DEF first
<1> QED BY <1>3, <1>4 DEF Matching

\* The spec of an exported device, field by field.
LEMMA SpecFields ==
  ASSUME NEW dev, NEW o, BuildSpec(dev, o).kind # "none"
  PROVE  LET s == BuildSpec(dev, o)
             kind == kindFor(dev, o)
             colour == colorFor(dev, o, kind)
         IN  /\ s.kind = kind
             /\ s.brightness = IF kind # "sensor" THEN brightnessFor(dev) ELSE NoSpan
             /\ s.color = colour.color /\ s.kelvin = colour.kelvin
             /\ s.target = IF kind = "thermostat" THEN targetTemperatureFor(dev) ELSE NoSpan
             /\ s.sensors = sensorsFor(dev, kind)
             /\ s.toggles = IF Expose THEN togglesFor(dev, o) ELSE <<>>
BY DEF BuildSpec, NoSpec

\* A device that becomes no accessory has the empty spec.
LEMMA NoSpecFields ==
  ASSUME NEW dev, NEW o, BuildSpec(dev, o).kind = "none"
  PROVE  BuildSpec(dev, o) = NoSpec
BY DEF BuildSpec

\* A kind with a control that turns things on has the capability for it, and a
\* thermostat a target (spec.go:247-311).
LEMMA KindIsBacked ==
  ASSUME NEW dev, NEW o, kindFor(dev, o) \notin {"none", "sensor"}
  PROVE  /\ HasCapability(dev, "on_off")
         /\ kindFor(dev, o) = "thermostat" => targetTemperatureFor(dev) # NoSpan
<1> DEFINE onOff == HasCapability(dev, "on_off")
           target == targetTemperatureFor(dev) # NoSpan
           asked == IF o.type = "auto" THEN "none" ELSE overrideKind(o.type, onOff, target)
<1>1. asked # "none" => onOff /\ (asked = "thermostat" => target)
  BY DEF overrideKind
<1>2. asked # "none" => kindFor(dev, o) = asked
  BY Zenon DEF kindFor
<1>3. asked = "none" /\ onOff /\ kindFor(dev, o) = "thermostat" => target
  BY Zenon DEF kindFor
<1>4. asked = "none" /\ ~onOff => kindFor(dev, o) \in {"none", "sensor"}
  BY Zenon DEF kindFor
<1> HIDE DEF asked, target, onOff
<1>5. onOff /\ (kindFor(dev, o) = "thermostat" => target)
  BY <1>1, <1>2, <1>3, <1>4
<1> QED BY <1>5 DEF onOff, target

\* Brightness comes from a capability of the device, and it spans something.
LEMMA BrightnessIs ==
  ASSUME NEW dev, dev.caps \in Seq(Capabilities), brightnessFor(dev) # NoSpan
  PROVE  /\ Offers(dev.caps, "range", "brightness")
         /\ brightnessFor(dev) \in Brightnesses
<1>1. Offers(dev.caps, "range", "brightness")
  BY DEF brightnessFor
<1> DEFINE c == First(dev.caps, "range", "brightness")
<1>2. c \in Capabilities /\ c.of = "brightness"
  BY <1>1, FirstIs
<1>3. brightnessFor(dev) = IF Usable(c.span) THEN [c.span EXCEPT !.step = 0]
                           ELSE [min |-> 0, max |-> 100, step |-> 0]
  BY <1>1 DEF brightnessFor
<1> HIDE DEF c
<1>4. brightnessFor(dev) \in Brightnesses
  BY <1>2, <1>3 DEF Brightnesses
<1> QED BY <1>1, <1>4

\* So does the target temperature.
LEMMA TargetIs ==
  ASSUME NEW dev, targetTemperatureFor(dev) # NoSpan
  PROVE  /\ Offers(dev.caps, "range", "temperature")
         /\ Usable(First(dev.caps, "range", "temperature").span)
BY DEF targetTemperatureFor

\* Colours come from the first colour setting of the device.
LEMMA ColorIs ==
  ASSUME NEW dev, NEW o, NEW kind
  PROVE  LET colour == colorFor(dev, o, kind)
             found  == Offers(dev.caps, "color_setting", "color")
             first  == First(dev.caps, "color_setting", "color")
         IN  /\ colour.color \in {"hsv", "temperature", "none"}
             /\ colour.color = "hsv" => found /\ first.hsv
             /\ colour.color = "temperature" =>
                  found /\ Usable(first.span) /\ colour.kelvin = first.span
BY DEF colorFor, ColorControl, Usable, NoSpan

-----------------------------------------------------------------------------
(* No drift.                                                                *)

\* The ranges that reach a conversion are not empty.
LEMMA SpansAreOrdered ==
  /\ \A r \in Brightnesses : r.min \in Int /\ r.max \in Int /\ r.min < r.max
  /\ \A r \in Kelvins : r.min \in Int /\ r.max \in Int /\ r.min < r.max
BY SpansAssumption DEF Brightnesses, Kelvins, Usable, Spans

\* Mapping keeps the results for its ranges in tables; they hold.
LEMMA ConversionsHold ==
  /\ \A r \in Brightnesses : BrightnessHolds[r]
  /\ \A r \in Kelvins : KelvinHolds[r]
<1>1. ASSUME NEW r \in Brightnesses
      PROVE  BrightnessHolds[r]
  <2>1. BrightnessHolds[r] = BrightnessAgrees(r)
    BY DEF BrightnessHolds
  <2>2. BrightnessAgrees(r)
    BY SpansAreOrdered, BrightnessAlwaysAgrees
  <2> QED BY <2>1, <2>2
<1>2. ASSUME NEW r \in Kelvins
      PROVE  KelvinHolds[r]
  <2>1. KelvinHolds[r] = KelvinAgrees(r)
    BY DEF KelvinHolds
  <2>2. KelvinAgrees(r)
    BY SpansAreOrdered, KelvinAlwaysAgrees
  <2> QED BY <2>1, <2>2
<1> QED BY <1>1, <1>2

\* Every range in a spec is one of those.
LEMMA InvNoDrift == MInv => NoDrift
<1> SUFFICES ASSUME MInv PROVE NoDrift
  OBVIOUS
<1>1. device.caps \in Seq(Capabilities) /\ spec = BuildSpec(device, override)
  BY DEF MInv
<1>2. ASSUME Converts(spec) # NoSpan
      PROVE  Converts(spec) \in Brightnesses
  <2>1. spec.kind = "lightbulb" /\ Converts(spec) = spec.brightness
    BY <1>2 DEF Converts
  <2>2. spec.brightness = brightnessFor(device)
    BY <1>1, <2>1, SpecFields
  <2> QED BY <1>1, <1>2, <2>1, <2>2, BrightnessIs
<1>3. ASSUME spec.color = "temperature"
      PROVE  spec.kelvin \in Kelvins
  <2>1. spec.kind # "none"
    BY <1>1, <1>3, NoSpecFields DEF NoSpec
  <2> DEFINE kind == kindFor(device, override)
             first == First(device.caps, "color_setting", "color")
  <2>2. spec.color = colorFor(device, override, kind).color
        /\ spec.kelvin = colorFor(device, override, kind).kelvin
    BY <1>1, <2>1, SpecFields
  <2>3. /\ Offers(device.caps, "color_setting", "color")
        /\ Usable(first.span) /\ spec.kelvin = first.span
    BY <1>3, <2>2, ColorIs
  <2>4. first \in Capabilities /\ first.of = "color"
    BY <1>1, <2>3, FirstIs
  <2> HIDE DEF first
  <2> QED BY <2>3, <2>4 DEF Kelvins
<1> QED BY <1>2, <1>3, ConversionsHold DEF NoDrift

\* accessory.go:1023-1026: whatever range Yandex advertises, a value shown and
\* sent back is shown as before and stays in the device's range, and every
\* mired the slider offers survives the way to the device and back.
THEOREM ControlsDoNotDrift == Spec => []NoDrift
BY Invariance, InvNoDrift, PTL

-----------------------------------------------------------------------------
(* The services of an accessory.                                            *)

\* A list has what its parts have.
LEMMA Concatenation ==
  ASSUME NEW A, NEW a \in Seq(A), NEW B, NEW b \in Seq(B)
  PROVE  ToSet(a \o b) = ToSet(a) \cup ToSet(b)
<1>1. /\ DOMAIN a = 1 .. Len(a) /\ DOMAIN b = 1 .. Len(b)
      /\ Len(a) \in Nat /\ Len(b) \in Nat
      /\ DOMAIN (a \o b) = 1 .. Len(a) + Len(b)
      /\ \A i \in 1 .. Len(a) : (a \o b)[i] = a[i]
      /\ \A i \in Len(a) + 1 .. Len(a) + Len(b) : (a \o b)[i] = b[i - Len(a)]
  OBVIOUS
<1> DEFINE ab == a \o b
           m == Len(a)
           n == Len(b)
<1> HIDE DEF ab, m, n
<1>2. ToSet(ab) \subseteq ToSet(a) \cup ToSet(b)
  <2> SUFFICES ASSUME NEW i \in DOMAIN ab PROVE ab[i] \in ToSet(a) \cup ToSet(b)
    BY DEF ToSet
  <2>1. CASE i \in 1 .. m
    BY <1>1, <2>1 DEF ab, m, ToSet
  <2>2. CASE i \notin 1 .. m
    <3>1. i \in m + 1 .. m + n /\ i - m \in 1 .. n
      BY <1>1, <2>2 DEF ab, m, n
    <3> QED BY <1>1, <3>1 DEF ab, m, n, ToSet
  <2> QED BY <2>1, <2>2
<1>3. ToSet(a) \subseteq ToSet(ab)
  <2> SUFFICES ASSUME NEW i \in 1 .. m PROVE a[i] \in ToSet(ab)
    BY <1>1 DEF ToSet, m
  <2>1. i \in DOMAIN ab /\ ab[i] = a[i]
    BY <1>1 DEF ab, m
  <2> QED BY <2>1 DEF ToSet
<1>4. ToSet(b) \subseteq ToSet(ab)
  <2> SUFFICES ASSUME NEW i \in 1 .. n PROVE b[i] \in ToSet(ab)
    BY <1>1 DEF ToSet, n
  <2>1. m + i \in m + 1 .. m + n /\ (m + i) - m = i
    BY <1>1 DEF m, n
  <2>2. m + i \in DOMAIN ab /\ ab[m + i] = b[i]
    BY <1>1, <2>1 DEF ab, m, n
  <2> QED BY <2>2 DEF ToSet
<1> QED BY <1>2, <1>3, <1>4 DEF ab

SensorKinds == {"temperature", "humidity", "battery", "motion", "contact", "leak", "smoke", "gas"}

\* SensorOrder lists every sensor.
LEMMA SensorOrderIs == SensorOrder \in Seq(SensorKinds) /\ ToSet(SensorOrder) = SensorKinds
<1>1. SensorOrder \in Seq(SensorKinds) /\ DOMAIN SensorOrder = 1 .. 8
  BY DEF SensorOrder, SensorKinds
<1>2. /\ SensorOrder[1] = "temperature" /\ SensorOrder[2] = "humidity"
      /\ SensorOrder[3] = "battery" /\ SensorOrder[4] = "motion"
      /\ SensorOrder[5] = "contact" /\ SensorOrder[6] = "leak"
      /\ SensorOrder[7] = "smoke" /\ SensorOrder[8] = "gas"
  BY DEF SensorOrder
<1>3. ToSet(SensorOrder) \subseteq SensorKinds
  <2>1. \A i \in DOMAIN SensorOrder : SensorOrder[i] \in SensorKinds
    BY <1>1, <1>2 DEF SensorKinds
  <2> QED BY <2>1 DEF ToSet
<1>4. SensorKinds \subseteq ToSet(SensorOrder)
  BY <1>1, <1>2 DEF ToSet, SensorKinds
<1> QED BY <1>1, <1>3, <1>4

SensorServices(readings) ==
  {Service("sensor", <<k>>, NoSpan, k) : k \in SensorKinds \cap readings}

\* addSensorServices makes one service for each reading, and no other.
LEMMA SensorsAre ==
  ASSUME NEW readings
  PROVE  /\ addSensorServices(readings) \in Seq(SensorServices(readings))
         /\ ToSet(addSensorServices(readings)) = SensorServices(readings)
<1> DEFINE shown == Only(SensorOrder, readings)
           service(k) == Service("sensor", <<k>>, NoSpan, k)
<1>1. shown \in Seq(SensorKinds) /\ ToSet(shown) = SensorKinds \cap readings
  BY SensorOrderIs, OnlyIs
<1>2. addSensorServices(readings) = [i \in DOMAIN shown |-> service(shown[i])]
  BY DEF addSensorServices
<1>3. SensorServices(readings) = {service(k) : k \in ToSet(shown)}
  BY <1>1 DEF SensorServices
<1> HIDE DEF shown, service
<1>4. DOMAIN shown = 1 .. Len(shown) /\ Len(shown) \in Nat
  BY <1>1
<1>5. ToSet(addSensorServices(readings)) = {service(k) : k \in ToSet(shown)}
  BY <1>2 DEF ToSet
<1>6. addSensorServices(readings) \in Seq({service(k) : k \in ToSet(shown)})
  BY <1>2, <1>4 DEF ToSet
<1> QED BY <1>3, <1>5, <1>6

ToggleServices(toggles) ==
  {Service("toggle", <<"Name", "On">>, NoSpan, t) : t \in ToSet(toggles)}

\* addToggleServices makes one for each toggle.
LEMMA TogglesAre ==
  ASSUME NEW toggles, toggles \in Seq(STRING)
  PROVE  /\ addToggleServices(toggles) \in Seq(ToggleServices(toggles))
         /\ ToSet(addToggleServices(toggles)) = ToggleServices(toggles)
<1> DEFINE service(t) == Service("toggle", <<"Name", "On">>, NoSpan, t)
<1>1. addToggleServices(toggles) = [i \in DOMAIN toggles |-> service(toggles[i])]
  BY DEF addToggleServices
<1>2. ToggleServices(toggles) = {service(t) : t \in ToSet(toggles)}
  BY DEF ToggleServices
<1> HIDE DEF service
<1>3. DOMAIN toggles = 1 .. Len(toggles) /\ Len(toggles) \in Nat
  OBVIOUS
<1>4. ToSet(addToggleServices(toggles)) = {service(t) : t \in ToSet(toggles)}
  BY <1>1 DEF ToSet
<1>5. addToggleServices(toggles) \in Seq({service(t) : t \in ToSet(toggles)})
  BY <1>1, <1>3 DEF ToSet
<1> QED BY <1>2, <1>4, <1>5

\* The switches are those of toggles the device has.
LEMMA TogglesForIs ==
  ASSUME NEW dev, NEW o
  PROVE  /\ togglesFor(dev, o) \in Seq(STRING)
         /\ \A t \in ToSet(togglesFor(dev, o)) : Offers(dev.caps, "toggle", t)
BY TogglesAssumption, OnlyIs DEF togglesFor

\* A list of one.
LEMMA Singleton ==
  ASSUME NEW x
  PROVE  <<x>> \in Seq({x}) /\ ToSet(<<x>>) = {x}
BY DEF ToSet

\* The empty list.
LEMMA Nothing ==
  ASSUME NEW S
  PROVE  <<>> \in Seq(S) /\ ToSet(<<>>) = {}
BY DEF ToSet

\* The characteristics of the primary service, for each kind that has one.
Bulb(s) ==
  Service("Lightbulb", LightbulbCharacteristics(s),
          IF s.color = "temperature" THEN Mireds(s.kelvin) ELSE NoSpan, "")

Heater(s) ==
  Service("Thermostat",
          <<"TargetHeatingCoolingState", "CurrentTemperature", "TargetTemperature">>,
          s.target, "")

Simple == {"outlet", "switch", "fan"}

\* The primary service, kind by kind.
LEMMA PrimaryIs ==
  ASSUME NEW s
  PROVE  /\ s.kind = "lightbulb" => addPrimaryService(s) = <<Bulb(s)>>
         /\ s.kind = "thermostat" => addPrimaryService(s) = <<Heater(s)>>
         /\ s.kind \in Simple => addPrimaryService(s) = <<Service(s.kind, <<"On">>, NoSpan, "")>>
         /\ s.kind \notin Simple \cup {"lightbulb", "thermostat"} => addPrimaryService(s) = <<>>
<1>1. ASSUME s.kind = "lightbulb"
      PROVE  addPrimaryService(s) = <<Bulb(s)>>
  BY <1>1, Zenon DEF addPrimaryService, Bulb
<1>2. ASSUME s.kind = "thermostat"
      PROVE  addPrimaryService(s) = <<Heater(s)>>
  BY <1>2, Zenon DEF addPrimaryService, Heater
<1>3. ASSUME s.kind \in Simple
      PROVE  addPrimaryService(s) = <<Service(s.kind, <<"On">>, NoSpan, "")>>
  <2>1. s.kind # "lightbulb" /\ s.kind # "thermostat"
    BY <1>3 DEF Simple
  <2> QED BY <1>3, <2>1, Zenon DEF addPrimaryService, Simple
<1>4. ASSUME s.kind \notin Simple \cup {"lightbulb", "thermostat"}
      PROVE  addPrimaryService(s) = <<>>
  <2>1. s.kind # "lightbulb" /\ s.kind # "thermostat" /\ s.kind \notin Simple
    BY <1>4
  <2> QED BY <2>1, Zenon DEF addPrimaryService, Simple
<1> QED BY <1>1, <1>2, <1>3, <1>4

\* addPrimaryService returns a list in every case.
LEMMA PrimaryIsAList ==
  ASSUME NEW s
  PROVE  addPrimaryService(s) \in Seq(ToSet(addPrimaryService(s)))
<1>1. \E x : addPrimaryService(s) = <<x>> \/ addPrimaryService(s) = <<>>
  BY PrimaryIs
<1> QED BY <1>1, Singleton, Nothing

\* Only a lightbulb has more than a fixed list of characteristics.
LEMMA BulbCharacteristics ==
  ASSUME NEW s
  PROVE  ToSet(LightbulbCharacteristics(s)) =
           {"On"} \cup (IF s.brightness # NoSpan THEN {"Brightness"} ELSE {})
             \cup (IF s.color = "hsv" THEN {"Saturation", "Hue"} ELSE {})
             \cup (IF s.color = "temperature" THEN {"ColorTemperature"} ELSE {})
<1> DEFINE a == <<"On">>
           b == IF s.brightness # NoSpan THEN <<"Brightness">> ELSE <<>>
           c == CASE s.color = "hsv" -> <<"Saturation", "Hue">>
                  [] s.color = "temperature" -> <<"ColorTemperature">>
                  [] OTHER -> <<>>
           Names == {"On", "Brightness", "Saturation", "Hue", "ColorTemperature"}
<1>1. a \in Seq(Names) /\ ToSet(a) = {"On"}
  BY DEF ToSet
<1>2. b \in Seq(Names) /\ ToSet(b) = IF s.brightness # NoSpan THEN {"Brightness"} ELSE {}
  <2>1. <<"Brightness">> \in Seq(Names) /\ ToSet(<<"Brightness">>) = {"Brightness"}
    BY DEF ToSet
  <2>2. <<>> \in Seq(Names) /\ ToSet(<<>>) = {}
    BY DEF ToSet
  <2> QED BY <2>1, <2>2
<1>3. c = IF s.color = "hsv" THEN <<"Saturation", "Hue">>
          ELSE IF s.color = "temperature" THEN <<"ColorTemperature">> ELSE <<>>
  <2>1. ASSUME s.color = "hsv" PROVE c = <<"Saturation", "Hue">>
    <3>1. s.color # "temperature"
      BY <2>1
    <3> QED BY <2>1, <3>1, Zenon
  <2>2. ASSUME s.color = "temperature" PROVE c = <<"ColorTemperature">>
    <3>1. s.color # "hsv"
      BY <2>2
    <3> QED BY <2>2, <3>1, Zenon
  <2>3. ASSUME s.color # "temperature", s.color # "hsv" PROVE c = <<>>
    BY <2>3, Zenon
  <2> HIDE DEF c
  <2> QED BY <2>1, <2>2, <2>3
<1>4. /\ <<"Saturation", "Hue">> \in Seq(Names)
      /\ ToSet(<<"Saturation", "Hue">>) = {"Saturation", "Hue"}
  BY DEF ToSet
<1>5. /\ <<"ColorTemperature">> \in Seq(Names)
      /\ ToSet(<<"ColorTemperature">>) = {"ColorTemperature"}
  BY DEF ToSet
<1> HIDE DEF c, Names
<1>9. /\ c \in Seq(Names)
      /\ ToSet(c) = (IF s.color = "hsv" THEN {"Saturation", "Hue"} ELSE {})
                      \cup (IF s.color = "temperature" THEN {"ColorTemperature"} ELSE {})
  BY <1>3, <1>4, <1>5, Nothing
<1>6. LightbulbCharacteristics(s) = a \o b \o c
  BY DEF LightbulbCharacteristics, c
<1> HIDE DEF a, b
<1>7. a \o b \in Seq(Names)
  BY <1>1, <1>2
<1>8. ToSet(a \o b) = ToSet(a) \cup ToSet(b)
  BY <1>1, <1>2, Concatenation
<1>10. ToSet((a \o b) \o c) = ToSet(a \o b) \cup ToSet(c)
  BY <1>7, <1>9, Concatenation
<1> QED BY <1>1, <1>2, <1>6, <1>8, <1>9, <1>10

\* All the services of an accessory.
LEMMA ServicesAre ==
  ASSUME NEW s, s.toggles \in Seq(STRING)
  PROVE  ToSet(BuildAccessory(s)) =
           ToSet(addPrimaryService(s)) \cup SensorServices(ToSet(s.sensors))
             \cup ToggleServices(s.toggles)
<1> DEFINE a == addPrimaryService(s)
           b == addSensorServices(ToSet(s.sensors))
           c == addToggleServices(s.toggles)
           B == SensorServices(ToSet(s.sensors))
           C == ToggleServices(s.toggles)
<1>1. a \in Seq(ToSet(a))
  BY PrimaryIsAList
<1>2. b \in Seq(B) /\ ToSet(b) = B
  BY SensorsAre
<1>3. c \in Seq(C) /\ ToSet(c) = C
  BY TogglesAre
<1>4. BuildAccessory(s) = a \o b \o c
  BY DEF BuildAccessory
<1> HIDE DEF a, b, c, B, C
<1>5. a \o b \in Seq(ToSet(a) \cup B)
  BY <1>1, <1>2
<1>6. ToSet(a \o b) = ToSet(a) \cup ToSet(b)
  BY <1>1, <1>2, Concatenation
<1>7. ToSet((a \o b) \o c) = ToSet(a \o b) \cup ToSet(c)
  BY <1>3, <1>5, Concatenation
<1> QED BY <1>2, <1>3, <1>4, <1>6, <1>7 DEF a, B, C

-----------------------------------------------------------------------------
(* No dead control.                                                         *)

\* What suffices for a characteristic of a service that is not a toggle's.
LEMMA BackedIf ==
  ASSUME NEW service, NEW char, service.service # "toggle",
         char \in {"On", "TargetHeatingCoolingState"} => HasCapability(device, "on_off"),
         char = "Brightness" => Offers(device.caps, "range", "brightness"),
         char = "TargetTemperature" =>
           /\ Offers(device.caps, "range", "temperature")
           /\ Usable(First(device.caps, "range", "temperature").span),
         char \in {"Hue", "Saturation"} =>
           /\ Offers(device.caps, "color_setting", "color")
           /\ First(device.caps, "color_setting", "color").hsv,
         char = "ColorTemperature" =>
           /\ Offers(device.caps, "color_setting", "color")
           /\ Usable(First(device.caps, "color_setting", "color").span)
  PROVE  Backed(service, char)
<1>1. CASE char \in {"On", "TargetHeatingCoolingState"}
  <2>1. /\ char # "Brightness" /\ char # "TargetTemperature"
        /\ char \notin {"Hue", "Saturation"} /\ char # "ColorTemperature"
    BY <1>1
  <2> QED BY <1>1, <2>1, Zenon DEF Backed
<1>2. CASE char = "Brightness"
  <2>1. /\ char \notin {"On", "TargetHeatingCoolingState"} /\ char # "TargetTemperature"
        /\ char \notin {"Hue", "Saturation"} /\ char # "ColorTemperature"
    BY <1>2
  <2> QED BY <1>2, <2>1, Zenon DEF Backed
<1>3. CASE char = "TargetTemperature"
  <2>1. /\ char \notin {"On", "TargetHeatingCoolingState"} /\ char # "Brightness"
        /\ char \notin {"Hue", "Saturation"} /\ char # "ColorTemperature"
    BY <1>3
  <2> QED BY <1>3, <2>1, Zenon DEF Backed
<1>4. CASE char \in {"Hue", "Saturation"}
  <2>1. /\ char \notin {"On", "TargetHeatingCoolingState"} /\ char # "Brightness"
        /\ char # "TargetTemperature" /\ char # "ColorTemperature"
    BY <1>4
  <2> QED BY <1>4, <2>1, Zenon DEF Backed
<1>5. CASE char = "ColorTemperature"
  <2>1. /\ char \notin {"On", "TargetHeatingCoolingState"} /\ char # "Brightness"
        /\ char # "TargetTemperature" /\ char \notin {"Hue", "Saturation"}
    BY <1>5
  <2> QED BY <1>5, <2>1, Zenon DEF Backed
<1>6. CASE /\ char \notin {"On", "TargetHeatingCoolingState"} /\ char # "Brightness"
           /\ char # "TargetTemperature" /\ char \notin {"Hue", "Saturation"}
           /\ char # "ColorTemperature"
  BY <1>6, Zenon DEF Backed
<1> QED BY <1>1, <1>2, <1>3, <1>4, <1>5, <1>6

\* A toggle switch is backed by the capability it is named after.
LEMMA ToggleBacked ==
  ASSUME NEW service, NEW char, service.service = "toggle",
         Offers(device.caps, "toggle", service.label)
  PROVE  Backed(service, char)
BY Zenon DEF Backed

\* The toggles of a spec are those of its device.
LEMMA SpecTogglesAre ==
  ASSUME MInv
  PROVE  /\ spec.toggles \in Seq(STRING)
         /\ \A t \in ToSet(spec.toggles) : Offers(device.caps, "toggle", t)
<1>1. spec = BuildSpec(device, override)
  BY DEF MInv
<1>2. <<>> \in Seq(STRING) /\ ToSet(<<>>) = {}
  BY DEF ToSet
<1>3. CASE spec.kind = "none"
  <2>1. spec.toggles = <<>>
    BY <1>1, <1>3, NoSpecFields DEF NoSpec
  <2> QED BY <1>2, <2>1
<1>4. CASE spec.kind # "none"
  <2>1. spec.toggles = IF Expose THEN togglesFor(device, override) ELSE <<>>
    BY <1>1, <1>4, SpecFields
  <2> QED BY <1>2, <2>1, TogglesForIs
<1> QED BY <1>3, <1>4

\* Every characteristic of the primary service is backed.
LEMMA PrimaryBacked ==
  ASSUME MInv, NEW service \in ToSet(addPrimaryService(spec)), NEW char \in ToSet(service.chars)
  PROVE  Backed(service, char)
<1>1. spec = BuildSpec(device, override) /\ device.caps \in Seq(Capabilities)
  BY DEF MInv
<1>2. spec.kind \in Simple \cup {"lightbulb", "thermostat"}
  <2>1. addPrimaryService(spec) # <<>>
    BY Nothing
  <2> QED BY <2>1, PrimaryIs
<1>3. spec.kind \notin {"none", "sensor"}
  BY <1>2 DEF Simple
<1> DEFINE kind == kindFor(device, override)
<1>4. /\ spec.kind = kind
      /\ spec.brightness = brightnessFor(device)
      /\ spec.color = colorFor(device, override, kind).color
      /\ spec.target = IF kind = "thermostat" THEN targetTemperatureFor(device) ELSE NoSpan
  BY <1>1, <1>3, SpecFields
<1>5. /\ HasCapability(device, "on_off")
      /\ kind = "thermostat" => targetTemperatureFor(device) # NoSpan
  BY <1>3, <1>4, KindIsBacked
<1> HIDE DEF kind
<1>6. CASE spec.kind \in Simple
  <2>1. addPrimaryService(spec) = <<Service(spec.kind, <<"On">>, NoSpan, "")>>
    BY <1>6, PrimaryIs
  <2>2. service = Service(spec.kind, <<"On">>, NoSpan, "")
    BY <2>1, Singleton
  <2>3. service.service = spec.kind /\ service.chars = <<"On">>
    BY <2>2 DEF Service
  <2>4. service.service # "toggle" /\ char = "On"
    BY <1>6, <2>3, Singleton DEF Simple
  <2> QED BY <1>5, <2>4, BackedIf
<1>7. CASE spec.kind = "thermostat"
  <2>1. addPrimaryService(spec) = <<Heater(spec)>>
    BY <1>7, PrimaryIs
  <2>2. service = Heater(spec)
    BY <2>1, Singleton
  <2>3. /\ service.service # "toggle"
        /\ char \in {"TargetHeatingCoolingState", "CurrentTemperature", "TargetTemperature"}
    <3>1. /\ service.service = "Thermostat"
          /\ service.chars =
               <<"TargetHeatingCoolingState", "CurrentTemperature", "TargetTemperature">>
      BY <2>2 DEF Heater, Service
    <3> QED BY <3>1 DEF ToSet
  <2>4. /\ Offers(device.caps, "range", "temperature")
        /\ Usable(First(device.caps, "range", "temperature").span)
    BY <1>4, <1>5, <1>7, TargetIs
  <2> QED BY <1>5, <2>3, <2>4, BackedIf
<1>8. CASE spec.kind = "lightbulb"
  <2>1. addPrimaryService(spec) = <<Bulb(spec)>>
    BY <1>8, PrimaryIs
  <2>2. service = Bulb(spec)
    BY <2>1, Singleton
  <2>3. service.service # "toggle" /\ char \in ToSet(LightbulbCharacteristics(spec))
    BY <2>2 DEF Bulb, Service
  <2>4. /\ char \in {"On", "Brightness", "Saturation", "Hue", "ColorTemperature"}
        /\ char = "Brightness" => spec.brightness # NoSpan
        /\ char \in {"Saturation", "Hue"} => spec.color = "hsv"
        /\ char = "ColorTemperature" => spec.color = "temperature"
    BY <2>3, BulbCharacteristics
  <2>5. char = "Brightness" => Offers(device.caps, "range", "brightness")
    BY <1>1, <1>4, <2>4, BrightnessIs
  <2>6. char \in {"Hue", "Saturation"} =>
          /\ Offers(device.caps, "color_setting", "color")
          /\ First(device.caps, "color_setting", "color").hsv
    BY <1>4, <2>4, ColorIs
  <2>7. char = "ColorTemperature" =>
          /\ Offers(device.caps, "color_setting", "color")
          /\ Usable(First(device.caps, "color_setting", "color").span)
    BY <1>4, <2>4, ColorIs
  <2> QED BY <1>5, <2>3, <2>4, <2>5, <2>6, <2>7, BackedIf
<1> QED BY <1>2, <1>6, <1>7, <1>8

\* Every control, service by service.
LEMMA InvNoDeadControl == MInv => NoDeadControl
<1> SUFFICES ASSUME MInv,
                    NEW service \in ToSet(BuildAccessory(spec)),
                    NEW char \in ToSet(service.chars)
             PROVE  Backed(service, char)
  BY DEF NoDeadControl, ToSet
<1>1. /\ spec.toggles \in Seq(STRING)
      /\ \A t \in ToSet(spec.toggles) : Offers(device.caps, "toggle", t)
  BY SpecTogglesAre
<1>2. \/ service \in ToSet(addPrimaryService(spec))
      \/ service \in SensorServices(ToSet(spec.sensors))
      \/ service \in ToggleServices(spec.toggles)
  BY <1>1, ServicesAre
<1>3. CASE service \in ToSet(addPrimaryService(spec))
  BY <1>3, PrimaryBacked
<1>4. CASE service \in SensorServices(ToSet(spec.sensors))
  <2>1. PICK k \in SensorKinds : service = Service("sensor", <<k>>, NoSpan, k)
    BY <1>4 DEF SensorServices
  <2>2. service.service = "sensor" /\ char = k
    BY <2>1 DEF Service, ToSet
  <2> QED BY <2>2, BackedIf DEF SensorKinds
<1>5. CASE service \in ToggleServices(spec.toggles)
  <2>1. PICK t \in ToSet(spec.toggles) :
               service = Service("toggle", <<"Name", "On">>, NoSpan, t)
    BY <1>5 DEF ToggleServices
  <2>2. service.service = "toggle" /\ service.label = t
    BY <2>1 DEF Service
  <2> QED BY <1>1, <2>2, ToggleBacked
<1> QED BY <1>2, <1>3, <1>4, <1>5

\* spec.go:250-252: whatever its type says and whatever the config asks for, no
\* accessory has a control that nothing on the device answers to.
THEOREM EveryControlIsBacked == Spec => []NoDeadControl
BY Invariance, InvNoDeadControl, PTL

-----------------------------------------------------------------------------
(* No reading is lost.                                                      *)

NumericSet(dev, temperature) ==
  (IF temperature /\ Reports(dev, "float", "temperature") THEN {"temperature"} ELSE {})
    \cup (IF Reports(dev, "float", "humidity") THEN {"humidity"} ELSE {})
    \cup (IF Reports(dev, "float", "battery_level") \/ Reports(dev, "event", "battery_level")
          THEN {"battery"} ELSE {})

EventSet(dev) ==
  {EventSensors[p.of] :
     p \in {q \in ToSet(dev.props) : q.type = "event" /\ q.of \in DOMAIN EventSensors}}

\* The readings of the float properties, as a set.
LEMMA NumericReadingsAre ==
  ASSUME NEW dev, NEW temperature
  PROVE  /\ NumericReadings(dev, temperature) \in Seq(SensorKinds)
         /\ ToSet(NumericReadings(dev, temperature)) = NumericSet(dev, temperature)
<1> DEFINE If(shown, k) == IF shown THEN <<k>> ELSE <<>>
           a == If(temperature /\ Reports(dev, "float", "temperature"), "temperature")
           b == If(Reports(dev, "float", "humidity"), "humidity")
           c == If(\/ Reports(dev, "float", "battery_level")
                   \/ Reports(dev, "event", "battery_level"), "battery")
<1>1. <<>> \in Seq(SensorKinds) /\ ToSet(<<>>) = {}
  BY DEF ToSet
<1>2. ASSUME NEW k \in SensorKinds
      PROVE  <<k>> \in Seq(SensorKinds) /\ ToSet(<<k>>) = {k}
  <2>1. ToSet(<<k>>) = {k}
    BY Singleton
  <2> QED BY <2>1
<1>3. /\ a \in Seq(SensorKinds)
      /\ ToSet(a) = IF temperature /\ Reports(dev, "float", "temperature")
                    THEN {"temperature"} ELSE {}
  <2>1. "temperature" \in SensorKinds
    BY DEF SensorKinds
  <2> QED BY <1>1, <1>2, <2>1
<1>4. /\ b \in Seq(SensorKinds)
      /\ ToSet(b) = IF Reports(dev, "float", "humidity") THEN {"humidity"} ELSE {}
  <2>1. "humidity" \in SensorKinds
    BY DEF SensorKinds
  <2> QED BY <1>1, <1>2, <2>1
<1>5. /\ c \in Seq(SensorKinds)
      /\ ToSet(c) = IF \/ Reports(dev, "float", "battery_level")
                       \/ Reports(dev, "event", "battery_level")
                    THEN {"battery"} ELSE {}
  <2>1. "battery" \in SensorKinds
    BY DEF SensorKinds
  <2> QED BY <1>1, <1>2, <2>1
<1>6. NumericReadings(dev, temperature) = a \o b \o c
  BY DEF NumericReadings
<1> HIDE DEF a, b, c
<1>7. a \o b \in Seq(SensorKinds) /\ (a \o b) \o c \in Seq(SensorKinds)
  BY <1>3, <1>4, <1>5
<1>8. ToSet(a \o b) = ToSet(a) \cup ToSet(b)
  BY <1>3, <1>4, Concatenation
<1>9. ToSet((a \o b) \o c) = ToSet(a \o b) \cup ToSet(c)
  BY <1>5, <1>7, Concatenation
<1> QED BY <1>3, <1>4, <1>5, <1>6, <1>7, <1>8, <1>9 DEF NumericSet

\* The readings of the event properties, as a set.
LEMMA EventReadingsAre ==
  ASSUME NEW dev, dev.props \in Seq(Properties)
  PROVE  /\ EventReadings(dev) \in Seq(SensorKinds)
         /\ ToSet(EventReadings(dev)) = EventSet(dev)
<1> DEFINE known == {p \in ToSet(dev.props) : p.type = "event" /\ p.of \in DOMAIN EventSensors}
           events == Only(dev.props, known)
<1>1. events \in Seq(Properties) /\ ToSet(events) = ToSet(dev.props) \cap known
  BY OnlyIs
<1>2. ToSet(events) = known
  BY <1>1
<1>3. EventReadings(dev) = [i \in DOMAIN events |-> EventSensors[events[i].of]]
  BY DEF EventReadings
<1>4. \A p \in known : EventSensors[p.of] \in SensorKinds
  BY DEF EventSensors, SensorKinds
<1>5. EventSet(dev) = {EventSensors[p.of] : p \in known}
  BY DEF EventSet
<1> HIDE DEF events, known
<1>6. DOMAIN events = 1 .. Len(events) /\ Len(events) \in Nat
  BY <1>1
<1>7. \A i \in DOMAIN events : events[i] \in known
  BY <1>2 DEF ToSet
<1>8. EventReadings(dev) \in Seq(SensorKinds)
  <2>1. EventReadings(dev) \in [1 .. Len(events) -> SensorKinds]
    BY <1>3, <1>4, <1>6, <1>7
  <2> QED BY <1>6, <2>1
<1>9. ToSet(EventReadings(dev)) = {EventSensors[p.of] : p \in ToSet(events)}
  BY <1>3 DEF ToSet
<1> QED BY <1>2, <1>5, <1>8, <1>9

\* The readings of a device, whatever order they were found in.
LEMMA SensorsForIs ==
  ASSUME NEW dev, dev.props \in Seq(Properties), NEW kind
  PROVE  /\ sensorsFor(dev, kind) \in Seq(SensorKinds)
         /\ ToSet(sensorsFor(dev, kind)) =
              NumericSet(dev, kind # "thermostat") \cup EventSet(dev)
<1> DEFINE a == NumericReadings(dev, kind # "thermostat")
           b == EventReadings(dev)
<1>1. a \in Seq(SensorKinds) /\ ToSet(a) = NumericSet(dev, kind # "thermostat")
  BY NumericReadingsAre
<1>2. b \in Seq(SensorKinds) /\ ToSet(b) = EventSet(dev)
  BY EventReadingsAre
<1>3. sensorsFor(dev, kind) = a \o b
  BY DEF sensorsFor
<1> HIDE DEF a, b
<1>4. a \o b \in Seq(SensorKinds)
  BY <1>1, <1>2
<1>5. ToSet(a \o b) = ToSet(a) \cup ToSet(b)
  BY <1>1, <1>2, Concatenation
<1> QED BY <1>1, <1>2, <1>3, <1>4, <1>5

\* A reading of the spec has a service of its own.
LEMMA SensorIsShown ==
  ASSUME MInv, NEW k \in SensorKinds \cap ToSet(spec.sensors)
  PROVE  k \in Characteristics(spec)
<1> DEFINE service == Service("sensor", <<k>>, NoSpan, k)
<1>1. service \in SensorServices(ToSet(spec.sensors))
  BY DEF SensorServices
<1>2. spec.toggles \in Seq(STRING)
  BY SpecTogglesAre
<1>3. service \in ToSet(BuildAccessory(spec))
  BY <1>1, <1>2, ServicesAre
<1>4. ToSet(service.chars) = {k}
  BY Singleton DEF Service
<1> HIDE DEF service
<1> QED BY <1>3, <1>4 DEF Characteristics, ToSet

\* A thermostat shows the temperature itself (spec.go:452).
LEMMA ThermostatShowsTemperature ==
  ASSUME MInv, spec.kind = "thermostat"
  PROVE  "CurrentTemperature" \in Characteristics(spec)
<1> DEFINE service == Heater(spec)
<1>1. service \in ToSet(addPrimaryService(spec))
  <2>1. addPrimaryService(spec) = <<service>>
    BY PrimaryIs
  <2> HIDE DEF service
  <2> QED BY <2>1, Singleton
<1>2. spec.toggles \in Seq(STRING)
  BY SpecTogglesAre
<1>3. service \in ToSet(BuildAccessory(spec))
  BY <1>1, <1>2, ServicesAre
<1>4. service.chars =
        <<"TargetHeatingCoolingState", "CurrentTemperature", "TargetTemperature">>
  BY DEF Heater, Service
<1>5. "CurrentTemperature" \in ToSet(service.chars)
  BY <1>4 DEF ToSet
<1> HIDE DEF service
<1> QED BY <1>3, <1>5 DEF Characteristics, ToSet

\* Every reading, sensor by sensor.
LEMMA InvReadings == MInv => EveryReadingIsShown
<1> SUFFICES ASSUME MInv, spec.kind # "none" PROVE
      /\ Reports(device, "float", "temperature") =>
           {"CurrentTemperature", "temperature"} \cap Characteristics(spec) # {}
      /\ Reports(device, "float", "humidity") => "humidity" \in Characteristics(spec)
      /\ \A type \in {"float", "event"} :
           Reports(device, type, "battery_level") => "battery" \in Characteristics(spec)
      /\ \A of \in DOMAIN EventSensors :
           Reports(device, "event", of) => EventSensors[of] \in Characteristics(spec)
  BY DEF EveryReadingIsShown
<1>1. spec = BuildSpec(device, override) /\ device.props \in Seq(Properties)
  BY DEF MInv
<1>2. spec.sensors = sensorsFor(device, spec.kind)
  BY <1>1, SpecFields
<1>3. ToSet(spec.sensors) = NumericSet(device, spec.kind # "thermostat") \cup EventSet(device)
  BY <1>1, <1>2, SensorsForIs
<1>4. ASSUME Reports(device, "float", "temperature")
      PROVE  {"CurrentTemperature", "temperature"} \cap Characteristics(spec) # {}
  <2>1. CASE spec.kind = "thermostat"
    BY <2>1, ThermostatShowsTemperature
  <2>2. CASE spec.kind # "thermostat"
    <3>1. "temperature" \in SensorKinds \cap ToSet(spec.sensors)
      BY <1>3, <1>4, <2>2 DEF NumericSet, SensorKinds
    <3> QED BY <3>1, SensorIsShown
  <2> QED BY <2>1, <2>2
<1>5. ASSUME Reports(device, "float", "humidity")
      PROVE  "humidity" \in Characteristics(spec)
  <2>1. "humidity" \in SensorKinds \cap ToSet(spec.sensors)
    BY <1>3, <1>5 DEF NumericSet, SensorKinds
  <2> QED BY <2>1, SensorIsShown
<1>6. ASSUME NEW type \in {"float", "event"}, Reports(device, type, "battery_level")
      PROVE  "battery" \in Characteristics(spec)
  <2>1. "battery" \in SensorKinds \cap ToSet(spec.sensors)
    BY <1>3, <1>6 DEF NumericSet, SensorKinds
  <2> QED BY <2>1, SensorIsShown
<1>7. ASSUME NEW of \in DOMAIN EventSensors, Reports(device, "event", of)
      PROVE  EventSensors[of] \in Characteristics(spec)
  <2>1. EventSensors[of] \in EventSet(device)
    BY <1>7 DEF Reports, EventSet, ToSet
  <2>2. EventSensors[of] \in SensorKinds
    BY DEF EventSensors, SensorKinds
  <2> QED BY <1>3, <2>1, <2>2, SensorIsShown
<1> QED BY <1>4, <1>5, <1>6, <1>7

\* spec.go:441-444: every reading this bridge knows reaches HomeKit once the
\* device is exported, whatever else the device is.
THEOREM ReadingsReachHomeKit == Spec => []EveryReadingIsShown
BY Invariance, InvReadings, PTL

-----------------------------------------------------------------------------
(* The order of Yandex's lists.                                             *)

\* kindFor without its CASEs.
Asked(dev, o) ==
  IF o.type = "auto" THEN "none"
  ELSE overrideKind(o.type, HasCapability(dev, "on_off"), targetTemperatureFor(dev) # NoSpan)

\* kindFor, unfolded.
LEMMA KindIs ==
  ASSUME NEW dev, NEW o
  PROVE  kindFor(dev, o) =
           IF Asked(dev, o) # "none" THEN Asked(dev, o)
           ELSE IF HasCapability(dev, "on_off")
                THEN IF targetTemperatureFor(dev) # NoSpan /\ heatsToTemperature(dev.type)
                     THEN "thermostat"
                     ELSE IF dev.type = "light" THEN "lightbulb"
                     ELSE IF dev.type = "socket" THEN "outlet" ELSE "switch"
                ELSE IF sensorsFor(dev, "sensor") # <<>> THEN "sensor" ELSE "none"
<1> DEFINE asked == Asked(dev, o)
           onOff == HasCapability(dev, "on_off")
           heats == targetTemperatureFor(dev) # NoSpan /\ heatsToTemperature(dev.type)
<1>1. asked # "none" => kindFor(dev, o) = asked
  BY Zenon DEF kindFor, Asked
<1>2. asked = "none" /\ onOff /\ heats => kindFor(dev, o) = "thermostat"
  BY Zenon DEF kindFor, Asked
<1>3. asked = "none" /\ onOff /\ ~heats /\ dev.type = "light" => kindFor(dev, o) = "lightbulb"
  <2>1. dev.type = "light" => dev.type # "socket"
    OBVIOUS
  <2> QED BY <2>1, Zenon DEF kindFor, Asked
<1>4. asked = "none" /\ onOff /\ ~heats /\ dev.type = "socket" => kindFor(dev, o) = "outlet"
  <2>1. dev.type = "socket" => dev.type # "light"
    OBVIOUS
  <2> QED BY <2>1, Zenon DEF kindFor, Asked
<1>5. asked = "none" /\ onOff /\ ~heats /\ dev.type # "light" /\ dev.type # "socket"
        => kindFor(dev, o) = "switch"
  BY Zenon DEF kindFor, Asked
<1>6. asked = "none" /\ ~onOff => kindFor(dev, o) = IF sensorsFor(dev, "sensor") # <<>>
                                                   THEN "sensor" ELSE "none"
  BY Zenon DEF kindFor, Asked
<1> HIDE DEF asked, onOff, heats
<1>7. kindFor(dev, o) =
        IF asked # "none" THEN asked
        ELSE IF onOff
             THEN IF heats THEN "thermostat"
                  ELSE IF dev.type = "light" THEN "lightbulb"
                  ELSE IF dev.type = "socket" THEN "outlet" ELSE "switch"
             ELSE IF sensorsFor(dev, "sensor") # <<>> THEN "sensor" ELSE "none"
  BY <1>1, <1>2, <1>3, <1>4, <1>5, <1>6
<1> QED BY <1>7 DEF asked, onOff, heats

\* Two reports of the same device that differ in their order only.
Alike(d, e) ==
  /\ d.type = e.type
  /\ d.caps \in Seq(Capabilities) /\ e.caps \in Seq(Capabilities)
  /\ d.props \in Seq(Properties) /\ e.props \in Seq(Properties)
  /\ NoRepeats(d.caps) /\ NoRepeats(e.caps)
  /\ ToSet(d.caps) = ToSet(e.caps) /\ ToSet(d.props) = ToSet(e.props)

\* Two orders of one list without duplicates find the same capability.
LEMMA SameFirst ==
  ASSUME NEW S, NEW a \in Seq(S), NEW b \in Seq(S), NoRepeats(a), ToSet(a) = ToSet(b),
         NEW type, NEW of
  PROVE  /\ Offers(a, type, of) <=> Offers(b, type, of)
         /\ Offers(a, type, of) => First(a, type, of) = First(b, type, of)
<1>1. Offers(a, type, of) <=> \E c \in ToSet(a) : c.type = type /\ c.of = of
  BY DEF Offers, Matching, ToSet
<1>2. Offers(b, type, of) <=> \E c \in ToSet(b) : c.type = type /\ c.of = of
  BY DEF Offers, Matching, ToSet
<1>3. ASSUME Offers(a, type, of)
      PROVE  First(a, type, of) = First(b, type, of)
  <2>1. PICK i \in DOMAIN a : /\ First(a, type, of) = a[i]
                              /\ a[i].type = type /\ a[i].of = of
    BY <1>3, FirstIs
  <2>2. PICK j \in DOMAIN b : /\ First(b, type, of) = b[j]
                              /\ b[j].type = type /\ b[j].of = of
    BY <1>1, <1>2, <1>3, FirstIs
  <2>3. PICK k \in DOMAIN a : a[k] = b[j]
    BY DEF ToSet
  <2>4. k = i
    BY <2>1, <2>2, <2>3 DEF NoRepeats, Same
  <2> QED BY <2>1, <2>2, <2>3, <2>4
<1> QED BY <1>1, <1>2, <1>3

\* What BuildSpec reads does not depend on the order.
LEMMA AlikeReads ==
  ASSUME NEW d, NEW e, Alike(d, e)
  PROVE  /\ HasCapability(d, "on_off") = HasCapability(e, "on_off")
         /\ \A type, of : Reports(d, type, of) = Reports(e, type, of)
         /\ brightnessFor(d) = brightnessFor(e)
         /\ targetTemperatureFor(d) = targetTemperatureFor(e)
         /\ \A o, kind : colorFor(d, o, kind) = colorFor(e, o, kind)
         /\ \A o : togglesFor(d, o) = togglesFor(e, o)
<1>1. \A type, of : /\ Offers(d.caps, type, of) = Offers(e.caps, type, of)
                    /\ Offers(d.caps, type, of) =>
                         First(d.caps, type, of) = First(e.caps, type, of)
  <2> TAKE type, of
  <2>1. Offers(d.caps, type, of) <=> Offers(e.caps, type, of)
    BY SameFirst DEF Alike
  <2>2. Offers(d.caps, type, of) \in BOOLEAN /\ Offers(e.caps, type, of) \in BOOLEAN
    BY DEF Offers
  <2>3. Offers(d.caps, type, of) => First(d.caps, type, of) = First(e.caps, type, of)
    BY SameFirst DEF Alike
  <2> QED BY <2>1, <2>2, <2>3
<1>2. HasCapability(d, "on_off") = HasCapability(e, "on_off")
  <2>1. \A x \in {d, e} : HasCapability(x, "on_off") <=> \E c \in ToSet(x.caps) : c.type = "on_off"
    BY DEF HasCapability, ToSet
  <2> QED BY <2>1 DEF Alike, HasCapability
<1>3. ASSUME NEW type, NEW of
      PROVE  Reports(d, type, of) = Reports(e, type, of)
  <2>1. \A x \in {d, e} : Reports(x, type, of) <=>
                            \E p \in ToSet(x.props) : p.type = type /\ p.of = of
    BY DEF Reports, ToSet
  <2> QED BY <2>1 DEF Alike, Reports
<1>4. brightnessFor(d) = brightnessFor(e)
  BY <1>1 DEF brightnessFor
<1>5. targetTemperatureFor(d) = targetTemperatureFor(e)
  BY <1>1 DEF targetTemperatureFor
<1>6. ASSUME NEW o, NEW kind
      PROVE  colorFor(d, o, kind) = colorFor(e, o, kind)
  BY <1>1 DEF colorFor, ColorControl
<1>7. ASSUME NEW o
      PROVE  togglesFor(d, o) = togglesFor(e, o)
  <2>1. {t \in ToSet(ToggleOrder) \ o.hidden : Offers(d.caps, "toggle", t)}
          = {t \in ToSet(ToggleOrder) \ o.hidden : Offers(e.caps, "toggle", t)}
    BY <1>1
  <2> QED BY <2>1 DEF togglesFor
<1> QED BY <1>2, <1>3, <1>4, <1>5, <1>6, <1>7

\* Two orders of the same lists give the same readings ...
LEMMA AlikeSensors ==
  ASSUME NEW d, NEW e, Alike(d, e), NEW kind
  PROVE  /\ ToSet(sensorsFor(d, kind)) = ToSet(sensorsFor(e, kind))
         /\ sensorsFor(d, kind) = <<>> <=> sensorsFor(e, kind) = <<>>
<1>1. /\ d.props \in Seq(Properties) /\ e.props \in Seq(Properties)
      /\ ToSet(d.props) = ToSet(e.props)
  BY DEF Alike
<1>2. NumericSet(d, kind # "thermostat") = NumericSet(e, kind # "thermostat")
  BY AlikeReads DEF NumericSet
<1>3. EventSet(d) = EventSet(e)
  BY <1>1 DEF EventSet
<1>4. ToSet(sensorsFor(d, kind)) = ToSet(sensorsFor(e, kind))
  BY <1>1, <1>2, <1>3, SensorsForIs
<1>5. \A list \in Seq(SensorKinds) : list = <<>> <=> ToSet(list) = {}
  BY DEF ToSet
<1>6. sensorsFor(d, kind) \in Seq(SensorKinds) /\ sensorsFor(e, kind) \in Seq(SensorKinds)
  BY <1>1, SensorsForIs
<1> QED BY <1>4, <1>5, <1>6

\* ... and the same kind.
LEMMA AlikeKind ==
  ASSUME NEW d, NEW e, Alike(d, e), NEW o
  PROVE  kindFor(d, o) = kindFor(e, o)
<1>1. /\ HasCapability(d, "on_off") = HasCapability(e, "on_off")
      /\ targetTemperatureFor(d) = targetTemperatureFor(e)
      /\ d.type = e.type
  BY AlikeReads DEF Alike
<1>2. Asked(d, o) = Asked(e, o)
  BY <1>1 DEF Asked
<1>3. sensorsFor(d, "sensor") = <<>> <=> sensorsFor(e, "sensor") = <<>>
  BY AlikeSensors
<1>4. heatsToTemperature(d.type) = heatsToTemperature(e.type)
  BY <1>1
<1> QED BY <1>1, <1>2, <1>3, <1>4, KindIs

\* The fingerprint does not depend on the order.
LEMMA AlikeHash ==
  ASSUME NEW d, NEW e, Alike(d, e), NEW o
  PROVE  ShapeHash(BuildSpec(d, o)) = ShapeHash(BuildSpec(e, o))
<1> DEFINE kind == kindFor(d, o)
<1>1. kindFor(e, o) = kind
  BY AlikeKind
<1>2. CASE o.exclude \/ kind = "none"
  <2>1. BuildSpec(d, o) = NoSpec /\ BuildSpec(e, o) = NoSpec
    BY <1>1, <1>2 DEF BuildSpec
  <2> QED BY <2>1
<1>3. CASE ~(o.exclude \/ kind = "none")
  <2>1. /\ brightnessFor(d) = brightnessFor(e)
        /\ targetTemperatureFor(d) = targetTemperatureFor(e)
        /\ colorFor(d, o, kind) = colorFor(e, o, kind)
        /\ togglesFor(d, o) = togglesFor(e, o)
        /\ HasCapability(d, "on_off") = HasCapability(e, "on_off")
    BY AlikeReads
  <2>2. ToSet(sensorsFor(d, kind)) = ToSet(sensorsFor(e, kind))
    BY AlikeSensors
  <2> DEFINE s == BuildSpec(d, o)
             t == BuildSpec(e, o)
  <2> HIDE DEF kind
  <2>3. /\ s.kind = t.kind /\ s.onOff = t.onOff /\ s.color = t.color
        /\ s.brightness = t.brightness /\ s.kelvin = t.kelvin /\ s.target = t.target
        /\ s.toggles = t.toggles
    BY <1>1, <1>3, <2>1 DEF BuildSpec, kind
  <2>4. ToSet(s.sensors) = ToSet(t.sensors)
    <3>1. s.sensors = sensorsFor(d, kind) /\ t.sensors = sensorsFor(e, kind)
      BY <1>1, <1>3 DEF BuildSpec, kind
    <3> QED BY <2>2, <3>1
  <2> HIDE DEF s, t
  <2>5. ShapeHash(s) = ShapeHash(t)
    BY <2>3, <2>4 DEF ShapeHash
  <2> QED BY <2>5 DEF s, t
<1> QED BY <1>2, <1>3

\* spec.go:153-157, 477-478: another order in Yandex's lists changes neither the
\* fingerprint nor the layout, so it costs no rebuild and no accessory id.
THEOREM OrderDoesNotMatter == Spec => ReorderKeepsShape
<1>1. ASSUME MInv, Reordered
      PROVE  /\ ShapeHash(spec)' = ShapeHash(spec)
             /\ BuildAccessory(spec)' = BuildAccessory(spec)
  <2>1. /\ device.caps \in Seq(Capabilities) /\ NoRepeats(device.caps)
        /\ device.props \in Seq(Properties) /\ NoRepeats(device.props)
        /\ device \in [type : Types, caps : Seq(Capabilities), props : Seq(Properties)]
        /\ spec = BuildSpec(device, override)
    BY <1>1 DEF MInv
  <2>2. ASSUME NEW caps \in Seq(Capabilities), NEW props \in Seq(Properties), NoRepeats(caps),
               ToSet(caps) = ToSet(device.caps), ToSet(props) = ToSet(device.props),
               Polled(caps, props)
        PROVE  Alike(device, device') /\ spec' = BuildSpec(device', override)
    BY <2>1, <2>2 DEF Polled, Alike
  <2>3. Alike(device, device') /\ spec' = BuildSpec(device', override)
    <3>1. ASSUME NEW i \in 1 .. Len(device.caps) - 1,
                 Polled(Swapped(device.caps, i), device.props)
          PROVE  Alike(device, device') /\ spec' = BuildSpec(device', override)
      BY <2>1, <2>2, <3>1, SwappedKeeps
    <3>2. ASSUME NEW i \in 1 .. Len(device.props) - 1,
                 Polled(device.caps, Swapped(device.props, i))
          PROVE  Alike(device, device') /\ spec' = BuildSpec(device', override)
      BY <2>1, <2>2, <3>2, SwappedKeeps
    <3> QED BY <1>1, <3>1, <3>2 DEF Reordered
  <2>4. ShapeHash(spec') = ShapeHash(spec)
    BY <2>1, <2>3, AlikeHash
  <2>5. BuildAccessory(spec') = BuildAccessory(spec)
    BY <2>4, HashDeterminesLayout
  <2> QED BY <2>4, <2>5 DEF ShapeHash
<1>2. MInv /\ [Next]_vars =>
        [Reordered => /\ ShapeHash(spec)' = ShapeHash(spec)
                      /\ BuildAccessory(spec)' = BuildAccessory(spec)]_vars
  BY <1>1
<1> QED BY <1>2, Invariance, PTL DEF Spec, ReorderKeepsShape
-----------------------------------------------------------------------------
(* The types of a spec, and that no reading is in it twice.                  *)

\* Only repeats nothing that its list does not repeat.
LEMMA OnlyOnce ==
  ASSUME NEW S, NEW list \in Seq(S), NEW set, NoRepeats(list)
  PROVE  NoRepeats(Only(list, set))
<1>1. PICK f : Kept(list, set, f, Len(list)) /\ Only(list, set) = f[Len(list)]
  BY OnlySteps
<1> DEFINE Good(m) ==
      /\ f[m] \in Seq(S) /\ NoRepeats(f[m])
      /\ \A j \in DOMAIN f[m] : \E i \in 1 .. m : list[i] = f[m][j]
    N == {m \in 0 .. Len(list) : Good(m)}
<1>2. 0 \in N
  BY <1>1 DEF Kept, NoRepeats
<1>3. ASSUME NEW m \in 0 .. Len(list) - 1, m \in N PROVE m + 1 \in N
  <2>1. Good(m)
    BY <1>3
  <2>2. m + 1 \in DOMAIN list /\ list[m + 1] \in S /\ DOMAIN list = 1 .. Len(list)
    OBVIOUS
  <2>3. f[m + 1] = IF list[m + 1] \in set THEN Append(f[m], list[m + 1]) ELSE f[m]
    <3>1. /\ m + 1 \in 0 .. Len(list) /\ m + 1 # 0 /\ m + 1 - 1 = m
      OBVIOUS
    <3>2. f[m + 1] = IF m + 1 = 0 THEN <<>>
                     ELSE IF list[m + 1] \in set THEN Append(f[m + 1 - 1], list[m + 1])
                     ELSE f[m + 1 - 1]
      BY <1>1, <3>1, KeptAt
    <3> QED BY <3>1, <3>2
  <2>4. Good(m + 1)
    <3>1. CASE list[m + 1] \in set
      <4>1. New(f[m], list[m + 1])
        <5> SUFFICES ASSUME NEW j \in DOMAIN f[m], Same(f[m][j], list[m + 1]) PROVE FALSE
          BY DEF New
        <5>1. PICK i \in 1 .. m : list[i] = f[m][j]
          BY <2>1
        <5>2. i \in DOMAIN list /\ i # m + 1
          BY <2>2
        <5> QED BY <2>2, <5>1, <5>2 DEF NoRepeats
      <4>2. f[m + 1] \in Seq(S) /\ NoRepeats(f[m + 1])
        BY <2>1, <2>2, <2>3, <3>1, <4>1, AppendKeeps
      <4>3. \A j \in DOMAIN f[m + 1] : f[m + 1][j] = list[m + 1] \/ \E k \in DOMAIN f[m] : f[m + 1][j] = f[m][k]
        BY <2>1, <2>2, <2>3, <3>1
      <4>4. \A j \in DOMAIN f[m + 1] : \E i \in 1 .. m + 1 : list[i] = f[m + 1][j]
        <5>1. m + 1 \in 1 .. m + 1 /\ \A i \in 1 .. m : i \in 1 .. m + 1
          OBVIOUS
        <5> QED BY <2>1, <4>3, <5>1
      <4> QED BY <4>2, <4>4
    <3>2. CASE list[m + 1] \notin set
      <4>1. f[m + 1] = f[m]
        BY <2>3, <3>2
      <4>2. \A i \in 1 .. m : i \in 1 .. m + 1
        OBVIOUS
      <4> QED BY <2>1, <4>1, <4>2
    <3> QED BY <3>1, <3>2
  <2> HIDE DEF Good
  <2> QED BY <2>4
<1>4. Len(list) \in N
  <2> HIDE DEF N
  <2>1. 0 .. Len(list) \subseteq N
    BY <1>2, <1>3, UpTo
  <2> QED BY <2>1
<1> QED BY <1>1, <1>4

Distinct(list) == \A i, j \in DOMAIN list : list[i] = list[j] => i = j

\* Two lists without duplicates and without a common entry join to a third.
LEMMA JoinDistinct ==
  ASSUME NEW S, NEW a \in Seq(S), NEW b \in Seq(S), Distinct(a), Distinct(b),
         ToSet(a) \cap ToSet(b) = {}
  PROVE  Distinct(a \o b)
<1> DEFINE ab == a \o b
           m == Len(a)
           n == Len(b)
<1>1. /\ DOMAIN a = 1 .. m /\ DOMAIN b = 1 .. n
      /\ m \in Nat /\ n \in Nat
      /\ DOMAIN ab = 1 .. m + n
      /\ \A i \in 1 .. m : ab[i] = a[i]
      /\ \A i \in m + 1 .. m + n : ab[i] = b[i - m]
  OBVIOUS
<1> HIDE DEF ab, m, n
<1>2. \A i \in m + 1 .. m + n : i - m \in 1 .. n
  BY <1>1
<1>3. \A i \in 1 .. m + n : i \in 1 .. m \/ i \in m + 1 .. m + n
  BY <1>1
<1>4. \A i \in 1 .. m, j \in 1 .. n : a[i] # b[j]
  BY <1>1 DEF ToSet
<1>5. ASSUME NEW i \in DOMAIN ab, NEW j \in DOMAIN ab, ab[i] = ab[j] PROVE i = j
  <2>1. CASE i \in 1 .. m /\ j \in 1 .. m
    BY <1>1, <1>5, <2>1 DEF Distinct
  <2>2. CASE i \in m + 1 .. m + n /\ j \in m + 1 .. m + n
    <3>1. i - m = j - m
      BY <1>1, <1>2, <1>5, <2>2 DEF Distinct
    <3> QED BY <1>1, <2>2, <3>1
  <2>3. CASE i \in 1 .. m /\ j \in m + 1 .. m + n
    BY <1>1, <1>2, <1>4, <1>5, <2>3
  <2>4. CASE j \in 1 .. m /\ i \in m + 1 .. m + n
    BY <1>1, <1>2, <1>4, <1>5, <2>4
  <2> QED BY <1>1, <1>3, <2>1, <2>2, <2>3, <2>4
<1> QED BY <1>5 DEF Distinct, ab

\* The readings of the float properties come once each: their names differ.
LEMMA NumericDistinct ==
  ASSUME NEW dev, NEW temperature
  PROVE  Distinct(NumericReadings(dev, temperature))
<1> DEFINE If(shown, k) == IF shown THEN <<k>> ELSE <<>>
           a == If(temperature /\ Reports(dev, "float", "temperature"), "temperature")
           b == If(Reports(dev, "float", "humidity"), "humidity")
           c == If(\/ Reports(dev, "float", "battery_level")
                   \/ Reports(dev, "event", "battery_level"), "battery")
<1>1. <<>> \in Seq(SensorKinds) /\ ToSet(<<>>) = {} /\ Distinct(<<>>)
  BY DEF ToSet, Distinct
<1>2. ASSUME NEW k \in SensorKinds
      PROVE  <<k>> \in Seq(SensorKinds) /\ ToSet(<<k>>) = {k} /\ Distinct(<<k>>)
  <2>1. ToSet(<<k>>) = {k}
    BY Singleton
  <2>2. \A i \in DOMAIN <<k>> : i = 1
    OBVIOUS
  <2>3. Distinct(<<k>>)
    BY <2>2 DEF Distinct
  <2> QED BY <2>1, <2>3
<1>3. a \in Seq(SensorKinds) /\ ToSet(a) \subseteq {"temperature"} /\ Distinct(a)
  <2>1. "temperature" \in SensorKinds
    BY DEF SensorKinds
  <2>2. a = <<>> \/ a = <<"temperature">>
    OBVIOUS
  <2> HIDE DEF a
  <2> QED BY <1>1, <1>2, <2>1, <2>2
<1>4. b \in Seq(SensorKinds) /\ ToSet(b) \subseteq {"humidity"} /\ Distinct(b)
  <2>1. "humidity" \in SensorKinds
    BY DEF SensorKinds
  <2>2. b = <<>> \/ b = <<"humidity">>
    OBVIOUS
  <2> HIDE DEF b
  <2> QED BY <1>1, <1>2, <2>1, <2>2
<1>5. c \in Seq(SensorKinds) /\ ToSet(c) \subseteq {"battery"} /\ Distinct(c)
  <2>1. "battery" \in SensorKinds
    BY DEF SensorKinds
  <2>2. c = <<>> \/ c = <<"battery">>
    OBVIOUS
  <2> HIDE DEF c
  <2> QED BY <1>1, <1>2, <2>1, <2>2
<1>6. NumericReadings(dev, temperature) = a \o b \o c
  BY DEF NumericReadings
<1> HIDE DEF a, b, c
<1>7. a \o b \in Seq(SensorKinds) /\ Distinct(a \o b)
  <2>1. ToSet(a) \cap ToSet(b) = {}
    BY <1>3, <1>4
  <2> QED BY <1>3, <1>4, <2>1, JoinDistinct
<1>8. ToSet(a \o b) = ToSet(a) \cup ToSet(b)
  BY <1>3, <1>4, Concatenation
<1>9. ToSet(a \o b) \cap ToSet(c) = {}
  BY <1>3, <1>4, <1>5, <1>8
<1> QED BY <1>5, <1>6, <1>7, <1>9, JoinDistinct

\* So do those of the event properties: every instance is reported once, and
\* every sensor is of another instance.
LEMMA EventDistinct ==
  ASSUME NEW dev, dev.props \in Seq(Properties), NoRepeats(dev.props)
  PROVE  Distinct(EventReadings(dev))
<1> DEFINE known == {p \in ToSet(dev.props) : p.type = "event" /\ p.of \in DOMAIN EventSensors}
           events == Only(dev.props, known)
<1>1. events \in Seq(Properties) /\ ToSet(events) = ToSet(dev.props) \cap known
  BY OnlyIs
<1>2. NoRepeats(events)
  BY OnlyOnce
<1>3. EventReadings(dev) = [i \in DOMAIN events |-> EventSensors[events[i].of]]
  BY DEF EventReadings
<1>4. \A p, q \in known : EventSensors[p.of] = EventSensors[q.of] => p.of = q.of /\ p.type = q.type
  <2>1. \A x, y \in DOMAIN EventSensors : EventSensors[x] = EventSensors[y] => x = y
    BY DEF EventSensors
  <2> QED BY <2>1
<1>5. \A i \in DOMAIN events : events[i] \in known
  BY <1>1 DEF ToSet
<1> HIDE DEF events, known
<1> QED BY <1>2, <1>3, <1>4, <1>5 DEF Distinct, NoRepeats, Same

\* Together they name no sensor twice (spec.go:441-475).
LEMMA SensorsDistinct ==
  ASSUME NEW dev, dev.props \in Seq(Properties), NoRepeats(dev.props), NEW kind
  PROVE  Distinct(sensorsFor(dev, kind))
<1> DEFINE a == NumericReadings(dev, kind # "thermostat")
           b == EventReadings(dev)
<1>1. a \in Seq(SensorKinds) /\ ToSet(a) \subseteq {"temperature", "humidity", "battery"}
  BY NumericReadingsAre DEF NumericSet
<1>2. b \in Seq(SensorKinds) /\ ToSet(b) \subseteq {"motion", "contact", "leak", "smoke", "gas"}
  BY EventReadingsAre DEF EventSet, EventSensors
<1>3. sensorsFor(dev, kind) = a \o b /\ Distinct(a) /\ Distinct(b)
  BY NumericDistinct, EventDistinct DEF sensorsFor
<1> HIDE DEF a, b
<1>4. ToSet(a) \cap ToSet(b) = {}
  BY <1>1, <1>2
<1> QED BY <1>1, <1>2, <1>3, <1>4, JoinDistinct

\* The types that config.go accepts for a device (config.go:39-46, 322).
ValidTypes == {"auto", "lightbulb", "outlet", "switch", "fan", "thermostat"}

\* Every spec has the fields its kind may have, and no reading twice.
LEMMA InvTypes ==
  ASSUME MInv, \A o \in Overrides : o.type \in ValidTypes
  PROVE  TypeOK
<1> DEFINE kind == kindFor(device, override)
           colour == colorFor(device, override, kind)
<1>1. /\ override \in Overrides /\ device.type \in Types
      /\ device.caps \in Seq(Capabilities)
      /\ device.props \in Seq(Properties) /\ NoRepeats(device.props)
      /\ spec = BuildSpec(device, override)
  BY DEF MInv
<1>2. NoSpan \in Spans
  BY DEF NoSpan, Spans
<1>3. CASE spec.kind = "none"
  <2>1. spec = NoSpec
    BY <1>1, <1>3, NoSpecFields
  <2> QED BY <1>1, <1>2, <2>1 DEF NoSpec, TypeOK
<1>4. CASE spec.kind # "none"
  <2>1. /\ spec.kind = kind
        /\ spec.brightness = IF kind # "sensor" THEN brightnessFor(device) ELSE NoSpan
        /\ spec.color = colour.color /\ spec.kelvin = colour.kelvin
        /\ spec.target = IF kind = "thermostat" THEN targetTemperatureFor(device) ELSE NoSpan
        /\ spec.sensors = sensorsFor(device, kind)
    BY <1>1, <1>4, SpecFields
  <2>2. kind \in {"lightbulb", "outlet", "switch", "fan", "thermostat", "sensor"}
    <3>1. Asked(device, override) \in {"none", "lightbulb", "outlet", "switch", "fan", "thermostat"}
      BY <1>1 DEF Asked, overrideKind, ValidTypes
    <3>2. kind \in {"none", "lightbulb", "outlet", "switch", "fan", "thermostat", "sensor"}
      BY <3>1, KindIs
    <3> QED BY <1>4, <2>1, <3>2
  <2>3. kind = "thermostat" <=> spec.target # NoSpan
    BY <2>1, KindIsBacked
  <2>4. kind # "lightbulb" => colour.color = "none" /\ colour.kelvin = NoSpan
    BY DEF colorFor
  <2>5. colour.color = "temperature" <=> colour.kelvin # NoSpan
    BY DEF colorFor, ColorControl, Usable, NoSpan
  <2> DEFINE Fits(span) == span \in Spans /\ (span = NoSpan \/ Usable(span))
  <2>6. \A c \in Capabilities : c.span \in Spans
    BY SpansAssumption
  <2>7. Fits(spec.brightness)
    <3>1. brightnessFor(device) # NoSpan => brightnessFor(device) \in Brightnesses
      BY <1>1, BrightnessIs
    <3>2. \A r \in Brightnesses : Fits(r)
      BY <2>6 DEF Brightnesses, Usable, Spans
    <3> QED BY <1>2, <2>1, <3>1, <3>2
  <2>8. Fits(spec.kelvin)
    <3>1. CASE colour.color = "temperature"
      <4>1. /\ Offers(device.caps, "color_setting", "color")
            /\ Usable(First(device.caps, "color_setting", "color").span)
            /\ colour.kelvin = First(device.caps, "color_setting", "color").span
        BY <3>1, ColorIs
      <4>2. First(device.caps, "color_setting", "color") \in Capabilities
        BY <1>1, <4>1, FirstIs
      <4> QED BY <2>1, <2>6, <4>1, <4>2
    <3>2. CASE colour.color # "temperature"
      BY <1>2, <2>1, <2>5, <3>2
    <3> QED BY <3>1, <3>2
  <2>9. Fits(spec.target)
    <3>1. CASE targetTemperatureFor(device) # NoSpan
      <4> DEFINE c == First(device.caps, "range", "temperature")
      <4>1. Offers(device.caps, "range", "temperature") /\ Usable(c.span)
        BY <3>1, TargetIs
      <4>2. c \in Capabilities
        BY <1>1, <4>1, FirstIs
      <4>3. targetTemperatureFor(device)
              = [c.span EXCEPT !.step = IF c.span.step <= 0 THEN 1 ELSE c.span.step]
        BY <4>1 DEF targetTemperatureFor
      <4> HIDE DEF c
      <4>4. Fits(targetTemperatureFor(device))
        BY <2>6, <4>1, <4>2, <4>3 DEF Spans, Usable
      <4> QED BY <1>2, <2>1, <4>4
    <3>2. CASE targetTemperatureFor(device) = NoSpan
      BY <1>2, <2>1, <3>2
    <3> QED BY <3>1, <3>2
  <2>10. Distinct(spec.sensors)
    BY <1>1, <2>1, SensorsDistinct
  <2> HIDE DEF kind, colour
  <2> QED
    BY <1>1, <2>1, <2>2, <2>3, <2>4, <2>5, <2>7, <2>8, <2>9, <2>10 DEF TypeOK, Distinct
<1> QED BY <1>3, <1>4

\* Every spec has the fields its kind may have, whatever ranges Yandex advertises
\* and the config asks for, and names no reading twice: the fingerprint may be
\* taken of the readings as a set (spec.go:131-157, 441-475).
THEOREM TypeCorrect ==
  ASSUME \A o \in Overrides : o.type \in ValidTypes
  PROVE  Spec => []TypeOK
BY Invariance, InvTypes, PTL
=============================================================================
