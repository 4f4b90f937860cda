--------------------------- MODULE DeadCode_proofs ---------------------------
(***************************************************************************)
(* Theorems about the passes on QNet, for every program, all options and   *)
(* every number of bits.                                                   *)
(***************************************************************************)
EXTENDS DeadCode, FiniteSetTheorems, WellFoundedInduction, TLAPS

(***************************************************************************)
(* Powers of two count subsets, which is how they are known to grow.       *)
(***************************************************************************)
LEMMA PowerCounts ==
  ASSUME NEW n \in Nat
  PROVE  /\ IsFiniteSet(SUBSET (1 .. n))
         /\ Cardinality(SUBSET (1 .. n)) = 2 ^ n
<1>1. IsFiniteSet(1 .. n) /\ Cardinality(1 .. n) = n
  BY FS_Interval
<1> QED
  BY <1>1, FS_SUBSET

LEMMA PowerPositive ==
  ASSUME NEW n \in Nat
  PROVE  2 ^ n \in Nat \ {0}
<1>1. SUBSET (1 .. n) # {}
  OBVIOUS
<1>2. Cardinality(SUBSET (1 .. n)) \in Nat /\ Cardinality(SUBSET (1 .. n)) # 0
  BY <1>1, PowerCounts, FS_CardinalityType, FS_EmptySet
<1> QED
  BY <1>2, PowerCounts

LEMMA PowerGrows ==
  ASSUME NEW m \in Nat, NEW n \in Nat, m <= n
  PROVE  2 ^ m <= 2 ^ n
<1>1. SUBSET (1 .. m) \subseteq SUBSET (1 .. n)
  <2>1. 1 .. m \subseteq 1 .. n
    OBVIOUS
  <2> QED
    BY <2>1
<1>2. Cardinality(SUBSET (1 .. m)) <= Cardinality(SUBSET (1 .. n))
  BY <1>1, PowerCounts, FS_Subset
<1> QED
  BY <1>2, PowerCounts

\* Half of the subsets of 1 .. n + 1 have n + 1, and there are as many of them as without it.
LEMMA PowerDoubles ==
  ASSUME NEW n \in Nat
  PROVE  2 ^ (n + 1) = 2 * 2 ^ n
<1> DEFINE Without == SUBSET (1 .. n)
           With == {S \in SUBSET (1 .. n + 1) : n + 1 \in S}
           add == [S \in Without |-> S \cup {n + 1}]
<1>1. SUBSET (1 .. n + 1) = Without \cup With
  <2>1. 1 .. n + 1 = (1 .. n) \cup {n + 1}
    OBVIOUS
  <2> QED
    BY <2>1
<1>2. Without \cap With = {}
  <2>1. n + 1 \notin 1 .. n
    OBVIOUS
  <2> QED
    BY <2>1
<1>3. add \in Bijection(Without, With)
  <2>1. n + 1 \notin 1 .. n /\ 1 .. n + 1 = (1 .. n) \cup {n + 1}
    OBVIOUS
  <2>2. add \in [Without -> With]
    BY <2>1
  <2>3. \A S, T \in Without : add[S] = add[T] => S = T
    BY <2>1
  <2>4. \A T \in With : \E S \in Without : add[S] = T
    <3> SUFFICES ASSUME NEW T \in With PROVE \E S \in Without : add[S] = T
      OBVIOUS
    <3>1. T \ {n + 1} \in Without /\ (T \ {n + 1}) \cup {n + 1} = T
      BY <2>1
    <3> QED
      BY <3>1
  <2> QED
    BY <2>2, <2>3, <2>4 DEF Bijection, Injection, Surjection, IsInjective
<1> HIDE DEF add
<1>4. IsFiniteSet(Without) /\ Cardinality(Without) = 2 ^ n
  BY PowerCounts
<1>5. IsFiniteSet(With) /\ Cardinality(With) = 2 ^ n
  BY <1>3, <1>4, FS_Bijection DEF ExistsBijection
<1>6. Cardinality(SUBSET (1 .. n + 1)) = 2 ^ n + 2 ^ n
  <2>1. Cardinality(Without \cup With) = Cardinality(Without) + Cardinality(With) - Cardinality({})
    BY <1>2, <1>4, <1>5, FS_Union
  <2>2. Cardinality({}) = 0 /\ 2 ^ n \in Nat
    BY FS_EmptySet, PowerPositive
  <2> HIDE DEF Without, With
  <2>3. Cardinality(Without \cup With) = 2 ^ n + 2 ^ n
    BY <1>4, <1>5, <2>1, <2>2
  <2>4. Cardinality(SUBSET (1 .. n + 1)) = Cardinality(Without \cup With)
    BY <1>1, Zenon
  <2> QED
    BY <2>3, <2>4, Zenon
<1>7. n + 1 \in Nat /\ 2 ^ n \in Nat
  BY PowerPositive
<1> QED
  BY <1>6, <1>7, PowerCounts
-----------------------------------------------------------------------------
(***************************************************************************)
(* Remainders, and numbers that wrap around.                               *)
(***************************************************************************)
LEMMA ModRange ==
  ASSUME NEW x \in Int, NEW m \in Nat \ {0}
  PROVE  x % m \in 0 .. m - 1
OBVIOUS

LEMMA ModSmall ==
  ASSUME NEW m \in Nat \ {0}, NEW x \in 0 .. m - 1
  PROVE  x % m = x
OBVIOUS

LEMMA ModAbove ==
  ASSUME NEW m \in Nat \ {0}, NEW x \in m .. 2 * m - 1
  PROVE  x % m = x - m
OBVIOUS

LEMMA ModBelow ==
  ASSUME NEW m \in Nat \ {0}, NEW x \in -m .. -1
  PROVE  x % m = x + m
OBVIOUS

LEMMA HalfWordPositive == HalfWord \in Nat \ {0}
BY WordBitsAssumption, PowerPositive DEF HalfWord

LEMMA WrapFits ==
  /\ \A x \in Int : Wrap(x) \in -HalfWord .. HalfWord - 1
  /\ \A x \in -HalfWord .. HalfWord - 1 : Wrap(x) = x
  /\ \A x \in HalfWord .. 3 * HalfWord - 1 : Wrap(x) = x - 2 * HalfWord
  /\ \A x \in -3 * HalfWord .. -HalfWord - 1 : Wrap(x) = x + 2 * HalfWord
<1> DEFINE H == HalfWord
           W == 2 * H
<1>1. H \in Nat \ {0} /\ W \in Nat \ {0} /\ W = H + H
  BY HalfWordPositive
<1>2. \A x \in Int : Wrap(x) = ((x + H) % W) - H
  BY DEF Wrap
<1> HIDE DEF H, W
<1>3. \A x \in Int : Wrap(x) \in -H .. H - 1
  <2> TAKE x \in Int
  <2>1. (x + H) % W \in 0 .. W - 1
    BY <1>1, ModRange
  <2> QED
    BY <1>1, <1>2, <2>1
<1>4. \A x \in -H .. H - 1 : Wrap(x) = x
  <2> TAKE x \in -H .. H - 1
  <2>1. x \in Int /\ x + H \in 0 .. W - 1
    BY <1>1
  <2>2. (x + H) % W = x + H
    BY <1>1, <2>1, ModSmall
  <2> QED
    BY <1>1, <1>2, <2>1, <2>2
<1>5. \A x \in H .. 3 * H - 1 : Wrap(x) = x - 2 * H
  <2> SUFFICES ASSUME NEW x \in Int, H <= x, x <= 3 * H - 1 PROVE Wrap(x) = x - 2 * H
    BY <1>1
  <2> DEFINE y == x + H
  <2>1. y \in W .. 2 * W - 1
    BY <1>1
  <2> HIDE DEF y
  <2>2. y % W = y - W
    BY <1>1, <2>1, ModAbove
  <2>3. y % W = x - H
    BY <1>1, <2>2 DEF y
  <2>4. Wrap(x) = (y % W) - H
    BY <1>2 DEF y
  <2> QED
    BY <1>1, <2>3, <2>4
<1>6. \A x \in -3 * H .. -H - 1 : Wrap(x) = x + 2 * H
  <2> TAKE x \in -3 * H .. -H - 1
  <2>1. x + H \in -W .. -1
    BY <1>1
  <2>2. (x + H) % W = x + H + W
    BY <1>1, <2>1, ModBelow
  <2> QED
    BY <1>1, <1>2, <2>2
<1> QED
  BY <1>3, <1>4, <1>5, <1>6 DEF H

\* The sign of the divisor does not matter, that of the dividend is kept.
LEMMA RemFits ==
  ASSUME NEW m \in Nat \ {0}, NEW p \in {m, -m}, NEW x \in Int
  PROVE  /\ Rem(x, p) \in -(m - 1) .. m - 1
         /\ x >= 0 => Rem(x, p) \in 0 .. m - 1
         /\ x \in -(m - 1) .. m - 1 => Rem(x, p) = x
<1>1. Magnitude(p) = m
  BY DEF Magnitude
<1>2. Rem(x, p) = IF x < 0 THEN -((-x) % m) ELSE x % m
  BY <1>1 DEF Rem, Magnitude
<1>3. CASE x < 0
  <2>1. (-x) % m \in 0 .. m - 1
    BY ModRange
  <2>2. x \in -(m - 1) .. m - 1 => (-x) % m = -x
    BY <1>3, ModSmall
  <2> QED
    BY <1>2, <1>3, <2>1, <2>2
<1>4. CASE x >= 0
  <2>1. x % m \in 0 .. m - 1
    BY ModRange
  <2>2. x \in -(m - 1) .. m - 1 => x % m = x
    BY <1>4, ModSmall
  <2> QED
    BY <1>2, <1>4, <2>1, <2>2
<1> QED
  BY <1>3, <1>4
-----------------------------------------------------------------------------
(***************************************************************************)
(* Integer angles.                                                         *)
(***************************************************************************)
LEMMA PeriodFits ==
  ASSUME NEW d \in Nat, d < WordBits - 1
  PROVE  /\ 2 ^ d \in Nat \ {0} /\ 2 ^ (d + 1) = 2 ^ d + 2 ^ d
         /\ 2 ^ (d + 1) <= HalfWord
         /\ d < WordBits - 2 => 2 ^ (d + 1) + 2 ^ (d + 1) <= HalfWord
         /\ d = WordBits - 2 => 2 ^ (d + 1) = HalfWord
<1>1. 2 ^ d \in Nat \ {0} /\ 2 ^ (d + 1) = 2 ^ d + 2 ^ d
  BY PowerPositive, PowerDoubles
<1>2. WordBits \in Nat /\ WordBits - 1 \in Nat /\ d + 1 \in Nat /\ d + 1 <= WordBits - 1
  BY WordBitsAssumption
<1>3. 2 ^ (d + 1) <= HalfWord
  BY <1>2, PowerGrows DEF HalfWord
<1>4. d < WordBits - 2 => 2 ^ (d + 1) + 2 ^ (d + 1) <= HalfWord
  <2> SUFFICES ASSUME d < WordBits - 2 PROVE 2 ^ (d + 1) + 2 ^ (d + 1) <= HalfWord
    OBVIOUS
  <2>1. d + 1 + 1 \in Nat /\ d + 1 + 1 <= WordBits - 1
    BY <1>2
  <2>2. 2 ^ (d + 1 + 1) <= HalfWord
    BY <1>2, <2>1, PowerGrows DEF HalfWord
  <2>3. 2 ^ (d + 1 + 1) = 2 * 2 ^ (d + 1) /\ 2 ^ (d + 1) \in Nat
    BY <1>2, PowerDoubles, PowerPositive
  <2> QED
    BY <2>2, <2>3
<1>5. d = WordBits - 2 => 2 ^ (d + 1) = HalfWord
  <2>1. d = WordBits - 2 => d + 1 = WordBits - 1
    BY <1>2
  <2> QED
    BY <2>1 DEF HalfWord
<1> QED
  BY <1>1, <1>3, <1>4, <1>5

\* Below the greatest exponent the remainder is what one expects.
LEMMA NormalizedBelow ==
  ASSUME NEW n \in Int, NEW d \in Nat, d < WordBits - 2, NEW h, h = 2 ^ d, NEW p, p = 2 ^ (d + 1)
  PROVE  LET a == Rem(n, p)
             mod == IF a < 0 THEN a + p ELSE a
         IN  NormalizedInt(n, d) = IF mod > h THEN mod - p ELSE mod
<1> DEFINE a == Rem(n, p)
           mod == IF a < 0 THEN a + p ELSE a
<1>1. /\ h \in Nat \ {0} /\ p = h + h /\ p + p <= HalfWord /\ p \in Nat \ {0}
      /\ HalfWord \in Nat
  BY PeriodFits, HalfWordPositive, WordBitsAssumption
<1>2. Wrap(p) = p
  BY <1>1, WrapFits
<1>3. a \in -(p - 1) .. p - 1
  BY <1>1, RemFits
<1> HIDE DEF a
<1>4. Wrap(a + p) = a + p
  <2>1. a + p \in -HalfWord .. HalfWord - 1
    BY <1>1, <1>3
  <2> QED
    BY <2>1, WrapFits
<1>5. Rem(a + p, p) = (a + p) % p
  BY <1>1, <1>3 DEF Rem, Magnitude
<1>6. (a + p) % p = mod
  <2>1. CASE a < 0
    <3>1. a + p \in 0 .. p - 1
      BY <1>1, <1>3, <2>1
    <3> QED
      BY <1>1, <2>1, <3>1, ModSmall
  <2>2. CASE ~(a < 0)
    <3> DEFINE z == a + p
    <3>1. z \in p .. 2 * p - 1
      BY <1>1, <1>3, <2>2
    <3>2. z - p = a
      BY <1>1, <1>3
    <3> HIDE DEF z
    <3>3. z % p = z - p
      BY <1>1, <3>1, ModAbove
    <3>4. z % p = a
      BY <3>2, <3>3, Zenon
    <3> QED
      BY <2>2, <3>4 DEF z
  <2> QED
    BY <2>1, <2>2
<1>7. mod \in 0 .. p - 1
  BY <1>1, <1>3
<1>8. Wrap(mod - p) = mod - p
  <2>1. mod - p \in -HalfWord .. HalfWord - 1
    BY <1>1, <1>7
  <2> QED
    BY <2>1, WrapFits
<1>9. NormalizedInt(n, d) = IF mod > h THEN Wrap(mod - p) ELSE mod
  BY <1>2, <1>4, <1>5, <1>6 DEF NormalizedInt, a
<1> QED
  BY <1>8, <1>9 DEF a

(***************************************************************************)
(* NormalizeIntRotationPattern is right about every 32-bit numerator if    *)
(* the exponent is less than 30: the new one is in range, the same modulo  *)
(* the period, and left alone from then on.                                *)
(***************************************************************************)
THEOREM NormalizesOnce ==
  ASSUME NEW n \in Int, NEW d \in Nat, d < WordBits - 2
  PROVE  LET r == NormalizedInt(n, d)
         IN  /\ -(2 ^ d) < r /\ r <= 2 ^ d
             /\ \E k \in Int : r = n + 2 ^ (d + 1) * k
             /\ NormalizedInt(r, d) = r
<1> DEFINE h == 2 ^ d
           p == 2 ^ (d + 1)
           a == Rem(n, p)
           r == NormalizedInt(n, d)
<1>1. h \in Nat \ {0} /\ p = h + h /\ p \in Nat \ {0}
  BY PeriodFits, WordBitsAssumption
<1>2. \A m \in Int : LET b == Rem(m, p) mod == IF b < 0 THEN b + p ELSE b
                     IN  NormalizedInt(m, d) = IF mod > h THEN mod - p ELSE mod
  BY NormalizedBelow
<1>3. a \in -(p - 1) .. p - 1
  BY <1>1, RemFits
<1>4. \E k \in Int : a = n + p * k
  <2>1. CASE n >= 0
    <3>1. a = n % p
      BY <1>1, <2>1 DEF Rem, Magnitude
    <3>2. n = p * (n \div p) + (n % p) /\ (n \div p) \in Int /\ n % p \in Int
      BY <1>1
    <3>3. ASSUME NEW q \in Int, NEW b \in Int, n = p * q + b PROVE b = n + p * (-q) /\ -q \in Int
      BY <1>1, <3>3
    <3> QED
      BY <3>1, <3>2, <3>3
  <2>2. CASE n < 0
    <3> DEFINE m == -n
    <3>1. a = -(m % p)
      BY <1>1, <2>2 DEF Rem, Magnitude
    <3>2. m = p * (m \div p) + (m % p) /\ (m \div p) \in Int /\ m % p \in Int
      BY <1>1
    <3>3. ASSUME NEW q \in Int, NEW b \in Int, m = p * q + b PROVE -b = n + p * q
      BY <1>1, <3>3
    <3> QED
      BY <3>1, <3>2, <3>3
  <2> QED
    BY <2>1, <2>2
<1> HIDE DEF h, p, a, r
<1>5. r \in {a, a + p, a - p} /\ -h < r /\ r <= h
  <2>1. LET mod == IF a < 0 THEN a + p ELSE a IN r = IF mod > h THEN mod - p ELSE mod
    BY <1>2 DEF a, r
  <2> QED
    BY <1>1, <1>3, <2>1
<1>6. \E k \in Int : r = n + p * k
  <2>1. PICK k \in Int : a = n + p * k
    BY <1>4
  <2>2. a + p = n + p * (k + 1) /\ a - p = n + p * (k - 1)
    BY <1>1, <2>1
  <2>3. k + 1 \in Int /\ k - 1 \in Int
    OBVIOUS
  <2> QED
    BY <1>5, <2>1, <2>2, <2>3
<1>7. r \in Int
  BY <1>3, <1>1, <1>5
<1>8. Rem(r, p) = r
  <2>1. r \in -(p - 1) .. p - 1
    BY <1>1, <1>5, <1>7
  <2> QED
    BY <1>1, <1>7, <2>1, RemFits
<1>9. NormalizedInt(r, d) = r
  <2>1. LET mod == IF r < 0 THEN r + p ELSE r IN NormalizedInt(r, d) = IF mod > h THEN mod - p ELSE mod
    BY <1>2, <1>7, <1>8
  <2> QED
    BY <1>1, <1>5, <1>7, <2>1
<1> QED
  BY <1>5, <1>6, <1>9 DEF h, p, r

(***************************************************************************)
(* What is left alone is in range, at the greatest exponent too, where the *)
(* period is a negative number.                                            *)
(***************************************************************************)
LEMMA LeftAloneInRange ==
  ASSUME NEW n \in Int, NEW d \in Nat, d < WordBits - 1, NormalizedInt(n, d) = n
  PROVE  -(2 ^ d) < n /\ n <= 2 ^ d
<1>1. CASE d < WordBits - 2
  BY <1>1, NormalizesOnce
<1>2. CASE ~(d < WordBits - 2)
  <2> DEFINE h == 2 ^ d
             H == HalfWord
             a == Rem(n, -H)
             y == Wrap(a + (-H))
             mod == Rem(y, -H)
  <2>1. d = WordBits - 2
    BY <1>2, WordBitsAssumption
  <2>2. H \in Nat \ {0} /\ h \in Nat \ {0} /\ H = h + h /\ 2 ^ (d + 1) = H
    BY <2>1, PeriodFits
  <2>3. Wrap(2 ^ (d + 1)) = -H
    <3>1. H \in H .. 3 * H - 1
      BY <2>2
    <3>2. Wrap(H) = H - 2 * H
      BY <3>1, WrapFits
    <3> QED
      BY <2>2, <3>2
  <2>4. n = IF mod > h THEN Wrap(mod - (-H)) ELSE mod
    BY <2>3 DEF NormalizedInt
  <2>5. a \in -(H - 1) .. H - 1 /\ (n \in -(H - 1) .. H - 1 => a = n)
    BY <2>2, RemFits
  <2> HIDE DEF a, H
  <2>6. y \in -H .. H - 1 /\ (a + (-H) < -H => y = a + H)
    <3>1. a + (-H) \in Int /\ a + (-H) \in -3 * H .. H - 1
      BY <2>2, <2>5
    <3>2. a + (-H) < -H => a + (-H) \in -3 * H .. -H - 1
      BY <2>2, <3>1
    <3>3. a + (-H) < -H => y = a + (-H) + 2 * H
      BY <3>2, WrapFits DEF H
    <3> QED
      BY <2>2, <2>5, <3>1, <3>3, WrapFits DEF H
  <2> HIDE DEF y
  <2>7. mod \in -(H - 1) .. H - 1 /\ (y \in -(H - 1) .. H - 1 => mod = y)
    <3>1. y \in Int
      BY <2>2, <2>6
    <3> QED
      BY <2>2, <2>6, <3>1, RemFits
  <2> HIDE DEF mod, h
  <2>8. CASE mod > h
    <3>1. mod - (-H) \in H .. 3 * H - 1
      BY <2>2, <2>7, <2>8
    <3>2. Wrap(mod - (-H)) = mod - (-H) - 2 * H
      BY <3>1, WrapFits DEF H
    <3> QED
      BY <2>2, <2>4, <2>7, <2>8, <3>2 DEF h
  <2>9. CASE ~(mod > h)
    <3>1. n = mod
      BY <2>4, <2>9
    <3>2. ASSUME n <= -h PROVE FALSE
      <4>1. a = n
        BY <2>5, <2>7, <3>1
      <4>2. y = n + H
        BY <2>2, <2>6, <3>2, <4>1
      <4> QED
        BY <2>2, <2>7, <3>1, <3>2, <4>2
    <3> QED
      BY <2>2, <2>7, <2>9, <3>1, <3>2 DEF h
  <2> QED
    BY <2>8, <2>9
<1> QED
  BY <1>1, <1>2

-----------------------------------------------------------------------------
(***************************************************************************)
(* Operations stay what they are: places and wires do not change, and only *)
(* gates and rotations are rewritten.                                      *)
(***************************************************************************)
Turning == {"gate", "rot", "int"}

LEMMA KindFacts ==
  ASSUME NEW o \in Operation
  PROVE  /\ o.kind \in Sources \cup Turning \cup {"measure", "if"}
         /\ o.part \in Parts /\ o.on \in Seq(Nat)
         /\ o.kind = "rot" => o.axis \in Axes /\ o.a.v \in Int
         /\ o.kind = "int" => o.axis \in Axes /\ o.n.v \in Int /\ o.d.v \in Nat
                              /\ o.n.known \in BOOLEAN /\ o.d.known \in BOOLEAN
         /\ o.kind = "gate" => o.name \in Gates
         /\ o.kind = "if" => o.part = "after" /\ o.on = <<>>
         /\ o.kind = "measure" => o.use \in {"unused", "returned", "added"}
<1>1. CASE o \in [kind : Sources, part : Parts, on : Seq(Nat)]
  BY <1>1 DEF Sources, Turning
<1>2. CASE o \in [kind : {"gate"}, part : Parts, on : Seq(Nat), name : Gates]
  BY <1>2 DEF Turning
<1>3. CASE o \in [kind : {"rot"}, part : Parts, on : Seq(Nat), axis : Axes, a : [v : Int, known : BOOLEAN]]
  BY <1>3 DEF Turning
<1>4. CASE o \in [kind : {"int"}, part : Parts, on : Seq(Nat), axis : Axes,
                  n : [v : Int, known : BOOLEAN], d : [v : Nat, known : BOOLEAN]]
  BY <1>4 DEF Turning
<1>5. CASE o \in [kind : {"measure"}, part : Parts, on : Seq(Nat), use : {"unused", "returned", "added"}]
  BY <1>5 DEF Sources, Turning
<1>6. CASE o \in [kind : {"if"}, part : {"after"}, on : {<<>>}, cond : Nat, yields : SUBSET Nat]
  <2>1. o.kind = "if" /\ o.part = "after" /\ o.on = <<>>
    BY <1>6
  <2>2. <<>> \in Seq(Nat)
    OBVIOUS
  <2>3. o.on \in Seq(Nat) /\ o.part \in Parts
    BY <2>1, <2>2 DEF Parts
  <2> QED
    BY <2>1, <2>3 DEF Sources, Turning
<1> QED
  BY <1>1, <1>2, <1>3, <1>4, <1>5, <1>6 DEF Operation

LEMMA RotationTyped ==
  ASSUME NEW o \in Operation, NEW axis \in Axes, NEW v \in Int
  PROVE  /\ Rotation(o, axis, v) \in Operation /\ Rotation(o, axis, v).kind \in Turning
         /\ Rotation(o, axis, v).part = o.part /\ Rotation(o, axis, v).on = o.on
<1>1. o.part \in Parts /\ o.on \in Seq(Nat)
  BY KindFacts
<1> QED
  BY <1>1 DEF Rotation, Constant, Operation, Turning

LEMMA NewAngleTyped ==
  ASSUME NEW o \in Operation, o.kind = "rot", NEW v \in Int
  PROVE  LET r == [o EXCEPT !.a = Constant(v)]
         IN  r \in Operation /\ r.kind \in Turning /\ r.part = o.part /\ r.on = o.on
<1>1. o \in [kind : {"rot"}, part : Parts, on : Seq(Nat), axis : Axes, a : [v : Int, known : BOOLEAN]]
  BY DEF Operation, Sources
<1>2. Constant(v) \in [v : Int, known : BOOLEAN]
  BY DEF Constant
<1>3. [o EXCEPT !.a = Constant(v)]
        \in [kind : {"rot"}, part : Parts, on : Seq(Nat), axis : Axes, a : [v : Int, known : BOOLEAN]]
  BY <1>1, <1>2
<1> QED
  BY <1>1, <1>3 DEF Operation, Turning

LEMMA NewNumbersTyped ==
  ASSUME NEW o \in Operation, o.kind = "int", NEW n \in [v : Int, known : BOOLEAN],
         NEW d \in [v : Nat, known : BOOLEAN]
  PROVE  /\ LET r == [o EXCEPT !.n = n]
            IN  r \in Operation /\ r.kind \in Turning /\ r.part = o.part /\ r.on = o.on
         /\ LET r == [o EXCEPT !.n = n, !.d = d]
            IN  r \in Operation /\ r.kind \in Turning /\ r.part = o.part /\ r.on = o.on
<1> DEFINE IntRotation ==
             [kind : {"int"}, part : Parts, on : Seq(Nat), axis : Axes,
              n : [v : Int, known : BOOLEAN], d : [v : Nat, known : BOOLEAN]]
<1>1. o \in IntRotation
  BY DEF Operation, Sources
<1>2. [o EXCEPT !.n = n] \in IntRotation /\ [o EXCEPT !.n = n, !.d = d] \in IntRotation
  BY <1>1
<1>3. \A r \in IntRotation : r \in Operation /\ r.kind \in Turning
  BY DEF Operation, Turning
<1> QED
  BY <1>1, <1>2, <1>3

LEMMA NumbersTyped ==
  /\ \A v \in Int : F32(v) \in Int /\ Normalized(v) \in Int /\ Wrap(v) \in Int
  /\ \A n \in Int, d \in Nat : IntAngle(n, d) \in Int
<1>1. \A v \in Int : F32(v) \in Int
  BY DEF F32, Unit
<1>2. \A v \in Int : Normalized(v) \in Int
  BY DEF Normalized, FullTurn, HalfTurn, Unit
<1>3. \A v \in Int : Wrap(v) \in Int
  BY WrapFits, HalfWordPositive
<1>4. ASSUME NEW n \in Int, NEW d \in Nat PROVE IntAngle(n, d) \in Int
  <2>1. 2 ^ d \in Nat \ {0} /\ n * HalfTurn \in Int
    BY PowerPositive DEF HalfTurn, Unit
  <2> QED
    BY <2>1 DEF IntAngle
<1> QED
  BY <1>1, <1>2, <1>3, <1>4

LEMMA NormalizedIntTyped ==
  ASSUME NEW n \in Int, NEW d \in Nat, d < WordBits - 1
  PROVE  NormalizedInt(n, d) \in Int
<1> DEFINE p == 2 ^ (d + 1)
           period == Wrap(p)
<1>1. p \in Nat \ {0} /\ p <= HalfWord /\ HalfWord \in Nat \ {0}
  BY PeriodFits, HalfWordPositive, PowerPositive
<1>2. period \in {p, -p}
  <2>1. CASE p < HalfWord
    <3>1. p \in -HalfWord .. HalfWord - 1
      BY <1>1, <2>1
    <3> QED
      BY <3>1, WrapFits
  <2>2. CASE p = HalfWord
    <3>1. HalfWord \in HalfWord .. 3 * HalfWord - 1
      BY <1>1
    <3>2. Wrap(HalfWord) = HalfWord - 2 * HalfWord
      BY <3>1, WrapFits
    <3> QED
      BY <1>1, <2>2, <3>2
  <2> QED
    BY <1>1, <2>1, <2>2
<1> HIDE DEF p, period
<1>3. period \in Int /\ \A x \in Int : Rem(x, period) \in Int
  <2>1. period \in Int
    BY <1>1, <1>2
  <2>2. ASSUME NEW x \in Int PROVE Rem(x, period) \in Int
    <3>1. Rem(x, period) \in -(p - 1) .. p - 1
      BY <1>1, <1>2, RemFits
    <3> QED
      BY <1>1, <3>1
  <2> QED
    BY <2>1, <2>2
<1>4. \A x \in Int : Wrap(x) \in Int
  BY NumbersTyped
<1> DEFINE mod == Rem(Wrap(Rem(n, period) + period), period)
<1>5. mod \in Int
  BY <1>3, <1>4
<1>6. NormalizedInt(n, d) \in {mod, Wrap(mod - period)}
  BY DEF NormalizedInt, period, p
<1> QED
  BY <1>3, <1>4, <1>5, <1>6

-----------------------------------------------------------------------------
(***************************************************************************)
(* What a pattern does.                                                    *)
(***************************************************************************)
Typed == ops \in [DOMAIN ops -> Operation]

Rewritten ==
  /\ ops' \in [DOMAIN ops' -> Operation]
  /\ DOMAIN ops' \subseteq DOMAIN ops
  /\ \A i \in DOMAIN ops \ DOMAIN ops' : ops[i].kind \in Turning
  /\ \A i \in DOMAIN ops' :
       \/ ops'[i] = ops[i]
       \/ /\ ops[i].kind \in Turning /\ ops'[i].kind \in Turning
          /\ ops'[i].part = ops[i].part /\ ops'[i].on = ops[i].on

LEMMA ErasingRewrites ==
  ASSUME Typed, NEW S \in SUBSET DOMAIN ops, \A i \in S : ops[i].kind \in Turning, ops' = Erase(S)
  PROVE  Rewritten
BY DEF Typed, Erase, Rewritten

LEMMA ReplacingRewrites ==
  ASSUME Typed, NEW i \in DOMAIN ops, NEW S \in SUBSET (DOMAIN ops \ {i}), NEW o \in Operation,
         \A j \in S \cup {i} : ops[j].kind \in Turning,
         o.kind \in Turning, o.part = ops[i].part, o.on = ops[i].on,
         ops' = [j \in DOMAIN ops \ S |-> IF j = i THEN o ELSE ops[j]]
  PROVE  Rewritten
BY DEF Typed, Rewritten

LEMMA RewriteRewrites ==
  ASSUME Typed, DOMAIN ops \subseteq Nat, Rewrite
  PROVE  Rewritten
<1>1. CASE CancelHermitianPair
  <2>1. PICK p \in HermitianPairs : ops' = Erase({p[1], p[2]})
    BY <1>1 DEF CancelHermitianPair
  <2>2. {p[1], p[2]} \subseteq DOMAIN ops /\ \A i \in {p[1], p[2]} : ops[i].kind \in Turning
    BY DEF HermitianPairs, Pairs, Turning
  <2> QED
    BY <2>1, <2>2, ErasingRewrites
<1>2. CASE PauliToRotation
  <2>1. PICK i \in Paulis : ops' = [ops EXCEPT ![i] = Rotation(@, Axis[@.name], F32(HalfTurn))]
    BY <1>2 DEF PauliToRotation
  <2>2. i \in DOMAIN ops /\ ops[i].kind \in Turning /\ ops[i] \in Operation /\ Axis[ops[i].name] \in Axes
    BY DEF Paulis, Turning, Typed, Axis, Axes
  <2> DEFINE o == Rotation(ops[i], Axis[ops[i].name], F32(HalfTurn))
  <2>3. F32(HalfTurn) \in Int
    BY NumbersTyped DEF HalfTurn, Unit
  <2>4. o \in Operation /\ o.kind \in Turning /\ o.part = ops[i].part /\ o.on = ops[i].on
    BY <2>2, <2>3, RotationTyped
  <2>5. ops' = [j \in DOMAIN ops \ {} |-> IF j = i THEN o ELSE ops[j]]
    BY <2>1
  <2> HIDE DEF o
  <2>6. \A j \in {} \cup {i} : ops[j].kind \in Turning
    BY <2>2
  <2> QED
    BY <2>2, <2>4, <2>5, <2>6, ReplacingRewrites
<1>3. CASE FoldRotationPair
  <2>1. PICK p \in RotationPairs :
          ops' = Replaced(p, [ops[p[2]] EXCEPT !.a = Constant(F32(ops[p[1]].a.v + @.v))])
    BY <1>3 DEF FoldRotationPair
  <2>2. /\ p[1] \in DOMAIN ops /\ p[2] \in DOMAIN ops /\ p[1] # p[2]
        /\ ops[p[1]].kind = "rot" /\ ops[p[2]].kind = "rot"
    BY DEF RotationPairs, Pairs
  <2>3. ops[p[1]] \in Operation /\ ops[p[2]] \in Operation
    BY <2>2 DEF Typed
  <2> DEFINE v == F32(ops[p[1]].a.v + ops[p[2]].a.v)
             o == [ops[p[2]] EXCEPT !.a = Constant(v)]
  <2>4. v \in Int
    <3>1. ops[p[1]].a.v \in Int /\ ops[p[2]].a.v \in Int
      BY <2>2, <2>3, KindFacts
    <3>2. ops[p[1]].a.v + ops[p[2]].a.v \in Int
      BY <3>1
    <3> QED
      BY <3>2, NumbersTyped
  <2>5. ops' = [j \in DOMAIN ops \ {p[1]} |-> IF j = p[2] THEN o ELSE ops[j]]
    BY <2>1 DEF Replaced
  <2> HIDE DEF v
  <2>6. o \in Operation /\ o.kind \in Turning /\ o.part = ops[p[2]].part /\ o.on = ops[p[2]].on
    BY <2>2, <2>3, <2>4, NewAngleTyped
  <2> HIDE DEF o
  <2>7. \A j \in {p[1]} \cup {p[2]} : ops[j].kind \in Turning
    BY <2>2 DEF Turning
  <2> QED
    BY <2>2, <2>5, <2>6, <2>7, ReplacingRewrites
<1>4. CASE FoldMixedPair
  <2>1. PICK p \in MixedPairs :
          ops' = Replaced(p, Rotation(ops[p[2]], ops[p[2]].axis, F32(Float(ops[p[1]]) + Float(ops[p[2]]))))
    BY <1>4 DEF FoldMixedPair
  <2>2. /\ p[1] \in DOMAIN ops /\ p[2] \in DOMAIN ops /\ p[1] # p[2]
        /\ ops[p[1]].kind \in {"rot", "int"} /\ ops[p[2]].kind \in {"rot", "int"}
    BY DEF MixedPairs, Pairs
  <2>3. ops[p[1]] \in Operation /\ ops[p[2]] \in Operation
    BY <2>2 DEF Typed
  <2>4. \A o \in Operation : o.kind \in {"rot", "int"} => Float(o) \in Int /\ o.axis \in Axes
    BY KindFacts, NumbersTyped DEF Float
  <2> DEFINE v == F32(Float(ops[p[1]]) + Float(ops[p[2]]))
             o == Rotation(ops[p[2]], ops[p[2]].axis, v)
  <2>5. v \in Int
    <3>1. Float(ops[p[1]]) \in Int /\ Float(ops[p[2]]) \in Int
      BY <2>2, <2>3, <2>4
    <3> QED
      BY <3>1, NumbersTyped
  <2>6. ops' = [j \in DOMAIN ops \ {p[1]} |-> IF j = p[2] THEN o ELSE ops[j]]
    BY <2>1 DEF Replaced
  <2> HIDE DEF v
  <2>7. o \in Operation /\ o.kind \in Turning /\ o.part = ops[p[2]].part /\ o.on = ops[p[2]].on
    BY <2>2, <2>3, <2>4, <2>5, RotationTyped
  <2> HIDE DEF o
  <2>8. \A j \in {p[1]} \cup {p[2]} : ops[j].kind \in Turning
    BY <2>2 DEF Turning
  <2> QED
    BY <2>2, <2>6, <2>7, <2>8, ReplacingRewrites
<1>5. CASE FoldIntPair
  <2>1. PICK p \in IntPairs :
          ops' = Replaced(p, [ops[p[2]] EXCEPT
                   !.n = [v |-> Wrap(Sum(ops[p[1]], ops[p[2]])), known |-> BothKnown(p)],
                   !.d = [v |-> Denominator(ops[p[1]], ops[p[2]]),
                          known |-> ops[p[1]].d.known /\ ops[p[2]].d.known]])
    BY <1>5 DEF FoldIntPair
  <2>2. /\ p[1] \in DOMAIN ops /\ p[2] \in DOMAIN ops /\ p[1] # p[2]
        /\ ops[p[1]].kind = "int" /\ ops[p[2]].kind = "int"
    BY DEF IntPairs, Pairs
  <2> DEFINE o1 == ops[p[1]]
             o2 == ops[p[2]]
             n == [v |-> Wrap(Sum(o1, o2)), known |-> BothKnown(p)]
             d == [v |-> Denominator(o1, o2), known |-> o1.d.known /\ o2.d.known]
             o == [o2 EXCEPT !.n = n, !.d = d]
  <2>3. o1 \in Operation /\ o2 \in Operation
    BY <2>2 DEF Typed
  <2>4. /\ o1.n.v \in Int /\ o2.n.v \in Int /\ o1.d.v \in Nat /\ o2.d.v \in Nat
        /\ o1.n.known \in BOOLEAN /\ o2.n.known \in BOOLEAN
        /\ o1.d.known \in BOOLEAN /\ o2.d.known \in BOOLEAN
    BY <2>2, <2>3, KindFacts
  <2>5. Denominator(o1, o2) \in Nat /\ o1.d.v <= Denominator(o1, o2) /\ o2.d.v <= Denominator(o1, o2)
    <3> DEFINE S == {o1.d.v, o2.d.v}
    <3>1. \E x \in S : \A y \in S : x >= y
      BY <2>4
    <3>2. Max(S) \in S /\ \A y \in S : Max(S) >= y
      BY <3>1 DEF Max
    <3> QED
      BY <2>4, <3>2 DEF Denominator
  <2>6. Sum(o1, o2) \in Int
    <3> DEFINE e1 == Denominator(o1, o2) - o1.d.v
               e2 == Denominator(o1, o2) - o2.d.v
    <3>1. e1 \in Nat /\ e2 \in Nat
      BY <2>4, <2>5
    <3>2. 2 ^ e1 \in Nat /\ 2 ^ e2 \in Nat
      BY <3>1, PowerPositive
    <3>3. Sum(o1, o2) = o1.n.v * 2 ^ e1 + o2.n.v * 2 ^ e2
      BY DEF Sum
    <3> HIDE DEF e1, e2
    <3> QED
      BY <2>4, <3>2, <3>3
  <2>7. n \in [v : Int, known : BOOLEAN] /\ d \in [v : Nat, known : BOOLEAN]
    <3>1. Wrap(Sum(o1, o2)) \in Int
      BY <2>6, NumbersTyped
    <3>2. BothKnown(p) \in BOOLEAN
      BY <2>2, <2>4 DEF BothKnown, Known
    <3> QED
      BY <2>4, <2>5, <3>1, <3>2
  <2>8. ops' = [j \in DOMAIN ops \ {p[1]} |-> IF j = p[2] THEN o ELSE ops[j]]
    BY <2>1 DEF Replaced
  <2> HIDE DEF n, d
  <2>9. o \in Operation /\ o.kind \in Turning /\ o.part = ops[p[2]].part /\ o.on = ops[p[2]].on
    <3>1. o2.kind = "int"
      BY <2>2
    <3> HIDE DEF o2
    <3>2. o \in Operation /\ o.kind \in Turning /\ o.part = o2.part /\ o.on = o2.on
      BY <2>3, <2>7, <3>1, NewNumbersTyped
    <3> QED
      BY <3>2 DEF o2
  <2> HIDE DEF o
  <2>10. \A j \in {p[1]} \cup {p[2]} : ops[j].kind \in Turning
    BY <2>2 DEF Turning
  <2> QED
    BY <2>2, <2>8, <2>9, <2>10, ReplacingRewrites
<1>6. CASE NormalizeRotation
  <2>1. PICK i \in WideRotations : ops' = [ops EXCEPT ![i].a = Constant(F32(Normalized(@.v)))]
    BY <1>6 DEF NormalizeRotation
  <2>2. i \in DOMAIN ops /\ ops[i].kind = "rot"
    BY DEF WideRotations, KnownRotations
  <2>3. ops[i] \in Operation
    BY <2>2 DEF Typed
  <2> DEFINE v == F32(Normalized(ops[i].a.v))
             o == [ops[i] EXCEPT !.a = Constant(v)]
  <2>4. v \in Int
    BY <2>2, <2>3, KindFacts, NumbersTyped
  <2>5. ops' = [j \in DOMAIN ops \ {} |-> IF j = i THEN o ELSE ops[j]]
    BY <2>1
  <2> HIDE DEF v
  <2>6. o \in Operation /\ o.kind \in Turning /\ o.part = ops[i].part /\ o.on = ops[i].on
    BY <2>2, <2>3, <2>4, NewAngleTyped
  <2> HIDE DEF o
  <2>7. \A j \in {} \cup {i} : ops[j].kind \in Turning
    BY <2>2 DEF Turning
  <2> QED
    BY <2>2, <2>5, <2>6, <2>7, ReplacingRewrites
<1>7. CASE NormalizeInt
  <2>1. PICK i \in WideIntRotations :
          ops' = [ops EXCEPT ![i].n = Constant(NormalizedInt(@.v, ops[i].d.v))]
    BY <1>7 DEF NormalizeInt
  <2>2. i \in DOMAIN ops /\ ops[i].kind = "int" /\ ops[i].d.v < WordBits - 1
    BY DEF WideIntRotations, KnownRotations
  <2>3. ops[i] \in Operation
    BY <2>2 DEF Typed
  <2> DEFINE n == Constant(NormalizedInt(ops[i].n.v, ops[i].d.v))
             o == [ops[i] EXCEPT !.n = n]
  <2>4. n \in [v : Int, known : BOOLEAN]
    <3>1. ops[i].n.v \in Int /\ ops[i].d.v \in Nat
      BY <2>2, <2>3, KindFacts
    <3>2. NormalizedInt(ops[i].n.v, ops[i].d.v) \in Int
      BY <2>2, <3>1, NormalizedIntTyped
    <3> QED
      BY <3>2 DEF Constant
  <2>5. ops' = [j \in DOMAIN ops \ {} |-> IF j = i THEN o ELSE ops[j]]
    BY <2>1
  <2> HIDE DEF n
  <2>6. o \in Operation /\ o.kind \in Turning /\ o.part = ops[i].part /\ o.on = ops[i].on
    <3>1. [v |-> 0, known |-> TRUE] \in [v : Nat, known : BOOLEAN]
      OBVIOUS
    <3> QED
      BY <2>2, <2>3, <2>4, <3>1, NewNumbersTyped
  <2> HIDE DEF o
  <2>7. \A j \in {} \cup {i} : ops[j].kind \in Turning
    BY <2>2 DEF Turning
  <2> QED
    BY <2>2, <2>5, <2>6, <2>7, ReplacingRewrites
<1>8. CASE EliminateFullTurn
  <2>1. PICK i \in FullTurns : ops' = Erase({i})
    BY <1>8 DEF EliminateFullTurn
  <2>2. {i} \subseteq DOMAIN ops /\ \A j \in {i} : ops[j].kind \in Turning
    BY DEF FullTurns, KnownRotations, Turning
  <2> QED
    BY <2>1, <2>2, ErasingRewrites
<1>9. CASE EliminateZeroInt
  <2>1. PICK i \in ZeroRotations : ops' = Erase({i})
    BY <1>9 DEF EliminateZeroInt
  <2>2. {i} \subseteq DOMAIN ops /\ \A j \in {i} : ops[j].kind \in Turning
    BY DEF ZeroRotations, Turning
  <2> QED
    BY <2>1, <2>2, ErasingRewrites
<1> QED
  BY <1>1, <1>2, <1>3, <1>4, <1>5, <1>6, <1>7, <1>8, <1>9 DEF Rewrite

-----------------------------------------------------------------------------
(***************************************************************************)
(* The invariant of all passes: operations keep their places, and until    *)
(* dead code is erased all that starts, measures or branches is there.     *)
(***************************************************************************)
PassInv ==
  /\ source \in Programs
  /\ Typed
  /\ DOMAIN ops \subseteq DOMAIN source
  /\ \A i \in DOMAIN ops :
       \/ ops[i] = source[i]
       \/ /\ source[i].kind \in Turning /\ ops[i].kind \in Turning
          /\ ops[i].part = source[i].part /\ ops[i].on = source[i].on
  /\ phase \in {"check", "peephole", "mark"} =>
       \A i \in DOMAIN source \ DOMAIN ops : source[i].kind \in Turning

LEMMA SourceFacts ==
  ASSUME source \in Programs
  PROVE  /\ Len(source) \in Nat /\ DOMAIN source = 1 .. Len(source)
         /\ source \in [DOMAIN source -> Operation]
         /\ IsFunction(source)
<1>1. IsFunction(source)
  BY ProgramsAssumption
<1>2. source \in Seq(Operation)
  BY <1>1 DEF IsFunction
<1> QED
  BY <1>1, <1>2

LEMMA ErasingKeepsPlaces ==
  ASSUME PassInv, NEW S, ops' = Erase(S), phase' \notin {"check", "peephole", "mark"}, UNCHANGED source
  PROVE  PassInv'
BY DEF PassInv, Typed, Erase

LEMMA PassInvInit == Init => PassInv
<1> SUFFICES ASSUME Init PROVE PassInv
  OBVIOUS
<1>1. source \in Programs /\ ops = source
  BY DEF Init
<1>2. source \in [DOMAIN source -> Operation]
  BY <1>1, SourceFacts
<1> QED
  BY <1>1, <1>2 DEF PassInv, Typed

LEMMA PassInvStep == PassInv /\ [Next]_vars => PassInv'
<1> SUFFICES ASSUME PassInv, [Next]_vars PROVE PassInv'
  OBVIOUS
<1>1. CASE CheckLinear
  BY <1>1 DEF CheckLinear, PassInv, Typed, program
<1>2. CASE Optimize
  <2>1. Rewritten
    <3>1. DOMAIN ops \subseteq Nat
      BY SourceFacts DEF PassInv
    <3> QED
      BY <1>2, <3>1, RewriteRewrites DEF PassInv, Optimize
  <2>2. UNCHANGED <<source, phase>>
    BY <1>2 DEF Optimize, program
  <2>3. Typed' /\ DOMAIN ops' \subseteq DOMAIN source
    BY <2>1 DEF Rewritten, PassInv, Typed
  <2>4. ASSUME NEW i \in DOMAIN ops'
        PROVE  \/ ops'[i] = source[i]
               \/ /\ source[i].kind \in Turning /\ ops'[i].kind \in Turning
                  /\ ops'[i].part = source[i].part /\ ops'[i].on = source[i].on
    <3>1. i \in DOMAIN ops
      BY <2>1, <2>4 DEF Rewritten
    <3>2. \/ ops'[i] = ops[i]
          \/ /\ ops[i].kind \in Turning /\ ops'[i].kind \in Turning
             /\ ops'[i].part = ops[i].part /\ ops'[i].on = ops[i].on
      BY <2>1, <2>4 DEF Rewritten
    <3>3. \/ ops[i] = source[i]
          \/ /\ source[i].kind \in Turning /\ ops[i].kind \in Turning
             /\ ops[i].part = source[i].part /\ ops[i].on = source[i].on
      BY <3>1 DEF PassInv
    <3> QED
      BY <3>2, <3>3
  <2>5. ASSUME phase \in {"check", "peephole", "mark"}, NEW i \in DOMAIN source \ DOMAIN ops'
        PROVE  source[i].kind \in Turning
    <3>1. CASE i \in DOMAIN ops
      <4>1. ops[i].kind \in Turning
        BY <2>1, <2>5, <3>1 DEF Rewritten
      <4> QED
        BY <3>1, <4>1 DEF PassInv
    <3>2. CASE i \notin DOMAIN ops
      BY <2>5, <3>2 DEF PassInv
    <3> QED
      BY <3>1, <3>2
  <2> QED
    BY <2>2, <2>3, <2>4, <2>5 DEF PassInv
<1>3. CASE CollectRoots \/ Mark
  BY <1>3 DEF CollectRoots, Mark, PassInv, Typed, program
<1>4. CASE Doom \/ Finish
  BY <1>4 DEF Doom, Finish, PassInv, Typed, program, marking
<1>5. CASE EraseLast
  <2>1. UNCHANGED source
    BY <1>5 DEF EraseLast, program
  <2>2. CASE \E i : ops' = Erase({i}) /\ phase' = "erase"
    BY <2>1, <2>2, ErasingKeepsPlaces
  <2>3. CASE phase' = "broken" /\ UNCHANGED ops
    BY <2>1, <2>3 DEF PassInv, Typed
  <2> QED
    BY <1>5, <2>2, <2>3 DEF EraseLast
<1>6. CASE UNCHANGED vars
  BY <1>6 DEF vars, program, PassInv, Typed
<1> QED
  BY <1>1, <1>2, <1>3, <1>4, <1>5, <1>6 DEF Next, Eliminate

-----------------------------------------------------------------------------
(***************************************************************************)
(* Angles.  When no pattern matches, none of the known ones is changed by  *)
(* its normalisation; from then on operations are only erased.             *)
(***************************************************************************)
LEMMA NoMatchCanonical ==
  ASSUME PassInv, NoMatch, opts.normalize, NEW i \in DOMAIN ops,
         ops[i].kind \in {"rot", "int"}, Known(ops[i])
  PROVE  Canonical(ops[i])
<1>1. ops[i] \in Operation
  BY DEF PassInv, Typed
<1>2. CASE ops[i].kind = "rot"
  <2>1. ops[i].a.v \in Int
    BY <1>1, <1>2, KindFacts
  <2>2. Normalized(ops[i].a.v) = ops[i].a.v
    BY <1>2 DEF NoMatch, WideRotations, KnownRotations
  <2>3. \A v \in Int : -HalfTurn < Normalized(v) /\ Normalized(v) <= HalfTurn
    BY DEF Normalized, FullTurn, HalfTurn, Unit
  <2>4. -HalfTurn < ops[i].a.v /\ ops[i].a.v <= HalfTurn
    BY <2>1, <2>2, <2>3
  <2> QED
    BY <1>2, <2>4 DEF Canonical
<1>3. CASE ops[i].kind = "int"
  <2>1. ops[i].n.v \in Int /\ ops[i].d.v \in Nat
    BY <1>1, <1>3, KindFacts
  <2>2. ops[i].d.v < WordBits - 1 => NormalizedInt(ops[i].n.v, ops[i].d.v) = ops[i].n.v
    BY <1>3 DEF NoMatch, WideIntRotations, KnownRotations
  <2>3. ops[i].d.v < WordBits - 1 => -(2 ^ ops[i].d.v) < ops[i].n.v /\ ops[i].n.v <= 2 ^ ops[i].d.v
    BY <2>1, <2>2, LeftAloneInRange
  <2> QED
    BY <1>3, <2>3 DEF Canonical
<1> QED
  BY <1>2, <1>3

(***************************************************************************)
(* With normalisation, no known angle is left out of range: floats are in  *)
(* (-pi, pi], integers in (-2^d, 2^d].                                     *)
(***************************************************************************)
THEOREM AnglesCorrect == Spec => []AnglesCanonical
<1>1. Init => AnglesCanonical
  BY DEF Init, AnglesCanonical
<1>2. PassInv /\ AnglesCanonical /\ [Next]_vars => AnglesCanonical'
  <2> SUFFICES ASSUME PassInv, AnglesCanonical, [Next]_vars, opts'.normalize,
                      phase' \in {"mark", "erase", "done"},
                      NEW i \in DOMAIN ops', ops'[i].kind \in {"rot", "int"}, Known(ops'[i])
               PROVE  Canonical(ops'[i])
    BY DEF AnglesCanonical, Of
  <2>1. UNCHANGED opts
    BY DEF Next, Eliminate, CheckLinear, Optimize, CollectRoots, Mark, Doom, EraseLast, Finish, vars, program
  <2>2. CASE CollectRoots
    <3>1. NoMatch /\ UNCHANGED ops
      BY <2>2 DEF CollectRoots
    <3> QED
      BY <2>1, <3>1, NoMatchCanonical
  <2>3. CASE phase \in {"mark", "erase", "done"} /\ i \in DOMAIN ops /\ ops'[i] = ops[i]
    BY <2>1, <2>3 DEF AnglesCanonical, Of
  <2>4. CASE CheckLinear \/ Optimize
    BY <2>4 DEF CheckLinear, Optimize, Rewrite
  <2>5. CASE Mark \/ Doom \/ Finish \/ UNCHANGED vars
    <3>1. UNCHANGED ops /\ phase \in {"mark", "erase", "done"}
      BY <2>5 DEF Mark, Doom, Finish, vars
    <3> QED
      BY <2>3, <3>1
  <2>6. CASE EraseLast
    <3>1. phase = "erase" /\ \E S : ops' = Erase(S)
      BY <2>6 DEF EraseLast
    <3>2. i \in DOMAIN ops /\ ops'[i] = ops[i]
      BY <3>1 DEF Erase
    <3> QED
      BY <2>3, <3>1, <3>2
  <2> QED
    BY <2>2, <2>4, <2>5, <2>6 DEF Next, Eliminate
<1> QED
  BY <1>1, <1>2, PassInvInit, PassInvStep, PTL DEF Spec

-----------------------------------------------------------------------------
(***************************************************************************)
(* Greatest elements, and the list of a set.                               *)
(***************************************************************************)
\* Naturals are well founded; the library states it with an operator for a parameter.
LEMMA LessWellFounded == IsWellFoundedOn({r \in Nat \X Nat : r[1] < r[2]}, Nat)
<1>1. OpToRel(<, Nat) = {r \in Nat \X Nat : r[1] < r[2]}
  BY DEF OpToRel
<1> QED
  BY <1>1, NatLessThanWellFounded

LEMMA MaxIsGreatest ==
  ASSUME NEW n \in Nat, NEW S \in SUBSET (1 .. n), S # {}
  PROVE  Max(S) \in S /\ \A y \in S : y <= Max(S)
<1> DEFINE R == {r \in Nat \X Nat : r[1] < r[2]}
           T == {n - x : x \in S}
<1>1. T \subseteq Nat /\ T # {}
  <2>1. \A x \in S : n - x \in Nat
    OBVIOUS
  <2> QED
    BY <2>1
<1>2. IsWellFoundedOn(R, Nat)
  BY LessWellFounded
<1> HIDE DEF R, T
<1>3. PICK t \in T : \A u \in T : ~(<<u, t>> \in R)
  BY <1>1, <1>2, WFMin
<1>4. PICK x \in S : t = n - x
  BY DEF T
<1>5. \A y \in S : x >= y
  <2> TAKE y \in S
  <2>1. n - y \in T /\ n - y \in Nat /\ t \in Nat
    BY <1>1 DEF T
  <2>2. ~(n - y < t)
    BY <1>3, <2>1 DEF R
  <2> QED
    BY <1>4, <2>2
<1>6. Max(S) \in S /\ \A y \in S : Max(S) >= y
  BY <1>5 DEF Max
<1> QED
  BY <1>6

LEMMA MaxStays ==
  ASSUME NEW n \in Nat, NEW S \in SUBSET (1 .. n), NEW k, Max(S) \in S \ {k}
  PROVE  Max(S \ {k}) = Max(S)
<1> DEFINE m == Max(S)
           l == Max(S \ {k})
<1>1. \A y \in S : y <= m
  BY MaxIsGreatest
<1>2. l \in S \ {k} /\ \A y \in S \ {k} : y <= l
  BY MaxIsGreatest
<1>3. m \in S \ {k}
  OBVIOUS
<1> HIDE DEF l, m
<1>4. l <= m /\ m <= l /\ l \in Int /\ m \in Int
  BY <1>1, <1>2, <1>3
<1> QED
  BY <1>4 DEF l, m

LEMMA InOrderLists ==
  ASSUME NEW n \in Nat, NEW S \in SUBSET (1 .. n)
  PROVE  InOrder(S) \in Seq(S) /\ \A i \in S : \E k \in DOMAIN InOrder(S) : InOrder(S)[k] = i
<1> DEFINE c == Cardinality(S)
           upTo(i) == {j \in S : j <= i}
           rank == [i \in S |-> Cardinality(upTo(i))]
<1>1. IsFiniteSet(S) /\ c \in Nat
  <2>1. IsFiniteSet(1 .. n)
    BY FS_Interval
  <2>2. IsFiniteSet(S)
    BY <2>1, FS_Subset
  <2> QED
    BY <2>2, FS_CardinalityType
<1>2. \A i \in S : upTo(i) \in SUBSET S /\ IsFiniteSet(upTo(i)) /\ Cardinality(upTo(i)) \in Nat
                   /\ Cardinality(upTo(i)) <= c /\ upTo(i) # {}
  <2> TAKE i \in S
  <2>1. upTo(i) \in SUBSET S /\ i \in upTo(i)
    OBVIOUS
  <2> HIDE DEF upTo
  <2> QED
    BY <1>1, <2>1, FS_Subset, FS_CardinalityType
<1>3. rank \in [S -> 1 .. c]
  <2> SUFFICES ASSUME NEW i \in S PROVE Cardinality(upTo(i)) \in 1 .. c
    OBVIOUS
  <2> HIDE DEF upTo
  <2>1. Cardinality(upTo(i)) # 0
    BY <1>2, FS_EmptySet
  <2> QED
    BY <1>1, <1>2, <2>1
<1>4. \A i, j \in S : rank[i] = rank[j] => i = j
  <2>1. ASSUME NEW i \in S, NEW j \in S, i < j PROVE Cardinality(upTo(i)) # Cardinality(upTo(j))
    <3>1. upTo(i) \in SUBSET upTo(j) /\ j \in upTo(j) /\ j \notin upTo(i)
      <4>1. \A x \in S : x \in Int
        OBVIOUS
      <4>2. \A x \in S : x <= i => x <= j
        BY <2>1, <4>1
      <4>3. j <= j /\ ~(j <= i)
        BY <2>1, <4>1
      <4> QED
        BY <4>2, <4>3
    <3> HIDE DEF upTo
    <3> QED
      BY <1>2, <3>1, FS_Subset
  <2> SUFFICES ASSUME NEW i \in S, NEW j \in S, rank[i] = rank[j] PROVE i = j
    OBVIOUS
  <2>2. Cardinality(upTo(i)) = Cardinality(upTo(j))
    OBVIOUS
  <2> HIDE DEF upTo, rank
  <2>3. i \in Int /\ j \in Int
    OBVIOUS
  <2>4. ~(i < j) /\ ~(j < i)
    BY <2>1, <2>2
  <2> QED
    BY <2>3, <2>4
<1>5. rank \in Surjection(S, 1 .. c)
  <2>1. rank \in Injection(S, 1 .. c)
    BY <1>3, <1>4 DEF Injection, IsInjective
  <2>2. IsFiniteSet(1 .. c) /\ Cardinality(1 .. c) = c
    BY <1>1, FS_Interval
  <2> HIDE DEF rank
  <2> QED
    BY <2>1, <2>2, FS_Injection
<1>6. DOMAIN InOrder(S) = 1 .. c /\ Len(InOrder(S)) = c
  BY <1>1 DEF InOrder
<1>7. \A k \in 1 .. c : InOrder(S)[k] \in S /\ rank[InOrder(S)[k]] = k
  <2> TAKE k \in 1 .. c
  <2>1. \E i \in S : rank[i] = k
    BY <1>5 DEF Surjection
  <2>2. \E i \in S : Cardinality({j \in S : j <= i}) = k
    BY <2>1
  <2>3. InOrder(S)[k] = CHOOSE i \in S : Cardinality({j \in S : j <= i}) = k
    BY DEF InOrder
  <2>4. InOrder(S)[k] \in S /\ Cardinality({j \in S : j <= InOrder(S)[k]}) = k
    BY <2>2, <2>3
  <2> QED
    BY <2>4
<1> HIDE DEF rank, upTo, c
<1>8. InOrder(S) \in Seq(S)
  <2>1. InOrder(S) = [k \in 1 .. c |-> InOrder(S)[k]]
    BY <1>6 DEF InOrder, c
  <2> QED
    BY <1>1, <1>7, <2>1
<1>9. \A i \in S : rank[i] \in DOMAIN InOrder(S) /\ InOrder(S)[rank[i]] = i
  BY <1>3, <1>4, <1>6, <1>7
<1> QED
  BY <1>8, <1>9

-----------------------------------------------------------------------------
(***************************************************************************)
(* Who makes what: of a function whose parts are in order, and whose       *)
(* operations have something to take, makers come before their takers.     *)
(***************************************************************************)
InParts(f) ==
  /\ f \in [DOMAIN f -> Operation]
  /\ \E n \in Nat : DOMAIN f \subseteq 1 .. n
  /\ \A i, j \in DOMAIN f :
       /\ f[i].part = "entry" /\ f[j].part # "entry" => i < j
       /\ f[i].kind = "if" /\ f[j].part = "after" => i <= j

Before(f, j, w) == {i \in Touching(f, w, f[j].part) : i < j}
FromIf(f, j, w) == Before(f, j, w) = {} /\ f[j].part = "after" /\ w \in Yields(f)

\* There is something to take.
Supplied(f, j, w) ==
  \/ Before(f, j, w) # {}
  \/ FromIf(f, j, w)
  \/ f[j].part # "entry" /\ Touching(f, w, "entry") # {}

TakesWires(f, j) == f[j].kind \notin Sources

Linked(f) == \A j \in DOMAIN f : TakesWires(f, j) => \A w \in Wires(f[j]) : Supplied(f, j, w)

LEMMA MakerCases ==
  ASSUME NEW f, NEW j, NEW w
  PROVE  Maker(f, w, j) =
           IF Before(f, j, w) # {} THEN Max(Before(f, j, w))
           ELSE IF FromIf(f, j, w) THEN TheIf(f)
           ELSE Max(Touching(f, w, "entry"))
BY DEF Maker, MakerAt, Before, FromIf

LEMMA IfHasNoWires ==
  ASSUME NEW f, f \in [DOMAIN f -> Operation], NEW i \in DOMAIN f, f[i].kind = "if"
  PROVE  Wires(f[i]) = {} /\ f[i].part = "after"
<1>1. f[i].on = <<>> /\ f[i].part = "after"
  BY KindFacts
<1> QED
  BY <1>1 DEF Wires, Range

LEMMA YieldsNeedIf ==
  ASSUME NEW f, NEW w, w \in Yields(f)
  PROVE  TheIf(f) \in DOMAIN f /\ f[TheIf(f)].kind = "if"
BY DEF Yields, TheIf

LEMMA MakersPrecede ==
  ASSUME NEW f, InParts(f), NEW j \in DOMAIN f, NEW w \in Wires(f[j]), Supplied(f, j, w)
  PROVE  Maker(f, w, j) \in DOMAIN f /\ Maker(f, w, j) < j
<1>0. PICK n \in Nat : DOMAIN f \subseteq 1 .. n
  BY DEF InParts
<1>1. CASE Before(f, j, w) # {}
  <2>1. Before(f, j, w) \in SUBSET (1 .. n) /\ Before(f, j, w) \subseteq DOMAIN f
    BY <1>0 DEF Before, Touching
  <2>2. Max(Before(f, j, w)) \in Before(f, j, w)
    BY <1>1, <2>1, MaxIsGreatest
  <2>3. Maker(f, w, j) = Max(Before(f, j, w))
    BY <1>1, MakerCases
  <2> QED
    BY <2>1, <2>2, <2>3 DEF Before
<1>2. CASE FromIf(f, j, w)
  <2>1. TheIf(f) \in DOMAIN f /\ f[TheIf(f)].kind = "if"
    BY <1>2, YieldsNeedIf DEF FromIf
  <2>2. TheIf(f) <= j /\ TheIf(f) # j
    BY <1>2, <2>1, IfHasNoWires DEF InParts, FromIf
  <2>3. TheIf(f) \in Int /\ j \in Int
    BY <1>0, <2>1
  <2>4. Maker(f, w, j) = TheIf(f)
    BY <1>2, MakerCases DEF FromIf
  <2> QED
    BY <2>1, <2>2, <2>3, <2>4
<1>3. CASE Before(f, j, w) = {} /\ ~FromIf(f, j, w)
  <2> DEFINE T == Touching(f, w, "entry")
  <2>1. T # {} /\ T \in SUBSET (1 .. n) /\ T \subseteq DOMAIN f
    BY <1>0, <1>3 DEF Supplied, Touching
  <2> HIDE DEF T
  <2>2. Max(T) \in T
    BY <2>1, MaxIsGreatest
  <2> DEFINE m == Max(T)
  <2>3. Maker(f, w, j) = m
    BY <1>3, MakerCases DEF T
  <2> HIDE DEF m
  <2>4. m \in DOMAIN f /\ f[m].part = "entry" /\ w \in Wires(f[m])
    BY <2>2 DEF T, Touching, m
  <2>5. f[j].part # "entry"
    BY <1>3 DEF Supplied
  <2> QED
    BY <2>3, <2>4, <2>5 DEF InParts
<1> QED
  BY <1>1, <1>2, <1>3 DEF FromIf

(***************************************************************************)
(* Erasing an operation that nothing takes changes no maker, and leaves    *)
(* everyone something to take.                                             *)
(***************************************************************************)
Takes(f, j, i) == TakesWires(f, j) /\ \E w \in Wires(f[j]) : Maker(f, w, j) = i

LEMMA OneIf ==
  ASSUME NEW f, InParts(f), NEW i \in DOMAIN f, NEW j \in DOMAIN f, f[i].kind = "if", f[j].kind = "if"
  PROVE  i = j
<1>1. f[i].part = "after" /\ f[j].part = "after"
  BY IfHasNoWires DEF InParts
<1>2. i <= j /\ j <= i /\ i \in Int /\ j \in Int
  BY <1>1 DEF InParts
<1> QED
  BY <1>2

LEMMA YieldsStay ==
  ASSUME NEW f, NEW k, f[k].kind # "if", NEW g, g = [i \in DOMAIN f \ {k} |-> f[i]]
  PROVE  Yields(g) = Yields(f)
<1>1. {j \in DOMAIN g : g[j].kind = "if"} = {j \in DOMAIN f : f[j].kind = "if"}
  OBVIOUS
<1>2. \A x : x \in Yields(g) <=> x \in Yields(f)
  BY <1>1 DEF Yields
<1> QED
  BY <1>2

LEMMA ErasingKeepsMakers ==
  ASSUME NEW f, InParts(f), Linked(f), NEW k \in DOMAIN f, f[k].kind # "if",
         \A j \in DOMAIN f : ~Takes(f, j, k),
         NEW g, g = [i \in DOMAIN f \ {k} |-> f[i]]
  PROVE  /\ InParts(g) /\ Linked(g) /\ Yields(g) = Yields(f)
         /\ \A j \in DOMAIN g : TakesWires(g, j) => \A w \in Wires(g[j]) : Maker(g, w, j) = Maker(f, w, j)
<1>1. DOMAIN g = DOMAIN f \ {k} /\ \A i \in DOMAIN g : g[i] = f[i]
  OBVIOUS
<1>2. InParts(g)
  BY DEF InParts
<1>3. \A w, part : Touching(g, w, part) = Touching(f, w, part) \ {k}
  BY <1>1 DEF Touching
<1>4. Yields(g) = Yields(f)
  BY YieldsStay
<1>5. ASSUME NEW j \in DOMAIN g, TakesWires(g, j), NEW w \in Wires(g[j])
      PROVE  Supplied(g, j, w) /\ Maker(g, w, j) = Maker(f, w, j)
  <2>1. j \in DOMAIN f /\ g[j] = f[j] /\ TakesWires(f, j) /\ w \in Wires(f[j])
    BY <1>1, <1>5 DEF TakesWires
  <2>2. Maker(f, w, j) # k
    BY <2>1 DEF Takes
  <2>3. Supplied(f, j, w)
    BY <2>1 DEF Linked
  <2>4. Before(g, j, w) = Before(f, j, w) \ {k}
    BY <1>3, <2>1 DEF Before
  <2>5. FromIf(f, j, w) => FromIf(g, j, w)
    BY <1>4, <2>1, <2>4 DEF FromIf
  <2>6. PICK n \in Nat : DOMAIN f \subseteq 1 .. n
    BY DEF InParts
  <2>7. CASE Before(f, j, w) # {}
    <3> DEFINE S == Before(f, j, w)
               m == Max(S)
    <3>1. S \in SUBSET (1 .. n) /\ S # {}
      BY <2>6, <2>7 DEF Before, Touching
    <3> HIDE DEF S
    <3>2. m \in S /\ \A y \in S : y <= m
      BY <3>1, MaxIsGreatest
    <3>3. Maker(f, w, j) = m
      BY <2>7, MakerCases DEF S
    <3> HIDE DEF m
    <3>4. m \in S \ {k}
      BY <2>2, <3>2, <3>3
    <3>6. Max(S \ {k}) = m
      BY <3>1, <3>4, MaxStays DEF m
    <3>7. Before(g, j, w) = S \ {k}
      BY <2>4 DEF S
    <3>8. Maker(g, w, j) = Max(S \ {k})
      BY <3>4, <3>7, MakerCases
    <3> QED
      BY <3>3, <3>4, <3>6, <3>7, <3>8 DEF Supplied
  <2>8. CASE FromIf(f, j, w)
    <3>1. Maker(f, w, j) = TheIf(f) /\ Maker(g, w, j) = TheIf(g)
      BY <2>5, <2>8, MakerCases DEF FromIf
    <3>2. TheIf(f) \in DOMAIN f /\ f[TheIf(f)].kind = "if" /\ TheIf(g) \in DOMAIN g /\ g[TheIf(g)].kind = "if"
      BY <2>5, <2>8, YieldsNeedIf DEF FromIf
    <3>3. TheIf(g) = TheIf(f)
      BY <1>1, <3>2, OneIf
    <3> QED
      BY <2>5, <2>8, <3>1, <3>3 DEF Supplied
  <2>9. CASE Before(f, j, w) = {} /\ ~FromIf(f, j, w)
    <3> DEFINE T == Touching(f, w, "entry")
               m == Max(T)
    <3>1. T \in SUBSET (1 .. n) /\ T # {} /\ f[j].part # "entry"
      BY <2>3, <2>6, <2>9 DEF Touching, Supplied
    <3> HIDE DEF T
    <3>2. m \in T /\ \A y \in T : y <= m
      BY <3>1, MaxIsGreatest
    <3>3. Maker(f, w, j) = m
      BY <2>9, MakerCases DEF T
    <3> HIDE DEF m
    <3>4. m \in T \ {k}
      BY <2>2, <3>2, <3>3
    <3>6. Max(T \ {k}) = m
      BY <3>1, <3>4, MaxStays DEF m
    <3>7. Touching(g, w, "entry") = T \ {k}
      BY <1>3 DEF T
    <3>8. Before(g, j, w) = {} /\ ~FromIf(g, j, w)
      BY <1>4, <2>1, <2>4, <2>9 DEF FromIf
    <3>9. Maker(g, w, j) = Max(T \ {k})
      BY <3>7, <3>8, MakerCases
    <3> QED
      BY <2>1, <3>1, <3>3, <3>4, <3>6, <3>7, <3>9 DEF Supplied
  <2> QED
    BY <2>7, <2>8, <2>9 DEF FromIf
<1>6. Linked(g)
  BY <1>5 DEF Linked
<1> QED
  BY <1>2, <1>4, <1>5, <1>6

-----------------------------------------------------------------------------
(***************************************************************************)
(* Marking and erasing.                                                    *)
(***************************************************************************)
LEMMA PartsInOrder == PassInv => InParts(ops)
<1> SUFFICES ASSUME PassInv PROVE InParts(ops)
  OBVIOUS
<1>1. IsFunction(source) /\ Len(source) \in Nat /\ DOMAIN ops \subseteq 1 .. Len(source)
  BY SourceFacts DEF PassInv
<1>2. \A i \in DOMAIN ops : /\ ops[i].part = source[i].part
                            /\ ops[i].kind = "if" => source[i].kind = "if"
  BY DEF PassInv, Turning
<1>3. DOMAIN ops \subseteq DOMAIN source
  BY DEF PassInv
<1> QED
  BY <1>1, <1>2, <1>3 DEF PassInv, Typed, InParts, IsFunction

\* As long as only gates and rotations are missing, wires are started before they are taken.
LEMMA LinkedBeforeErasing ==
  ASSUME PassInv, phase = "mark"
  PROVE  Linked(ops)
<1> SUFFICES ASSUME NEW j \in DOMAIN ops, TakesWires(ops, j), NEW w \in Wires(ops[j])
             PROVE  Supplied(ops, j, w)
  BY DEF Linked
<1>1. /\ IsFunction(source) /\ j \in DOMAIN source
      /\ source[j].kind \notin Sources /\ source[j].part = ops[j].part /\ w \in Wires(source[j])
  BY SourceFacts DEF PassInv, TakesWires, Turning, Sources, Wires
<1>2. PICK s \in DOMAIN source :
        source[s].kind \in Sources /\ w \in Wires(source[s]) /\ Sees(source, s, j, w)
  BY <1>1 DEF IsFunction
<1>3. \A i \in DOMAIN source : source[i].kind \notin Turning => i \in DOMAIN ops /\ ops[i] = source[i]
  BY DEF PassInv
<1>4. s \in DOMAIN ops /\ ops[s] = source[s]
  BY <1>2, <1>3 DEF Sources, Turning
<1>5. CASE s < j /\ source[s].part = source[j].part
  <2>1. s \in Before(ops, j, w)
    BY <1>1, <1>2, <1>4, <1>5 DEF Before, Touching
  <2> QED
    BY <2>1 DEF Supplied
<1>6. CASE source[s].part = "entry" /\ source[j].part # "entry"
  <2>1. s \in Touching(ops, w, "entry")
    BY <1>2, <1>4, <1>6 DEF Touching
  <2> QED
    BY <1>1, <1>6, <2>1 DEF Supplied
<1>7. CASE source[j].part = "after" /\ \E i \in DOMAIN source : source[i].kind = "if" /\ w \in source[i].yields
  <2>1. PICK i \in DOMAIN source : source[i].kind = "if" /\ w \in source[i].yields
    BY <1>7
  <2>2. i \in DOMAIN ops /\ ops[i] = source[i]
    BY <1>3, <2>1 DEF Turning
  <2>3. w \in Yields(ops)
    BY <2>1, <2>2 DEF Yields
  <2> QED
    BY <1>1, <1>7, <2>3 DEF Supplied, FromIf
<1> QED
  BY <1>2, <1>5, <1>6, <1>7 DEF Sees

Listed(m) == \E k \in DOMAIN worklist : worklist[k] = m

Makes(i, m) == \E k \in DOMAIN Producers(i) : Producers(i)[k] = m

\* What is live, or will be, has all that it takes in one of the two.
MarkInv ==
  phase = "mark" =>
    /\ worklist \in Seq(DOMAIN ops)
    /\ \A r \in Roots : r \in live \/ Listed(r)
    /\ \A i \in live, m \in DOMAIN ops : Makes(i, m) => m \in live \/ Listed(m)

\* What is left of the dead is taken by the dead only, unless something dead stays.
EraseInv ==
  phase = "erase" =>
    /\ doomed \subseteq DOMAIN ops
    /\ \A i \in doomed : ops[i].kind \in {"new", "gate", "rot", "measure"}
    /\ Erasable =>
         /\ Linked(ops)
         /\ \A i \in doomed, j \in DOMAIN ops : Takes(ops, j, i) => j \in doomed
         /\ \A i \in doomed : ops[i].kind = "measure" =>
              ops[i].use = "unused" /\ \A j \in DOMAIN ops : ops[j].kind = "if" => ops[j].cond # i

EInv == PassInv /\ MarkInv /\ EraseInv /\ ErasedTogether

LEMMA ConditionsAreOutcomes ==
  ASSUME PassInv, NEW j \in DOMAIN ops, ops[j].kind = "if", NEW i \in DOMAIN ops, ops[j].cond = i
  PROVE  ops[i].kind = "measure"
<1>1. ops[j] = source[j] /\ j \in DOMAIN source /\ i \in DOMAIN source /\ i # 0 /\ IsFunction(source)
  BY SourceFacts DEF PassInv, Turning
<1>2. source[i].kind = "measure"
  BY <1>1 DEF IsFunction
<1> QED
  BY <1>2 DEF PassInv, Turning

LEMMA ProducersAreOps ==
  ASSUME PassInv, phase = "mark", NEW i \in DOMAIN ops
  PROVE  Producers(i) \in Seq(DOMAIN ops)
<1>1. InParts(ops) /\ Linked(ops)
  BY PartsInOrder, LinkedBeforeErasing
<1>2. ops[i] \in Operation /\ ops[i].on \in Seq(Nat)
  BY KindFacts DEF PassInv, Typed
<1>3. CASE ops[i].kind = "if"
  <2>1. ops[i] = source[i] /\ i \in DOMAIN source /\ IsFunction(source)
    BY <1>3, SourceFacts DEF PassInv, Turning
  <2>2. ops[i].cond # 0 => ops[i].cond \in DOMAIN source /\ source[ops[i].cond].kind = "measure"
    BY <1>3, <2>1 DEF IsFunction
  <2>3. ops[i].cond # 0 => ops[i].cond \in DOMAIN ops
    BY <2>2 DEF PassInv, Turning
  <2>4. Producers(i) = CASE ops[i].kind = "if" -> IF ops[i].cond = 0 THEN <<>> ELSE <<ops[i].cond>>
                         [] ops[i].kind \in Sources -> <<>>
                         [] OTHER -> [k \in DOMAIN ops[i].on |-> Maker(ops, ops[i].on[k], i)]
    BY Zenon DEF Producers, Makers
  <2>5. CASE ops[i].cond = 0
    <3>1. Producers(i) = <<>>
      BY <1>3, <2>4, <2>5 DEF Sources
    <3> QED
      BY <3>1
  <2>6. CASE ops[i].cond # 0
    <3>1. Producers(i) = <<ops[i].cond>>
      BY <1>3, <2>4, <2>6 DEF Sources
    <3> QED
      BY <2>3, <2>6, <3>1
  <2> QED
    BY <2>5, <2>6
<1>4. CASE ops[i].kind \in Sources
  BY <1>4 DEF Producers, Makers, Sources
<1>5. CASE ops[i].kind \notin Sources \cup {"if"}
  <2> DEFINE on == ops[i].on
  <2>1. Producers(i) = [k \in DOMAIN on |-> Maker(ops, on[k], i)]
    BY <1>5 DEF Producers, Makers
  <2>2. \A k \in DOMAIN on : on[k] \in Wires(ops[i])
    BY DEF Wires, Range
  <2>3. \A k \in DOMAIN on : Maker(ops, on[k], i) \in DOMAIN ops
    BY <1>1, <1>5, <2>2, MakersPrecede DEF Linked, TakesWires
  <2>4. Len(on) \in Nat /\ DOMAIN on = 1 .. Len(on)
    BY <1>2
  <2> HIDE DEF on
  <2> QED
    BY <2>1, <2>3, <2>4
<1> QED
  BY <1>3, <1>4, <1>5

LEMMA TakenIsMade ==
  ASSUME PassInv, NEW j \in DOMAIN ops, NEW i, Takes(ops, j, i)
  PROVE  Makes(j, i)
<1>1. PICK w \in Wires(ops[j]) : Maker(ops, w, j) = i
  BY DEF Takes
<1>2. PICK k \in DOMAIN ops[j].on : ops[j].on[k] = w
  BY <1>1 DEF Wires, Range
<1>3. ops[j].kind # "if" /\ ops[j].kind \notin Sources
  BY <1>1, IfHasNoWires DEF PassInv, Typed, Takes, TakesWires
<1>4. Producers(j) = [l \in DOMAIN ops[j].on |-> Maker(ops, ops[j].on[l], j)]
  BY <1>3 DEF Producers, Makers
<1> QED
  BY <1>1, <1>2, <1>4 DEF Makes

LEMMA CollectingMarks ==
  ASSUME PassInv, CollectRoots
  PROVE  MarkInv'
<1>1. UNCHANGED <<ops, opts, source>> /\ worklist' = InOrder(Roots) /\ live' = Of({"eprs"})
  BY DEF CollectRoots, program
<1>2. Len(source) \in Nat /\ DOMAIN ops \subseteq 1 .. Len(source)
  BY SourceFacts DEF PassInv
<1>3. Roots \in SUBSET (1 .. Len(source)) /\ Roots \subseteq DOMAIN ops
  BY <1>2 DEF Roots, Of
<1>4. worklist' \in Seq(Roots) /\ \A r \in Roots : \E k \in DOMAIN worklist' : worklist'[k] = r
  BY <1>1, <1>2, <1>3, InOrderLists
<1>5. worklist' \in Seq(DOMAIN ops')
  BY <1>1, <1>3, <1>4
<1>6. Roots' = Roots
  BY <1>1 DEF Roots, Of, Observed
<1>7. ASSUME NEW i \in live' PROVE Producers(i)' = <<>>
  <2>1. ops'[i].kind = "eprs"
    BY <1>1, <1>7 DEF Of
  <2> QED
    BY <2>1 DEF Producers, Makers, Sources
<1>8. \A i \in live' : \A m : ~Makes(i, m)'
  BY <1>7 DEF Makes
<1> QED
  BY <1>4, <1>5, <1>6, <1>8 DEF MarkInv, Listed

LEMMA MarkingMarks ==
  ASSUME PassInv, MarkInv, Mark
  PROVE  MarkInv'
<1> DEFINE i == Last(worklist)
           n == Len(worklist)
<1>1. phase = "mark" /\ UNCHANGED <<ops, opts, source, phase>> /\ live' = live \cup {i}
  BY DEF Mark, program
<1>2. worklist' = IF i \in live THEN Front(worklist) ELSE Front(worklist) \o Producers(i)
  BY DEF Mark
<1>3. worklist \in Seq(DOMAIN ops) /\ n \in Nat \ {0} /\ DOMAIN worklist = 1 .. n /\ worklist[n] = i
  BY <1>1 DEF MarkInv, Mark, Last
<1>4. i \in DOMAIN ops
  BY <1>3
<1>5. Producers(i) \in Seq(DOMAIN ops)
  BY <1>1, <1>4, ProducersAreOps
<1> HIDE DEF i, n
<1>6. /\ Front(worklist) \in Seq(DOMAIN ops) /\ DOMAIN Front(worklist) = 1 .. n - 1
      /\ \A k \in 1 .. n - 1 : Front(worklist)[k] = worklist[k]
  BY <1>3 DEF Front, n
<1>7. worklist' \in Seq(DOMAIN ops)
  <2>1. CASE i \in live
    BY <1>2, <1>6, <2>1
  <2>2. CASE i \notin live
    <3>1. Front(worklist) \o Producers(i) \in Seq(DOMAIN ops)
      BY <1>5, <1>6
    <3> QED
      BY <1>2, <2>2, <3>1
  <2> QED
    BY <2>1, <2>2
<1>8. ASSUME NEW m, Listed(m) PROVE m \in live' \/ Listed(m)'
  <2>1. PICK k \in 1 .. n : worklist[k] = m
    BY <1>3, <1>8 DEF Listed
  <2>2. CASE k = n
    BY <1>1, <1>3, <2>1, <2>2
  <2>3. CASE k # n
    <3>1. k \in 1 .. n - 1
      BY <1>3, <2>3
    <3>2. k \in DOMAIN worklist' /\ worklist'[k] = Front(worklist)[k]
      <4>1. CASE i \in live
        BY <1>2, <1>6, <3>1, <4>1
      <4>2. CASE i \notin live
        <5>1. worklist' = Front(worklist) \o Producers(i)
          BY <1>2, <4>2
        <5>2. Len(Front(worklist)) = n - 1
          BY <1>3, <1>6
        <5> QED
          BY <1>3, <1>5, <1>6, <3>1, <5>1, <5>2
      <4> QED
        BY <4>1, <4>2
    <3> QED
      BY <1>6, <2>1, <3>1, <3>2 DEF Listed
  <2> QED
    BY <2>2, <2>3
<1>9. ASSUME i \notin live, NEW m, Makes(i, m) PROVE Listed(m)'
  <2>1. PICK k \in DOMAIN Producers(i) : Producers(i)[k] = m
    BY <1>9 DEF Makes
  <2>2. worklist' = Front(worklist) \o Producers(i) /\ Len(Front(worklist)) = n - 1
    BY <1>2, <1>3, <1>6, <1>9
  <2>3. n - 1 + k \in DOMAIN worklist' /\ worklist'[n - 1 + k] = Producers(i)[k]
    BY <1>3, <1>5, <1>6, <2>1, <2>2
  <2> QED
    BY <2>1, <2>3 DEF Listed
<1>10. Roots' = Roots /\ \A j, m : Makes(j, m)' <=> Makes(j, m)
  BY <1>1 DEF Roots, Of, Observed, Makes, Producers
<1>11. ASSUME NEW j \in live', NEW m \in DOMAIN ops, Makes(j, m) PROVE m \in live' \/ Listed(m)'
  <2>1. CASE j \in live
    BY <1>1, <1>8, <1>11, <2>1 DEF MarkInv
  <2>2. CASE j \notin live
    BY <1>1, <1>9, <1>11, <2>2
  <2> QED
    BY <2>1, <2>2
<1>12. \A r \in Roots : r \in live' \/ Listed(r)'
  BY <1>1, <1>8 DEF MarkInv
<1> QED
  BY <1>1, <1>7, <1>10, <1>11, <1>12 DEF MarkInv

LEMMA DoomingDooms ==
  ASSUME PassInv, MarkInv, Doom
  PROVE  EraseInv'
<1>1. /\ phase = "mark" /\ worklist = <<>> /\ doomed' = Candidates \ live
      /\ UNCHANGED <<ops, opts, source, live>>
  BY DEF Doom, program
<1>2. \A m : ~Listed(m)
  BY <1>1 DEF Listed
<1>3. Roots \subseteq live /\ \A i \in live, m \in DOMAIN ops : Makes(i, m) => m \in live
  BY <1>1, <1>2 DEF MarkInv
<1>4. Linked(ops)
  BY <1>1, LinkedBeforeErasing
<1>5. doomed' \subseteq DOMAIN ops /\ \A i \in doomed' : ops[i].kind \in {"new", "gate", "rot", "measure"}
  BY <1>1 DEF Candidates, Of
<1>6. Erasable' = Erasable
  BY <1>1 DEF Erasable, Of, Yields
<1>7. ASSUME Erasable, NEW i \in doomed', NEW j \in DOMAIN ops, Takes(ops, j, i) PROVE j \in doomed'
  <2>1. j \notin live
    BY <1>1, <1>3, <1>5, <1>7, TakenIsMade
  <2>2. ops[j].kind \in Sources \cup Turning \cup {"measure", "if"}
    BY KindFacts DEF PassInv, Typed
  <2>3. ops[j].kind \notin Sources /\ ops[j].kind # "if"
    BY <1>7, IfHasNoWires DEF Takes, TakesWires, PassInv, Typed
  <2>4. ops[j].kind # "int"
    BY <1>7, <2>1 DEF Erasable, Of
  <2>5. ops[j].kind = "measure" => opts.aware
    BY <1>3, <2>1 DEF Roots, Of
  <2>6. ops[j].kind \in {"gate", "rot", "measure"}
    BY <2>2, <2>3, <2>4 DEF Turning
  <2>7. j \in Candidates
    BY <2>5, <2>6 DEF Candidates, Of
  <2> QED
    BY <1>1, <2>1, <2>7
<1>8. ASSUME Erasable, NEW i \in doomed', ops[i].kind = "measure"
      PROVE  ops[i].use = "unused" /\ \A j \in DOMAIN ops : ops[j].kind = "if" => ops[j].cond # i
  <2>1. i \in DOMAIN ops /\ i \notin live /\ i \notin Roots
    BY <1>1, <1>3, <1>5
  <2>2. opts.aware /\ ~Observed(i)
    BY <1>8, <2>1 DEF Roots, Of
  <2>3. ops[i].use \in {"unused", "returned", "added"}
    BY <1>8, <2>1, KindFacts DEF PassInv, Typed
  <2>4. ops[i].use # "added"
    BY <1>8, <2>1, <2>2 DEF Erasable, Of
  <2> QED
    BY <2>2, <2>3, <2>4 DEF Observed
<1> QED
  BY <1>1, <1>4, <1>5, <1>6, <1>7, <1>8 DEF EraseInv

\* The last of the dead has no taker left: one would be dead too, and behind it.
LEMMA LastIsUnused ==
  ASSUME PassInv, EraseInv, phase = "erase", doomed # {}, Erasable
  PROVE  ~IsUsed(ops, Max(doomed)) /\ \A j \in DOMAIN ops : ~Takes(ops, j, Max(doomed))
<1> DEFINE k == Max(doomed)
<1>1. Len(source) \in Nat /\ doomed \in SUBSET (1 .. Len(source)) /\ doomed \subseteq DOMAIN ops
  BY SourceFacts DEF PassInv, EraseInv
<1>2. k \in doomed /\ \A i \in doomed : i <= k
  BY <1>1, MaxIsGreatest
<1> HIDE DEF k
<1>3. k \in DOMAIN ops /\ ops[k].kind \in {"new", "gate", "rot", "measure"} /\ InParts(ops) /\ Linked(ops)
  BY <1>1, <1>2, PartsInOrder DEF EraseInv
<1>4. ASSUME NEW j \in DOMAIN ops, Takes(ops, j, k) PROVE FALSE
  <2>1. j \in doomed
    BY <1>2, <1>4 DEF EraseInv
  <2>2. PICK w \in Wires(ops[j]) : Maker(ops, w, j) = k
    BY <1>4 DEF Takes
  <2>3. k < j
    BY <1>3, <1>4, <2>2, MakersPrecede DEF Linked, Takes
  <2> QED
    BY <1>1, <1>2, <2>1, <2>3
<1>5. ASSUME NEW w PROVE NumUses(ops, w, k) = 0
  <2>1. Takers(ops, w, k) = {}
    BY <1>4 DEF Takers, Takes, TakesWires
  <2>2. YieldedBy(ops, w, k) = {}
    BY DEF YieldedBy, Erasable
  <2> QED
    BY <2>1, <2>2, FS_EmptySet DEF NumUses
<1>6. ops[k].kind = "measure" =>
        ops[k].use = "unused" /\ \A j \in DOMAIN ops : ops[j].kind = "if" => ops[j].cond # k
  BY <1>2 DEF EraseInv
<1>7. \A j \in DOMAIN ops : ops[j].kind = "if" => ops[j].cond # k
  BY <1>3, <1>6, ConditionsAreOutcomes
<1>8. ~IsUsed(ops, k)
  BY <1>5, <1>6, <1>7 DEF IsUsed
<1> QED
  BY <1>4, <1>8 DEF k

LEMMA ErasingErases ==
  ASSUME PassInv, EraseInv, EraseLast
  PROVE  EraseInv'
<1> SUFFICES ASSUME phase' = "erase" PROVE EraseInv'
  BY DEF EraseInv
<1> DEFINE k == Max(doomed)
<1>1. /\ phase = "erase" /\ doomed # {} /\ ~IsUsed(ops, k) /\ ops' = Erase({k}) /\ doomed' = doomed \ {k}
      /\ UNCHANGED <<opts, live, source>>
  BY DEF EraseLast, program
<1>2. Len(source) \in Nat /\ doomed \in SUBSET (1 .. Len(source)) /\ doomed \subseteq DOMAIN ops
  BY <1>1, SourceFacts DEF PassInv, EraseInv
<1>3. k \in doomed
  BY <1>1, <1>2, MaxIsGreatest
<1>4. Erasable => \A j \in DOMAIN ops : ~Takes(ops, j, k)
  BY <1>1, LastIsUnused
<1> HIDE DEF k
<1>5. k \in DOMAIN ops /\ ops[k].kind \in {"new", "gate", "rot", "measure"}
  BY <1>1, <1>2, <1>3 DEF EraseInv
<1>6. ops' = [i \in DOMAIN ops \ {k} |-> ops[i]] /\ DOMAIN ops' = DOMAIN ops \ {k}
  BY <1>1 DEF Erase
<1>7. Yields(ops') = Yields(ops)
  BY <1>5, <1>6, YieldsStay
<1>8. Erasable' => Erasable
  <2> SUFFICES ASSUME Erasable' PROVE Erasable
    OBVIOUS
  <2>1. Of({"int"})' = Of({"int"})
    BY <1>5, <1>6 DEF Of
  <2>2. ASSUME opts.aware, NEW m \in Of({"measure"}) PROVE ops[m].use # "added"
    <3>1. CASE m = k
      BY <1>1, <2>2, <3>1 DEF IsUsed, Of
    <3>2. CASE m # k
      BY <1>1, <1>6, <2>2, <3>2 DEF Erasable, Of
    <3> QED
      BY <3>1, <3>2
  <2>3. Yields(ops)' = {} /\ Of({"int"})' \subseteq live'
    BY DEF Erasable
  <2> QED
    BY <1>1, <1>7, <2>1, <2>2, <2>3 DEF Erasable
<1>9. doomed' \subseteq DOMAIN ops' /\ \A i \in doomed' : ops'[i].kind \in {"new", "gate", "rot", "measure"}
  BY <1>1, <1>2, <1>6 DEF EraseInv
<1>10. ASSUME Erasable
       PROVE  /\ Linked(ops')
              /\ \A i \in doomed', j \in DOMAIN ops' : Takes(ops', j, i) => j \in doomed'
              /\ \A i \in doomed' : ops'[i].kind = "measure" =>
                   ops'[i].use = "unused" /\ \A j \in DOMAIN ops' : ops'[j].kind = "if" => ops'[j].cond # i
  <2>1. InParts(ops) /\ Linked(ops)
    BY <1>1, <1>10, PartsInOrder DEF EraseInv
  <2>2. /\ Linked(ops')
        /\ \A j \in DOMAIN ops' : TakesWires(ops', j) =>
             \A w \in Wires(ops'[j]) : Maker(ops', w, j) = Maker(ops, w, j)
    BY <1>4, <1>5, <1>6, <1>10, <2>1, ErasingKeepsMakers
  <2>3. ASSUME NEW i \in doomed', NEW j \in DOMAIN ops', Takes(ops', j, i) PROVE j \in doomed'
    <3>1. j \in DOMAIN ops /\ ops'[j] = ops[j] /\ j # k
      BY <1>6
    <3>2. Takes(ops, j, i)
      BY <2>2, <2>3, <3>1 DEF Takes, TakesWires
    <3> QED
      BY <1>1, <1>10, <3>1, <3>2 DEF EraseInv
  <2>4. ASSUME NEW i \in doomed', ops'[i].kind = "measure"
        PROVE  ops'[i].use = "unused" /\ \A j \in DOMAIN ops' : ops'[j].kind = "if" => ops'[j].cond # i
    <3>1. i \in doomed /\ ops'[i] = ops[i]
      BY <1>1, <1>2, <1>6
    <3>2. \A j \in DOMAIN ops' : j \in DOMAIN ops /\ ops'[j] = ops[j]
      BY <1>6
    <3>3. ops[i].kind = "measure"
      BY <2>4, <3>1
    <3>4. ops[i].use = "unused" /\ \A j \in DOMAIN ops : ops[j].kind = "if" => ops[j].cond # i
      BY <1>1, <1>10, <3>1, <3>3 DEF EraseInv
    <3> QED
      BY <3>1, <3>2, <3>4
  <2> QED
    BY <2>2, <2>3, <2>4
<1> QED
  BY <1>8, <1>9, <1>10 DEF EraseInv

(***************************************************************************)
(* Dead code goes as a whole: the pass never erases what is still used,    *)
(* whatever the circuit, unless one of three things is there: a dead       *)
(* rotation by an integer angle, a qubit handed on by a branch, or an      *)
(* unread sum of outcomes.                                                 *)
(***************************************************************************)
THEOREM ErasedTogetherCorrect == Spec => []ErasedTogether
<1>1. Init => EInv
  <2> SUFFICES ASSUME Init PROVE EInv
    OBVIOUS
  <2>1. phase = "check" /\ PassInv
    BY PassInvInit DEF Init
  <2> QED
    BY <2>1 DEF EInv, MarkInv, EraseInv, ErasedTogether, NothingDangles
<1>2. EInv /\ [Next]_vars => EInv'
  <2> SUFFICES ASSUME EInv, [Next]_vars PROVE EInv'
    OBVIOUS
  <2>1. PassInv /\ MarkInv /\ EraseInv /\ ErasedTogether /\ PassInv'
    BY PassInvStep DEF EInv
  <2>2. CASE CheckLinear
    <3>1. phase' \in {"refused", "peephole"}
      BY <2>2 DEF CheckLinear
    <3> QED
      BY <2>1, <3>1 DEF EInv, MarkInv, EraseInv, ErasedTogether, NothingDangles
  <2>3. CASE Optimize
    <3>1. phase' = "peephole"
      BY <2>3 DEF Optimize, Rewrite
    <3> QED
      BY <2>1, <3>1 DEF EInv, MarkInv, EraseInv, ErasedTogether, NothingDangles
  <2>4. CASE CollectRoots \/ Mark
    <3>1. phase' = "mark" /\ MarkInv'
      BY <2>1, <2>4, CollectingMarks, MarkingMarks DEF CollectRoots, Mark
    <3> QED
      BY <2>1, <3>1 DEF EInv, EraseInv, ErasedTogether, NothingDangles
  <2>5. CASE Doom
    <3>1. phase' = "erase" /\ EraseInv'
      BY <2>1, <2>5, DoomingDooms DEF Doom
    <3> QED
      BY <2>1, <3>1 DEF EInv, MarkInv, ErasedTogether, NothingDangles
  <2>6. CASE EraseLast
    <3>1. EraseInv' /\ phase = "erase" /\ phase' \in {"erase", "broken"}
      BY <2>1, <2>6, ErasingErases DEF EraseLast
    <3>2. ASSUME phase' = "broken" PROVE ~Erasable'
      <4>1. IsUsed(ops, Max(doomed)) /\ doomed # {} /\ UNCHANGED <<ops, opts, live>>
        BY <2>6, <3>1, <3>2 DEF EraseLast, program
      <4>2. ~Erasable
        BY <2>1, <3>1, <4>1, LastIsUnused
      <4> QED
        BY <4>1, <4>2 DEF Erasable, Of, Yields
    <3> QED
      BY <2>1, <3>1, <3>2 DEF EInv, MarkInv, ErasedTogether, NothingDangles
  <2>7. CASE Finish
    <3>1. phase' = "done"
      BY <2>7 DEF Finish
    <3> QED
      BY <2>1, <3>1 DEF EInv, MarkInv, EraseInv, ErasedTogether, NothingDangles
  <2>8. CASE UNCHANGED vars
    <3>1. UNCHANGED <<source, opts, phase, ops, worklist, live, doomed>>
      BY <2>8 DEF vars, program, marking
    <3>2. Erasable' = Erasable /\ Roots' = Roots
      BY <3>1 DEF Erasable, Of, Yields, Roots, Observed
    <3> QED
      BY <2>1, <3>1, <3>2 DEF EInv, MarkInv, EraseInv, ErasedTogether, NothingDangles, Listed, Makes, Producers
  <2> QED
    BY <2>2, <2>3, <2>4, <2>5, <2>6, <2>7, <2>8 DEF Next, Eliminate
<1> QED
  BY <1>1, <1>2, PTL DEF Spec, EInv
=============================================================================
