----------------------- MODULE HostTranslation_proofs -----------------------
(***************************************************************************)
(* Theorems about the translation of the main function, for every program, *)
(* any number of registers and every run of the host.                      *)
(***************************************************************************)
EXTENDS HostTranslation, FiniteSetTheorems, WellFoundedInduction, TLAPS

-----------------------------------------------------------------------------
(***************************************************************************)
(* Counting along a set of numbers, and listing it in order.               *)
(***************************************************************************)
LEMMA LeastNatural ==
  ASSUME NEW S, S \subseteq Nat, S # {}
  PROVE  \E n \in S : \A m \in S : n <= m
<1> DEFINE R == {r \in Nat \X Nat : r[1] < r[2]}
<1>1. IsWellFoundedOn(R, Nat)
  BY NatLessThanWellFounded DEF OpToRel
<1> HIDE DEF R
<1>2. PICK n \in S : \A m \in S : ~ (<<m, n>> \in R)
  BY <1>1, WFMin
<1>3. ASSUME NEW m \in S PROVE n <= m
  <2>1. m \in Nat /\ n \in Nat
    OBVIOUS
  <2>2. ~ (m < n)
    BY <1>2, <2>1 DEF R
  <2> QED
    BY <2>1, <2>2
<1> QED
  BY <1>3

\* How many members of S there are up to i.
Rank(S, i) == Cardinality({j \in S : j <= i})

LEMMA RankStep ==
  ASSUME NEW n \in Nat, NEW S \in SUBSET (1 .. n)
  PROVE  /\ Rank(S, 0) = 0
         /\ Rank(S, n) = Cardinality(S)
         /\ \A i \in Nat : Rank(S, i) \in Nat
         /\ \A i \in Nat \ {0} : Rank(S, i) = Rank(S, i - 1) + (IF i \in S THEN 1 ELSE 0)
<1>1. IsFiniteSet(S)
  <2>1. IsFiniteSet(1 .. n)
    BY FS_Interval
  <2> QED
    BY <2>1, FS_Subset
<1>2. {j \in S : j <= 0} = {} /\ {j \in S : j <= n} = S
  <2>1. \A j \in S : j \in 1 .. n /\ ~(j <= 0) /\ j <= n
    OBVIOUS
  <2> QED
    BY <2>1
<1>3. \A i \in Nat : IsFiniteSet({j \in S : j <= i}) /\ Rank(S, i) \in Nat
  <2> TAKE i \in Nat
  <2> DEFINE T == {j \in S : j <= i}
  <2>1. T \in SUBSET S
    OBVIOUS
  <2>2. Rank(S, i) = Cardinality(T)
    BY DEF Rank
  <2> HIDE DEF T
  <2>3. IsFiniteSet(T)
    BY <1>1, <2>1, FS_Subset
  <2>4. Cardinality(T) \in Nat
    BY <2>3, FS_CardinalityType
  <2> QED
    BY <2>2, <2>3, <2>4 DEF T
<1>4. ASSUME NEW i \in Nat \ {0} PROVE Rank(S, i) = Rank(S, i - 1) + (IF i \in S THEN 1 ELSE 0)
  <2> DEFINE T == {j \in S : j <= i - 1}
  <2>1. i - 1 \in Nat /\ \A j \in S : j \in Int /\ (j <= i <=> j <= i - 1 \/ j = i)
    OBVIOUS
  <2>2. Rank(S, i - 1) = Cardinality(T) /\ Rank(S, i - 1) \in Nat
    BY <1>3, <2>1 DEF Rank
  <2>3. CASE i \in S
    <3>1. {j \in S : j <= i} = T \cup {i}
      BY <2>1, <2>3
    <3>2. i \notin T
      OBVIOUS
    <3>3. IsFiniteSet(T)
      BY <1>3, <2>1
    <3>4. Rank(S, i) = Cardinality(T \cup {i})
      BY <3>1 DEF Rank
    <3> HIDE DEF T
    <3>5. Cardinality(T \cup {i}) = Cardinality(T) + 1
      BY <3>2, <3>3, FS_AddElement
    <3> QED
      BY <2>2, <2>3, <3>4, <3>5
  <2>4. CASE i \notin S
    <3>1. {j \in S : j <= i} = T
      BY <2>1, <2>4
    <3>2. Rank(S, i) = Cardinality(T)
      BY <3>1 DEF Rank
    <3> QED
      BY <2>2, <2>4, <3>2
  <2> QED
    BY <2>3, <2>4
<1>5. Rank(S, 0) = 0 /\ Rank(S, n) = Cardinality(S)
  BY <1>2, FS_EmptySet DEF Rank
<1> QED
  BY <1>3, <1>4, <1>5

LEMMA RankGrows ==
  ASSUME NEW n \in Nat, NEW S \in SUBSET (1 .. n), NEW i \in Nat, NEW j \in Nat, i <= j
  PROVE  /\ Rank(S, i) <= Rank(S, j)
         /\ i < j /\ j \in S => Rank(S, i) < Rank(S, j)
<1> DEFINE Bad == {k \in Nat : i <= k /\ ~(Rank(S, i) <= Rank(S, k))}
<1>1. Bad = {}
  <2> SUFFICES ASSUME Bad # {} PROVE FALSE
    OBVIOUS
  <2>1. PICK k \in Bad : \A m \in Bad : k <= m
    BY LeastNatural
  <2>2. k # i
    BY <2>1, RankStep
  <2>3. k \in Nat \ {0} /\ k - 1 \in Nat /\ i <= k - 1 /\ k - 1 \notin Bad
    BY <2>1, <2>2
  <2>4. Rank(S, i) <= Rank(S, k - 1)
    BY <2>3
  <2>5. Rank(S, k) = Rank(S, k - 1) + (IF k \in S THEN 1 ELSE 0)
    BY <2>3, RankStep
  <2>6. Rank(S, k - 1) \in Nat /\ Rank(S, i) \in Nat
    BY <2>3, RankStep
  <2> QED
    BY <2>1, <2>4, <2>5, <2>6
<1>2. ASSUME i < j, j \in S PROVE Rank(S, i) < Rank(S, j)
  <2>1. j \in Nat \ {0} /\ j - 1 \in Nat /\ i <= j - 1 /\ j - 1 \notin Bad
    BY <1>1, <1>2
  <2>2. Rank(S, i) <= Rank(S, j - 1)
    BY <2>1
  <2>3. Rank(S, j) = Rank(S, j - 1) + 1 /\ Rank(S, j - 1) \in Nat /\ Rank(S, i) \in Nat
    BY <1>2, <2>1, RankStep
  <2> QED
    BY <2>2, <2>3
<1>3. j \notin Bad
  BY <1>1
<1> QED
  BY <1>2, <1>3

LEMMA InOrderLists ==
  ASSUME NEW n \in Nat, NEW S \in SUBSET (1 .. n)
  PROVE  /\ DOMAIN InOrder(S) = 1 .. Cardinality(S) /\ Cardinality(S) \in Nat
         /\ \A k \in DOMAIN InOrder(S) : InOrder(S)[k] \in S /\ Rank(S, InOrder(S)[k]) = k
         /\ \A i \in S : Rank(S, i) \in DOMAIN InOrder(S) /\ InOrder(S)[Rank(S, i)] = i
<1> DEFINE c == Cardinality(S)
<1>1. Rank(S, 0) = 0 /\ Rank(S, n) = c /\ (\A i \in Nat : Rank(S, i) \in Nat)
  BY RankStep
<1>2. \A i \in S : Rank(S, i) \in 1 .. c
  <2> TAKE i \in S
  <2>1. 0 \in Nat /\ 0 < i /\ 0 <= i /\ i <= n /\ i \in Nat /\ i \in S
    OBVIOUS
  <2>2. Rank(S, 0) < Rank(S, i)
    BY <2>1, RankGrows
  <2>3. Rank(S, i) <= Rank(S, n)
    BY <2>1, RankGrows
  <2> QED
    BY <1>1, <2>1, <2>2, <2>3
<1>3. \A i, j \in S : Rank(S, i) = Rank(S, j) => i = j
  <2>1. ASSUME NEW i \in S, NEW j \in S, i < j PROVE Rank(S, i) # Rank(S, j)
    <3>1. i \in Nat /\ j \in Nat /\ i <= j
      BY <2>1
    <3>2. Rank(S, i) < Rank(S, j) /\ Rank(S, i) \in Nat /\ Rank(S, j) \in Nat
      BY <1>1, <2>1, <3>1, RankGrows
    <3> QED
      BY <3>2
  <2> TAKE i, j \in S
  <2>2. i < j \/ j < i \/ i = j
    OBVIOUS
  <2> QED
    BY <2>1, <2>2
\* Each number up to the count is the rank of a member: the least one that has that many.
<1>4. ASSUME NEW k \in 1 .. c PROVE \E i \in S : Rank(S, i) = k
  <2> DEFINE Enough == {i \in Nat : Rank(S, i) >= k}
  <2>1. n \in Enough
    BY <1>1
  <2>2. PICK i \in Enough : \A m \in Enough : i <= m
    BY <2>1, LeastNatural
  <2>3. i # 0
    BY <1>1, <2>2
  <2>4. i \in Nat \ {0} /\ i - 1 \in Nat /\ i - 1 \notin Enough
    BY <2>2, <2>3
  <2>5. Rank(S, i) = Rank(S, i - 1) + (IF i \in S THEN 1 ELSE 0)
    BY <2>4, RankStep
  <2>6. Rank(S, i - 1) \in Nat /\ Rank(S, i - 1) < k /\ Rank(S, i) >= k
    BY <1>1, <2>2, <2>4
  <2> QED
    BY <2>5, <2>6
<1>5. DOMAIN InOrder(S) = 1 .. c /\ c \in Nat
  BY <1>1 DEF InOrder
<1>6. \A k \in 1 .. c : InOrder(S)[k] \in S /\ Rank(S, InOrder(S)[k]) = k
  <2> TAKE k \in 1 .. c
  <2>1. InOrder(S)[k] = CHOOSE i \in S : Rank(S, i) = k
    BY DEF InOrder, Rank
  <2> QED
    BY <1>4, <2>1
<1>7. \A i \in S : InOrder(S)[Rank(S, i)] = i
  BY <1>2, <1>3, <1>6
<1> QED
  BY <1>2, <1>5, <1>6, <1>7

-----------------------------------------------------------------------------
(***************************************************************************)
(* A list that names nothing twice loses what is removed, and nothing else.*)
(***************************************************************************)
LEMMA WithoutRange ==
  ASSUME NEW s, IsSeq(s), IsInjective(s), NEW S
  PROVE  Range(Without(s, S)) = Range(s) \ S
<1> DEFINE K == {i \in DOMAIN s : s[i] \notin S \/ \E j \in 1 .. i - 1 : s[j] = s[i]}
<1>1. Len(s) \in Nat /\ DOMAIN s = 1 .. Len(s)
  BY DEF IsSeq
<1>2. K = {i \in DOMAIN s : s[i] \notin S}
  <2>1. ASSUME NEW i \in DOMAIN s, NEW j \in 1 .. i - 1, s[j] = s[i] PROVE FALSE
    <3>1. j \in DOMAIN s /\ j # i
      BY <1>1, <2>1
    <3> QED
      BY <2>1, <3>1 DEF IsInjective
  <2> QED
    BY <2>1
<1>3. K \in SUBSET (1 .. Len(s))
  BY <1>1
<1> HIDE DEF K
<1>4. Without(s, S) = [m \in DOMAIN InOrder(K) |-> s[InOrder(K)[m]]]
  BY DEF Without, K
<1>5. /\ \A m \in DOMAIN InOrder(K) : InOrder(K)[m] \in K
      /\ \A i \in K : \E m \in DOMAIN InOrder(K) : InOrder(K)[m] = i
  BY <1>1, <1>3, InOrderLists
<1>6. Range(Without(s, S)) = {s[i] : i \in K}
  BY <1>4, <1>5 DEF Range
<1> QED
  BY <1>2, <1>6 DEF Range

-----------------------------------------------------------------------------
(***************************************************************************)
(* Main functions: what is defined where.                                  *)
(***************************************************************************)
LEMMA MainShape ==
  ASSUME NEW p, IsMain(p), NEW b \in Blocks(p)
  PROVE  /\ Len(p) \in Nat \ {0} /\ DOMAIN p = Blocks(p) /\ 1 \in Blocks(p) /\ b \in Nat
         /\ Len(p[b].ops) \in Nat /\ DOMAIN p[b].ops = 1 .. Len(p[b].ops)
         /\ \A i \in Places(p, b) : /\ i \in Nat
                                    /\ Len(Made(p, b, i)) \in Nat
                                    /\ DOMAIN Made(p, b, i) = 1 .. Len(Made(p, b, i))
<1>1. IsSeq(p) /\ p # <<>> /\ IsSeq(p[b].args) /\ IsSeq(p[b].ops)
  BY DEF IsMain
<1>2. Len(p) \in Nat /\ DOMAIN p = 1 .. Len(p) /\ Len(p) # 0
  BY <1>1 DEF IsSeq
<1>3. Len(p[b].ops) \in Nat /\ DOMAIN p[b].ops = 1 .. Len(p[b].ops)
  BY <1>1 DEF IsSeq
<1>4. ASSUME NEW i \in Places(p, b)
      PROVE  Len(Made(p, b, i)) \in Nat /\ DOMAIN Made(p, b, i) = 1 .. Len(Made(p, b, i))
  <2>1. CASE i = 0
    BY <1>1, <2>1 DEF Made, IsSeq
  <2>2. CASE i # 0
    <3>1. i \in DOMAIN p[b].ops
      BY <1>3, <2>2 DEF Places
    <3>2. IsSeq(p[b].ops[i].res)
      BY <3>1 DEF IsMain, IsOperation
    <3> QED
      BY <2>2, <3>2 DEF Made, IsSeq
  <2> QED
    BY <2>1, <2>2
<1> QED
  BY <1>2, <1>3, <1>4 DEF Blocks, Places

Earlier(c, j, b, i) == c < b \/ (c = b /\ j < i)

\* What is made at earlier places than place i of block b.
Before(p, b, i) ==
  {v \in Values(p) : \E c \in Blocks(p) : \E j \in Places(p, c) :
                       Earlier(c, j, b, i) /\ v \in Range(Made(p, c, j))}

LEMMA MadeIsValue ==
  ASSUME NEW p, IsMain(p), NEW b \in Blocks(p), NEW i \in Places(p, b)
  PROVE  Range(Made(p, b, i)) \subseteq Values(p) /\ Range(Made(p, b, i)) \subseteq Defines(p, b)
<1>1. CASE i = 0
  BY <1>1 DEF Made, Values, Defines
<1>2. CASE i # 0
  <2>1. i \in 1 .. Len(p[b].ops)
    BY <1>2, MainShape DEF Places
  <2> QED
    BY <1>2, <2>1 DEF Made, Values, Defines, Results
<1> QED
  BY <1>1, <1>2

LEMMA DefinedIsMade ==
  ASSUME NEW p, IsMain(p), NEW b \in Blocks(p), NEW v \in Defines(p, b)
  PROVE  \E i \in Places(p, b) : v \in Range(Made(p, b, i))
<1>1. CASE v \in Range(p[b].args)
  <2>1. 0 \in Places(p, b)
    BY MainShape DEF Places
  <2> QED
    BY <1>1, <2>1 DEF Made
<1>2. CASE v \in Results(p, b)
  <2>1. PICK i \in 1 .. Len(p[b].ops) : v \in Range(p[b].ops[i].res)
    BY <1>2 DEF Results
  <2>2. i \in Places(p, b) /\ i # 0
    BY MainShape DEF Places
  <2> QED
    BY <2>1, <2>2 DEF Made
<1> QED
  BY <1>1, <1>2 DEF Defines

\* What is in sight was made before.
LEMMA SightIsBefore ==
  ASSUME NEW p, IsMain(p), NEW b \in Blocks(p), NEW i \in 1 .. Len(p[b].ops) + 1
  PROVE  InSight(p, b, i) \subseteq Before(p, b, i)
<1> SUFFICES ASSUME NEW v \in InSight(p, b, i) PROVE v \in Before(p, b, i)
  OBVIOUS
<1>0. Len(p[b].ops) \in Nat /\ i \in Nat /\ i >= 1
  BY MainShape
<1>1. CASE v \in Range(p[b].args)
  <2>1. 0 \in Places(p, b) /\ v \in Range(Made(p, b, 0)) /\ Earlier(b, 0, b, i)
    BY <1>0, <1>1 DEF Places, Made, Earlier
  <2> QED
    BY <2>1, MadeIsValue DEF Before
<1>2. ASSUME NEW d \in 1 .. b - 1, v \in Defines(p, d) PROVE v \in Before(p, b, i)
  <2>1. d \in Blocks(p) /\ d < b
    BY MainShape DEF Blocks
  <2>2. PICK j \in Places(p, d) : v \in Range(Made(p, d, j))
    BY <1>2, <2>1, DefinedIsMade
  <2> QED
    BY <2>1, <2>2, MadeIsValue DEF Before, Earlier
<1>3. ASSUME NEW j \in 1 .. i - 1, v \in Range(p[b].ops[j].res) PROVE v \in Before(p, b, i)
  <2>1. j \in Places(p, b) /\ j # 0 /\ Earlier(b, j, b, i)
    BY <1>0 DEF Places, Earlier
  <2>2. v \in Range(Made(p, b, j))
    BY <1>3, <2>1 DEF Made
  <2> QED
    BY <2>1, <2>2, MadeIsValue DEF Before
<1> QED
  BY <1>1, <1>2, <1>3 DEF InSight, Visible

\* Nothing is made again.
LEMMA MadeOnce ==
  ASSUME NEW p, IsMain(p), NEW b \in Blocks(p), NEW i \in Places(p, b), NEW v \in Range(Made(p, b, i)),
         NEW c \in Blocks(p), NEW j \in Places(p, c), v \in Range(Made(p, c, j))
  PROVE  c = b /\ j = i
<1>1. PICK m \in DOMAIN Made(p, b, i) : Made(p, b, i)[m] = v
  BY DEF Range
<1>2. PICK n \in DOMAIN Made(p, c, j) : Made(p, c, j)[n] = v
  BY DEF Range
<1>3. <<b, i, m>> = <<c, j, n>>
  BY <1>1, <1>2 DEF IsMain, SingleAssignment
<1> QED
  BY <1>3

LEMMA NotMadeBefore ==
  ASSUME NEW p, IsMain(p), NEW b \in Blocks(p), NEW i \in Places(p, b), NEW v \in Range(Made(p, b, i))
  PROVE  v \notin Before(p, b, i)
<1> SUFFICES ASSUME NEW c \in Blocks(p), NEW j \in Places(p, c), Earlier(c, j, b, i), v \in Range(Made(p, c, j))
             PROVE  FALSE
  BY DEF Before
<1>1. c = b /\ j = i
  BY MadeOnce
<1>2. b \in Nat /\ i \in Nat
  BY MainShape
<1> QED
  BY <1>1, <1>2 DEF Earlier

\* Places are in one order.
LEMMA BeforeGrows ==
  ASSUME NEW p, IsMain(p), NEW b \in Blocks(p), NEW i \in Nat, NEW c \in Blocks(p), NEW j \in Nat, Earlier(b, i, c, j)
  PROVE  /\ Before(p, b, i) \subseteq Before(p, c, j)
         /\ i \in Places(p, b) => Range(Made(p, b, i)) \subseteq Before(p, c, j)
<1>1. b \in Nat /\ c \in Nat
  BY MainShape
<1>2. ASSUME NEW d \in Blocks(p), NEW k \in Places(p, d), Earlier(d, k, b, i)
      PROVE  Earlier(d, k, c, j)
  <2>1. d \in Nat /\ k \in Nat
    BY MainShape
  <2> QED
    BY <1>1, <1>2, <2>1 DEF Earlier
<1>3. Before(p, b, i) \subseteq Before(p, c, j)
  BY <1>2 DEF Before
<1>4. i \in Places(p, b) => Range(Made(p, b, i)) \subseteq Before(p, c, j)
  BY MadeIsValue DEF Before
<1> QED
  BY <1>3, <1>4

\* The operation that defines a value is the one that returns it.
LEMMA DefinesIt ==
  ASSUME NEW p, IsMain(p), NEW b \in Blocks(p), NEW i \in DOMAIN p[b].ops, NEW v \in Range(p[b].ops[i].res)
  PROVE  DefiningOp(p, v) = p[b].ops[i] /\ ~IsArgument(p, v)
<1>1. i \in Places(p, b) /\ i # 0 /\ v \in Range(Made(p, b, i))
  BY MainShape DEF Places, Made
<1>2. OpsOf(p, v) = {p[b].ops[i]}
  <2>1. p[b].ops[i] \in OpsOf(p, v)
    BY DEF OpsOf
  <2>2. ASSUME NEW op \in OpsOf(p, v) PROVE op = p[b].ops[i]
    <3>1. PICK c \in Blocks(p) : \E j \in DOMAIN p[c].ops : v \in Range(p[c].ops[j].res) /\ op = p[c].ops[j]
      BY DEF OpsOf
    <3>2. PICK j \in DOMAIN p[c].ops : v \in Range(p[c].ops[j].res) /\ op = p[c].ops[j]
      BY <3>1
    <3>3. j \in Places(p, c) /\ j # 0 /\ v \in Range(Made(p, c, j))
      BY <3>2, MainShape DEF Places, Made
    <3>4. c = b /\ j = i
      BY <1>1, <3>3, MadeOnce
    <3> QED
      BY <3>2, <3>4
  <2> QED
    BY <2>1, <2>2
<1> QED
  BY <1>2 DEF DefiningOp, IsArgument

-----------------------------------------------------------------------------
(***************************************************************************)
(* The recursive function in Dominates exists, and says which blocks       *)
(* control reaches without d.                                              *)
(***************************************************************************)
IsReach(p, d, n, R) ==
  \A x \in 1 .. n : x \in R <=> x # d /\ (x = 1 \/ \E y \in 1 .. x - 1 : x \in Targets(p, y) /\ y \in R)

LEMMA ReachExists ==
  ASSUME NEW p, NEW d, NEW n \in Nat
  PROVE  \E R : IsReach(p, d, n, R)
<1> DEFINE Bad == {k \in Nat : ~ \E R : IsReach(p, d, k, R)}
<1> SUFFICES ASSUME Bad # {} PROVE FALSE
  OBVIOUS
<1>1. PICK k \in Bad : \A m \in Bad : k <= m
  BY LeastNatural
<1>2. CASE k = 0
  <2>1. IsReach(p, d, 0, {})
    BY DEF IsReach
  <2> QED
    BY <1>2, <2>1
<1>3. CASE k # 0
  <2>1. k - 1 \in Nat /\ k - 1 \notin Bad
    BY <1>1, <1>3
  <2>2. PICK R : IsReach(p, d, k - 1, R)
    BY <2>1
  <2> DEFINE enters == k # d /\ (k = 1 \/ \E y \in 1 .. k - 1 : k \in Targets(p, y) /\ y \in R)
             R2 == {x \in R : x # k} \cup {x \in {k} : enters}
  <2>3. \A x \in 1 .. k : \A y \in 1 .. x - 1 : y \in R2 <=> y \in R
    OBVIOUS
  <2>4. ASSUME NEW x \in 1 .. k
        PROVE  x \in R2 <=> x # d /\ (x = 1 \/ \E y \in 1 .. x - 1 : x \in Targets(p, y) /\ y \in R2)
    <3>1. CASE x = k
      <4>1. x \in R2 <=> enters
        BY <3>1
      <4> HIDE DEF R2
      <4> QED
        BY <2>3, <3>1, <4>1
    <3>2. CASE x # k
      <4>1. x \in 1 .. k - 1 /\ (x \in R2 <=> x \in R)
        BY <3>2
      <4>2. x \in R <=> x # d /\ (x = 1 \/ \E y \in 1 .. x - 1 : x \in Targets(p, y) /\ y \in R)
        BY <2>2, <4>1 DEF IsReach
      <4> HIDE DEF R2
      <4> QED
        BY <2>3, <4>1, <4>2
    <3> QED
      BY <3>1, <3>2
  <2> HIDE DEF R2
  <2>5. IsReach(p, d, k, R2)
    BY <2>4 DEF IsReach
  <2> QED
    BY <2>5
<1> QED
  BY <1>2, <1>3

\* A block is reached without d if it is not d, and first or a target of one that is reached so.
LEMMA DominatesUnfolds ==
  ASSUME NEW p, IsMain(p), NEW d, NEW b \in Blocks(p)
  PROVE  Dominates(p, d, b) <=> \/ d = b
                                \/ b # 1 /\ \A y \in 1 .. b - 1 : b \in Targets(p, y) => Dominates(p, d, y)
<1> DEFINE Rec(h) == [x \in Blocks(p) |->
                        x # d /\ (x = 1 \/ \E y \in 1 .. x - 1 : x \in Targets(p, y) /\ h[y])]
           reached == CHOOSE h : h = Rec(h)
<1>0. Len(p) \in Nat
  BY MainShape
<1>1. PICK R : IsReach(p, d, Len(p), R)
  BY <1>0, ReachExists
<1> DEFINE f == [x \in Blocks(p) |-> x \in R]
<1>2. \A x \in Blocks(p) : \A y \in 1 .. x - 1 : y \in Blocks(p)
  BY <1>0 DEF Blocks
<1>3. \A x \in Blocks(p) : f[x] = (x # d /\ (x = 1 \/ \E y \in 1 .. x - 1 : x \in Targets(p, y) /\ f[y]))
  <2> TAKE x \in Blocks(p)
  <2>1. x \in R <=> x # d /\ (x = 1 \/ \E y \in 1 .. x - 1 : x \in Targets(p, y) /\ y \in R)
    BY <1>1 DEF IsReach, Blocks
  <2>2. \A y \in 1 .. x - 1 : f[y] <=> y \in R
    BY <1>2
  <2>3. f[x] = (x \in R)
    OBVIOUS
  <2> HIDE DEF f
  <2>4. (x \in R) = (x # d /\ (x = 1 \/ \E y \in 1 .. x - 1 : x \in Targets(p, y) /\ f[y]))
    BY <2>1, <2>2
  <2> QED
    BY <2>3, <2>4, Zenon
<1>4. f = Rec(f)
  <2>1. f = [x \in Blocks(p) |-> f[x]]
    OBVIOUS
  <2> HIDE DEF f
  <2> QED
    BY <1>3, <2>1
<1> HIDE DEF f
<1>5. reached = Rec(reached)
  BY <1>4
<1>6. \A x : Dominates(p, d, x) <=> d = x \/ ~reached[x]
  BY DEF Dominates
<1> HIDE DEF reached
<1>7. reached[b] = (b # d /\ (b = 1 \/ \E y \in 1 .. b - 1 : b \in Targets(p, y) /\ reached[y]))
  BY <1>5
<1>8. d # b => (Dominates(p, d, b) <=> b # 1 /\ \A y \in 1 .. b - 1 : b \in Targets(p, y) => ~reached[y])
  BY <1>6, <1>7
<1>9. \A y \in Blocks(p) : reached[y] => y # d
  BY <1>5
<1>10. \A y \in 1 .. b - 1 : ~reached[y] <=> Dominates(p, d, y)
  BY <1>2, <1>6, <1>9
<1> QED
  BY <1>6, <1>8, <1>10

LEMMA TargetsAhead ==
  ASSUME NEW p, IsMain(p), NEW b \in Blocks(p), NEW d \in Targets(p, b)
  PROVE  d \in Blocks(p) /\ b < d
<1>1. IsTerminator(p, b) /\ b \in 1 .. Len(p) /\ Len(p) \in Nat
  BY MainShape DEF IsMain, Blocks
<1>2. CASE p[b].term.k = "next"
  BY <1>1, <1>2 DEF IsTerminator, Targets, Blocks
<1>3. CASE p[b].term.k \in {"br", "cond"}
  <2>1. IsJump(p, b, p[b].term.to, p[b].term.with) /\ d \in Range(p[b].term.to)
    BY <1>1, <1>3 DEF IsTerminator, Targets
  <2> QED
    BY <1>1, <2>1 DEF IsJump, Range, Blocks
<1>4. CASE p[b].term.k = "return"
  BY <1>4 DEF Targets
<1> QED
  BY <1>1, <1>2, <1>3, <1>4 DEF IsTerminator

\* No block further on leads to b on every way.
NoneAhead(p, b) == \A x \in Blocks(p) : b < x => ~Dominates(p, x, b)

\* What is in sight at a target was in sight at the end of the block before, or is an argument.
LEMMA SightAtTarget ==
  ASSUME NEW p, IsMain(p), NEW b \in Blocks(p), NoneAhead(p, b), NEW d \in Targets(p, b)
  PROVE  /\ NoneAhead(p, d)
         /\ Visible(p, d) \subseteq Range(p[d].args) \cup InSight(p, b, Len(p[b].ops) + 1)
<1>1. d \in Blocks(p) /\ b < d /\ b \in 1 .. d - 1 /\ d # 1 /\ b \in Nat /\ d \in Nat
  BY TargetsAhead DEF Blocks
<1>2. ASSUME NEW x, x # d, Dominates(p, x, d) PROVE Dominates(p, x, b)
  BY <1>1, <1>2, DominatesUnfolds
<1>3. NoneAhead(p, d)
  <2> SUFFICES ASSUME NEW x \in Blocks(p), d < x, Dominates(p, x, d) PROVE FALSE
    BY DEF NoneAhead
  <2>1. x \in Nat /\ x # d /\ b < x
    BY <1>1 DEF Blocks
  <2> QED
    BY <1>2, <2>1 DEF NoneAhead
<1>4. ASSUME NEW x \in 1 .. d - 1, Dominates(p, x, d), NEW v \in Defines(p, x)
      PROVE  v \in InSight(p, b, Len(p[b].ops) + 1)
  <2>1. x \in Blocks(p) /\ x # d /\ x \in Nat
    BY <1>1 DEF Blocks
  <2>2. Dominates(p, x, b)
    BY <1>2, <1>4, <2>1
  <2>3. ~(b < x)
    BY <2>1, <2>2 DEF NoneAhead
  <2>4. CASE x = b
    <3>1. Len(p[b].ops) \in Nat
      BY MainShape
    <3>2. 1 .. (Len(p[b].ops) + 1) - 1 = 1 .. Len(p[b].ops)
      BY <3>1
    <3> QED
      BY <1>4, <2>4, <3>2 DEF Defines, Results, InSight, Visible
  <2>5. CASE x # b
    <3>1. x \in 1 .. b - 1
      BY <1>1, <2>1, <2>3, <2>5
    <3> QED
      BY <1>4, <2>2, <3>1 DEF InSight, Visible
  <2> QED
    BY <2>4, <2>5
<1> QED
  BY <1>3, <1>4 DEF Visible

-----------------------------------------------------------------------------
(***************************************************************************)
(* The translation: where it stands.                                       *)
(***************************************************************************)
Translating == stage \in {"place", "emit", "delete"}
Translated == stage \in {"clean", "type", "run", "returned"}

StandsRight ==
  /\ main \in Programs /\ IsMain(main)
  /\ Translating \/ Translated \/ stage = "failed"
  /\ Translating => pos \in Blocks(main) \X Nat
  /\ stage = "place" => pos[2] = 0
  /\ stage = "emit" => pos[2] <= Len(main[pos[1]].ops) + 1
  /\ regOf \in [Values(main) -> 0 .. HostRegisters]
  /\ nregs \in 0 .. HostRegisters
  /\ DOMAIN code = Blocks(main) /\ DOMAIN meta = Blocks(main)
  /\ removed \subseteq Blocks(main)

LEMMA StandsRightInit == Init => StandsRight
<1> SUFFICES ASSUME Init PROVE StandsRight
  OBVIOUS
<1>1. IsMain(main) /\ main \in Programs
  BY ProgramsAssumption DEF Init
<1>2. 1 \in Blocks(main)
  <2>1. Len(main) \in Nat /\ Len(main) # 0
    BY <1>1 DEF IsMain, IsSeq
  <2> QED
    BY <2>1 DEF Blocks
<1> QED
  BY <1>1, <1>2, HostAssumption DEF Init, StandsRight, Translating, Unmapped

\* The values an operation returns get the next registers.
LEMMA NewRegistersFor ==
  ASSUME StandsRight, NEW c \in Blocks(main), NEW j \in Places(main, c),
         NEW vs, vs = Made(main, c, j), nregs + Len(vs) <= HostRegisters
  PROVE  /\ NewRegisters(vs) \in [Values(main) -> 0 .. HostRegisters]
         /\ \A v \in Values(main) : v \notin Range(vs) => NewRegisters(vs)[v] = regOf[v]
         /\ \A m \in DOMAIN vs : vs[m] \in Values(main) /\ NewRegisters(vs)[vs[m]] = nregs + m - 1
         /\ nregs + Len(vs) \in 0 .. HostRegisters
<1>1. IsMain(main) /\ DOMAIN regOf = Values(main) /\ nregs \in Nat /\ HostRegisters \in Nat
  BY HostAssumption DEF StandsRight
<1>2. Len(vs) \in Nat /\ DOMAIN vs = 1 .. Len(vs) /\ Range(vs) \subseteq Values(main)
  BY <1>1, MainShape, MadeIsValue
<1>3. \A m, n \in DOMAIN vs : vs[m] = vs[n] => m = n
  <2> TAKE m, n \in DOMAIN vs
  <2> HAVE vs[m] = vs[n]
  <2>1. <<c, j, m>> = <<c, j, n>>
    BY <1>1 DEF IsMain, SingleAssignment
  <2> QED
    BY <2>1
<1>4. nregs + Len(vs) <= HostRegisters
  OBVIOUS
<1>5. \A m \in DOMAIN vs : vs[m] \in Values(main) /\ vs[m] \in Range(vs) /\ (CHOOSE i \in DOMAIN vs : vs[i] = vs[m]) = m
  <2> TAKE m \in DOMAIN vs
  <2>1. vs[m] \in Range(vs)
    BY DEF Range
  <2> DEFINE i == CHOOSE i \in DOMAIN vs : vs[i] = vs[m]
  <2>2. i \in DOMAIN vs /\ vs[i] = vs[m]
    OBVIOUS
  <2> HIDE DEF i
  <2>3. i = m
    BY <1>3, <2>2
  <2> QED
    BY <1>2, <2>1, <2>3 DEF i
<1>6. \A m \in DOMAIN vs : NewRegisters(vs)[vs[m]] = nregs + m - 1
  BY <1>1, <1>5 DEF NewRegisters
<1>7. \A v \in Values(main) : v \notin Range(vs) => NewRegisters(vs)[v] = regOf[v]
  BY <1>1 DEF NewRegisters
<1>8. \A v \in Values(main) : NewRegisters(vs)[v] \in 0 .. HostRegisters
  <2> TAKE v \in Values(main)
  <2>1. CASE v \notin Range(vs)
    BY <1>7, <2>1 DEF StandsRight
  <2>2. CASE v \in Range(vs)
    <3>1. PICK m \in DOMAIN vs : v = vs[m]
      BY <2>2 DEF Range
    <3>2. NewRegisters(vs)[v] = nregs + m - 1 /\ m \in 1 .. Len(vs)
      BY <1>2, <1>6, <3>1
    <3> QED
      BY <1>1, <1>2, <1>4, <3>2
  <2> QED
    BY <2>1, <2>2
<1>9. NewRegisters(vs) = [v \in Values(main) |-> NewRegisters(vs)[v]]
  BY <1>1 DEF NewRegisters
<1>10. NewRegisters(vs) \in [Values(main) -> 0 .. HostRegisters]
  BY <1>8, <1>9
<1> QED
  BY <1>1, <1>2, <1>4, <1>5, <1>6, <1>7, <1>10

-----------------------------------------------------------------------------
(***************************************************************************)
(* The translation: what is mapped, and who owns a register.               *)
(***************************************************************************)
\* What is made at place j of block c has been translated.
DoneAt(c, j) ==
  CASE stage = "place" -> j = 0 /\ c < pos[1]
    [] stage = "emit" -> j = 0 \/ Earlier(c, j, pos[1], pos[2])
    [] OTHER -> TRUE

Compares(c, j) == j # 0 /\ main[c].ops[j].k = "cmp"
Renames(c, j) == j # 0 /\ main[c].ops[j].k = "ext"

\* A value has a register as soon as its definition is translated, unless that is a comparison.
MappedWhenDone ==
  \A c \in Blocks(main) : \A j \in Places(main, c) : \A v \in Range(Made(main, c, j)) :
    IF DoneAt(c, j) /\ ~Compares(c, j) THEN regOf[v] < nregs ELSE regOf[v] = Unmapped

\* A register that is allocated was not used for anything that is made before.
OwnRegisters ==
  \A c \in Blocks(main) : \A j \in Places(main, c) :
    DoneAt(c, j) /\ ~Compares(c, j) /\ ~Renames(c, j) =>
      /\ \A v \in Range(Made(main, c, j)), w \in Before(main, c, j) : regOf[w] # regOf[v]
      /\ \A m, n \in DOMAIN Made(main, c, j) :
           regOf[Made(main, c, j)[m]] = regOf[Made(main, c, j)[n]] => m = n

\* What the step that translates place i of block b does to the registers.
NewOnes(b, i) ==
  /\ ~Compares(b, i) /\ ~Renames(b, i)
  /\ nregs' = nregs + Len(Made(main, b, i))
  /\ \A m \in DOMAIN Made(main, b, i) : regOf'[Made(main, b, i)[m]] = nregs + m - 1
SharedOne(b, i) ==
  /\ Renames(b, i)
  /\ nregs' = nregs
  /\ \E a \in Before(main, b, i) : /\ regOf[a] # Unmapped
                                   /\ \A v \in Range(Made(main, b, i)) : regOf'[v] = regOf[a]
NoneAtAll(b, i) == Compares(b, i) /\ UNCHANGED <<regOf, nregs>>

LEMMA RegistersKept ==
  ASSUME StandsRight, StandsRight', main' = main, MappedWhenDone, OwnRegisters,
         NEW b \in Blocks(main), NEW i \in Places(main, b), ~DoneAt(b, i),
         \A c \in Blocks(main) : \A j \in Places(main, c) : DoneAt(c, j)' <=> DoneAt(c, j) \/ (c = b /\ j = i),
         \A v \in Values(main) : v \notin Range(Made(main, b, i)) => regOf'[v] = regOf[v],
         NewOnes(b, i) \/ SharedOne(b, i) \/ NoneAtAll(b, i)
  PROVE  MappedWhenDone' /\ OwnRegisters'
<1> USE HostAssumption
<1> DEFINE new == Made(main, b, i)
<1>1. /\ IsMain(main) /\ nregs \in Nat /\ HostRegisters \in Nat /\ nregs' \in Nat /\ nregs' <= HostRegisters
      /\ nregs <= HostRegisters /\ regOf \in [Values(main) -> 0 .. HostRegisters]
  BY DEF StandsRight
<1>2. Len(new) \in Nat /\ DOMAIN new = 1 .. Len(new) /\ Range(new) \subseteq Values(main) /\ i \in Nat
  BY <1>1, MainShape, MadeIsValue
<1>3. ASSUME NEW c \in Blocks(main), NEW j \in Places(main, c), ~(c = b /\ j = i)
      PROVE  /\ DoneAt(c, j)' <=> DoneAt(c, j)
             /\ \A v \in Range(Made(main, c, j)) : regOf'[v] = regOf[v]
  <2>1. \A v \in Range(Made(main, c, j)) : v \notin Range(new)
    BY <1>1, <1>3, MadeOnce
  <2> QED
    BY <1>1, <1>3, <2>1, MadeIsValue
<1>4. nregs <= nregs'
  BY <1>1, <1>2 DEF NewOnes, SharedOne, NoneAtAll
<1>5. \A v \in Before(main, b, i) : regOf[v] < nregs \/ regOf[v] = Unmapped
  BY DEF MappedWhenDone, Before
\* The new ones.
<1>6. ASSUME ~Compares(b, i), NEW v \in Range(new) PROVE regOf'[v] < nregs'
  <2>1. CASE NewOnes(b, i)
    <3>1. PICK m \in DOMAIN new : v = new[m]
      BY <1>6 DEF Range
    <3>2. regOf'[v] = nregs + m - 1 /\ m \in 1 .. Len(new)
      BY <1>2, <2>1, <3>1 DEF NewOnes
    <3> QED
      BY <1>1, <1>2, <2>1, <3>2 DEF NewOnes
  <2>2. CASE SharedOne(b, i)
    BY <1>5, <1>6, <2>2 DEF SharedOne
  <2> QED
    BY <1>6, <2>1, <2>2 DEF NoneAtAll
<1>7. ASSUME Compares(b, i), NEW v \in Range(new) PROVE regOf'[v] = Unmapped
  <2>1. regOf' = regOf
    BY <1>7 DEF NewOnes, SharedOne, NoneAtAll, Compares, Renames
  <2> QED
    BY <1>7, <2>1 DEF MappedWhenDone
<1>8. MappedWhenDone'
  <2> SUFFICES ASSUME NEW c \in Blocks(main), NEW j \in Places(main, c), NEW v \in Range(Made(main, c, j))
               PROVE  IF DoneAt(c, j)' /\ ~Compares(c, j) THEN regOf'[v] < nregs' ELSE regOf'[v] = Unmapped
    BY DEF MappedWhenDone, Compares, Unmapped
  <2>1. CASE c = b /\ j = i
    BY <1>6, <1>7, <2>1
  <2>2. CASE ~(c = b /\ j = i)
    <3>1. regOf'[v] = regOf[v] /\ (DoneAt(c, j)' <=> DoneAt(c, j))
      BY <1>3, <2>2
    <3>2. IF DoneAt(c, j) /\ ~Compares(c, j) THEN regOf[v] < nregs ELSE regOf[v] = Unmapped
      BY DEF MappedWhenDone
    <3>3. v \in Values(main)
      BY <1>1, MadeIsValue
    <3> QED
      BY <1>1, <1>4, <3>1, <3>2, <3>3
  <2> QED
    BY <2>1, <2>2
<1>9. ASSUME NEW c \in Blocks(main), NEW j \in Places(main, c), DoneAt(c, j)', ~Compares(c, j), ~Renames(c, j),
             NEW v \in Range(Made(main, c, j)), NEW w \in Before(main, c, j)
      PROVE  regOf'[w] # regOf'[v]
  <2>0. w \in Values(main) /\ j \in Nat
    BY <1>1, MainShape DEF Before
  <2>1. CASE c = b /\ j = i
    <3>1. w \notin Range(new)
      BY <1>1, <1>9, <2>1, NotMadeBefore
    <3>2. regOf'[w] = regOf[w] /\ (regOf[w] < nregs \/ regOf[w] = Unmapped) /\ regOf[w] \in Nat
      BY <1>1, <1>5, <1>9, <2>0, <2>1, <3>1
    <3>3. NewOnes(b, i)
      BY <1>9, <2>1 DEF SharedOne, NoneAtAll
    <3>4. PICK m \in DOMAIN new : v = new[m]
      BY <1>9, <2>1 DEF Range
    <3>5. regOf'[v] = nregs + m - 1 /\ m \in 1 .. Len(new) /\ nregs' = nregs + Len(new)
      BY <1>2, <3>3, <3>4 DEF NewOnes
    <3> QED
      BY <1>1, <1>2, <3>2, <3>5 DEF Unmapped
  <2>2. CASE ~(c = b /\ j = i)
    <3>1. regOf'[v] = regOf[v] /\ DoneAt(c, j)
      BY <1>3, <1>9, <2>2
    <3>2. \A a \in Before(main, c, j) : regOf[a] # regOf[v]
      BY <1>9, <3>1 DEF OwnRegisters
    <3>3. CASE w \notin Range(new)
      BY <1>9, <2>0, <3>1, <3>2, <3>3
    <3>4. CASE w \in Range(new)
      <4>1. regOf[v] < nregs /\ regOf[v] \in Nat
        <5>1. v \in Values(main)
          BY <1>1, MadeIsValue
        <5> QED
          BY <1>1, <1>9, <3>1, <5>1 DEF MappedWhenDone
      <4>2. CASE NewOnes(b, i)
        <5>1. PICK m \in DOMAIN new : w = new[m]
          BY <3>4 DEF Range
        <5>2. regOf'[w] = nregs + m - 1 /\ m \in 1 .. Len(new)
          BY <1>2, <4>2, <5>1 DEF NewOnes
        <5> QED
          BY <1>1, <1>2, <3>1, <4>1, <5>2
      <4>3. CASE SharedOne(b, i)
        <5>1. PICK a \in Before(main, b, i) : regOf'[w] = regOf[a]
          BY <3>4, <4>3 DEF SharedOne
        <5>2. Earlier(b, i, c, j)
          <6>1. PICK d \in Blocks(main) : \E k \in Places(main, d) :
                  Earlier(d, k, c, j) /\ w \in Range(Made(main, d, k))
            BY <1>9 DEF Before
          <6>2. PICK k \in Places(main, d) : Earlier(d, k, c, j) /\ w \in Range(Made(main, d, k))
            BY <6>1
          <6>3. d = b /\ k = i
            BY <1>1, <3>4, <6>2, MadeOnce
          <6> QED
            BY <6>2, <6>3
        <5>3. a \in Before(main, c, j)
          BY <1>1, <1>2, <2>0, <5>1, <5>2, BeforeGrows
        <5> QED
          BY <3>1, <3>2, <5>1, <5>3
      <4>4. CASE NoneAtAll(b, i)
        BY <1>9, <3>1, <3>2, <4>4 DEF NoneAtAll
      <4> QED
        BY <4>2, <4>3, <4>4
    <3> QED
      BY <3>3, <3>4
  <2> QED
    BY <2>1, <2>2
<1>10. ASSUME NEW c \in Blocks(main), NEW j \in Places(main, c), DoneAt(c, j)', ~Compares(c, j), ~Renames(c, j),
              NEW m \in DOMAIN Made(main, c, j), NEW n \in DOMAIN Made(main, c, j),
              regOf'[Made(main, c, j)[m]] = regOf'[Made(main, c, j)[n]]
       PROVE  m = n
  <2>1. CASE c = b /\ j = i
    <3>1. NewOnes(b, i)
      BY <1>10, <2>1 DEF SharedOne, NoneAtAll
    <3>2. nregs + m - 1 = nregs + n - 1 /\ m \in Nat /\ n \in Nat
      BY <1>2, <1>10, <2>1, <3>1 DEF NewOnes
    <3> QED
      BY <1>1, <3>2
  <2>2. CASE ~(c = b /\ j = i)
    <3>1. Made(main, c, j)[m] \in Range(Made(main, c, j)) /\ Made(main, c, j)[n] \in Range(Made(main, c, j))
      BY DEF Range
    <3>2. regOf[Made(main, c, j)[m]] = regOf[Made(main, c, j)[n]] /\ DoneAt(c, j)
      BY <1>3, <1>10, <2>2, <3>1
    <3> QED
      BY <1>10, <3>2 DEF OwnRegisters
  <2> QED
    BY <2>1, <2>2
<1>11. OwnRegisters'
  BY <1>9, <1>10 DEF OwnRegisters, Compares, Renames
<1> QED
  BY <1>8, <1>11

-----------------------------------------------------------------------------
(***************************************************************************)
(* The translation: the instructions of a block.  Comparisons and renamed  *)
(* values have none; the others are in the order of their operations, and  *)
(* those of the terminator come last.                                      *)
(***************************************************************************)
Emits(p, c) == {j \in DOMAIN p[c].ops : p[c].ops[j].k \notin {"cmp", "ext"}}
Place(p, c, j) == Rank(Emits(p, c), j)
OpsOfBlock(c) == Len(main[c].ops)

ConstantIn(p, v) == ~IsArgument(p, v) /\ DefiningOp(p, v).k \in {"const", "flag"}
RegsIn(r, vs) == [m \in DOMAIN vs |-> r[vs[m]]]

\* The instruction of an operation whose operands and results are in the registers r says.
InstrFor(p, r, c, j) ==
  LET op == p[c].ops[j]
  IN  CASE op.k \in {"const", "flag", "sock"} -> Instr("assign", RegsIn(r, op.res), <<>>, op.val, 0)
        [] op.k = "mul" /\ ConstantIn(p, op.args[1]) ->
             Instr("mulc", RegsIn(r, op.res), RegsIn(r, <<op.args[2]>>), DefiningOp(p, op.args[1]).val, 0)
        [] op.k = "mul" /\ ~ConstantIn(p, op.args[1]) /\ ConstantIn(p, op.args[2]) ->
             Instr("mulc", RegsIn(r, op.res), RegsIn(r, <<op.args[1]>>), DefiningOp(p, op.args[2]).val, 0)
        [] OTHER -> Instr(op.k, RegsIn(r, op.res), RegsIn(r, op.args), 0, 0)

OpsRight ==
  \A c \in Blocks(main) : \A j \in DOMAIN main[c].ops :
    DoneAt(c, j) =>
      /\ Mapped(main[c].ops[j].args)
      /\ Renames(c, j) => regOf[main[c].ops[j].res[1]] = regOf[main[c].ops[j].args[1]]
      /\ j \in Emits(main, c) =>
           Place(main, c, j) \in 1 .. Len(code[c]) /\ code[c][Place(main, c, j)] = InstrFor(main, regOf, c, j)

\* A branch tests a comparison or a constant.
Test(p, c) == DefiningOp(p, p[c].term.cond)
Way(p, c) == IF Test(p, c).val = 0 THEN 2 ELSE 1

Copies(p, r, d, passed) ==
  [m \in DOMAIN passed |-> Instr("copy", <<r[p[d].args[m]]>>, <<r[passed[m]]>>, 0, 0)]

LastInstrs(p, r, c) ==
  LET term == p[c].term
      copies(n) == Copies(p, r, term.to[n], term.with[n])
      test == Test(p, c)
  IN  CASE term.k = "next" -> <<>>
        [] term.k = "br" -> Append(copies(1), Jump(term.to[1]))
        [] term.k = "cond" /\ test.k = "cmp" ->
             copies(1) \o <<Instr(test.pred, <<>>, RegsIn(r, test.args), 0, term.to[1])>>
               \o copies(2) \o <<Jump(term.to[2])>>
        [] term.k = "cond" /\ test.k # "cmp" -> Append(copies(Way(p, c)), Jump(term.to[Way(p, c)]))
        [] OTHER -> [m \in DOMAIN term.args |-> Instr("return", <<>>, <<r[term.args[m]]>>, 0, 0)]

\* What the terminator uses is mapped, and what a branch tests is known.
TermRight(p, r, c) ==
  LET term == p[c].term
      test == Test(p, c)
      mapped(vs) == \A m \in DOMAIN vs : r[vs[m]] # Unmapped
  IN  /\ term.k = "br" => mapped(term.with[1])
      /\ term.k = "cond" => /\ mapped(term.with[1]) /\ mapped(term.with[2])
                            /\ ~IsArgument(p, term.cond) /\ test.k \in {"cmp", "flag"}
                            /\ test.k = "cmp" => test.pred \in Supported /\ mapped(test.args)
      /\ term.k = "return" => mapped(term.args)

TermDone(c) == stage = "delete" \/ Translated \/ (stage = "emit" /\ c < pos[1])
OpsDone(c) == IF stage = "emit" /\ c = pos[1] /\ pos[2] # 0 THEN pos[2] - 1 ELSE 0

CodeRight ==
  \A c \in Blocks(main) :
    /\ IsSeq(code[c])
    /\ ~TermDone(c) => Len(code[c]) = Place(main, c, OpsDone(c))
    /\ TermDone(c) =>
         /\ TermRight(main, regOf, c)
         /\ Len(code[c]) = Place(main, c, OpsOfBlock(c)) + Len(LastInstrs(main, regOf, c))
         /\ \A k \in 1 .. Len(LastInstrs(main, regOf, c)) : code[c][Place(main, c, OpsOfBlock(c)) + k] = LastInstrs(main, regOf, c)[k]

CmpsRight == \A v \in cmps : ~IsArgument(main, v) /\ DefiningOp(main, v).k \in {"cmp", "flag"}

TransInv ==
  /\ StandsRight
  /\ stage # "failed" => MappedWhenDone /\ OwnRegisters /\ OpsRight /\ CodeRight /\ CmpsRight

LEMMA PlaceStep ==
  ASSUME StandsRight, NEW c \in Blocks(main)
  PROVE  /\ Place(main, c, 0) = 0
         /\ \A j \in Nat : Place(main, c, j) \in Nat
         /\ \A j \in DOMAIN main[c].ops : Place(main, c, j) = Place(main, c, j - 1) + (IF j \in Emits(main, c) THEN 1 ELSE 0)
         /\ \A i, j \in Nat : i <= j => Place(main, c, i) <= Place(main, c, j)
         /\ \A i, j \in Nat : i < j /\ j \in Emits(main, c) => Place(main, c, i) < Place(main, c, j)
         /\ \A k \in 1 .. Place(main, c, OpsOfBlock(c)) : \E j \in Emits(main, c) : Place(main, c, j) = k
<1>1. OpsOfBlock(c) \in Nat /\ DOMAIN main[c].ops = 1 .. OpsOfBlock(c)
  BY MainShape DEF StandsRight, OpsOfBlock
<1>2. Emits(main, c) \in SUBSET (1 .. OpsOfBlock(c))
  BY <1>1 DEF Emits
<1>3. /\ Rank(Emits(main, c), 0) = 0
      /\ Rank(Emits(main, c), OpsOfBlock(c)) = Cardinality(Emits(main, c))
      /\ \A j \in Nat : Rank(Emits(main, c), j) \in Nat
      /\ \A j \in Nat \ {0} : Rank(Emits(main, c), j) = Rank(Emits(main, c), j - 1) + (IF j \in Emits(main, c) THEN 1 ELSE 0)
  BY <1>1, <1>2, RankStep
<1>4. \A i, j \in Nat : i <= j => Rank(Emits(main, c), i) <= Rank(Emits(main, c), j)
  BY <1>1, <1>2, RankGrows
<1>5. \A i, j \in Nat : i < j /\ j \in Emits(main, c) => Rank(Emits(main, c), i) < Rank(Emits(main, c), j)
  <2> TAKE i, j \in Nat
  <2> HAVE i < j /\ j \in Emits(main, c)
  <2>1. i <= j
    OBVIOUS
  <2> QED
    BY <1>1, <1>2, <2>1, RankGrows
<1>6. ASSUME NEW k \in 1 .. Rank(Emits(main, c), OpsOfBlock(c)) PROVE \E j \in Emits(main, c) : Rank(Emits(main, c), j) = k
  <2>1. k \in DOMAIN InOrder(Emits(main, c))
    BY <1>1, <1>2, <1>3, InOrderLists
  <2> QED
    BY <1>1, <1>2, <2>1, InOrderLists
<1>7. \A j \in DOMAIN main[c].ops : Rank(Emits(main, c), j) = Rank(Emits(main, c), j - 1) + (IF j \in Emits(main, c) THEN 1 ELSE 0)
  <2> TAKE j \in DOMAIN main[c].ops
  <2>1. j \in Nat \ {0}
    BY <1>1
  <2> QED
    BY <1>3, <2>1
<1> QED
  BY <1>3, <1>4, <1>5, <1>6, <1>7, Zenon DEF Place

LEMMA OperandsBefore ==
  ASSUME StandsRight, NEW c \in Blocks(main), NEW j \in DOMAIN main[c].ops
  PROVE  /\ j \in Places(main, c) /\ j \in Nat \ {0} /\ j <= OpsOfBlock(c) /\ OpsOfBlock(c) \in Nat
         /\ Made(main, c, j) = main[c].ops[j].res
         /\ \A m \in DOMAIN main[c].ops[j].args : main[c].ops[j].args[m] \in Before(main, c, j)
         /\ IsOperation(main[c].ops[j])
<1>1. IsMain(main) /\ DOMAIN main[c].ops = 1 .. OpsOfBlock(c) /\ OpsOfBlock(c) \in Nat
  BY MainShape DEF StandsRight, OpsOfBlock
<1>2. j \in Places(main, c) /\ j \in Nat \ {0} /\ j \in 1 .. OpsOfBlock(c) + 1 /\ j <= OpsOfBlock(c)
  BY <1>1 DEF Places, OpsOfBlock
<1>3. Range(main[c].ops[j].args) \subseteq InSight(main, c, j) /\ IsOperation(main[c].ops[j])
  BY <1>1 DEF IsMain
<1>4. InSight(main, c, j) \subseteq Before(main, c, j)
  BY <1>1, <1>2, SightIsBefore DEF OpsOfBlock
<1> QED
  BY <1>1, <1>2, <1>3, <1>4 DEF Made, Range

LEMMA OneRegister ==
  ASSUME NEW v
  PROVE  /\ Mapped(<<v>>) <=> regOf[v] # Unmapped
         /\ RegsOf(<<v>>) = <<regOf[v]>>
         /\ \A r : RegsIn(r, <<v>>) = <<r[v]>>
<1>1. DOMAIN <<v>> = {1} /\ <<v>>[1] = v
  OBVIOUS
<1>2. \A x : [m \in {1} |-> x] = <<x>>
  <2> TAKE x
  <2>1. DOMAIN <<x>> = {1} /\ <<x>>[1] = x /\ <<x>> = [m \in DOMAIN <<x>> |-> <<x>>[m]]
    OBVIOUS
  <2> QED
    BY <2>1
<1>3. \A r : RegsIn(r, <<v>>) = [m \in {1} |-> r[v]]
  BY <1>1 DEF RegsIn
<1>4. RegsOf(<<v>>) = [m \in {1} |-> regOf[v]]
  BY <1>1 DEF RegsOf
<1> QED
  BY <1>1, <1>2, <1>3, <1>4 DEF Mapped

Operation ==
  Constant \/ RemoteIDRef \/ CmpI \/ ExtUI \/ AddSub \/ MulI \/ Communicate \/ Call

\* A constant in sight has a register; what a comparison compares as well.
LEMMA ConstantMapped ==
  ASSUME StandsRight, MappedWhenDone, stage = "emit", NEW v \in Before(main, pos[1], pos[2]), IsConstant(v)
  PROVE  regOf[v] # Unmapped
<1>0. pos[1] \in Blocks(main) /\ pos[2] \in Nat /\ IsMain(main)
  BY DEF StandsRight, Translating
<1>1. PICK c \in Blocks(main) : \E j \in Places(main, c) : Earlier(c, j, pos[1], pos[2]) /\ v \in Range(Made(main, c, j))
  BY DEF Before
<1>2. PICK j \in Places(main, c) : Earlier(c, j, pos[1], pos[2]) /\ v \in Range(Made(main, c, j))
  BY <1>1
<1>3. DoneAt(c, j)
  BY <1>2 DEF DoneAt
<1>4. ~Compares(c, j)
  <2> SUFFICES ASSUME j # 0, main[c].ops[j].k = "cmp" PROVE FALSE
    BY DEF Compares
  <2>1. j \in DOMAIN main[c].ops /\ v \in Range(main[c].ops[j].res)
    BY <1>0, <1>2, MainShape DEF Places, Made
  <2>2. DefiningOp(main, v) = main[c].ops[j]
    BY <1>0, <2>1, DefinesIt
  <2> QED
    BY <2>2 DEF IsConstant
<1>5. regOf[v] < nregs /\ nregs \in Nat /\ nregs <= HostRegisters
  BY <1>2, <1>3, <1>4 DEF MappedWhenDone, StandsRight
<1>6. v \in Values(main) /\ regOf[v] \in Nat
  BY DEF Before, StandsRight
<1> QED
  BY <1>5, <1>6, HostAssumption DEF Unmapped

LEMMA ComparedMapped ==
  ASSUME StandsRight, MappedWhenDone, stage = "emit",
         NEW c \in Blocks(main), NEW j \in DOMAIN main[c].ops, main[c].ops[j].k = "cmp",
         DoneAt(c, j) \/ (c = pos[1] /\ j = pos[2])
  PROVE  Mapped(main[c].ops[j].args)
<1> DEFINE op == main[c].ops[j]
<1>0. pos[1] \in Blocks(main) /\ pos[2] \in Nat /\ IsMain(main)
  BY DEF StandsRight, Translating
<1>1. /\ j \in Nat \ {0} /\ IsOperation(op)
      /\ \A m \in DOMAIN op.args : op.args[m] \in Before(main, c, j)
  BY OperandsBefore
<1>2. Earlier(c, j, pos[1], pos[2]) \/ (c = pos[1] /\ j = pos[2])
  BY <1>1 DEF DoneAt
<1>3. ASSUME NEW m \in DOMAIN op.args PROVE regOf[op.args[m]] # Unmapped
  <2> DEFINE v == op.args[m]
  <2>1. PICK d \in Blocks(main) : \E k \in Places(main, d) : Earlier(d, k, c, j) /\ v \in Range(Made(main, d, k))
    BY <1>1 DEF Before
  <2>2. PICK k \in Places(main, d) : Earlier(d, k, c, j) /\ v \in Range(Made(main, d, k))
    BY <2>1
  <2>3. DoneAt(d, k)
    <3>1. d \in Nat /\ k \in Nat /\ c \in Nat /\ pos[1] \in Nat
      BY <1>0, MainShape
    <3>2. Earlier(d, k, pos[1], pos[2])
      BY <1>0, <1>1, <1>2, <2>2, <3>1 DEF Earlier
    <3> QED
      BY <3>2 DEF DoneAt
  <2>4. ~Compares(d, k)
    <3> SUFFICES ASSUME k # 0, main[d].ops[k].k = "cmp" PROVE FALSE
      BY DEF Compares
    <3>1. k \in DOMAIN main[d].ops /\ v \in Range(main[d].ops[k].res)
      BY <1>0, <2>2, MainShape DEF Places, Made
    <3>2. Range(op.args) \cap Range(main[d].ops[k].res) = {}
      BY <1>0, <3>1 DEF IsMain
    <3>3. v \in Range(op.args)
      BY <1>3 DEF Range
    <3> QED
      BY <3>1, <3>2, <3>3
  <2>5. regOf[v] < nregs /\ nregs \in Nat /\ nregs <= HostRegisters
    BY <2>2, <2>3, <2>4 DEF MappedWhenDone, StandsRight
  <2>6. v \in Values(main) /\ regOf[v] \in Nat
    BY <1>1 DEF Before, StandsRight
  <2> QED
    BY <2>5, <2>6, HostAssumption DEF Unmapped
<1> QED
  BY <1>3 DEF Mapped

\* An operation with an instruction: its results get registers, and the instruction is the next.
\* A comparison changes nothing.  Another name for a value has its register.
LEMMA OperationEffect ==
  ASSUME StandsRight, MappedWhenDone, Operation, stage' # "failed", NEW b, NEW i, b = pos[1], i = pos[2]
  PROVE  LET op == main[b].ops[i]
         IN  /\ stage = "emit" /\ b \in Blocks(main) /\ i \in DOMAIN main[b].ops
             /\ UNCHANGED <<main, stage, ids, meta, removed, type, execution>>
             /\ pos' = <<b, i + 1>>
             /\ Mapped(op.args)
             /\ i \in Emits(main, b) => /\ Allocates(op.res)
                                       /\ code' = [code EXCEPT ![b] = Append(@, InstrFor(main, regOf', b, i))]
             /\ Compares(b, i) => UNCHANGED <<regOf, nregs, code>>
             /\ Renames(b, i) => /\ regOf' = [regOf EXCEPT ![op.res[1]] = regOf[op.args[1]]]
                                 /\ UNCHANGED <<nregs, code>>
             /\ cmps' = IF op.k \in {"cmp", "flag"} THEN cmps \cup Range(op.res) ELSE cmps
<1> DEFINE op == main[b].ops[i]
<1>0. stage = "emit" /\ i \in 1 .. Len(main[b].ops)
  BY DEF Operation, Constant, RemoteIDRef, CmpI, ExtUI, AddSub, MulI, Communicate, Call, At
<1>1. b \in Blocks(main) /\ i \in DOMAIN main[b].ops /\ IsMain(main)
  BY <1>0, MainShape DEF StandsRight, Translating
<1>2. /\ i \in Nat \ {0} /\ i \in Places(main, b) /\ IsOperation(op) /\ Made(main, b, i) = op.res
      /\ \A m \in DOMAIN op.args : op.args[m] \in Before(main, b, i)
  BY <1>1, OperandsBefore
<1>3. UNCHANGED <<main, stage, ids, meta, removed, type, execution>> /\ pos' = <<b, i + 1>>
  BY DEF Operation, Constant, RemoteIDRef, CmpI, ExtUI, AddSub, MulI, Communicate, Call, Fail, Advance
<1>4. cmps' = IF op.k \in {"cmp", "flag"} THEN cmps \cup Range(op.res) ELSE cmps
  BY DEF Operation, Constant, RemoteIDRef, CmpI, ExtUI, AddSub, MulI, Communicate, Call, Fail, At, Op
<1>5. \A v : IsConstant(v) <=> ConstantIn(main, v)
  BY DEF IsConstant, ConstantIn
\* The operands keep their registers, the results get theirs.
<1>6. ASSUME Allocates(op.res)
      PROVE  /\ [m \in DOMAIN op.res |-> regOf'[op.res[m]]] = [m \in DOMAIN op.res |-> nregs + m - 1]
             /\ \A m \in DOMAIN op.args : regOf'[op.args[m]] = regOf[op.args[m]]
  <2>1. regOf' = NewRegisters(op.res) /\ nregs + Len(op.res) <= HostRegisters
    BY <1>6 DEF Allocates
  <2> DEFINE vs == op.res
  <2>2. b \in Blocks(main) /\ i \in Places(main, b) /\ vs = Made(main, b, i)
        /\ regOf' = NewRegisters(vs) /\ nregs + Len(vs) <= HostRegisters
    BY <1>1, <1>2, <2>1
  <2> HIDE DEF vs
  <2>3. /\ \A v \in Values(main) : v \notin Range(vs) => NewRegisters(vs)[v] = regOf[v]
        /\ \A m \in DOMAIN vs : NewRegisters(vs)[vs[m]] = nregs + m - 1
    BY <2>2, NewRegistersFor
  <2>4. \A m \in DOMAIN op.res : regOf'[op.res[m]] = nregs + m - 1
    BY <2>2, <2>3 DEF vs
  <2>5. \A m \in DOMAIN op.args : op.args[m] \in Values(main) /\ op.args[m] \notin Range(op.res)
    BY <1>1, <1>2, NotMadeBefore DEF Before
  <2>6. \A v \in Values(main) : v \notin Range(op.res) => regOf'[v] = regOf[v]
    BY <2>2, <2>3 DEF vs
  <2>7. \A m \in DOMAIN op.args : regOf'[op.args[m]] = regOf[op.args[m]]
    BY <2>5, <2>6
  <2> QED
    BY <2>4, <2>7
<1> DEFINE Wanted == /\ Mapped(op.args)
                     /\ i \in Emits(main, b) => /\ Allocates(op.res)
                                               /\ code' = [code EXCEPT ![b] = Append(@, InstrFor(main, regOf', b, i))]
                     /\ Compares(b, i) => UNCHANGED <<regOf, nregs, code>>
                     /\ Renames(b, i) => /\ regOf' = [regOf EXCEPT ![op.res[1]] = regOf[op.args[1]]]
                                         /\ UNCHANGED <<nregs, code>>
<1> SUFFICES Wanted
  BY <1>0, <1>1, <1>3, <1>4
<1>7. i \in Emits(main, b) => ~Compares(b, i) /\ ~Renames(b, i)
  BY DEF Emits, Compares, Renames
<1>8. CASE Constant \/ RemoteIDRef
  <2>1. op.k \in {"const", "flag", "sock"} /\ Build("assign", <<>>, op.val)
    BY <1>8 DEF Constant, RemoteIDRef, At, Op
  <2>2. i \in Emits(main, b) /\ Mapped(op.args)
    <3>1. op.args = <<>>
      BY <1>2, <2>1 DEF IsOperation
    <3>2. Mapped(<<>>)
      BY DEF Mapped
    <3> QED
      BY <1>1, <2>1, <3>1, <3>2 DEF Emits
  <2>3. InstrFor(main, regOf', b, i) = Instr("assign", [m \in DOMAIN op.res |-> nregs + m - 1], <<>>, op.val, 0)
    BY <1>3, <1>6, <2>1 DEF InstrFor, RegsIn, Build, Op
  <2> QED
    BY <1>7, <2>1, <2>2, <2>3 DEF Build, Op
<1>9. CASE AddSub \/ Communicate \/ Call
  <2>1. op.k \in {"add", "sub", "send", "recv", "local", "request"} /\ Build(op.k, RegsOf(op.args), 0) /\ Mapped(op.args)
    BY <1>9 DEF AddSub, Communicate, Call, At, Op
  <2>2. i \in Emits(main, b)
    BY <1>1, <2>1 DEF Emits
  <2>3. InstrFor(main, regOf', b, i) = Instr(op.k, [m \in DOMAIN op.res |-> nregs + m - 1], RegsOf(op.args), 0, 0)
    <3>1. InstrFor(main, regOf', b, i) = Instr(op.k, [m \in DOMAIN op.res |-> regOf'[op.res[m]]],
                                 [m \in DOMAIN op.args |-> regOf'[op.args[m]]], 0, 0)
      BY <1>3, <2>1 DEF InstrFor, RegsIn
    <3>2. [m \in DOMAIN op.args |-> regOf'[op.args[m]]] = RegsOf(op.args)
      BY <1>6, <2>1 DEF RegsIn, RegsOf, Build, Op
    <3> QED
      BY <1>6, <2>1, <3>1, <3>2 DEF Build, Op
  <2> QED
    BY <1>7, <2>1, <2>2, <2>3 DEF Build, Op
<1>10. CASE MulI
  <2> DEFINE v == op.args[1]
             w == op.args[2]
  <2>1. op.k = "mul" /\ i \in Emits(main, b) /\ v \in Before(main, b, i) /\ w \in Before(main, b, i) /\ DOMAIN op.args = {1, 2}
    <3>1. op.k = "mul"
      BY <1>10 DEF MulI, At, Op
    <3>2. IsSeq(op.args) /\ Len(op.args) = 2
      BY <1>2, <3>1 DEF IsOperation
    <3>3. DOMAIN op.args = 1 .. 2
      BY <3>2 DEF IsSeq
    <3> QED
      BY <1>1, <1>2, <3>1, <3>3 DEF Emits
  <2>2. CASE IsConstant(v)
    <3>1. Mapped(<<w>>) /\ Build("mulc", RegsOf(<<w>>), DefiningOp(main, v).val)
      BY <1>10, <1>3, <2>2 DEF MulI, Op, IsConstant, Fail
    <3>2. regOf[v] # Unmapped
      BY <1>0, <2>1, <2>2, ConstantMapped
    <3>3. regOf[w] # Unmapped
      BY <3>1, OneRegister
    <3>4. Mapped(op.args)
      BY <2>1, <3>2, <3>3 DEF Mapped
    <3>5. InstrFor(main, regOf', b, i) = Instr("mulc", [m \in DOMAIN op.res |-> nregs + m - 1], RegsOf(<<w>>), DefiningOp(main, v).val, 0)
      <4>1. InstrFor(main, regOf', b, i) = Instr("mulc", [m \in DOMAIN op.res |-> regOf'[op.res[m]]],
                                   RegsIn(regOf', <<w>>), DefiningOp(main, v).val, 0)
        BY <1>5, <2>1, <2>2 DEF InstrFor, RegsIn
      <4>2. RegsIn(regOf', <<w>>) = RegsOf(<<w>>)
        <5>1. regOf'[w] = regOf[w]
          BY <1>6, <2>1, <3>1 DEF Build, Op
        <5> QED
          BY <5>1, OneRegister
      <4> QED
        BY <1>6, <3>1, <4>1, <4>2 DEF Build, Op
    <3> QED
      BY <1>7, <2>1, <3>1, <3>4, <3>5 DEF Build, Op
  <2>3. CASE ~IsConstant(v) /\ IsConstant(w)
    <3>1. Mapped(<<v>>) /\ Build("mulc", RegsOf(<<v>>), DefiningOp(main, w).val)
      BY <1>10, <1>3, <2>3 DEF MulI, Op, IsConstant, Fail
    <3>2. regOf[w] # Unmapped
      BY <1>0, <2>1, <2>3, ConstantMapped
    <3>3. regOf[v] # Unmapped
      BY <3>1, OneRegister
    <3>4. Mapped(op.args)
      BY <2>1, <3>2, <3>3 DEF Mapped
    <3>5. InstrFor(main, regOf', b, i) = Instr("mulc", [m \in DOMAIN op.res |-> nregs + m - 1], RegsOf(<<v>>), DefiningOp(main, w).val, 0)
      <4>1. InstrFor(main, regOf', b, i) = Instr("mulc", [m \in DOMAIN op.res |-> regOf'[op.res[m]]],
                                   RegsIn(regOf', <<v>>), DefiningOp(main, w).val, 0)
        BY <1>5, <2>1, <2>3 DEF InstrFor, RegsIn
      <4>2. RegsIn(regOf', <<v>>) = RegsOf(<<v>>)
        <5>1. regOf'[v] = regOf[v]
          BY <1>6, <2>1, <3>1 DEF Build, Op
        <5> QED
          BY <5>1, OneRegister
      <4> QED
        BY <1>6, <3>1, <4>1, <4>2 DEF Build, Op
    <3> QED
      BY <1>7, <2>1, <3>1, <3>4, <3>5 DEF Build, Op
  <2>4. CASE ~IsConstant(v) /\ ~IsConstant(w)
    <3>1. Mapped(op.args) /\ Build("mul", RegsOf(op.args), 0)
      BY <1>10, <1>3, <2>4 DEF MulI, Op, IsConstant, Fail
    <3>2. InstrFor(main, regOf', b, i) = Instr("mul", [m \in DOMAIN op.res |-> nregs + m - 1], RegsOf(op.args), 0, 0)
      <4>1. InstrFor(main, regOf', b, i) = Instr("mul", [m \in DOMAIN op.res |-> regOf'[op.res[m]]],
                                   [m \in DOMAIN op.args |-> regOf'[op.args[m]]], 0, 0)
        BY <1>5, <2>1, <2>4 DEF InstrFor, RegsIn
      <4>2. [m \in DOMAIN op.args |-> regOf'[op.args[m]]] = RegsOf(op.args)
        BY <1>6, <3>1 DEF RegsIn, RegsOf, Build, Op
      <4> QED
        BY <1>6, <3>1, <4>1, <4>2 DEF Build, Op
    <3> QED
      BY <1>7, <2>1, <3>1, <3>2 DEF Build, Op
  <2> QED
    BY <2>2, <2>3, <2>4
<1>11. CASE CmpI
  <2>1. op.k = "cmp" /\ UNCHANGED <<regOf, nregs, code>>
    BY <1>11 DEF CmpI, At, Op
  <2>2. Compares(b, i) /\ i \notin Emits(main, b) /\ ~Renames(b, i)
    BY <1>2, <2>1 DEF Compares, Renames, Emits
  <2>3. Mapped(op.args)
    BY <1>0, <1>1, <2>1, ComparedMapped
  <2> QED
    BY <2>1, <2>2, <2>3
<1>12. CASE ExtUI
  <2>1. /\ op.k = "ext" /\ UNCHANGED <<nregs, code>> /\ Mapped(op.args)
        /\ regOf' = [regOf EXCEPT ![op.res[1]] = regOf[op.args[1]]]
    BY <1>12 DEF ExtUI, At, Op
  <2>2. Renames(b, i) /\ i \notin Emits(main, b) /\ ~Compares(b, i)
    BY <1>2, <2>1 DEF Renames, Compares, Emits
  <2> QED
    BY <2>1, <2>2
<1> QED
  BY <1>8, <1>9, <1>10, <1>11, <1>12 DEF Operation

\* What a branch tests was made by an operation before, and so were the operands of that.
LEMMA TestBefore ==
  ASSUME NEW p, IsMain(p), NEW c \in Blocks(p), p[c].term.k = "cond", ~IsArgument(p, p[c].term.cond)
  PROVE  /\ p[c].term.cond \in Before(p, c, Len(p[c].ops) + 1)
         /\ \E d \in Blocks(p) : \E k \in DOMAIN p[d].ops :
              /\ Earlier(d, k, c, Len(p[c].ops) + 1)
              /\ p[c].term.cond \in Range(p[d].ops[k].res)
              /\ Test(p, c) = p[d].ops[k]
              /\ \A m \in DOMAIN Test(p, c).args : Test(p, c).args[m] \in Before(p, c, Len(p[c].ops) + 1)
<1> DEFINE v == p[c].term.cond
           n == Len(p[c].ops) + 1
<1>1. Len(p[c].ops) \in Nat /\ n \in 1 .. Len(p[c].ops) + 1 /\ n \in Nat
  BY MainShape
<1>2. v \in InSight(p, c, n)
  BY DEF IsMain, IsTerminator
<1>3. v \in Before(p, c, n)
  BY <1>1, <1>2, SightIsBefore
<1>4. PICK d \in Blocks(p) : \E k \in Places(p, d) : Earlier(d, k, c, n) /\ v \in Range(Made(p, d, k))
  BY <1>3 DEF Before
<1>5. PICK k \in Places(p, d) : Earlier(d, k, c, n) /\ v \in Range(Made(p, d, k))
  BY <1>4
<1> HIDE DEF v, n
<1>6. k # 0
  <2>1. OpsOf(p, v) # {}
    BY DEF IsArgument, v
  <2>2. PICK e \in Blocks(p) : \E j \in DOMAIN p[e].ops : v \in Range(p[e].ops[j].res)
    BY <2>1 DEF OpsOf
  <2>3. PICK j \in DOMAIN p[e].ops : v \in Range(p[e].ops[j].res)
    BY <2>2
  <2>4. j \in Places(p, e) /\ j # 0 /\ v \in Range(Made(p, e, j))
    BY <2>3, MainShape DEF Places, Made
  <2>5. e = d /\ j = k
    BY <1>5, <2>4, MadeOnce
  <2> QED
    BY <2>4, <2>5
<1>7. k \in DOMAIN p[d].ops /\ v \in Range(p[d].ops[k].res) /\ k \in Nat
  BY <1>5, <1>6, MainShape DEF Places, Made
<1>8. Test(p, c) = p[d].ops[k]
  BY <1>7, DefinesIt DEF Test, v
<1>9. ASSUME NEW m \in DOMAIN p[d].ops[k].args PROVE p[d].ops[k].args[m] \in Before(p, c, n)
  <2>1. p[d].ops[k].args[m] \in InSight(p, d, k)
    BY <1>7 DEF IsMain, Range
  <2>2. k \in 1 .. Len(p[d].ops) + 1
    BY <1>7, MainShape
  <2>3. p[d].ops[k].args[m] \in Before(p, d, k)
    BY <2>1, <2>2, SightIsBefore
  <2> QED
    BY <1>1, <1>5, <1>7, <2>3, BeforeGrows
<1> QED
  BY <1>3, <1>5, <1>7, <1>8, <1>9 DEF v, n

\* The terminator's instructions stay right when the registers of what came before stay.
LEMMA LastKept ==
  ASSUME NEW p, IsMain(p), NEW c \in Blocks(p), NEW r, NEW r2, TermRight(p, r, c),
         \A v \in Before(p, c, Len(p[c].ops) + 1) : r2[v] = r[v],
         \A d \in Blocks(p) : \A m \in DOMAIN p[d].args : r2[p[d].args[m]] = r[p[d].args[m]]
  PROVE  TermRight(p, r2, c) /\ LastInstrs(p, r2, c) = LastInstrs(p, r, c)
<1> DEFINE term == p[c].term
           n == Len(p[c].ops) + 1
<1>1. n \in 1 .. Len(p[c].ops) + 1 /\ IsTerminator(p, c)
  BY MainShape DEF IsMain
<1>2. InSight(p, c, n) \subseteq Before(p, c, n)
  BY <1>1, SightIsBefore
<1>3. ASSUME IsJump(p, c, term.to, term.with), NEW w \in DOMAIN term.to
      PROVE  /\ \A m \in DOMAIN term.with[w] : r2[term.with[w][m]] = r[term.with[w][m]]
             /\ Copies(p, r2, term.to[w], term.with[w]) = Copies(p, r, term.to[w], term.with[w])
  <2>1. /\ term.to[w] \in Blocks(p)
        /\ IsSeq(term.with[w]) /\ Len(term.with[w]) = Len(p[term.to[w]].args)
        /\ Range(term.with[w]) \subseteq InSight(p, c, n)
    <3>1. \A x : x \in c + 1 .. Len(p) => x \in Blocks(p)
      BY MainShape DEF Blocks
    <3> QED
      BY <1>3, <3>1 DEF IsJump
  <2>2. IsSeq(p[term.to[w]].args)
    BY <2>1 DEF IsMain
  <2>3. DOMAIN term.with[w] = DOMAIN p[term.to[w]].args
    BY <2>1, <2>2 DEF IsSeq
  <2>4. \A m \in DOMAIN term.with[w] : r2[term.with[w][m]] = r[term.with[w][m]]
    BY <1>2, <2>1 DEF Range
  <2>5. \A m \in DOMAIN term.with[w] : r2[p[term.to[w]].args[m]] = r[p[term.to[w]].args[m]]
    BY <2>1, <2>3
  <2> QED
    BY <2>4, <2>5 DEF Copies
<1>4. CASE term.k = "next"
  BY <1>4 DEF TermRight, LastInstrs
<1>5. CASE term.k = "br"
  <2>1. IsJump(p, c, term.to, term.with) /\ 1 \in DOMAIN term.to
    <3>1. IsJump(p, c, term.to, term.with) /\ Len(term.to) = 1
      BY <1>1, <1>5 DEF IsTerminator
    <3> QED
      BY <3>1 DEF IsJump, IsSeq
  <2>2. Copies(p, r2, term.to[1], term.with[1]) = Copies(p, r, term.to[1], term.with[1])
    BY <1>3, <2>1
  <2>3. \A m \in DOMAIN term.with[1] : r2[term.with[1][m]] = r[term.with[1][m]]
    BY <1>3, <2>1
  <2> QED
    BY <1>5, <2>2, <2>3 DEF TermRight, LastInstrs
<1>6. CASE term.k = "cond"
  <2> DEFINE test == Test(p, c)
  <2>1. IsJump(p, c, term.to, term.with) /\ 1 \in DOMAIN term.to /\ 2 \in DOMAIN term.to
    <3>1. IsJump(p, c, term.to, term.with) /\ Len(term.to) = 2
      BY <1>1, <1>6 DEF IsTerminator
    <3> QED
      BY <3>1 DEF IsJump, IsSeq
  <2>2. /\ Copies(p, r2, term.to[1], term.with[1]) = Copies(p, r, term.to[1], term.with[1])
        /\ Copies(p, r2, term.to[2], term.with[2]) = Copies(p, r, term.to[2], term.with[2])
    BY <1>3, <2>1
  <2>3. /\ \A m \in DOMAIN term.with[1] : r2[term.with[1][m]] = r[term.with[1][m]]
        /\ \A m \in DOMAIN term.with[2] : r2[term.with[2][m]] = r[term.with[2][m]]
    BY <1>3, <2>1
  <2>4. \A m \in DOMAIN test.args : r2[test.args[m]] = r[test.args[m]]
    <3>1. ~IsArgument(p, term.cond)
      BY <1>6 DEF TermRight
    <3>2. \A m \in DOMAIN test.args : test.args[m] \in Before(p, c, n)
      BY <1>6, <3>1, TestBefore
    <3> QED
      BY <3>2
  <2>5. RegsIn(r2, test.args) = RegsIn(r, test.args)
    BY <2>4 DEF RegsIn
  <2>6. TermRight(p, r2, c)
    BY <1>6, <2>3, <2>4 DEF TermRight
  <2>7. Way(p, c) = 1 \/ Way(p, c) = 2
    BY DEF Way
  <2>8. LastInstrs(p, r2, c) = LastInstrs(p, r, c)
    <3>1. CASE test.k = "cmp"
      BY <1>6, <2>2, <2>5, <3>1 DEF LastInstrs
    <3>2. CASE test.k # "cmp"
      BY <1>6, <2>2, <2>7, <3>2 DEF LastInstrs
    <3> QED
      BY <3>1, <3>2
  <2> QED
    BY <2>6, <2>8
<1>7. CASE term.k = "return"
  <2>1. Range(term.args) \subseteq InSight(p, c, n)
    BY <1>1, <1>7 DEF IsTerminator
  <2>2. \A m \in DOMAIN term.args : r2[term.args[m]] = r[term.args[m]]
    BY <1>2, <2>1 DEF Range
  <2> QED
    BY <1>7, <2>2 DEF TermRight, LastInstrs
<1> QED
  BY <1>1, <1>4, <1>5, <1>6, <1>7 DEF IsTerminator

LEMMA AppendSeq ==
  ASSUME NEW s, IsSeq(s), NEW x
  PROVE  /\ IsSeq(Append(s, x)) /\ Len(s) \in Nat /\ Len(Append(s, x)) = Len(s) + 1
         /\ Append(s, x)[Len(s) + 1] = x
         /\ \A k \in 1 .. Len(s) : Append(s, x)[k] = s[k]
<1> DEFINE t == Append(s, x)
           S == Range(s) \cup {x}
<1>1. s \in Seq(S) /\ x \in S /\ Len(s) \in Nat
  BY DEF IsSeq
<1>2. t \in Seq(S) /\ Len(t) = Len(s) + 1 /\ t[Len(s) + 1] = x /\ \A k \in 1 .. Len(s) : t[k] = s[k]
  BY <1>1
<1>3. \A k \in DOMAIN t : t[k] \in Range(t)
  BY DEF Range
<1> HIDE DEF t, S
<1>4. t = [k \in 1 .. Len(t) |-> t[k]] /\ DOMAIN t = 1 .. Len(t) /\ Len(t) \in Nat
  BY <1>1, <1>2
<1>5. t \in Seq(Range(t))
  BY <1>3, <1>4
<1> QED
  BY <1>1, <1>2, <1>5 DEF IsSeq, t

\* A step that fails leaves everything else as it is.
LEMMA FailureKeeps ==
  ASSUME TransInv, Fail
  PROVE  TransInv'
  BY DEF TransInv, StandsRight, Translating, Translated, Fail, translation

\* Operations are translated one after the other.
LEMMA OperationKeeps ==
  ASSUME TransInv, Operation, stage' # "failed"
  PROVE  TransInv'
<1> PICK b, i : b = pos[1] /\ i = pos[2]
  OBVIOUS
<1> DEFINE op == main[b].ops[i]
<1>0. StandsRight /\ stage # "failed"
  BY DEF TransInv, Operation, Constant, RemoteIDRef, CmpI, ExtUI, AddSub, MulI, Communicate, Call, At
<1>1. MappedWhenDone /\ OwnRegisters /\ OpsRight /\ CodeRight /\ CmpsRight
  BY <1>0 DEF TransInv
<1>2. /\ stage = "emit" /\ stage' = "emit" /\ b \in Blocks(main) /\ i \in DOMAIN main[b].ops
      /\ main' = main /\ removed' = removed /\ meta' = meta
      /\ pos' = <<b, i + 1>>
      /\ Mapped(op.args)
  BY <1>0, <1>1, OperationEffect
<1>3. /\ i \in Emits(main, b) => /\ Allocates(op.res)
                                 /\ code' = [code EXCEPT ![b] = Append(@, InstrFor(main, regOf', b, i))]
      /\ Compares(b, i) => UNCHANGED <<regOf, nregs, code>>
      /\ Renames(b, i) => /\ regOf' = [regOf EXCEPT ![op.res[1]] = regOf[op.args[1]]]
                          /\ UNCHANGED <<nregs, code>>
      /\ cmps' = IF op.k \in {"cmp", "flag"} THEN cmps \cup Range(op.res) ELSE cmps
  BY <1>0, <1>1, OperationEffect
<1>4. /\ i \in Nat \ {0} /\ i \in Places(main, b) /\ IsOperation(op) /\ Made(main, b, i) = op.res
      /\ i <= OpsOfBlock(b) /\ OpsOfBlock(b) \in Nat
      /\ \A m \in DOMAIN op.args : op.args[m] \in Before(main, b, i)
  BY <1>0, <1>2, OperandsBefore
<1>5. i \in Emits(main, b) \/ Compares(b, i) \/ Renames(b, i)
  BY <1>2, <1>4 DEF Emits, Compares, Renames
<1>6. IsMain(main) /\ b \in Nat /\ regOf \in [Values(main) -> 0 .. HostRegisters] /\ DOMAIN code = Blocks(main)
  BY <1>0, <1>2, MainShape DEF StandsRight
<1>30. /\ IsMain(main) /\ b \in Blocks(main) /\ i \in Places(main, b) /\ i \in Nat /\ Made(main, b, i) = op.res
      /\ \A m \in DOMAIN op.args : op.args[m] \in Before(main, b, i)
  BY <1>2, <1>4, <1>6
\* The new values are the results, and they get registers like this.
<1>7. /\ regOf' \in [Values(main) -> 0 .. HostRegisters] /\ nregs' \in 0 .. HostRegisters
      /\ \A v \in Values(main) : v \notin Range(op.res) => regOf'[v] = regOf[v]
      /\ NewOnes(b, i) \/ SharedOne(b, i) \/ NoneAtAll(b, i)
  <2>1. CASE i \in Emits(main, b)
    <3>1. regOf' = NewRegisters(op.res) /\ nregs' = nregs + Len(op.res) /\ nregs + Len(op.res) <= HostRegisters
      BY <1>3, <2>1 DEF Allocates
    <3>2. /\ regOf' \in [Values(main) -> 0 .. HostRegisters] /\ nregs' \in 0 .. HostRegisters
          /\ \A v \in Values(main) : v \notin Range(op.res) => regOf'[v] = regOf[v]
          /\ \A m \in DOMAIN op.res : regOf'[op.res[m]] = nregs + m - 1
      <4>1. regOf' \in [Values(main) -> 0 .. HostRegisters]
        BY <1>0, <1>30, <3>1, NewRegistersFor
      <4>2. nregs' \in 0 .. HostRegisters
        BY <1>0, <1>30, <3>1, NewRegistersFor
      <4>3. \A v \in Values(main) : v \notin Range(op.res) => regOf'[v] = regOf[v]
        BY <1>0, <1>30, <3>1, NewRegistersFor
      <4>4. \A m \in DOMAIN op.res : regOf'[op.res[m]] = nregs + m - 1
        BY <1>0, <1>30, <3>1, NewRegistersFor
      <4> QED
        BY <4>1, <4>2, <4>3, <4>4
    <3>3. ~Compares(b, i) /\ ~Renames(b, i)
      BY <2>1 DEF Emits, Compares, Renames
    <3> QED
      BY <1>4, <3>1, <3>2, <3>3 DEF NewOnes
  <2>2. CASE Compares(b, i)
    BY <1>0, <1>3, <2>2 DEF NoneAtAll, StandsRight
  <2>3. CASE Renames(b, i)
    <3>1. IsSeq(op.res) /\ Len(op.res) = 1 /\ IsSeq(op.args) /\ Len(op.args) = 1
      BY <1>4, <2>3 DEF IsOperation, Renames
    <3>2. DOMAIN op.res = {1} /\ DOMAIN op.args = {1}
      BY <3>1 DEF IsSeq
    <3>3. Range(op.res) = {op.res[1]} /\ op.args[1] \in Before(main, b, i) /\ regOf[op.args[1]] # Unmapped
      BY <1>2, <1>4, <3>2 DEF Range, Mapped
    <3>4. op.res[1] \in Values(main) /\ op.args[1] \in Values(main)
      <4>1. op.res[1] \in Range(Made(main, b, i))
        BY <1>30, <3>3
      <4>2. op.res[1] \in Values(main)
        BY <1>30, <4>1, MadeIsValue
      <4> QED
        BY <3>3, <4>2 DEF Before
    <3>5. regOf' = [regOf EXCEPT ![op.res[1]] = regOf[op.args[1]]] /\ nregs' = nregs
      BY <1>3, <2>3
    <3>6. regOf'[op.res[1]] = regOf[op.args[1]]
      BY <1>6, <3>4, <3>5
    <3>7. SharedOne(b, i)
      <4>1. \A v \in Range(Made(main, b, i)) : regOf'[v] = regOf[op.args[1]]
        BY <1>30, <3>3, <3>6
      <4>2. op.args[1] \in Before(main, b, i) /\ regOf[op.args[1]] # Unmapped
        BY <3>3
      <4>3. \E a \in Before(main, b, i) : regOf[a] # Unmapped /\ \A v \in Range(Made(main, b, i)) : regOf'[v] = regOf[a]
        BY <4>1, <4>2
      <4> QED
        BY <2>3, <3>5, <4>3 DEF SharedOne
    <3>8. regOf' \in [Values(main) -> 0 .. HostRegisters] /\ nregs' \in 0 .. HostRegisters
      BY <1>0, <1>6, <3>4, <3>5 DEF StandsRight
    <3>9. \A v \in Values(main) : v \notin Range(op.res) => regOf'[v] = regOf[v]
      BY <1>6, <3>3, <3>5
    <3> QED
      BY <3>7, <3>8, <3>9
  <2> QED
    BY <1>5, <2>1, <2>2, <2>3
<1>8. DOMAIN code' = Blocks(main)
  BY <1>3, <1>5, <1>6
<1>9. StandsRight'
  <2>1. i + 1 \in Nat /\ i + 1 <= Len(main[b].ops) + 1
    BY <1>4 DEF OpsOfBlock
  <2> QED
    BY <1>0, <1>2, <1>7, <1>8, <2>1 DEF StandsRight, Translating
<1>10. \A c \in Blocks(main) : \A j \in Nat : Earlier(c, j, b, i + 1) <=> Earlier(c, j, b, i) \/ (c = b /\ j = i)
  <2> TAKE c \in Blocks(main), j \in Nat
  <2>1. c \in Nat
    BY <1>6, MainShape
  <2> QED
    BY <1>4, <1>6, <2>1 DEF Earlier
<1>11. \A c \in Blocks(main) : \A j \in Places(main, c) : DoneAt(c, j)' <=> DoneAt(c, j) \/ (c = b /\ j = i)
  <2> TAKE c \in Blocks(main)
  <2> TAKE j \in Places(main, c)
  <2>1. j \in Nat
    BY <1>6, MainShape
  <2>2. DoneAt(c, j) <=> j = 0 \/ Earlier(c, j, b, i)
    BY <1>2 DEF DoneAt
  <2>3. DoneAt(c, j)' <=> j = 0 \/ Earlier(c, j, b, i + 1)
    BY <1>2 DEF DoneAt
  <2> QED
    BY <1>10, <2>1, <2>2, <2>3
<1>12. ~DoneAt(b, i)
  BY <1>2, <1>4, <1>6 DEF DoneAt, Earlier
<1>13. MappedWhenDone' /\ OwnRegisters'
  BY <1>0, <1>1, <1>2, <1>4, <1>7, <1>9, <1>11, <1>12, RegistersKept
\* What was made before keeps its registers, and so do the arguments of all blocks.
<1>14. \A v \in Before(main, b, i) : regOf'[v] = regOf[v]
  <2> TAKE v \in Before(main, b, i)
  <2>1. v \in Values(main) /\ v \notin Range(op.res)
    BY <1>2, <1>4, <1>6, NotMadeBefore DEF Before
  <2> QED
    BY <1>7, <2>1
<1>15. ASSUME NEW d \in Blocks(main), NEW m \in DOMAIN main[d].args
       PROVE  regOf'[main[d].args[m]] = regOf[main[d].args[m]]
  <2> DEFINE v == main[d].args[m]
  <2>1. 0 \in Places(main, d) /\ v \in Range(Made(main, d, 0))
    BY <1>6, MainShape DEF Places, Made, Range
  <2> HIDE DEF v
  <2>2. v \in Values(main)
    BY <1>6, <2>1, MadeIsValue
  <2>3. ~(d = b /\ 0 = i)
    BY <1>4
  <2>4. v \notin Range(Made(main, b, i))
    BY <1>30, <2>1, <2>3, MadeOnce
  <2> QED
    BY <1>30, <1>7, <2>2, <2>4 DEF v
\* Code grows at the end.
<1>16. \A c \in Blocks(main) : IsSeq(code[c]) /\ Len(code[c]) \in Nat
  BY <1>1 DEF CodeRight, IsSeq
<1>17. ~TermDone(b) /\ OpsDone(b) = i - 1 /\ OpsDone(b)' = i /\ TermDone(b)' = FALSE
  BY <1>2, <1>4, <1>6 DEF TermDone, OpsDone, Translated
<1>18. Len(code[b]) = Place(main, b, i - 1)
  BY <1>1, <1>2, <1>17 DEF CodeRight
<1>19. Place(main, b, i) = Place(main, b, i - 1) + (IF i \in Emits(main, b) THEN 1 ELSE 0)
  BY <1>0, <1>2, PlaceStep
<1>20. /\ IsSeq(code'[b]) /\ Len(code'[b]) = Place(main, b, i)
       /\ \A k \in 1 .. Len(code[b]) : code'[b][k] = code[b][k]
       /\ i \in Emits(main, b) => code'[b][Place(main, b, i)] = InstrFor(main, regOf', b, i)
  <2>1. CASE i \in Emits(main, b)
    <3>1. code'[b] = Append(code[b], InstrFor(main, regOf', b, i))
      BY <1>2, <1>3, <1>6, <2>1
    <3> QED
      BY <1>2, <1>16, <1>18, <1>19, <2>1, <3>1, AppendSeq
  <2>2. CASE i \notin Emits(main, b)
    <3>1. code' = code
      BY <1>3, <1>5, <2>2
    <3> QED
      BY <1>2, <1>16, <1>18, <1>19, <2>2, <3>1
  <2> QED
    BY <2>1, <2>2
<1>21. \A c \in Blocks(main) : c # b => code'[c] = code[c]
  BY <1>3, <1>5, <1>6
<1>22. OpsRight'
  <2> SUFFICES ASSUME NEW c \in Blocks(main), NEW j \in DOMAIN main[c].ops, DoneAt(c, j)'
               PROVE  /\ Mapped(main[c].ops[j].args)'
                      /\ Renames(c, j) => regOf'[main[c].ops[j].res[1]] = regOf'[main[c].ops[j].args[1]]
                      /\ j \in Emits(main, c) =>
                           Place(main, c, j) \in 1 .. Len(code'[c]) /\ code'[c][Place(main, c, j)] = InstrFor(main, regOf', c, j)
    BY <1>2 DEF OpsRight, Renames, Mapped
  <2> DEFINE o == main[c].ops[j]
  <2>1. /\ j \in Places(main, c) /\ j \in Nat \ {0} /\ Made(main, c, j) = o.res /\ IsOperation(o)
        /\ \A m \in DOMAIN o.args : o.args[m] \in Before(main, c, j)
    BY <1>0, OperandsBefore
  <2>2. CASE c = b /\ j = i
    <3>1. Mapped(o.args)'
      BY <1>2, <1>4, <1>14, <2>2 DEF Mapped, Unmapped
    <3>2. Renames(c, j) => regOf'[o.res[1]] = regOf'[o.args[1]]
      <4> SUFFICES ASSUME Renames(c, j) PROVE regOf'[o.res[1]] = regOf'[o.args[1]]
        OBVIOUS
      <4>1. IsSeq(o.res) /\ Len(o.res) = 1 /\ IsSeq(o.args) /\ Len(o.args) = 1
        BY <2>1 DEF IsOperation, Renames
      <4>2. 1 \in DOMAIN o.res /\ 1 \in DOMAIN o.args
        BY <4>1 DEF IsSeq
      <4>3. regOf'[o.args[1]] = regOf[o.args[1]]
        BY <1>14, <2>1, <2>2, <4>2
      <4>4. o.res[1] \in Values(main)
        BY <1>6, <2>1, <4>2, MadeIsValue DEF Range
      <4>5. regOf' = [regOf EXCEPT ![o.res[1]] = regOf[o.args[1]]]
        BY <1>3, <2>2
      <4> QED
        BY <1>6, <4>3, <4>4, <4>5
    <3>3. j \in Emits(main, c) => Place(main, c, j) \in 1 .. Len(code'[c])
      <4>1. Place(main, b, i - 1) \in Nat
        BY <1>0, <1>2, <1>4, PlaceStep
      <4> QED
        BY <1>19, <1>20, <2>2, <4>1
    <3> QED
      BY <1>20, <2>2, <3>1, <3>2, <3>3
  <2>3. CASE ~(c = b /\ j = i)
    <3>1. DoneAt(c, j) /\ Earlier(c, j, b, i)
      BY <1>2, <1>11, <2>1, <2>3 DEF DoneAt
    <3>2. Before(main, c, j) \subseteq Before(main, b, i) /\ Range(o.res) \subseteq Before(main, b, i)
      BY <1>30, <2>1, <3>1, BeforeGrows
    <3>3. \A m \in DOMAIN o.args : regOf'[o.args[m]] = regOf[o.args[m]]
      BY <1>14, <2>1, <3>2
    <3>4. \A m \in DOMAIN o.res : regOf'[o.res[m]] = regOf[o.res[m]]
      BY <1>14, <3>2 DEF Range
    <3>5. /\ Mapped(o.args)
          /\ Renames(c, j) => regOf[o.res[1]] = regOf[o.args[1]]
          /\ j \in Emits(main, c) => Place(main, c, j) \in 1 .. Len(code[c]) /\ code[c][Place(main, c, j)] = InstrFor(main, regOf, c, j)
      BY <1>1, <3>1 DEF OpsRight
    <3>6. Mapped(o.args)'
      BY <1>2, <3>3, <3>5 DEF Mapped, Unmapped
    <3>7. Renames(c, j) => regOf'[o.res[1]] = regOf'[o.args[1]]
      <4> SUFFICES ASSUME Renames(c, j) PROVE regOf'[o.res[1]] = regOf'[o.args[1]]
        OBVIOUS
      <4>1. IsSeq(o.res) /\ Len(o.res) = 1 /\ IsSeq(o.args) /\ Len(o.args) = 1
        BY <2>1 DEF IsOperation, Renames
      <4>2. 1 \in DOMAIN o.res /\ 1 \in DOMAIN o.args
        BY <4>1 DEF IsSeq
      <4> QED
        BY <3>3, <3>4, <3>5, <4>2
    <3>8. InstrFor(main, regOf', c, j) = InstrFor(main, regOf, c, j)
      <4>1. RegsIn(regOf', o.res) = RegsIn(regOf, o.res) /\ RegsIn(regOf', o.args) = RegsIn(regOf, o.args)
        BY <3>3, <3>4 DEF RegsIn
      <4>2. o.k = "mul" => DOMAIN o.args = {1, 2}
        BY <2>1 DEF IsOperation, IsSeq
      <4>3. o.k = "mul" => regOf'[o.args[1]] = regOf[o.args[1]] /\ regOf'[o.args[2]] = regOf[o.args[2]]
        BY <3>3, <4>2
      <4>4. o.k = "mul" => /\ RegsIn(regOf', <<o.args[1]>>) = RegsIn(regOf, <<o.args[1]>>)
                           /\ RegsIn(regOf', <<o.args[2]>>) = RegsIn(regOf, <<o.args[2]>>)
        BY <4>3, OneRegister
      <4> QED
        BY <4>1, <4>4 DEF InstrFor
    <3>9. /\ Len(code'[c]) >= Len(code[c]) /\ Len(code'[c]) \in Nat
          /\ \A k \in 1 .. Len(code[c]) : code'[c][k] = code[c][k]
      <4>1. CASE c = b
        <5>1. Place(main, b, i) >= Place(main, b, i - 1) /\ Place(main, b, i) \in Nat
          BY <1>0, <1>2, <1>4, <1>19, PlaceStep
        <5> QED
          BY <1>18, <1>20, <4>1, <5>1
      <4>2. CASE c # b
        BY <1>16, <1>21, <4>2
      <4> QED
        BY <4>1, <4>2
    <3> QED
      BY <1>16, <3>5, <3>6, <3>7, <3>8, <3>9
  <2> QED
    BY <2>2, <2>3
<1>23. CodeRight'
  <2> SUFFICES ASSUME NEW c \in Blocks(main)
               PROVE  /\ IsSeq(code'[c])
                      /\ ~TermDone(c)' => Len(code'[c]) = Place(main, c, OpsDone(c)')
                      /\ TermDone(c)' =>
                           /\ TermRight(main, regOf', c)
                           /\ Len(code'[c]) = Place(main, c, OpsOfBlock(c)) + Len(LastInstrs(main, regOf', c))
                           /\ \A k \in 1 .. Len(LastInstrs(main, regOf', c)) :
                                code'[c][Place(main, c, OpsOfBlock(c)) + k] = LastInstrs(main, regOf', c)[k]
    BY <1>2 DEF CodeRight, OpsOfBlock
  <2>1. CASE c = b
    BY <1>17, <1>20, <2>1
  <2>2. CASE c # b
    <3>1. (TermDone(c)' <=> TermDone(c)) /\ OpsDone(c) = 0 /\ OpsDone(c)' = 0 /\ (TermDone(c) => c < b)
      BY <1>2, <2>2 DEF TermDone, OpsDone, Translated
    <3>2. code'[c] = code[c]
      BY <1>21, <2>2
    <3>3. CASE ~TermDone(c)
      BY <1>1, <3>1, <3>2, <3>3 DEF CodeRight
    <3>4. CASE TermDone(c)
      <4>1. TermRight(main, regOf, c)
        BY <1>1, <3>4 DEF CodeRight
      <4>2. Len(main[c].ops) + 1 \in Nat /\ Earlier(c, Len(main[c].ops) + 1, b, i)
        BY <1>6, <3>1, <3>4, MainShape DEF Earlier
      <4>3. Before(main, c, Len(main[c].ops) + 1) \subseteq Before(main, b, i)
        BY <1>30, <4>2, BeforeGrows
      <4>4. TermRight(main, regOf', c) /\ LastInstrs(main, regOf', c) = LastInstrs(main, regOf, c)
        BY <1>6, <1>14, <1>15, <4>1, <4>3, LastKept
      <4> QED
        BY <1>1, <3>1, <3>2, <3>4, <4>4 DEF CodeRight
    <3> QED
      BY <3>3, <3>4
  <2> QED
    BY <2>1, <2>2
<1>24. CmpsRight'
  <2>1. ASSUME op.k \in {"cmp", "flag"}, NEW v \in Range(op.res)
        PROVE  ~IsArgument(main, v) /\ DefiningOp(main, v).k \in {"cmp", "flag"}
    BY <1>2, <1>6, <2>1, DefinesIt
  <2> QED
    BY <1>1, <1>2, <1>3, <2>1 DEF CmpsRight
<1> QED
  BY <1>9, <1>13, <1>22, <1>23, <1>24 DEF TransInv

\* Steps that leave the registers alone and at most lengthen the code.
LEMMA RegistersStay ==
  ASSUME TransInv, stage # "failed", UNCHANGED <<main, regOf, nregs>>,
         \A c \in Blocks(main) : \A j \in Places(main, c) : DoneAt(c, j)' <=> DoneAt(c, j),
         \A c \in Blocks(main) : /\ Len(code'[c]) \in Nat /\ Len(code'[c]) >= Len(code[c])
                                 /\ \A k \in 1 .. Len(code[c]) : code'[c][k] = code[c][k]
  PROVE  MappedWhenDone' /\ OwnRegisters' /\ OpsRight'
<1>1. StandsRight /\ MappedWhenDone /\ OwnRegisters /\ OpsRight /\ CodeRight /\ IsMain(main)
  BY DEF TransInv, StandsRight
<1>2. MappedWhenDone'
  <2> SUFFICES ASSUME NEW c \in Blocks(main), NEW j \in Places(main, c), NEW v \in Range(Made(main, c, j))
               PROVE  IF DoneAt(c, j)' /\ ~Compares(c, j) THEN regOf[v] < nregs ELSE regOf[v] = Unmapped
    BY DEF MappedWhenDone, Compares, Unmapped
  <2> QED
    BY <1>1 DEF MappedWhenDone
<1>3. OwnRegisters'
  <2> SUFFICES ASSUME NEW c \in Blocks(main), NEW j \in Places(main, c),
                      DoneAt(c, j)', ~Compares(c, j), ~Renames(c, j)
               PROVE  /\ \A v \in Range(Made(main, c, j)), w \in Before(main, c, j) : regOf[w] # regOf[v]
                      /\ \A m, n \in DOMAIN Made(main, c, j) :
                           regOf[Made(main, c, j)[m]] = regOf[Made(main, c, j)[n]] => m = n
    BY DEF OwnRegisters, Compares, Renames
  <2> QED
    BY <1>1 DEF OwnRegisters
<1>4. OpsRight'
  <2> SUFFICES ASSUME NEW c \in Blocks(main), NEW j \in DOMAIN main[c].ops, DoneAt(c, j)'
               PROVE  /\ Mapped(main[c].ops[j].args)
                      /\ Renames(c, j) => regOf[main[c].ops[j].res[1]] = regOf[main[c].ops[j].args[1]]
                      /\ j \in Emits(main, c) =>
                           Place(main, c, j) \in 1 .. Len(code'[c]) /\ code'[c][Place(main, c, j)] = InstrFor(main, regOf, c, j)
    BY DEF OpsRight, Renames, Mapped, Unmapped
  <2>1. j \in Places(main, c)
    BY <1>1, OperandsBefore
  <2>2. DoneAt(c, j)
    BY <2>1
  <2>3. /\ Mapped(main[c].ops[j].args)
        /\ Renames(c, j) => regOf[main[c].ops[j].res[1]] = regOf[main[c].ops[j].args[1]]
        /\ j \in Emits(main, c) =>
             Place(main, c, j) \in 1 .. Len(code[c]) /\ code[c][Place(main, c, j)] = InstrFor(main, regOf, c, j)
    BY <1>1, <2>2 DEF OpsRight
  <2>4. Len(code[c]) \in Nat
    BY <1>1 DEF CodeRight, IsSeq
  <2> QED
    BY <2>3, <2>4
<1> QED
  BY <1>2, <1>3, <1>4

\* Afterwards the translation of operations and terminators does not change any more.
LEMMA TranslatedStays ==
  ASSUME TransInv, UNCHANGED <<main, regOf, nregs, cmps, code>>, StandsRight',
         stage = "delete" \/ Translated, stage' = "delete" \/ Translated'
  PROVE  TransInv'
<1>1. StandsRight /\ MappedWhenDone /\ OwnRegisters /\ OpsRight /\ CodeRight /\ CmpsRight
  BY DEF TransInv, Translated
<1>2. \A c, j : DoneAt(c, j) /\ DoneAt(c, j)'
  BY DEF DoneAt, Translated
<1>3. \A c : TermDone(c) /\ TermDone(c)'
  BY DEF TermDone
<1>4. \A c \in Blocks(main) : IsSeq(code[c]) /\ Len(code[c]) \in Nat
  BY <1>1 DEF CodeRight, IsSeq
<1>5. MappedWhenDone' /\ OwnRegisters' /\ OpsRight'
  <2>1. stage # "failed"
    BY DEF Translated
  <2> QED
    BY <1>2, <1>4, <2>1, RegistersStay
<1>6. CodeRight'
  <2> SUFFICES ASSUME NEW c \in Blocks(main)
               PROVE  /\ IsSeq(code[c])
                      /\ TermRight(main, regOf, c)
                      /\ Len(code[c]) = Place(main, c, OpsOfBlock(c)) + Len(LastInstrs(main, regOf, c))
                      /\ \A k \in 1 .. Len(LastInstrs(main, regOf, c)) :
                           code[c][Place(main, c, OpsOfBlock(c)) + k] = LastInstrs(main, regOf, c)[k]
    BY <1>3 DEF CodeRight, OpsOfBlock
  <2> QED
    BY <1>1, <1>3 DEF CodeRight
<1>7. CmpsRight'
  BY <1>1 DEF CmpsRight
<1> QED
  BY <1>1, <1>5, <1>6, <1>7 DEF TransInv

LEMMA LaterKeeps ==
  ASSUME TransInv, stage' # "failed", DeleteEmptyBlock \/ RemoveReferences \/ SetBlockTypes \/ Run
  PROVE  TransInv'
<1>1. CASE DeleteEmptyBlock
  <2>1. UNCHANGED <<main, regOf, nregs, cmps, code, meta>> /\ stage = "delete" /\ stage' \in {"delete", "clean"}
    BY <1>1 DEF DeleteEmptyBlock
  <2>2. StandsRight /\ pos[1] \in Blocks(main)
    BY <2>1 DEF TransInv, StandsRight, Translating
  <2>3. removed' \subseteq Blocks(main)
    BY <1>1, <2>2 DEF DeleteEmptyBlock, StandsRight
  <2>4. pos' \in Blocks(main) \X Nat
    <3>1. Len(main) \in Nat /\ pos[1] \in 1 .. Len(main) /\ 1 \in Blocks(main)
      BY <2>2, MainShape DEF Blocks, StandsRight
    <3>2. pos' = <<1, 0>> \/ (pos[1] # Len(main) /\ pos' = <<pos[1] + 1, 0>>)
      BY <1>1 DEF DeleteEmptyBlock
    <3> QED
      BY <3>1, <3>2 DEF Blocks
  <2>5. StandsRight'
    BY <2>1, <2>2, <2>3, <2>4 DEF StandsRight, Translating, Translated
  <2> QED
    BY <2>1, <2>5, TranslatedStays DEF Translated
<1>2. CASE RemoveReferences
  <2>1. UNCHANGED <<main, regOf, nregs, cmps, code, removed>> /\ stage = "clean" /\ stage' = "type" /\ DOMAIN meta' = DOMAIN meta
    BY <1>2 DEF RemoveReferences
  <2>2. StandsRight'
    BY <2>1 DEF TransInv, StandsRight, Translating, Translated
  <2> QED
    BY <2>1, <2>2, TranslatedStays DEF Translated
<1>3. CASE SetBlockTypes
  <2>1. UNCHANGED <<main, regOf, nregs, cmps, code, removed, meta>> /\ stage = "type" /\ stage' = "run"
    BY <1>3 DEF SetBlockTypes, Fail
  <2>2. StandsRight'
    BY <2>1 DEF TransInv, StandsRight, Translating, Translated
  <2> QED
    BY <2>1, <2>2, TranslatedStays DEF Translated
<1>4. CASE Run
  <2>1. UNCHANGED <<main, regOf, nregs, cmps, code, removed, meta>> /\ stage = "run" /\ stage' \in {"run", "returned"}
    BY <1>4 DEF Run, Execute, JumpTo, BranchTo, FallThrough, Leave, Running, translation
  <2>2. StandsRight'
    BY <2>1 DEF TransInv, StandsRight, Translating, Translated
  <2> QED
    BY <2>1, <2>2, TranslatedStays DEF Translated
<1> QED
  BY <1>1, <1>2, <1>3, <1>4

LEMMA BlkMetaKeeps ==
  ASSUME TransInv, BlkMeta, stage' # "failed"
  PROVE  TransInv'
<1> PICK b : b = pos[1]
  OBVIOUS
<1>1. /\ UNCHANGED <<main, stage, regOf, nregs, cmps, code, removed>> /\ stage = "emit" /\ pos[2] = 0 /\ pos' = <<b, 1>>
      /\ DOMAIN meta' = DOMAIN meta
  BY DEF BlkMeta, Fail, Advance
<1>2. StandsRight /\ IsMain(main) /\ b \in Blocks(main) /\ b \in Nat
  <2>1. StandsRight /\ IsMain(main) /\ b \in Blocks(main)
    BY <1>1 DEF TransInv, StandsRight, Translating
  <2> QED
    BY <2>1, MainShape
<1>3. StandsRight'
  <2>1. 1 <= Len(main[b].ops) + 1
    BY <1>2, MainShape
  <2> QED
    BY <1>1, <1>2, <2>1 DEF StandsRight, Translating, Translated
<1>4. ASSUME NEW c \in Blocks(main), NEW j \in Places(main, c) PROVE DoneAt(c, j)' <=> DoneAt(c, j)
  <2>1. c \in Nat /\ j \in Nat
    BY <1>2, MainShape
  <2>2. DoneAt(c, j) <=> j = 0 \/ c < b \/ (c = b /\ j < 0)
    BY <1>1 DEF DoneAt, Earlier
  <2>3. DoneAt(c, j)' <=> j = 0 \/ c < b \/ (c = b /\ j < 1)
    BY <1>1 DEF DoneAt, Earlier
  <2> QED
    BY <2>1, <2>2, <2>3
<1>5. \A c \in Blocks(main) : IsSeq(code[c]) /\ Len(code[c]) \in Nat
  BY <1>1 DEF TransInv, CodeRight, IsSeq
<1>6. MappedWhenDone' /\ OwnRegisters' /\ OpsRight'
  BY <1>1, <1>4, <1>5, RegistersStay
<1>7. \A c : (TermDone(c)' <=> TermDone(c)) /\ OpsDone(c) = 0 /\ OpsDone(c)' = 0
  BY <1>1 DEF TermDone, OpsDone, Translated
<1>8. CodeRight'
  <2> SUFFICES ASSUME NEW c \in Blocks(main)
               PROVE  /\ IsSeq(code[c])
                      /\ ~TermDone(c) => Len(code[c]) = Place(main, c, 0)
                      /\ TermDone(c) =>
                           /\ TermRight(main, regOf, c)
                           /\ Len(code[c]) = Place(main, c, OpsOfBlock(c)) + Len(LastInstrs(main, regOf, c))
                           /\ \A k \in 1 .. Len(LastInstrs(main, regOf, c)) :
                                code[c][Place(main, c, OpsOfBlock(c)) + k] = LastInstrs(main, regOf, c)[k]
    BY <1>1, <1>7 DEF CodeRight, OpsOfBlock
  <2> QED
    BY <1>1, <1>7 DEF TransInv, CodeRight
<1>9. CmpsRight'
  BY <1>1 DEF TransInv, CmpsRight
<1> QED
  BY <1>3, <1>6, <1>8, <1>9 DEF TransInv

LEMMA EmplaceKeeps ==
  ASSUME TransInv, EmplaceBlock
  PROVE  TransInv'
<1> PICK b : b = pos[1]
  OBVIOUS
<1>1. /\ UNCHANGED <<main, cmps, code, meta, removed>> /\ stage = "place" /\ Allocates(main[b].args)
      /\ IF b = Len(main) THEN stage' = "emit" /\ pos' = <<1, 0>> ELSE stage' = "place" /\ pos' = <<b + 1, 0>>
  BY DEF EmplaceBlock
<1>2. StandsRight /\ MappedWhenDone /\ OwnRegisters /\ CodeRight /\ CmpsRight
  BY <1>1 DEF TransInv
<1>3. /\ IsMain(main) /\ b \in Blocks(main) /\ b \in Nat /\ Len(main) \in Nat /\ b <= Len(main) /\ 1 \in Blocks(main)
      /\ 0 \in Places(main, b) /\ Made(main, b, 0) = main[b].args /\ DOMAIN regOf = Values(main)
  <2>1. IsMain(main) /\ b \in Blocks(main) /\ DOMAIN regOf = Values(main)
    BY <1>1, <1>2 DEF StandsRight, Translating
  <2> QED
    BY <2>1, MainShape DEF Places, Made, Blocks
<1>4. regOf' \in [Values(main) -> 0 .. HostRegisters]
  BY <1>1, <1>2, <1>3, NewRegistersFor DEF Allocates
<1>5. nregs' \in 0 .. HostRegisters
  BY <1>1, <1>2, <1>3, NewRegistersFor DEF Allocates
<1>6. \A v \in Values(main) : v \notin Range(main[b].args) => regOf'[v] = regOf[v]
  BY <1>1, <1>2, <1>3, NewRegistersFor DEF Allocates
<1>7. \A m \in DOMAIN main[b].args : regOf'[main[b].args[m]] = nregs + m - 1
  BY <1>1, <1>2, <1>3, NewRegistersFor DEF Allocates
<1>8. StandsRight'
  <2>1. pos' \in Blocks(main) \X Nat /\ pos'[2] = 0 /\ stage' \in {"place", "emit"}
    BY <1>1, <1>3 DEF Blocks
  <2>2. 0 <= Len(main[pos'[1]].ops) + 1
    <3>1. pos'[1] \in Blocks(main)
      BY <2>1
    <3> QED
      BY <1>3, <3>1, MainShape
  <2> QED
    BY <1>1, <1>2, <1>4, <1>5, <2>1, <2>2 DEF StandsRight, Translating, Translated
<1>9. ASSUME NEW c \in Blocks(main), NEW j \in Places(main, c)
      PROVE  /\ DoneAt(c, j) <=> j = 0 /\ c < b
             /\ DoneAt(c, j)' <=> j = 0 /\ c <= b
  <2>1. c \in Nat /\ j \in Nat /\ c \in 1 .. Len(main)
    BY <1>3, MainShape DEF Blocks
  <2>2. DoneAt(c, j) <=> j = 0 /\ c < b
    BY <1>1 DEF DoneAt
  <2>3. CASE b = Len(main)
    <3>1. DoneAt(c, j)' <=> j = 0 \/ c < 1 \/ (c = 1 /\ j < 0)
      BY <1>1, <2>3 DEF DoneAt, Earlier
    <3> QED
      BY <2>1, <2>2, <2>3, <3>1
  <2>4. CASE b # Len(main)
    <3>1. DoneAt(c, j)' <=> j = 0 /\ c < b + 1
      BY <1>1, <2>4 DEF DoneAt
    <3> QED
      BY <1>3, <2>1, <2>2, <3>1
  <2> QED
    BY <2>3, <2>4
<1>10. MappedWhenDone' /\ OwnRegisters'
  <2>1. NewOnes(b, 0)
    <3>1. ~Compares(b, 0) /\ ~Renames(b, 0)
      BY DEF Compares, Renames
    <3> QED
      BY <1>1, <1>3, <1>7, <3>1 DEF NewOnes, Allocates
  <2>2. ~DoneAt(b, 0)
    BY <1>3, <1>9
  <2>3. \A c \in Blocks(main) : \A j \in Places(main, c) : DoneAt(c, j)' <=> DoneAt(c, j) \/ (c = b /\ j = 0)
    <3> TAKE c \in Blocks(main)
    <3> TAKE j \in Places(main, c)
    <3>1. c \in Nat
      BY <1>3, MainShape
    <3> QED
      BY <1>3, <1>9, <3>1
  <2>4. \A v \in Values(main) : v \notin Range(Made(main, b, 0)) => regOf'[v] = regOf[v]
    BY <1>3, <1>6
  <2>5. main' = main
    BY <1>1
  <2> QED
    BY <1>2, <1>3, <1>8, <2>1, <2>2, <2>3, <2>4, <2>5, RegistersKept
<1>11. OpsRight'
  <2> SUFFICES ASSUME NEW c \in Blocks(main), NEW j \in DOMAIN main[c].ops, DoneAt(c, j)' PROVE FALSE
    BY <1>1 DEF OpsRight
  <2>1. j \in Places(main, c) /\ j # 0
    BY <1>2, OperandsBefore
  <2> QED
    BY <1>9, <2>1
<1>12. CodeRight'
  <2>1. \A c \in Blocks(main) : ~TermDone(c) /\ OpsDone(c) = 0
    BY <1>1 DEF TermDone, OpsDone, Translated
  <2>2. \A c \in Blocks(main) : ~TermDone(c)' /\ OpsDone(c)' = 0
    BY <1>1, <1>3 DEF TermDone, OpsDone, Translated, Blocks
  <2> SUFFICES ASSUME NEW c \in Blocks(main) PROVE IsSeq(code[c]) /\ Len(code[c]) = Place(main, c, 0)
    BY <1>1, <2>2 DEF CodeRight
  <2> QED
    BY <1>2, <2>1 DEF CodeRight
<1>13. CmpsRight'
  BY <1>1, <1>2 DEF CmpsRight
<1> QED
  BY <1>8, <1>10, <1>11, <1>12, <1>13 DEF TransInv

Joined(s, t) == s \o t

LEMMA JoinSeq ==
  ASSUME NEW s, IsSeq(s), NEW t, IsSeq(t)
  PROVE  /\ IsSeq(Joined(s, t)) /\ Len(s) \in Nat /\ Len(t) \in Nat /\ Len(Joined(s, t)) = Len(s) + Len(t)
         /\ \A k \in 1 .. Len(s) : Joined(s, t)[k] = s[k]
         /\ \A k \in 1 .. Len(t) : Joined(s, t)[Len(s) + k] = t[k]
<1> DEFINE u == s \o t
           S == Range(s) \cup Range(t)
<1>1. s \in Seq(S) /\ t \in Seq(S) /\ Len(s) \in Nat /\ Len(t) \in Nat
  BY DEF IsSeq
<1>2. /\ u \in Seq(S) /\ Len(u) = Len(s) + Len(t)
      /\ \A k \in 1 .. Len(s) : u[k] = s[k]
      /\ \A k \in 1 .. Len(t) : u[Len(s) + k] = t[k]
  BY <1>1
<1>3. \A k \in DOMAIN u : u[k] \in Range(u)
  BY DEF Range
<1> HIDE DEF u, S
<1>4. u = [k \in 1 .. Len(u) |-> u[k]] /\ DOMAIN u = 1 .. Len(u) /\ Len(u) \in Nat
  BY <1>1, <1>2
<1>5. u \in Seq(Range(u))
  BY <1>3, <1>4
<1>6. IsSeq(u)
  BY <1>5 DEF IsSeq
<1> QED
  BY <1>1, <1>2, <1>6 DEF Joined, u

IsJoin(u, s, t) ==
  /\ IsSeq(u) /\ Len(s) \in Nat /\ Len(t) \in Nat /\ Len(u) = Len(s) + Len(t)
  /\ \A k \in 1 .. Len(s) : u[k] = s[k]
  /\ \A k \in 1 .. Len(t) : u[Len(s) + k] = t[k]

LEMMA JoinIs == ASSUME NEW s, IsSeq(s), NEW t, IsSeq(t) PROVE IsJoin(Joined(s, t), s, t)
  BY JoinSeq DEF IsJoin

\* A function on the numbers up to n is a sequence.
LEMMA ListSeq ==
  ASSUME NEW n \in Nat, NEW u, u = [m \in 1 .. n |-> u[m]]
  PROVE  IsSeq(u) /\ Len(u) = n
<1>1. DOMAIN u = 1 .. n
  OBVIOUS
<1>2. \A m \in 1 .. n : u[m] \in Range(u)
  BY <1>1 DEF Range
<1>3. u \in Seq(Range(u)) /\ Len(u) = n
  BY <1>1, <1>2
<1> QED
  BY <1>3 DEF IsSeq

LEMMA JumpShape ==
  ASSUME NEW p, IsMain(p), NEW c \in Blocks(p), p[c].term.k \in {"br", "cond"}
  PROVE  LET term == p[c].term
         IN  /\ 1 \in DOMAIN term.to /\ term.k = "cond" => 2 \in DOMAIN term.to
             /\ DOMAIN term.to = IF term.k = "cond" THEN {1, 2} ELSE {1}
             /\ \A n \in DOMAIN term.to :
                  /\ term.to[n] \in Blocks(p) /\ c < term.to[n]
                  /\ IsSeq(term.with[n]) /\ Len(term.with[n]) = Len(p[term.to[n]].args)
                  /\ DOMAIN term.with[n] = DOMAIN p[term.to[n]].args
                  /\ Range(term.with[n]) \subseteq InSight(p, c, Len(p[c].ops) + 1)
<1> DEFINE term == p[c].term
<1>1. IsJump(p, c, term.to, term.with) /\ Len(term.to) = IF term.k = "cond" THEN 2 ELSE 1
  BY DEF IsMain, IsTerminator
<1>2. DOMAIN term.to = IF term.k = "cond" THEN {1, 2} ELSE {1}
  <2>1. DOMAIN term.to = 1 .. (IF term.k = "cond" THEN 2 ELSE 1)
    BY <1>1 DEF IsJump, IsSeq
  <2>2. 1 .. 2 = {1, 2} /\ 1 .. 1 = {1}
    OBVIOUS
  <2> QED
    BY <2>1, <2>2
<1>3. ASSUME NEW n \in DOMAIN term.to
      PROVE  /\ term.to[n] \in Blocks(p) /\ c < term.to[n]
             /\ IsSeq(term.with[n]) /\ Len(term.with[n]) = Len(p[term.to[n]].args)
             /\ DOMAIN term.with[n] = DOMAIN p[term.to[n]].args
             /\ Range(term.with[n]) \subseteq InSight(p, c, Len(p[c].ops) + 1)
  <2>1. \A x : x \in c + 1 .. Len(p) => x \in Blocks(p) /\ c < x
    BY MainShape DEF Blocks
  <2>2. /\ term.to[n] \in Blocks(p) /\ c < term.to[n]
        /\ IsSeq(term.with[n]) /\ Len(term.with[n]) = Len(p[term.to[n]].args)
        /\ Range(term.with[n]) \subseteq InSight(p, c, Len(p[c].ops) + 1)
    BY <1>1, <1>3, <2>1 DEF IsJump
  <2>3. IsSeq(p[term.to[n]].args)
    BY <2>2 DEF IsMain
  <2>4. DOMAIN term.with[n] = DOMAIN p[term.to[n]].args
    BY <2>2, <2>3 DEF IsSeq
  <2> QED
    BY <2>2, <2>4
<1> QED
  BY <1>2, <1>3

LEMMA CopiesShape ==
  ASSUME NEW p, NEW r, NEW d, NEW vs, IsSeq(vs)
  PROVE  /\ IsSeq(Copies(p, r, d, vs)) /\ Len(Copies(p, r, d, vs)) = Len(vs) /\ Len(vs) \in Nat
         /\ \A m \in 1 .. Len(vs) : Copies(p, r, d, vs)[m] = Instr("copy", <<r[p[d].args[m]]>>, <<r[vs[m]]>>, 0, 0)
<1> DEFINE u == Copies(p, r, d, vs)
<1>1. DOMAIN vs = 1 .. Len(vs) /\ Len(vs) \in Nat
  BY DEF IsSeq
<1>2. u = [m \in 1 .. Len(vs) |-> Instr("copy", <<r[p[d].args[m]]>>, <<r[vs[m]]>>, 0, 0)]
  BY <1>1 DEF Copies
<1>3. u = [m \in 1 .. Len(vs) |-> u[m]]
  BY <1>2
<1> HIDE DEF u
<1>4. IsSeq(u) /\ Len(u) = Len(vs)
  BY <1>1, <1>3, ListSeq
<1> QED
  BY <1>1, <1>2, <1>4 DEF u

LEMMA OneSeq == ASSUME NEW x PROVE IsSeq(<<x>>) /\ Len(<<x>>) = 1 /\ <<x>>[1] = x
<1>1. <<x>> \in Seq({x}) /\ Len(<<x>>) = 1 /\ <<x>>[1] = x /\ DOMAIN <<x>> = {1}
  OBVIOUS
<1>2. Range(<<x>>) = {x}
  BY <1>1 DEF Range
<1> QED
  BY <1>1, <1>2 DEF IsSeq

IsJumpCode(all, cs, x, ds, y) ==
  /\ IsSeq(all) /\ Len(cs) \in Nat /\ Len(ds) \in Nat /\ Len(all) = Len(cs) + Len(ds) + 2
  /\ \A m \in 1 .. Len(cs) : all[m] = cs[m]
  /\ all[Len(cs) + 1] = x
  /\ \A m \in 1 .. Len(ds) : all[Len(cs) + 1 + m] = ds[m]
  /\ all[Len(cs) + Len(ds) + 2] = y

LEMMA JoinFour ==
  ASSUME NEW cs, IsSeq(cs), NEW ds, IsSeq(ds), NEW x, NEW y
  PROVE  IsJumpCode(Joined(Joined(Joined(cs, <<x>>), ds), <<y>>), cs, x, ds, y)
<1> DEFINE xs == <<x>>
           ys == <<y>>
           cx == Joined(cs, xs)
           cxd == Joined(cx, ds)
           all == Joined(cxd, ys)
<1>1. IsSeq(xs) /\ Len(xs) = 1 /\ xs[1] = x /\ IsSeq(ys) /\ Len(ys) = 1 /\ ys[1] = y
  BY OneSeq
<1> HIDE DEF xs, ys
<1>2. IsJoin(cx, cs, xs)
  BY <1>1, JoinIs
<1>3. IsSeq(cx)
  BY <1>2 DEF IsJoin
<1>4. IsJoin(cxd, cx, ds)
  BY <1>3, JoinIs
<1>5. IsSeq(cxd)
  BY <1>4 DEF IsJoin
<1>6. IsJoin(all, cxd, ys)
  BY <1>1, <1>5, JoinIs
<1> HIDE DEF cx, cxd, all
<1>7. /\ Len(cs) \in Nat /\ Len(cx) = Len(cs) + 1 /\ cx[Len(cs) + 1] = x
      /\ \A k \in 1 .. Len(cs) : cx[k] = cs[k]
  BY <1>1, <1>2 DEF IsJoin
<1>8. /\ Len(ds) \in Nat /\ Len(cxd) = Len(cx) + Len(ds)
      /\ \A k \in 1 .. Len(cx) : cxd[k] = cx[k]
      /\ \A k \in 1 .. Len(ds) : cxd[Len(cx) + k] = ds[k]
  BY <1>4 DEF IsJoin
<1>9. /\ IsSeq(all) /\ Len(all) = Len(cxd) + 1 /\ all[Len(cxd) + 1] = y
      /\ \A k \in 1 .. Len(cxd) : all[k] = cxd[k]
  BY <1>1, <1>6 DEF IsJoin
<1>10. IsJumpCode(all, cs, x, ds, y)
  BY <1>7, <1>8, <1>9 DEF IsJumpCode
<1> QED
  BY <1>10 DEF all, cxd, cx, xs, ys

CopyOf(p, r, d, vs, m) == Instr("copy", <<r[p[d].args[m]]>>, <<r[vs[m]]>>, 0, 0)

\* The instructions of a terminator, one by one.
LEMMA LastShape ==
  ASSUME NEW p, IsMain(p), NEW c \in Blocks(p), NEW r
  PROVE  LET term == p[c].term
             last == LastInstrs(p, r, c)
             test == Test(p, c)
             way == IF term.k = "cond" THEN Way(p, c) ELSE 1
             first == Len(term.with[1])
             second == Len(term.with[2])
             straight == term.k = "br" \/ (term.k = "cond" /\ test.k # "cmp")
         IN  /\ IsSeq(last) /\ Len(last) \in Nat
             /\ term.k = "next" => last = <<>>
             /\ straight => /\ way \in DOMAIN term.to /\ Len(term.with[way]) \in Nat
                            /\ Len(last) = Len(term.with[way]) + 1
                            /\ \A m \in 1 .. Len(term.with[way]) : last[m] = CopyOf(p, r, term.to[way], term.with[way], m)
                            /\ last[Len(term.with[way]) + 1] = Jump(term.to[way])
             /\ term.k = "cond" /\ test.k = "cmp" =>
                  /\ first \in Nat /\ second \in Nat /\ Len(last) = first + second + 2
                  /\ \A m \in 1 .. first : last[m] = CopyOf(p, r, term.to[1], term.with[1], m)
                  /\ last[first + 1] = Instr(test.pred, <<>>, RegsIn(r, test.args), 0, term.to[1])
                  /\ \A m \in 1 .. second : last[first + 1 + m] = CopyOf(p, r, term.to[2], term.with[2], m)
                  /\ last[first + second + 2] = Jump(term.to[2])
             /\ term.k = "return" =>
                  /\ Len(last) = Len(term.args)
                  /\ \A m \in 1 .. Len(term.args) : last[m] = Instr("return", <<>>, <<r[term.args[m]]>>, 0, 0)
             /\ term.k \in {"next", "br", "cond", "return"}
<1> DEFINE term == p[c].term
           last == LastInstrs(p, r, c)
           test == Test(p, c)
           way == IF term.k = "cond" THEN Way(p, c) ELSE 1
<1>1. term.k \in {"next", "br", "cond", "return"}
  BY DEF IsMain, IsTerminator
<1>2. CASE term.k = "next"
  <2>1. last = <<>>
    BY <1>2 DEF LastInstrs
  <2>2. IsSeq(<<>>) /\ Len(<<>>) = 0
    BY DEF IsSeq
  <2> QED
    BY <1>2, <2>1, <2>2
<1>3. CASE term.k = "br" \/ (term.k = "cond" /\ test.k # "cmp")
  <2>1. way \in DOMAIN term.to /\ IsSeq(term.with[way])
    <3>1. DOMAIN term.to = IF term.k = "cond" THEN {1, 2} ELSE {1}
      BY <1>3, JumpShape
    <3>2. way \in DOMAIN term.to
      BY <3>1 DEF Way
    <3> QED
      BY <1>3, <3>2, JumpShape
  <2> DEFINE cs == Copies(p, r, term.to[way], term.with[way])
             x == Jump(term.to[way])
  <2>2. last = Append(cs, x)
    BY <1>3 DEF LastInstrs
  <2>3. /\ IsSeq(cs) /\ Len(cs) = Len(term.with[way]) /\ Len(term.with[way]) \in Nat
        /\ \A m \in 1 .. Len(term.with[way]) : cs[m] = CopyOf(p, r, term.to[way], term.with[way], m)
    <3> HIDE DEF way
    <3> QED
      BY <2>1, CopiesShape DEF CopyOf
  <2> HIDE DEF cs, last, x
  <2>4. /\ IsSeq(last) /\ Len(last) \in Nat /\ Len(last) = Len(cs) + 1 /\ last[Len(cs) + 1] = x
        /\ \A m \in 1 .. Len(cs) : last[m] = cs[m]
    BY <2>2, <2>3, AppendSeq
  <2>5. /\ Len(last) = Len(term.with[way]) + 1 /\ last[Len(term.with[way]) + 1] = x
        /\ \A m \in 1 .. Len(term.with[way]) : last[m] = CopyOf(p, r, term.to[way], term.with[way], m)
    BY <2>3, <2>4
  <2> QED
    BY <1>1, <1>3, <2>1, <2>3, <2>4, <2>5 DEF last, x
<1>4. CASE term.k = "cond" /\ test.k = "cmp"
  <2> DEFINE x == Instr(test.pred, <<>>, RegsIn(r, test.args), 0, term.to[1])
             y == Jump(term.to[2])
             cs == Copies(p, r, term.to[1], term.with[1])
             ds == Copies(p, r, term.to[2], term.with[2])
             first == Len(term.with[1])
             second == Len(term.with[2])
  <2>1. IsSeq(term.with[1]) /\ IsSeq(term.with[2])
    BY <1>4, JumpShape
  <2>2. last = Joined(Joined(Joined(cs, <<x>>), ds), <<y>>)
    BY <1>4 DEF LastInstrs, Joined
  <2>3. /\ IsSeq(cs) /\ Len(cs) = first /\ first \in Nat
        /\ \A m \in 1 .. first : cs[m] = CopyOf(p, r, term.to[1], term.with[1], m)
    BY <2>1, CopiesShape DEF CopyOf
  <2>4. /\ IsSeq(ds) /\ Len(ds) = second /\ second \in Nat
        /\ \A m \in 1 .. second : ds[m] = CopyOf(p, r, term.to[2], term.with[2], m)
    BY <2>1, CopiesShape DEF CopyOf
  <2> HIDE DEF cs, ds, x, y, last, first, second
  <2>5. IsJumpCode(last, cs, x, ds, y)
    BY <2>2, <2>3, <2>4, JoinFour
  <2>6. /\ IsSeq(last) /\ Len(last) = first + second + 2 /\ Len(last) \in Nat
        /\ last[first + 1] = x /\ last[first + second + 2] = y
        /\ \A m \in 1 .. first : last[m] = CopyOf(p, r, term.to[1], term.with[1], m)
        /\ \A m \in 1 .. second : last[first + 1 + m] = CopyOf(p, r, term.to[2], term.with[2], m)
    BY <2>3, <2>4, <2>5 DEF IsJumpCode
  <2> QED
    BY <1>1, <1>4, <2>3, <2>4, <2>6 DEF last, x, y, first, second
<1>5. CASE term.k = "return"
  <2> DEFINE n == Len(term.args)
  <2>1. n \in Nat /\ DOMAIN term.args = 1 .. n
    BY <1>5 DEF IsMain, IsTerminator, IsSeq
  <2>2. last = [m \in 1 .. n |-> Instr("return", <<>>, <<r[term.args[m]]>>, 0, 0)]
    BY <1>5, <2>1 DEF LastInstrs
  <2>3. last = [m \in 1 .. n |-> last[m]]
    BY <2>2
  <2> HIDE DEF last, n
  <2>4. IsSeq(last) /\ Len(last) = n
    BY <2>1, <2>3, ListSeq
  <2> QED
    BY <1>5, <2>1, <2>2, <2>4 DEF last, n
<1> QED
  BY <1>1, <1>2, <1>3, <1>4, <1>5

Terminator == NopTerm \/ Branch \/ CondBranch \/ Return

LEMMA TerminatorEffect ==
  ASSUME TransInv, Terminator, stage' # "failed", NEW b, b = pos[1]
  PROVE  /\ stage = "emit" /\ b \in Blocks(main) /\ pos[2] = Len(main[b].ops) + 1
         /\ UNCHANGED <<main, regOf, nregs, cmps, ids, meta, removed, type, execution>>
         /\ IF b = Len(main) THEN stage' = "delete" /\ pos' = <<1, 0>> ELSE stage' = "emit" /\ pos' = <<b + 1, 0>>
         /\ TermRight(main, regOf, b)
         /\ code'[b] = code[b] \o LastInstrs(main, regOf, b)
         /\ \A c \in Blocks(main) : c # b => code'[c] = code[c]
         /\ DOMAIN code' = Blocks(main)
<1> DEFINE term == main[b].term
           last == LastInstrs(main, regOf, b)
<1>1. stage = "emit" /\ pos[2] = Len(main[b].ops) + 1
  BY DEF Terminator, NopTerm, Branch, CondBranch, Return, AtTerminator
<1>2. b \in Blocks(main) /\ IsMain(main) /\ DOMAIN code = Blocks(main) /\ IsSeq(code[b])
  BY <1>1 DEF TransInv, StandsRight, Translating, CodeRight
<1>3. /\ UNCHANGED <<main, regOf, nregs, cmps, ids, meta, removed, type, execution>>
      /\ IF b = Len(main) THEN stage' = "delete" /\ pos' = <<1, 0>> ELSE stage' = "emit" /\ pos' = <<b + 1, 0>>
  BY <1>1 DEF Terminator, NopTerm, Branch, CondBranch, Return, NextBlock, Fail, translation
<1> SUFFICES TermRight(main, regOf, b) /\ ((code' = code /\ last = <<>>) \/ code' = [code EXCEPT ![b] = @ \o last])
  <2>1. code[b] \o <<>> = code[b]
    BY <1>2 DEF IsSeq
  <2> QED
    BY <1>1, <1>2, <1>3, <2>1
<1>4. \A n : \A vs : Aliases(n, vs) = Copies(main, regOf, n, vs)
  BY DEF Aliases, Copies
<1>5. CASE NopTerm
  <2>1. term.k = "next" /\ code' = code
    BY <1>5 DEF NopTerm, AtTerminator, Term, translation
  <2> QED
    BY <2>1 DEF TermRight, LastInstrs
<1>6. CASE Branch
  <2>1. /\ term.k = "br" /\ Mapped(term.with[1])
        /\ code' = [code EXCEPT ![b] = @ \o Append(Aliases(term.to[1], term.with[1]), Jump(term.to[1]))]
    BY <1>6 DEF Branch, AtTerminator, Term, Emit
  <2>2. last = Append(Aliases(term.to[1], term.with[1]), Jump(term.to[1]))
    BY <1>4, <2>1 DEF LastInstrs
  <2>3. TermRight(main, regOf, b)
    BY <2>1 DEF TermRight, Mapped
  <2> QED
    BY <2>1, <2>2, <2>3
<1>7. CASE CondBranch
  <2> DEFINE test == Test(main, b)
             way == Way(main, b)
  <2>1. /\ term.k = "cond" /\ term.cond \in cmps /\ (test.k = "cmp" => test.pred \in Supported /\ Mapped(test.args))
        /\ Mapped(term.with[1] \o term.with[2])
        /\ Emit(IF test.k = "cmp" THEN Compare(test, term.to[1], term.to[2])
                ELSE Append(Aliases(term.to[way], term.with[way]), Jump(term.to[way])))
    BY <1>7 DEF CondBranch, AtTerminator, Term, Test, Way, Fail
  <2>2. last = IF test.k = "cmp" THEN Compare(test, term.to[1], term.to[2])
               ELSE Append(Aliases(term.to[way], term.with[way]), Jump(term.to[way]))
    BY <1>4, <2>1 DEF LastInstrs, Compare, Term, RegsOf, RegsIn
  <2>3. code' = [code EXCEPT ![b] = @ \o last]
    BY <2>1, <2>2 DEF Emit
  <2>4. ~IsArgument(main, term.cond) /\ test.k \in {"cmp", "flag"}
    BY <1>1, <2>1 DEF TransInv, CmpsRight, Test
  <2>5. /\ \A m \in DOMAIN term.with[1] : regOf[term.with[1][m]] # Unmapped
        /\ \A m \in DOMAIN term.with[2] : regOf[term.with[2][m]] # Unmapped
    <3> DEFINE s == term.with[1]
               t == term.with[2]
    <3>1. IsSeq(s) /\ IsSeq(t)
      BY <1>2, <2>1, JumpShape
    <3>2. Mapped(Joined(s, t))
      BY <2>1 DEF Joined
    <3> HIDE DEF s, t
    <3>3. /\ IsSeq(Joined(s, t)) /\ Len(s) \in Nat /\ Len(t) \in Nat /\ Len(Joined(s, t)) = Len(s) + Len(t)
          /\ \A k \in 1 .. Len(s) : Joined(s, t)[k] = s[k]
          /\ \A k \in 1 .. Len(t) : Joined(s, t)[Len(s) + k] = t[k]
      BY <3>1, JoinSeq
    <3>4. DOMAIN s = 1 .. Len(s) /\ DOMAIN t = 1 .. Len(t) /\ DOMAIN Joined(s, t) = 1 .. Len(Joined(s, t))
      BY <3>1, <3>3 DEF IsSeq
    <3>5. ASSUME NEW m \in DOMAIN s PROVE regOf[s[m]] # Unmapped
      <4>1. m \in DOMAIN Joined(s, t) /\ Joined(s, t)[m] = s[m]
        BY <3>3, <3>4
      <4> QED
        BY <3>2, <4>1 DEF Mapped
    <3>6. ASSUME NEW m \in DOMAIN t PROVE regOf[t[m]] # Unmapped
      <4>1. Len(s) + m \in DOMAIN Joined(s, t) /\ Joined(s, t)[Len(s) + m] = t[m]
        BY <3>3, <3>4
      <4> QED
        BY <3>2, <4>1 DEF Mapped
    <3> QED
      BY <3>5, <3>6 DEF s, t
  <2>6. TermRight(main, regOf, b)
    BY <2>1, <2>4, <2>5 DEF TermRight, Mapped
  <2> QED
    BY <2>3, <2>6
<1>8. CASE Return
  <2>1. /\ term.k = "return" /\ Mapped(term.args)
        /\ code' = [code EXCEPT ![b] = @ \o [i \in DOMAIN term.args |-> Instr("return", <<>>, <<regOf[term.args[i]]>>, 0, 0)]]
    BY <1>8 DEF Return, AtTerminator, Term, Emit
  <2>2. last = [i \in DOMAIN term.args |-> Instr("return", <<>>, <<regOf[term.args[i]]>>, 0, 0)]
    BY <2>1 DEF LastInstrs
  <2>3. TermRight(main, regOf, b)
    BY <2>1 DEF TermRight, Mapped
  <2> QED
    BY <2>1, <2>2, <2>3
<1> QED
  BY <1>5, <1>6, <1>7, <1>8 DEF Terminator

LEMMA TerminatorKeeps ==
  ASSUME TransInv, Terminator, stage' # "failed"
  PROVE  TransInv'
<1> PICK b : b = pos[1]
  OBVIOUS
<1> DEFINE last == LastInstrs(main, regOf, b)
<1>1. /\ stage = "emit" /\ b \in Blocks(main) /\ pos[2] = Len(main[b].ops) + 1
      /\ UNCHANGED <<main, regOf, nregs, cmps, ids, meta, removed>>
      /\ IF b = Len(main) THEN stage' = "delete" /\ pos' = <<1, 0>> ELSE stage' = "emit" /\ pos' = <<b + 1, 0>>
      /\ TermRight(main, regOf, b)
      /\ code'[b] = code[b] \o last
      /\ \A c \in Blocks(main) : c # b => code'[c] = code[c]
      /\ DOMAIN code' = Blocks(main)
  BY TerminatorEffect
<1>2. StandsRight /\ CodeRight /\ CmpsRight /\ IsMain(main) /\ b \in Nat /\ Len(main) \in Nat /\ b <= Len(main) /\ 1 \in Blocks(main)
  <2>1. StandsRight /\ CodeRight /\ CmpsRight /\ IsMain(main)
    BY <1>1 DEF TransInv, StandsRight
  <2> QED
    BY <1>1, <2>1, MainShape DEF Blocks
<1>3. pos' \in Blocks(main) \X Nat /\ (stage' = "emit" => pos'[2] = 0 /\ pos'[1] \in Blocks(main))
  BY <1>1, <1>2 DEF Blocks
<1>4. StandsRight'
  <2>1. stage' = "emit" => pos'[2] <= Len(main[pos'[1]].ops) + 1
    BY <1>2, <1>3, MainShape
  <2> QED
    BY <1>1, <1>2, <1>3, <2>1 DEF StandsRight, Translating, Translated
<1>5. ASSUME NEW c \in Blocks(main), NEW j \in Places(main, c) PROVE DoneAt(c, j)' <=> DoneAt(c, j)
  <2>1. c \in Nat /\ j \in Nat /\ c <= Len(main) /\ j <= Len(main[c].ops) /\ Len(main[c].ops) \in Nat
    BY <1>2, MainShape DEF Blocks, Places
  <2>2. DoneAt(c, j) <=> j = 0 \/ c < b \/ (c = b /\ j < Len(main[b].ops) + 1)
    BY <1>1 DEF DoneAt, Earlier
  <2>3. CASE b = Len(main)
    <3>1. DoneAt(c, j)'
      BY <1>1, <2>3 DEF DoneAt
    <3> QED
      BY <1>2, <2>1, <2>2, <2>3, <3>1
  <2>4. CASE b # Len(main)
    <3>1. DoneAt(c, j)' <=> j = 0 \/ c < b + 1 \/ (c = b + 1 /\ j < 0)
      BY <1>1, <2>4 DEF DoneAt, Earlier
    <3> QED
      BY <1>2, <2>1, <2>2, <3>1
  <2> QED
    BY <2>3, <2>4
<1>6. IsSeq(last)
  BY <1>1, <1>2, LastShape
<1>7. IsSeq(code[b]) /\ ~TermDone(b) /\ Len(code[b]) = Place(main, b, OpsOfBlock(b))
  <2>1. ~TermDone(b) /\ OpsDone(b) = OpsOfBlock(b)
    <3>1. OpsOfBlock(b) \in Nat /\ Len(main[b].ops) = OpsOfBlock(b)
      BY <1>1, <1>2, MainShape DEF OpsOfBlock
    <3> QED
      BY <1>1, <1>2, <3>1 DEF TermDone, OpsDone, Translated
  <2> QED
    BY <1>1, <1>2, <2>1 DEF CodeRight
<1>8. /\ IsSeq(code'[b]) /\ Len(code[b]) \in Nat /\ Len(last) \in Nat /\ Len(code'[b]) = Len(code[b]) + Len(last)
      /\ \A k \in 1 .. Len(code[b]) : code'[b][k] = code[b][k]
      /\ \A k \in 1 .. Len(last) : code'[b][Len(code[b]) + k] = last[k]
  <2>1. code'[b] = Joined(code[b], last)
    BY <1>1 DEF Joined
  <2> HIDE DEF last
  <2>2. IsJoin(code'[b], code[b], last)
    BY <1>6, <1>7, <2>1, JoinIs
  <2> QED
    BY <2>2 DEF IsJoin
<1> HIDE DEF last
<1>9. MappedWhenDone' /\ OwnRegisters' /\ OpsRight'
  <2>1. ASSUME NEW c \in Blocks(main)
        PROVE  /\ Len(code'[c]) \in Nat /\ Len(code'[c]) >= Len(code[c])
               /\ \A k \in 1 .. Len(code[c]) : code'[c][k] = code[c][k]
    <3>1. CASE c = b
      BY <1>8, <3>1
    <3>2. CASE c # b
      <4>1. Len(code[c]) \in Nat
        BY <1>2 DEF CodeRight, IsSeq
      <4> QED
        BY <1>1, <3>2, <4>1
    <3> QED
      BY <3>1, <3>2
  <2> QED
    BY <1>1, <1>5, <2>1, RegistersStay
<1>10. CodeRight'
  <2> SUFFICES ASSUME NEW c \in Blocks(main)
               PROVE  /\ IsSeq(code'[c])
                      /\ ~TermDone(c)' => Len(code'[c]) = Place(main, c, OpsDone(c)')
                      /\ TermDone(c)' =>
                           /\ TermRight(main, regOf, c)
                           /\ Len(code'[c]) = Place(main, c, OpsOfBlock(c)) + Len(LastInstrs(main, regOf, c))
                           /\ \A k \in 1 .. Len(LastInstrs(main, regOf, c)) :
                                code'[c][Place(main, c, OpsOfBlock(c)) + k] = LastInstrs(main, regOf, c)[k]
    BY <1>1 DEF CodeRight, OpsOfBlock
  <2>0. c \in Nat /\ c <= Len(main)
    BY <1>2, MainShape DEF Blocks
  <2>1. CASE c = b
    <3>1. TermDone(c)'
      BY <1>1, <1>2, <2>1 DEF TermDone
    <3> QED
      BY <1>1, <1>7, <1>8, <2>1, <3>1 DEF last
  <2>2. CASE c # b
    <3>1. (TermDone(c)' <=> TermDone(c)) /\ (~TermDone(c)' => OpsDone(c) = 0 /\ OpsDone(c)' = 0)
      <4>1. TermDone(c) <=> c < b
        BY <1>1 DEF TermDone, Translated
      <4>2. TermDone(c)' <=> stage' = "delete" \/ c < b + 1
        BY <1>1 DEF TermDone, Translated
      <4>3. OpsDone(c) = 0 /\ (stage' = "emit" => OpsDone(c)' = 0)
        BY <1>1, <2>2 DEF OpsDone
      <4> QED
        BY <1>1, <1>2, <2>0, <2>2, <4>1, <4>2, <4>3
    <3>2. code'[c] = code[c]
      BY <1>1, <2>2
    <3> QED
      BY <1>2, <3>1, <3>2 DEF CodeRight
  <2> QED
    BY <2>1, <2>2
<1>11. CmpsRight'
  BY <1>1, <1>2 DEF CmpsRight
<1> QED
  BY <1>4, <1>9, <1>10, <1>11 DEF TransInv

LEMMA TransInvInit == Init => TransInv
<1> SUFFICES ASSUME Init PROVE TransInv
  OBVIOUS
<1>1. StandsRight /\ IsMain(main) /\ stage = "place" /\ pos = <<1, 0>>
  BY StandsRightInit DEF Init, StandsRight
<1>2. \A c \in Blocks(main) : \A j : ~DoneAt(c, j)
  <2>1. \A c \in Blocks(main) : ~(c < 1)
    BY <1>1, MainShape DEF Blocks
  <2> QED
    BY <1>1, <2>1 DEF DoneAt
<1>3. MappedWhenDone
  <2> SUFFICES ASSUME NEW c \in Blocks(main), NEW j \in Places(main, c), NEW v \in Range(Made(main, c, j))
               PROVE  regOf[v] = Unmapped
    BY <1>2 DEF MappedWhenDone
  <2>1. v \in Values(main)
    BY <1>1, MadeIsValue
  <2> QED
    BY <2>1 DEF Init
<1>4. OwnRegisters /\ OpsRight
  <2>1. \A c \in Blocks(main) : \A j \in DOMAIN main[c].ops : ~DoneAt(c, j)
    BY <1>2
  <2> QED
    BY <1>2, <2>1 DEF OwnRegisters, OpsRight
<1>5. CodeRight
  <2> SUFFICES ASSUME NEW c \in Blocks(main)
               PROVE  IsSeq(code[c]) /\ ~TermDone(c) /\ Len(code[c]) = Place(main, c, OpsDone(c))
    BY DEF CodeRight
  <2>1. ~TermDone(c) /\ OpsDone(c) = 0
    BY <1>1 DEF TermDone, OpsDone, Translated
  <2>2. code[c] = <<>> /\ Place(main, c, 0) = 0
    BY <1>1, PlaceStep DEF Init
  <2>3. IsSeq(<<>>) /\ Len(<<>>) = 0
    BY DEF IsSeq
  <2> QED
    BY <2>1, <2>2, <2>3
<1> QED
  BY <1>1, <1>3, <1>4, <1>5 DEF TransInv, CmpsRight, Init

LEMMA TransInvNext == TransInv /\ [Next]_vars => TransInv'
<1> SUFFICES ASSUME TransInv, [Next]_vars PROVE TransInv'
  OBVIOUS
<1>1. CASE UNCHANGED vars
  BY <1>1 DEF vars, translation, execution, TransInv, StandsRight, Translating, Translated, MappedWhenDone, OwnRegisters,
              DoneAt, Compares, Renames, OpsRight, CodeRight, CmpsRight, TermDone, OpsDone, OpsOfBlock, Mapped, Unmapped
<1>2. CASE Next /\ stage' = "failed"
  <2>1. CASE BlkMeta \/ MulI \/ CondBranch \/ SetBlockTypes
    <3>1. Fail
      <4>1. stage # "failed"
        BY <2>1 DEF BlkMeta, MulI, CondBranch, SetBlockTypes, At, AtTerminator
      <4> QED
        BY <1>2, <2>1, <4>1 DEF BlkMeta, MulI, CondBranch, SetBlockTypes, At, AtTerminator, NextBlock
    <3> QED
      BY <3>1, FailureKeeps
  <2>2. CASE Constant \/ RemoteIDRef \/ CmpI \/ ExtUI \/ AddSub \/ Communicate \/ Call
    BY <1>2, <2>2 DEF Constant, RemoteIDRef, CmpI, ExtUI, AddSub, Communicate, Call, At
  <2>3. CASE EmplaceBlock \/ NopTerm \/ Branch \/ Return \/ DeleteEmptyBlock \/ RemoveReferences
    BY <1>2, <2>3 DEF EmplaceBlock, NopTerm, Branch, Return, DeleteEmptyBlock, RemoveReferences, AtTerminator, NextBlock
  <2>4. CASE Run
    BY <1>2, <2>4 DEF Run, Execute, JumpTo, BranchTo, FallThrough, Leave, Running
  <2> QED
    BY <1>2, <2>1, <2>2, <2>3, <2>4 DEF Next, Translate
<1>3. CASE Next /\ stage' # "failed"
  <2>1. CASE EmplaceBlock
    BY <2>1, EmplaceKeeps
  <2>2. CASE BlkMeta
    BY <1>3, <2>2, BlkMetaKeeps
  <2>3. CASE Operation
    BY <1>3, <2>3, OperationKeeps
  <2>4. CASE Terminator
    BY <1>3, <2>4, TerminatorKeeps
  <2>5. CASE DeleteEmptyBlock \/ RemoveReferences \/ SetBlockTypes \/ Run
    BY <1>3, <2>5, LaterKeeps
  <2> QED
    BY <1>3, <2>1, <2>2, <2>3, <2>4, <2>5 DEF Next, Translate, Operation, Terminator
<1> QED
  BY <1>1, <1>2, <1>3

(***************************************************************************)
(* A value gets its register where it is made and keeps it; two values     *)
(* share one only if one extends the other; the instructions of a block    *)
(* are, one by one, those its operations and its terminator stand for      *)
(* (translateBlock, iQoalaContext::allocateRegister).                      *)
(***************************************************************************)
THEOREM TranslationRight == Spec => []TransInv
  BY TransInvInit, TransInvNext, PTL DEF Spec

-----------------------------------------------------------------------------
(***************************************************************************)
(* Headers.                                                                *)
(***************************************************************************)
\* A header is written by the blk_meta of its block; when empty blocks are gone, what refers to
\* them is removed from the headers of the others, once.
HeadersRight ==
  /\ stage = "emit" => \A c \in Blocks(main) : Earlier(c, 0, pos[1], pos[2]) => meta[c] = Header(main[c].meta)
  /\ stage \in {"delete", "clean"} => \A c \in Blocks(main) : meta[c] = Header(main[c].meta)
  /\ stage \in {"type", "run", "returned"} =>
       \A c \in Blocks(main) \ removed : meta[c] = WithoutReferences(Header(main[c].meta), removed)

LEMMA HeadersStep ==
  ASSUME TransInv, HeadersRight, [Next]_vars
  PROVE  HeadersRight'
<1>1. StandsRight /\ IsMain(main)
  BY DEF TransInv, StandsRight
<1>2. CASE UNCHANGED vars
  BY <1>2 DEF vars, translation, HeadersRight
<1>3. CASE Next /\ stage' = "failed"
  BY <1>3 DEF HeadersRight
<1>4. CASE EmplaceBlock
  <2>1. main' = main /\ (stage' = "place" \/ (stage' = "emit" /\ pos' = <<1, 0>>))
    BY <1>4 DEF EmplaceBlock
  <2>2. \A c \in Blocks(main) : ~Earlier(c, 0, 1, 0)
    BY <1>1, MainShape DEF Earlier, Blocks
  <2> QED
    BY <2>1, <2>2 DEF HeadersRight
<1>5. CASE BlkMeta /\ stage' # "failed"
  <2> PICK b : b = pos[1]
    OBVIOUS
  <2>1. main' = main /\ stage = "emit" /\ stage' = "emit" /\ pos[2] = 0 /\ pos' = <<b, 1>> /\ b \in Blocks(main)
    BY <1>1, <1>5 DEF BlkMeta, Fail, Advance, StandsRight, Translating
  <2>2. meta' = [meta EXCEPT ![b] = Header(main[b].meta)] /\ DOMAIN meta = Blocks(main)
    BY <1>1, <1>5 DEF BlkMeta, Fail, StandsRight
  <2>3. \A c \in Blocks(main) : Earlier(c, 0, b, 1) => c = b \/ Earlier(c, 0, b, 0)
    BY DEF Earlier
  <2>4. \A c \in Blocks(main) : Earlier(c, 0, b, 0) => meta[c] = Header(main[c].meta)
    BY <2>1 DEF HeadersRight
  <2>5. \A c \in Blocks(main) : Earlier(c, 0, b, 1) => meta'[c] = Header(main[c].meta)
    BY <2>1, <2>2, <2>3, <2>4
  <2> QED
    BY <2>1, <2>5 DEF HeadersRight
<1>6. CASE Operation /\ stage' # "failed"
  <2> PICK b, i : b = pos[1] /\ i = pos[2]
    OBVIOUS
  <2>1. /\ main' = main /\ meta' = meta /\ stage = "emit" /\ stage' = "emit" /\ pos' = <<b, i + 1>>
        /\ b \in Blocks(main) /\ i \in DOMAIN main[b].ops
    <3>1. MappedWhenDone
      BY <1>6 DEF TransInv, Operation, Constant, RemoteIDRef, CmpI, ExtUI, AddSub, MulI, Communicate, Call, At
    <3> QED
      BY <1>1, <1>6, <3>1, OperationEffect
  <2>2. i \in Nat /\ i # 0
    BY <1>1, <2>1, OperandsBefore
  <2>3. \A c \in Blocks(main) : Earlier(c, 0, b, i + 1) => Earlier(c, 0, b, i)
    BY <2>2 DEF Earlier
  <2> QED
    BY <2>1, <2>3 DEF HeadersRight
<1>7. CASE Terminator /\ stage' # "failed"
  <2> PICK b : b = pos[1]
    OBVIOUS
  <2>1. /\ main' = main /\ meta' = meta /\ stage = "emit" /\ b \in Blocks(main) /\ pos[2] = Len(main[b].ops) + 1
        /\ IF b = Len(main) THEN stage' = "delete" /\ pos' = <<1, 0>> ELSE stage' = "emit" /\ pos' = <<b + 1, 0>>
    BY <1>7, TerminatorEffect
  <2>2. \A c \in Blocks(main) : c <= b => Earlier(c, 0, b, pos[2])
    <3>1. pos[2] > 0
      BY <1>1, <2>1, MainShape
    <3> QED
      BY <1>1, <2>1, <3>1, MainShape DEF Earlier
  <2>3. \A c \in Blocks(main) : c <= b => meta[c] = Header(main[c].meta)
    BY <2>1, <2>2 DEF HeadersRight
  <2>4. CASE b = Len(main)
    <3>1. \A c \in Blocks(main) : c <= b
      BY <2>4 DEF Blocks
    <3> QED
      BY <2>1, <2>3, <2>4, <3>1 DEF HeadersRight
  <2>5. CASE b # Len(main)
    <3>1. \A c \in Blocks(main) : Earlier(c, 0, b + 1, 0) => c <= b
      BY <1>1, <2>1, MainShape DEF Earlier
    <3> QED
      BY <2>1, <2>3, <2>5, <3>1 DEF HeadersRight
  <2> QED
    BY <2>4, <2>5
<1>8. CASE DeleteEmptyBlock
  BY <1>8 DEF DeleteEmptyBlock, HeadersRight
<1>9. CASE RemoveReferences
  <2>1. UNCHANGED <<main, removed>> /\ stage = "clean" /\ stage' = "type"
    BY <1>9 DEF RemoveReferences
  <2>2. \A c \in Blocks(main) \ removed : meta'[c] = WithoutReferences(meta[c], removed)
    BY <1>1, <1>9 DEF RemoveReferences, StandsRight
  <2> QED
    BY <2>1, <2>2 DEF HeadersRight
<1>10. CASE (SetBlockTypes \/ Run) /\ stage' # "failed"
  <2>1. UNCHANGED <<main, meta, removed>> /\ stage \in {"type", "run"} /\ stage' \in {"run", "returned"}
    BY <1>10 DEF SetBlockTypes, Fail, Run, Execute, JumpTo, BranchTo, FallThrough, Leave, Running, translation
  <2> QED
    BY <2>1 DEF HeadersRight
<1> QED
  BY <1>2, <1>3, <1>4, <1>5, <1>6, <1>7, <1>8, <1>9, <1>10 DEF Next, Translate, Operation, Terminator

(***************************************************************************)
(* The header of a listed block refers to listed blocks only, and apart    *)
(* from removed blocks nothing of the order the passes worked out is lost: *)
(* predecessors, dependencies and the previous request are those of        *)
(* blk_meta.                                                               *)
(***************************************************************************)
THEOREM OrderOfHeaders == Spec => []HeaderOrderKept
<1>1. Init => TransInv /\ HeadersRight
  BY TransInvInit DEF Init, HeadersRight
<1>2. TransInv /\ HeadersRight /\ [Next]_vars => (TransInv /\ HeadersRight)'
  BY TransInvNext, HeadersStep
<1>3. TransInv /\ HeadersRight => HeaderOrderKept
  <2> SUFFICES ASSUME TransInv, HeadersRight, Finished, NEW b \in Blocks(main) \ removed
               PROVE  LET m == main[b].meta
                      IN  /\ Range(meta[b].preds) = Range(m.preds) \ removed
                          /\ Range(meta[b].deps) = Range(m.deps) \ removed
                          /\ meta[b].comm \notin removed
                          /\ meta[b].ent = (IF m.ent \in removed THEN 0 ELSE m.ent)
    BY DEF HeaderOrderKept
  <2> DEFINE m == main[b].meta
             h == Header(m)
  <2>1. meta[b] = WithoutReferences(h, removed)
    BY DEF HeadersRight, Finished
  <2>2. IsHeader(m) /\ 0 \notin removed
    BY DEF TransInv, StandsRight, IsMain, Blocks
  <2>3. h.preds = m.preds /\ h.deps = m.deps /\ h.ent = m.ent /\ DOMAIN h = {"preds", "deps", "comm", "ent", "deadlines"}
    BY <2>2 DEF Header, IsHeader
  <2> HIDE DEF h, m
  <2>4. /\ meta[b].preds = Without(m.preds, removed) /\ meta[b].deps = Without(m.deps, removed)
        /\ meta[b].comm = (IF h.comm \in removed THEN 0 ELSE h.comm)
        /\ meta[b].ent = (IF m.ent \in removed THEN 0 ELSE m.ent)
    BY <2>1, <2>3 DEF WithoutReferences
  <2>5. Range(Without(m.preds, removed)) = Range(m.preds) \ removed
    BY <2>2, WithoutRange DEF IsHeader
  <2>6. Range(Without(m.deps, removed)) = Range(m.deps) \ removed
    BY <2>2, WithoutRange DEF IsHeader
  <2> QED
    BY <2>2, <2>4, <2>5, <2>6 DEF m
<1> QED
  BY <1>1, <1>2, <1>3, PTL DEF Spec

-----------------------------------------------------------------------------
\* No block is deleted before all are translated.
NoneRemovedYet == stage \in {"place", "emit"} => removed = {}

\* Deleted blocks are empty, and no block, listed or not, jumps to them.
RemovedUnused ==
  \A d \in removed : code[d] = <<>> /\ \A b \in Blocks(main) : ~ContainsJumpTo(b, d)

IInv == NoneRemovedYet /\ RemovedUnused

\* The operations of main, while none is deleted.
Emitting ==
  \/ EmplaceBlock \/ BlkMeta
  \/ Constant \/ RemoteIDRef \/ CmpI \/ ExtUI \/ AddSub \/ MulI \/ Communicate \/ Call
  \/ NopTerm \/ Branch \/ CondBranch \/ Return

LEMMA EmittingRemovesNothing == Emitting => stage \in {"place", "emit"} /\ removed' = removed
<1> SUFFICES ASSUME Emitting PROVE stage \in {"place", "emit"} /\ removed' = removed
  OBVIOUS
<1>1. stage \in {"place", "emit"}
  BY DEF Emitting, EmplaceBlock, BlkMeta, Constant, RemoteIDRef, CmpI, ExtUI, AddSub, MulI, Communicate, Call,
         NopTerm, Branch, CondBranch, Return, At, AtTerminator
<1>2. CASE EmplaceBlock \/ BlkMeta
  BY <1>1, <1>2 DEF EmplaceBlock, BlkMeta, Fail, translation
<1>3. CASE Constant \/ RemoteIDRef \/ CmpI \/ ExtUI \/ AddSub \/ MulI \/ Communicate \/ Call
  BY <1>1, <1>3 DEF Constant, RemoteIDRef, CmpI, ExtUI, AddSub, MulI, Communicate, Call, Fail, translation
<1>4. CASE NopTerm \/ Branch \/ CondBranch \/ Return
  BY <1>1, <1>4 DEF NopTerm, Branch, CondBranch, Return, Fail, translation
<1> QED
  BY <1>1, <1>2, <1>3, <1>4 DEF Emitting

\* A block is deleted if it is empty and none of the listed ones, hence no block at all, jumps to it.
LEMMA DeletingKeeps ==
  ASSUME IInv, DeleteEmptyBlock
  PROVE  IInv'
<1>1. PICK used \in UsedAsJumpDestination(pos[1]) :
        removed' = IF used \/ code[pos[1]] # <<>> THEN removed ELSE removed \cup {pos[1]}
  BY DEF DeleteEmptyBlock
<1>2. UNCHANGED <<main, code>> /\ stage' \notin {"place", "emit"}
  BY DEF DeleteEmptyBlock
<1>3. ASSUME NEW d \in removed' PROVE code[d] = <<>> /\ \A b \in Blocks(main) : ~ContainsJumpTo(b, d)
  <2>1. CASE d \in removed
    BY <1>3, <2>1 DEF IInv, RemovedUnused
  <2>2. CASE d \notin removed
    <3>1. d = pos[1] /\ ~used /\ code[d] = <<>>
      BY <1>1, <1>3, <2>2
    <3>2. \A c \in Blocks(main) \ removed : ~ContainsJumpTo(c, d)
      BY <1>1, <3>1 DEF UsedAsJumpDestination
    <3>3. \A c \in removed : ~ContainsJumpTo(c, d)
      BY DEF IInv, RemovedUnused, ContainsJumpTo
    <3> QED
      BY <3>1, <3>2, <3>3
  <2> QED
    BY <2>1, <2>2
<1> QED
  BY <1>2, <1>3 DEF IInv, NoneRemovedYet, RemovedUnused, ContainsJumpTo, Blocks

LEMMA StepKeeps == IInv /\ [Next]_vars => IInv'
<1> SUFFICES ASSUME IInv, [Next]_vars PROVE IInv'
  OBVIOUS
<1>1. CASE Emitting
  BY <1>1, EmittingRemovesNothing DEF IInv, NoneRemovedYet, RemovedUnused
<1>2. CASE DeleteEmptyBlock
  BY <1>2, DeletingKeeps
<1>3. CASE RemoveReferences \/ SetBlockTypes \/ Run \/ UNCHANGED vars
  <2>1. UNCHANGED <<main, code, removed>>
    BY <1>3 DEF RemoveReferences, SetBlockTypes, Run, Execute, JumpTo, BranchTo, FallThrough, Leave, Fail,
                vars, translation
  <2>2. stage' \in {"place", "emit"} => stage \in {"place", "emit"}
    BY <1>3 DEF RemoveReferences, SetBlockTypes, Run, Execute, JumpTo, BranchTo, FallThrough, Leave, Fail, vars
  <2> QED
    BY <2>1, <2>2 DEF IInv, NoneRemovedYet, RemovedUnused, ContainsJumpTo, Blocks
<1> QED
  BY <1>1, <1>2, <1>3 DEF Next, Translate, Emitting

(***************************************************************************)
(* What a jump names is listed when the run begins, whichever blocks were  *)
(* deleted before it was looked at.                                        *)
(***************************************************************************)
THEOREM JumpsCorrect == Spec => []JumpsResolve
<1>1. Init => IInv
  BY DEF Init, IInv, NoneRemovedYet, RemovedUnused
<1>2. IInv => JumpsResolve
  BY DEF IInv, RemovedUnused, JumpsResolve
<1> QED
  BY <1>1, <1>2, StepKeeps, PTL DEF Spec
=============================================================================
