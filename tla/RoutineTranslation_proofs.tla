---------------------- MODULE RoutineTranslation_proofs ----------------------
(***************************************************************************)
(* Theorems about RoutineTranslation: whatever the program, and however    *)
(* many qubits it and the device have, the tables of physical qubits agree *)
(* and are used as QubitPool promises.                                     *)
(***************************************************************************)
EXTENDS RoutineTranslation, FiniteSetTheorems, WellFoundedInduction, TLAPS

-----------------------------------------------------------------------------
(***************************************************************************)
(* The inductive invariant.  An id may be in both tables while a routine   *)
(* is translated; FramesAgree says when.  The caller keeps the id of a     *)
(* consumed operand until the end of the call: it is then in consumed.     *)
(***************************************************************************)
NoRoutine == kind = "none" => \A q \in Qubits : ids[q] = None

PassedAgree ==
  kind # "none" =>
    \A q \in Passed : held[q] # None /\ (ids[q] = held[q] \/ held[q] \in consumed)

OthersApart ==
  kind # "none" => \A q \in Qubits \ Passed : ids[q] = None \/ held[q] = None

UnbornUnmapped == \A q \in Qubits : born[q] = {} => held[q] = None /\ ids[q] = None

FramesAgree == NoRoutine /\ PassedAgree /\ OthersApart /\ UnbornUnmapped

\* A qubit that was measured or freed leaves the table of the caller at the latest with the call.
DeadUnmapped ==
  \A q \in Qubits : dead[q] # {} => held[q] = None \/ (kind # "none" /\ held[q] \in consumed)

RequestPassesNothing == kind = "request" => Passed = {}

ReleaseKnown == DeadUnmapped /\ RequestPassesNothing /\ KeepsAreLive

IInv == RoutineTypeOK /\ IdsReserved /\ IdsDistinct /\ FramesAgree /\ ReleaseKnown

LEMMA IdsAreNoNone == None \notin Ids /\ Ids \subseteq Nat /\ None \in Nat
  BY PoolAssumption DEF Ids, None

LEMMA PassedQubits == Passed \subseteq Qubits
  BY DEF Passed

\* The id of a value, when it is looked up.
LEMMA GivenType ==
  ASSUME RoutineTypeOK
  PROVE  /\ Given \in [Qubits -> IdsOrNone]
         /\ \A q \in Qubits : Given[q] =
              IF ids[q] # None THEN ids[q]
              ELSE IF kind # "none" /\ q \in Passed THEN None ELSE held[q]
  BY DEF RoutineTypeOK, Given, IdsOrNone

-----------------------------------------------------------------------------
(***************************************************************************)
(* Listing: each member of a set of numbers has its rank, and stands there *)
(* when the set is listed in order.                                        *)
(***************************************************************************)
LEMMA LeastNatural ==
  ASSUME NEW S, S \subseteq Nat, S # {}
  PROVE  \E n \in S : \A m \in S : n <= m
<1> DEFINE R == {r \in Nat \X Nat : r[1] < r[2]}
<1>1. IsWellFoundedOn(R, Nat)
  BY NatLessThanWellFounded DEF OpToRel
<1> HIDE DEF R
<1>2. PICK n \in S : \A m \in S : ~ (<<m, n>> \in R)
  BY <1>1, WFMin
<1>3. ASSUME NEW m \in S PROVE n <= m
  <2>1. m \in Nat /\ n \in Nat
    OBVIOUS
  <2>2. ~ (m < n)
    BY <1>2, <2>1 DEF R
  <2> QED
    BY <2>1, <2>2
<1> QED
  BY <1>3

\* How many members of S there are up to i.
Rank(S, i) == Cardinality({j \in S : j <= i})

LEMMA RankStep ==
  ASSUME NEW n \in Nat, NEW S \in SUBSET (1 .. n)
  PROVE  /\ Rank(S, 0) = 0
         /\ Rank(S, n) = Cardinality(S)
         /\ \A i \in Nat : Rank(S, i) \in Nat
         /\ \A i \in Nat \ {0} : Rank(S, i) = Rank(S, i - 1) + (IF i \in S THEN 1 ELSE 0)
<1>1. IsFiniteSet(S)
  <2>1. IsFiniteSet(1 .. n)
    BY FS_Interval
  <2> QED
    BY <2>1, FS_Subset
<1>2. {j \in S : j <= 0} = {} /\ {j \in S : j <= n} = S
  <2>1. \A j \in S : j \in 1 .. n /\ ~(j <= 0) /\ j <= n
    OBVIOUS
  <2> QED
    BY <2>1
<1>3. \A i \in Nat : IsFiniteSet({j \in S : j <= i}) /\ Rank(S, i) \in Nat
  <2> TAKE i \in Nat
  <2> DEFINE T == {j \in S : j <= i}
  <2>1. T \in SUBSET S
    OBVIOUS
  <2>2. Rank(S, i) = Cardinality(T)
    BY DEF Rank
  <2> HIDE DEF T
  <2>3. IsFiniteSet(T)
    BY <1>1, <2>1, FS_Subset
  <2>4. Cardinality(T) \in Nat
    BY <2>3, FS_CardinalityType
  <2> QED
    BY <2>2, <2>3, <2>4 DEF T
<1>4. ASSUME NEW i \in Nat \ {0} PROVE Rank(S, i) = Rank(S, i - 1) + (IF i \in S THEN 1 ELSE 0)
  <2> DEFINE T == {j \in S : j <= i - 1}
  <2>1. i - 1 \in Nat /\ \A j \in S : j \in Int /\ (j <= i <=> j <= i - 1 \/ j = i)
    OBVIOUS
  <2>2. Rank(S, i - 1) = Cardinality(T) /\ Rank(S, i - 1) \in Nat
    BY <1>3, <2>1 DEF Rank
  <2>3. CASE i \in S
    <3>1. {j \in S : j <= i} = T \cup {i}
      BY <2>1, <2>3
    <3>2. i \notin T
      OBVIOUS
    <3>3. IsFiniteSet(T)
      BY <1>3, <2>1
    <3>4. Rank(S, i) = Cardinality(T \cup {i})
      BY <3>1 DEF Rank
    <3> HIDE DEF T
    <3>5. Cardinality(T \cup {i}) = Cardinality(T) + 1
      BY <3>2, <3>3, FS_AddElement
    <3> QED
      BY <2>2, <2>3, <3>4, <3>5
  <2>4. CASE i \notin S
    <3>1. {j \in S : j <= i} = T
      BY <2>1, <2>4
    <3>2. Rank(S, i) = Cardinality(T)
      BY <3>1 DEF Rank
    <3> QED
      BY <2>2, <2>4, <3>2
  <2> QED
    BY <2>3, <2>4
<1>5. Rank(S, 0) = 0 /\ Rank(S, n) = Cardinality(S)
  BY <1>2, FS_EmptySet DEF Rank
<1> QED
  BY <1>3, <1>4, <1>5

LEMMA RankGrows ==
  ASSUME NEW n \in Nat, NEW S \in SUBSET (1 .. n), NEW i \in Nat, NEW j \in Nat, i <= j
  PROVE  /\ Rank(S, i) <= Rank(S, j)
         /\ i < j /\ j \in S => Rank(S, i) < Rank(S, j)
<1> DEFINE Bad == {k \in Nat : i <= k /\ ~(Rank(S, i) <= Rank(S, k))}
<1>1. Bad = {}
  <2> SUFFICES ASSUME Bad # {} PROVE FALSE
    OBVIOUS
  <2>1. PICK k \in Bad : \A m \in Bad : k <= m
    BY LeastNatural
  <2>2. k # i
    BY <2>1, RankStep
  <2>3. k \in Nat \ {0} /\ k - 1 \in Nat /\ i <= k - 1 /\ k - 1 \notin Bad
    BY <2>1, <2>2
  <2>4. Rank(S, i) <= Rank(S, k - 1)
    BY <2>3
  <2>5. Rank(S, k) = Rank(S, k - 1) + (IF k \in S THEN 1 ELSE 0)
    BY <2>3, RankStep
  <2>6. Rank(S, k - 1) \in Nat /\ Rank(S, i) \in Nat
    BY <2>3, RankStep
  <2> QED
    BY <2>1, <2>4, <2>5, <2>6
<1>2. ASSUME i < j, j \in S PROVE Rank(S, i) < Rank(S, j)
  <2>1. j \in Nat \ {0} /\ j - 1 \in Nat /\ i <= j - 1 /\ j - 1 \notin Bad
    BY <1>1, <1>2
  <2>2. Rank(S, i) <= Rank(S, j - 1)
    BY <2>1
  <2>3. Rank(S, j) = Rank(S, j - 1) + 1 /\ Rank(S, j - 1) \in Nat /\ Rank(S, i) \in Nat
    BY <1>2, <2>1, RankStep
  <2> QED
    BY <2>2, <2>3
<1>3. j \notin Bad
  BY <1>1
<1> QED
  BY <1>2, <1>3

LEMMA InOrderLists ==
  ASSUME NEW n \in Nat, NEW S \in SUBSET (1 .. n)
  PROVE  /\ DOMAIN InOrder(S) = 1 .. Cardinality(S) /\ Cardinality(S) \in Nat
         /\ \A k \in DOMAIN InOrder(S) : InOrder(S)[k] \in S /\ Rank(S, InOrder(S)[k]) = k
         /\ \A i \in S : Rank(S, i) \in DOMAIN InOrder(S) /\ InOrder(S)[Rank(S, i)] = i
<1> DEFINE c == Cardinality(S)
<1>1. Rank(S, 0) = 0 /\ Rank(S, n) = c /\ (\A i \in Nat : Rank(S, i) \in Nat)
  BY RankStep
<1>2. \A i \in S : Rank(S, i) \in 1 .. c
  <2> TAKE i \in S
  <2>1. 0 \in Nat /\ 0 < i /\ 0 <= i /\ i <= n /\ i \in Nat /\ i \in S
    OBVIOUS
  <2>2. Rank(S, 0) < Rank(S, i)
    BY <2>1, RankGrows
  <2>3. Rank(S, i) <= Rank(S, n)
    BY <2>1, RankGrows
  <2> QED
    BY <1>1, <2>1, <2>2, <2>3
<1>3. \A i, j \in S : Rank(S, i) = Rank(S, j) => i = j
  <2>1. ASSUME NEW i \in S, NEW j \in S, i < j PROVE Rank(S, i) # Rank(S, j)
    <3>1. i \in Nat /\ j \in Nat /\ i <= j
      BY <2>1
    <3>2. Rank(S, i) < Rank(S, j) /\ Rank(S, i) \in Nat /\ Rank(S, j) \in Nat
      BY <1>1, <2>1, <3>1, RankGrows
    <3> QED
      BY <3>2
  <2> TAKE i, j \in S
  <2>2. i < j \/ j < i \/ i = j
    OBVIOUS
  <2> QED
    BY <2>1, <2>2
\* Each number up to the count is the rank of a member: the least one that has that many.
<1>4. ASSUME NEW k \in 1 .. c PROVE \E i \in S : Rank(S, i) = k
  <2> DEFINE Enough == {i \in Nat : Rank(S, i) >= k}
  <2>1. n \in Enough
    BY <1>1
  <2>2. PICK i \in Enough : \A m \in Enough : i <= m
    BY <2>1, LeastNatural
  <2>3. i # 0
    BY <1>1, <2>2
  <2>4. i \in Nat \ {0} /\ i - 1 \in Nat /\ i - 1 \notin Enough
    BY <2>2, <2>3
  <2>5. Rank(S, i) = Rank(S, i - 1) + (IF i \in S THEN 1 ELSE 0)
    BY <2>4, RankStep
  <2>6. Rank(S, i - 1) \in Nat /\ Rank(S, i - 1) < k /\ Rank(S, i) >= k
    BY <1>1, <2>2, <2>4
  <2> QED
    BY <2>5, <2>6
<1>5. DOMAIN InOrder(S) = 1 .. c /\ c \in Nat
  BY <1>1 DEF InOrder
<1>6. \A k \in 1 .. c : InOrder(S)[k] \in S /\ Rank(S, InOrder(S)[k]) = k
  <2> TAKE k \in 1 .. c
  <2>1. InOrder(S)[k] = CHOOSE i \in S : Rank(S, i) = k
    BY DEF InOrder, Rank
  <2> QED
    BY <1>4, <2>1
<1>7. \A i \in S : InOrder(S)[Rank(S, i)] = i
  BY <1>2, <1>3, <1>6
<1> QED
  BY <1>2, <1>5, <1>6, <1>7

-----------------------------------------------------------------------------
(***************************************************************************)
(* The call convention.                                                    *)
(***************************************************************************)
ClassicalPlaces(vs) == {k \in DOMAIN vs : vs[k] \notin Qubits}

\* Inputs are numbered by the rank of the operand among the classical ones.
LEMMA InputsAreRanks ==
  ASSUME NEW n \in Nat, NEW vs, DOMAIN vs = 1 .. n
  PROVE  /\ ClassicalPlaces(vs) \in SUBSET (1 .. n)
         /\ \A k \in 1 .. n : InputOf(vs, k) = Rank(ClassicalPlaces(vs), k - 1)
         /\ \A k \in ClassicalPlaces(vs) : InputOf(vs, k) + 1 = Rank(ClassicalPlaces(vs), k)
         /\ \A j, k \in ClassicalPlaces(vs) : InputOf(vs, j) = InputOf(vs, k) => j = k
<1> DEFINE K == ClassicalPlaces(vs)
<1>1. K \in SUBSET (1 .. n)
  BY DEF ClassicalPlaces
<1>2. ASSUME NEW k \in 1 .. n PROVE InputOf(vs, k) = Rank(K, k - 1)
  <2>1. {j \in 1 .. k - 1 : vs[j] \notin Qubits} = {j \in K : j <= k - 1}
    BY DEF ClassicalPlaces
  <2> QED
    BY <2>1 DEF InputOf, Rank
<1> HIDE DEF K
<1>3. ASSUME NEW k \in K PROVE InputOf(vs, k) + 1 = Rank(K, k) /\ InputOf(vs, k) \in Nat
  <2>1. k \in 1 .. n /\ k \in Nat \ {0} /\ k - 1 \in Nat
    BY <1>1
  <2>2. Rank(K, k) = Rank(K, k - 1) + 1 /\ Rank(K, k - 1) \in Nat
    BY <1>1, <2>1, RankStep
  <2> QED
    BY <1>2, <2>1, <2>2
<1>4. ASSUME NEW j \in K, NEW k \in K, j < k PROVE InputOf(vs, j) # InputOf(vs, k)
  <2>1. j \in Nat /\ k \in Nat /\ j <= k
    BY <1>1, <1>4
  <2>2. Rank(K, j) < Rank(K, k)
    BY <1>1, <1>4, <2>1, RankGrows
  <2>3. Rank(K, j) \in Nat /\ Rank(K, k) \in Nat
    BY <1>1, <2>1, RankStep
  <2> QED
    BY <1>3, <2>2, <2>3
<1>5. \A j, k \in K : InputOf(vs, j) = InputOf(vs, k) => j = k
  <2> TAKE j, k \in K
  <2>1. j < k \/ k < j \/ j = k
    BY <1>1
  <2> QED
    BY <1>4, <2>1
<1> QED
  BY <1>1, <1>2, <1>3, <1>5 DEF K

-----------------------------------------------------------------------------
LEMMA InitInv == Init => IInv
<1> SUFFICES ASSUME Init PROVE IInv
  OBVIOUS
<1>1. RoutineTypeOK
  BY DEF Init, RoutineTypeOK, IdsOrNone, Arms
<1>2. \A q \in Qubits : Given[q] = None
  BY <1>1, GivenType DEF Init
<1>3. IdsReserved /\ IdsDistinct
  BY <1>2 DEF IdsReserved, IdsDistinct
<1>4. FramesAgree
  BY DEF Init, FramesAgree, NoRoutine, PassedAgree, OthersApart, UnbornUnmapped
<1>5. ReleaseKnown
  BY DEF Init, ReleaseKnown, DeadUnmapped, RequestPassesNothing, KeepsAreLive
<1> QED
  BY <1>1, <1>3, <1>4, <1>5 DEF IInv

-----------------------------------------------------------------------------
(***************************************************************************)
(* One lemma per action: it preserves the invariant, and the ids change as *)
(* the pool allows.                                                        *)
(***************************************************************************)
\* The operands of an accepted call are held by the caller.
LEMMA OperandsHeld ==
  ASSUME IInv, NEW vs \in Operands \cup {<<>>}, Accepts(vs), NEW q \in ToSet(vs) \cap Qubits
  PROVE  held[q] \in Ids
<1>1. q \in Visible \/ q \in Params
  <2>1. CASE vs = <<>>
    BY <2>1 DEF ToSet
  <2>2. CASE vs \in Operands
    <3>1. PICK n \in 0 .. MaxArgs : vs \in [1 .. n -> Visible \cup Params]
      BY <2>2 DEF Operands
    <3> QED
      BY <3>1 DEF ToSet
  <2> QED
    BY <2>1, <2>2
<1>2. q \in Visible
  BY <1>1, ValuesAssumption
<1>3. q \notin freed
  BY DEF Accepts, ToSet
<1> QED
  BY <1>2, <1>3 DEF Visible, IInv, RoutineTypeOK, IdsOrNone

LEMMA BeginStep ==
  ASSUME IInv, NEW k \in {"local", "request"}, NEW vs \in Operands \cup {<<>>}, BeginCall(k, vs),
         k = "request" => vs = <<>>
  PROVE  IInv' /\ Given' = Given
<1> USE DEF main, routine, program
<1>1. RoutineTypeOK /\ FramesAgree /\ ReleaseKnown /\ kind = "none" /\ IdsReserved /\ IdsDistinct
  BY DEF IInv, BeginCall, Idle
<1>2. \A q \in Qubits : ids[q] = None
  BY <1>1 DEF FramesAgree, NoRoutine
<1>3. CASE ~Accepts(vs)
  <2>1. RoutineTypeOK'
    BY <1>1, <1>3 DEF BeginCall, RoutineTypeOK
  <2>2. Given' = Given
    BY <1>1, <1>3 DEF BeginCall, Given
  <2>3. FramesAgree'
    BY <1>1, <1>3 DEF BeginCall, FramesAgree, NoRoutine, PassedAgree, OthersApart, UnbornUnmapped
  <2>4. IdsReserved' /\ IdsDistinct'
    BY <1>1, <2>2 DEF BeginCall, IdsReserved, IdsDistinct
  <2>5. ReleaseKnown'
    BY <1>1, <1>3 DEF BeginCall, ReleaseKnown, DeadUnmapped, RequestPassesNothing, KeepsAreLive
  <2> QED
    BY <2>1, <2>2, <2>3, <2>4, <2>5 DEF IInv
<1>4. CASE Accepts(vs)
  <2> DEFINE passed == ToSet(vs) \cap Qubits
  <2>1. \A q \in passed : held[q] \in Ids /\ held[q] # None
    BY <1>4, OperandsHeld, IdsAreNoNone
  <2>2. /\ ids' = [q \in Qubits |-> IF q \in passed THEN held[q] ELSE None]
        /\ uses' = {held[q] : q \in passed} /\ keeps' = {held[q] : q \in passed}
        /\ consumed' = {} /\ pairs' = {} /\ kind' = k /\ args' = vs
        /\ UNCHANGED <<qubits, held, freed, arm, born, dead, outcome>>
    BY <1>4 DEF BeginCall
  <2>3. Passed' = passed
    BY <2>2 DEF Passed
  <2>9. k = "request" => passed = {}
    BY DEF ToSet
  <2> HIDE DEF passed
  <2>4. passed \subseteq Qubits
    BY DEF passed
  <2>5. RoutineTypeOK'
    BY <1>1, <2>1, <2>2, <2>4 DEF RoutineTypeOK, IdsOrNone
  <2>6. Given' = Given
    <3>1. \A q \in Qubits : Given'[q] = held[q]
      BY <2>1, <2>2, <2>3 DEF Given
    <3>2. \A q \in Qubits : Given[q] = held[q]
      BY <1>1, <1>2 DEF Given
    <3> QED
      BY <3>1, <3>2 DEF Given
  <2>7. FramesAgree'
    <3>1. NoRoutine'
      BY <2>2 DEF NoRoutine
    <3>2. PassedAgree' /\ OthersApart'
      BY <2>1, <2>2, <2>3, <2>4 DEF PassedAgree, OthersApart
    <3>3. UnbornUnmapped'
      BY <1>1, <2>1, <2>2 DEF FramesAgree, UnbornUnmapped
    <3> QED
      BY <3>1, <3>2, <3>3 DEF FramesAgree
  <2>8. IdsReserved' /\ IdsDistinct'
    BY <1>1, <2>2, <2>6 DEF IdsReserved, IdsDistinct
  <2>10. ReleaseKnown'
    <3>1. DeadUnmapped' /\ RequestPassesNothing'
      BY <1>1, <2>2, <2>3, <2>9 DEF ReleaseKnown, DeadUnmapped, RequestPassesNothing, KeepsAreLive
    <3>2. KeepsAreLive'
      BY <2>1, <2>2, <2>4 DEF KeepsAreLive
    <3> QED
      BY <3>1, <3>2 DEF ReleaseKnown
  <2> QED
    BY <2>5, <2>6, <2>7, <2>8, <2>10 DEF IInv
<1> QED
  BY <1>3, <1>4

LEMMA AllocStep ==
  ASSUME IInv, NEW q \in Qubits, Alloc(q)
  PROVE  IInv' /\ (Given' = Given \/ Pool!Take)
<1> USE DEF main, routine, program
<1>1. RoutineTypeOK /\ FramesAgree /\ ReleaseKnown /\ IdsReserved /\ IdsDistinct
  BY DEF IInv
<1>2. held[q] = None /\ ids[q] = None /\ born' = [born EXCEPT ![q] = {arm}] /\ kind # "none"
  BY <1>1 DEF Alloc, FramesAgree, UnbornUnmapped
<1>3. Passed' = Passed /\ UNCHANGED <<held, freed, kind, consumed, pairs, arm, dead>>
  BY DEF Alloc, Passed
<1>4. CASE UNCHANGED <<qubits, ids, uses, keeps>> /\ outcome' = "exhausted"
  <2>1. Given' = Given
    BY <1>3, <1>4 DEF Given
  <2>2. RoutineTypeOK'
    BY <1>1, <1>2, <1>3, <1>4 DEF RoutineTypeOK
  <2>3. FramesAgree'
    BY <1>1, <1>2, <1>3, <1>4 DEF FramesAgree, NoRoutine, PassedAgree, OthersApart, UnbornUnmapped, RoutineTypeOK
  <2>4. IdsReserved' /\ IdsDistinct'
    BY <1>1, <1>4, <2>1 DEF IdsReserved, IdsDistinct
  <2>5. ReleaseKnown'
    BY <1>1, <1>3, <1>4 DEF ReleaseKnown, DeadUnmapped, RequestPassesNothing, KeepsAreLive
  <2> QED
    BY <2>1, <2>2, <2>3, <2>4, <2>5 DEF IInv
<1>5. ASSUME NEW i \in Lowest,
             qubits' = [qubits EXCEPT ![i] = TRUE], ids' = [ids EXCEPT ![q] = i],
             uses' \in {uses, uses \cup {i}}, keeps' \in {keeps, keeps \cup {i}},
             kind = "local" => uses' = uses \cup {i} /\ keeps' = keeps \cup {i},
             UNCHANGED outcome
      PROVE  IInv' /\ Pool!Take
  <2>1. i \in Ids /\ i # None /\ ~qubits[i]
    BY IdsAreNoNone DEF Lowest, FreeIds
  <2>2. \A r \in Qubits : Given[r] # i
    BY <1>1, <2>1 DEF IdsReserved
  <2>3. Given[q] = None
    BY <1>2, <1>1, GivenType
  <2>4. RoutineTypeOK'
    BY <1>1, <1>2, <1>3, <1>5, <2>1 DEF RoutineTypeOK, IdsOrNone
  <2>5. Given' = [Given EXCEPT ![q] = i]
    BY <1>1, <1>3, <1>5, <2>1 DEF Given, RoutineTypeOK
  <2>6. IdsReserved' /\ IdsDistinct'
    BY <1>1, <1>5, <2>1, <2>2, <2>5, GivenType DEF IdsReserved, IdsDistinct, RoutineTypeOK, IdsOrNone
  <2>7. FramesAgree'
    <3>1. q \notin Passed
      BY <1>1, <1>2 DEF FramesAgree, PassedAgree
    <3>2. NoRoutine' /\ PassedAgree' /\ OthersApart'
      BY <1>1, <1>2, <1>3, <1>5, <3>1, PassedQubits DEF FramesAgree, NoRoutine, PassedAgree, OthersApart, RoutineTypeOK
    <3>3. UnbornUnmapped'
      BY <1>1, <1>2, <1>3, <1>5 DEF FramesAgree, UnbornUnmapped, RoutineTypeOK
    <3> QED
      BY <3>2, <3>3 DEF FramesAgree
  <2>8. Pool!Take
    BY <2>1, <2>2, <2>3, <2>5 DEF Pool!Take
  <2>9. ReleaseKnown'
    <3>1. DeadUnmapped' /\ RequestPassesNothing'
      BY <1>1, <1>3 DEF ReleaseKnown, DeadUnmapped, RequestPassesNothing
    <3>2. KeepsAreLive'
      <4> SUFFICES ASSUME kind' = "local"
                   PROVE  keeps' = {ids'[r] : r \in {s \in Qubits : ids'[s] # None}} /\ keeps' \subseteq uses'
        BY DEF KeepsAreLive
      <4>1. keeps = {ids[r] : r \in {s \in Qubits : ids[s] # None}} /\ keeps \subseteq uses
        BY <1>1, <1>3 DEF ReleaseKnown, KeepsAreLive
      <4>2. \A r \in Qubits : ids'[r] = IF r = q THEN i ELSE ids[r]
        BY <1>1, <1>5 DEF RoutineTypeOK
      <4>3. keeps' = keeps \cup {i} /\ uses' = uses \cup {i}
        BY <1>3, <1>5
      <4> QED
        BY <1>2, <2>1, <4>1, <4>2, <4>3
    <3> QED
      BY <3>1, <3>2 DEF ReleaseKnown
  <2> QED
    BY <2>4, <2>6, <2>7, <2>8, <2>9 DEF IInv
<1> QED
  BY <1>4, <1>5 DEF Alloc, Marked

LEMMA ReleaseStep ==
  ASSUME IInv, NEW q \in Qubits, Release(q)
  PROVE  IInv' /\ Pool!Drop
<1> USE DEF main, routine, program
<1>1. RoutineTypeOK /\ FramesAgree /\ ReleaseKnown /\ IdsReserved /\ IdsDistinct /\ kind = "local"
  BY DEF IInv, Release, In
<1>2. /\ ids[q] \in Ids /\ ids[q] # None
      /\ qubits' = [qubits EXCEPT ![ids[q]] = FALSE] /\ ids' = [ids EXCEPT ![q] = None]
      /\ keeps' = keeps \ {ids[q]} /\ consumed' = consumed \cup {ids[q]}
      /\ dead' = [dead EXCEPT ![q] = @ \cup {arm}]
      /\ Passed' = Passed /\ UNCHANGED <<held, freed, kind, uses, pairs, arm, born, outcome>>
  BY <1>1 DEF Release, RoutineTypeOK, IdsOrNone, KeptWithout, Consumed, Passed
<1>3. Given[q] = ids[q]
  BY <1>1, <1>2, GivenType
<1>4. \A r \in Qubits \ {q} : Given[r] # ids[q]
  BY <1>1, <1>2, <1>3 DEF IdsDistinct
<1>5. RoutineTypeOK'
  BY <1>1, <1>2 DEF RoutineTypeOK, IdsOrNone
<1>6. Given' = [Given EXCEPT ![q] = None]
  <2>1. q \notin Passed => held[q] = None
    BY <1>1, <1>2 DEF FramesAgree, OthersApart
  <2> QED
    BY <1>1, <1>2, <2>1 DEF Given, RoutineTypeOK
<1>7. IdsReserved' /\ IdsDistinct'
  BY <1>1, <1>2, <1>4, <1>6, GivenType DEF IdsReserved, IdsDistinct, RoutineTypeOK, IdsOrNone
<1>8. FramesAgree'
  <2>1. NoRoutine' /\ OthersApart'
    BY <1>1, <1>2 DEF FramesAgree, NoRoutine, OthersApart, RoutineTypeOK
  <2>2. PassedAgree'
    BY <1>1, <1>2, PassedQubits DEF FramesAgree, PassedAgree, RoutineTypeOK
  <2>3. UnbornUnmapped'
    BY <1>1, <1>2 DEF FramesAgree, UnbornUnmapped, RoutineTypeOK
  <2> QED
    BY <2>1, <2>2, <2>3 DEF FramesAgree
<1>9. Pool!Drop
  <2>1. Given' = [r \in Qubits |-> IF r \in {q} THEN None ELSE Given[r]]
    BY <1>6 DEF Given
  <2> QED
    BY <2>1 DEF Pool!Drop
<1>10. ReleaseKnown'
  <2>1. DeadUnmapped'
    <3>1. held[q] = None \/ held[q] \in consumed \/ held[q] = ids[q]
      BY <1>1, <1>2 DEF FramesAgree, PassedAgree, OthersApart
    <3> QED
      BY <1>1, <1>2, <3>1 DEF ReleaseKnown, DeadUnmapped, RoutineTypeOK
  <2>2. RequestPassesNothing'
    BY <1>1, <1>2 DEF RequestPassesNothing
  <2>3. KeepsAreLive'
    <3>1. keeps = {ids[r] : r \in {s \in Qubits : ids[s] # None}} /\ keeps \subseteq uses
      BY <1>1 DEF ReleaseKnown, KeepsAreLive
    <3>2. \A r \in Qubits : ids'[r] = IF r = q THEN None ELSE ids[r]
      BY <1>1, <1>2 DEF RoutineTypeOK
    <3>3. \A r \in Qubits \ {q} : ids[r] # None => ids[r] # ids[q]
      BY <1>1, <1>4, GivenType
    <3>4. keeps' = {ids'[r] : r \in {s \in Qubits : ids'[s] # None}}
      BY <1>2, <3>1, <3>2, <3>3
    <3> QED
      BY <1>2, <3>1, <3>4 DEF KeepsAreLive
  <2> QED
    BY <2>1, <2>2, <2>3 DEF ReleaseKnown
<1> QED
  BY <1>5, <1>7, <1>8, <1>9, <1>10 DEF IInv

\* Eprs, EprsMeasure and NextBlock leave the ids alone.
LEMMA OtherStep ==
  ASSUME IInv, UNCHANGED <<qubits, held, freed, kind, args, ids, uses, keeps, consumed, born, outcome>>,
         pairs' \subseteq Qubits, arm' \in Arms, dead' \in [Qubits -> SUBSET Arms],
         \A q \in Qubits : dead'[q] = dead[q] \/ held[q] = None
  PROVE  IInv' /\ Given' = Given
<1>1. Given' = Given
  BY DEF Given, Passed
<1>2. RoutineTypeOK'
  BY DEF IInv, RoutineTypeOK
<1>3. IdsReserved' /\ IdsDistinct'
  BY <1>1 DEF IInv, IdsReserved, IdsDistinct
<1>4. FramesAgree'
  BY DEF IInv, FramesAgree, NoRoutine, PassedAgree, OthersApart, UnbornUnmapped, Passed
<1>5. ReleaseKnown'
  BY DEF IInv, ReleaseKnown, DeadUnmapped, RequestPassesNothing, KeepsAreLive, Passed
<1> QED
  BY <1>1, <1>2, <1>3, <1>4, <1>5 DEF IInv

LEMMA EndStep ==
  ASSUME IInv, EndCall
  PROVE  IInv' /\ Pool!Drop
<1> USE DEF main, routine, program
<1>1. RoutineTypeOK /\ FramesAgree /\ ReleaseKnown /\ IdsReserved /\ IdsDistinct /\ kind # "none"
  BY DEF IInv, EndCall
<1>2. HeldWithResults \in [Qubits -> IdsOrNone]
  BY <1>1 DEF HeldWithResults, RoutineTypeOK, IdsOrNone
<1>3. /\ held' = [q \in Qubits |-> IF q \in Unmapped THEN None ELSE HeldWithResults[q]]
      /\ freed' = freed \cup Unmapped /\ kind' = "none" /\ ids' = [q \in Qubits |-> None]
      /\ uses' = {} /\ keeps' = {} /\ consumed' = {} /\ pairs' = {}
      /\ UNCHANGED <<qubits, arm, born, dead, outcome>>
  BY DEF EndCall
<1>4. RoutineTypeOK'
  BY <1>1, <1>2, <1>3 DEF RoutineTypeOK, IdsOrNone, Unmapped
<1>5. \A q \in Qubits : held'[q] # None => held'[q] = Given[q]
  <2> TAKE q \in Qubits
  <2> HAVE held'[q] # None
  <2>1. HeldWithResults[q] \notin consumed /\ held'[q] = HeldWithResults[q]
    BY <1>3 DEF Unmapped
  <2>2. CASE held[q] = None
    BY <1>1, <2>1, <2>2, GivenType DEF HeldWithResults
  <2>3. CASE held[q] # None /\ q \in Passed
    <3>1. ids[q] = held[q]
      BY <1>1, <2>1, <2>3 DEF HeldWithResults, FramesAgree, PassedAgree
    <3> QED
      BY <1>1, <2>1, <2>3, <3>1, GivenType DEF HeldWithResults
  <2>4. CASE held[q] # None /\ q \notin Passed
    <3>1. ids[q] = None
      BY <1>1, <2>4 DEF FramesAgree, OthersApart
    <3> QED
      BY <1>1, <2>1, <2>4, <3>1, GivenType DEF HeldWithResults
  <2> QED
    BY <2>2, <2>3, <2>4
<1>6. Given' = held'
  BY <1>3 DEF Given
<1>7. IdsReserved' /\ IdsDistinct'
  BY <1>1, <1>3, <1>5, <1>6 DEF IdsReserved, IdsDistinct
<1>8. FramesAgree'
  <2>1. UnbornUnmapped'
    BY <1>1, <1>3 DEF FramesAgree, UnbornUnmapped, HeldWithResults
  <2> QED
    BY <1>3, <2>1 DEF FramesAgree, NoRoutine, PassedAgree, OthersApart
<1>9. Pool!Drop
  <2> DEFINE S == {q \in Qubits : held'[q] = None}
  <2>1. Given' = [q \in Qubits |-> IF q \in S THEN None ELSE Given[q]]
    BY <1>3, <1>5, <1>6
  <2>2. S \in SUBSET Qubits
    OBVIOUS
  <2> QED
    BY <2>1, <2>2 DEF Pool!Drop
<1>10. ReleaseKnown'
  <2>1. DeadUnmapped'
    <3> SUFFICES ASSUME NEW q \in Qubits, dead[q] # {}, held'[q] # None
                 PROVE  FALSE
      BY <1>3 DEF DeadUnmapped
    <3>1. q \notin Returned
      BY DEF Returned
    <3>2. HeldWithResults[q] = held[q]
      BY <3>1 DEF HeldWithResults
    <3>3. held[q] # None /\ held[q] \notin consumed
      BY <1>3, <3>2 DEF Unmapped
    <3> QED
      BY <1>1, <3>3 DEF ReleaseKnown, DeadUnmapped
  <2> QED
    BY <1>3, <2>1 DEF ReleaseKnown, RequestPassesNothing, KeepsAreLive
<1> QED
  BY <1>4, <1>7, <1>8, <1>9, <1>10 DEF IInv

-----------------------------------------------------------------------------
LEMMA NextStep ==
  ASSUME IInv, [Next]_vars
  PROVE  IInv' /\ [Pool!Next]_Given
<1> USE DEF Pool!Next
<1>1. CASE BeginLocal
  BY <1>1, BeginStep DEF BeginLocal
<1>2. CASE BeginRequest
  BY <1>2, BeginStep DEF BeginRequest
<1>3. ASSUME NEW q \in Qubits, Alloc(q) PROVE IInv' /\ [Pool!Next]_Given
  BY <1>3, AllocStep
<1>4. ASSUME NEW q \in Qubits, Release(q) PROVE IInv' /\ [Pool!Next]_Given
  BY <1>4, ReleaseStep
<1>5. ASSUME NEW q \in Qubits, Eprs(q) \/ EprsMeasure(q) PROVE IInv' /\ [Pool!Next]_Given
  <2>1. RoutineTypeOK
    BY DEF IInv
  <2>2. /\ UNCHANGED <<qubits, held, freed, kind, args, ids, uses, keeps, consumed, born, outcome>>
        /\ pairs' \subseteq Qubits /\ arm' \in Arms /\ dead' \in [Qubits -> SUBSET Arms]
    BY <1>5, <2>1 DEF Eprs, EprsMeasure, main, program, RoutineTypeOK
  <2>3. held[q] = None
    BY <1>5, PassedQubits DEF Eprs, EprsMeasure, Waiting, In, IInv, ReleaseKnown, RequestPassesNothing,
                              FramesAgree, OthersApart
  <2>4. \A r \in Qubits : dead'[r] = dead[r] \/ held[r] = None
    BY <1>5, <2>1, <2>3 DEF Eprs, EprsMeasure, program, RoutineTypeOK
  <2> QED
    BY <2>2, <2>4, OtherStep
<1>6. CASE EndCall
  BY <1>6, EndStep
<1>7. CASE NextBlock \/ UNCHANGED vars
  <2>1. RoutineTypeOK
    BY DEF IInv
  <2>2. /\ UNCHANGED <<qubits, held, freed, kind, args, ids, uses, keeps, consumed, born, outcome>>
        /\ pairs' \subseteq Qubits /\ arm' \in Arms /\ dead' \in [Qubits -> SUBSET Arms]
    BY <1>7, <2>1 DEF NextBlock, NextArm, Arms, vars, main, routine, program, RoutineTypeOK
  <2>3. dead' = dead
    BY <1>7 DEF NextBlock, vars, program
  <2> QED
    BY <2>2, <2>3, OtherStep
<1> QED
  BY <1>1, <1>2, <1>3, <1>4, <1>5, <1>6, <1>7 DEF Next, Body, Free, Measure

(***************************************************************************)
(* The tables of physical qubits agree after every step of the translation *)
(* (the context, the frame of main and the map of the routine).            *)
(***************************************************************************)
THEOREM TablesAgree == Spec => []IInv
<1>1. IInv /\ [Next]_vars => IInv'
  BY NextStep
<1> QED
  BY <1>1, InitInv, PTL DEF Spec

\* The types of the tables of the translation.
THEOREM RoutineTypeCorrect == Spec => []RoutineTypeOK
<1>1. IInv => RoutineTypeOK
  BY DEF IInv
<1> QED
  BY <1>1, TablesAgree, PTL

\* The physical qubit of a value is never one that allocateQubit may give away.
THEOREM IdsStayReserved == Spec => []IdsReserved
<1>1. IInv => IdsReserved
  BY DEF IInv
<1> QED
  BY <1>1, TablesAgree, PTL

\* Two values never stand for the same physical qubit.
THEOREM IdsStayDistinct == Spec => []IdsDistinct
<1>1. IInv => IdsDistinct
  BY DEF IInv
<1> QED
  BY <1>1, TablesAgree, PTL

\* The header of a routine keeps exactly the qubits it has not measured or freed.
THEOREM KeepsStayLive == Spec => []KeepsAreLive
<1>1. IInv => KeepsAreLive
  BY DEF IInv, ReleaseKnown
<1> QED
  BY <1>1, TablesAgree, PTL

\* No accepted call uses a qubit that was measured or freed on a way to it.
THEOREM ReleasedNeverPassed == Spec => NoUseAfterRelease
<1> DEFINE A == \A q \in Qubits : kind = "none" /\ q \in Passed' /\ kind' # "none" => ~Dead(q)
<1>1. IInv /\ [Next]_vars => [A]_vars
  <2> SUFFICES ASSUME IInv, Next, NEW q \in Qubits, kind = "none", q \in Passed', kind' # "none"
               PROVE  ~Dead(q)
    OBVIOUS
  <2>1. PICK k \in {"local", "request"}, vs \in Operands \cup {<<>>} : BeginCall(k, vs)
    BY DEF Next, BeginLocal, BeginRequest, Body, Alloc, Free, Measure, Release, Eprs, EprsMeasure, Waiting, In,
           EndCall, NextBlock
  <2>2. Accepts(vs) /\ args' = vs
    BY <2>1 DEF BeginCall
  <2>3. held[q] # None
    BY <2>2, OperandsHeld, IdsAreNoNone DEF Passed
  <2> QED
    BY <2>3 DEF IInv, ReleaseKnown, DeadUnmapped, Dead
<1> QED
  BY <1>1, TablesAgree, PTL DEF Spec, NoUseAfterRelease

(***************************************************************************)
(* Allocation, release and the two tables of the translation together      *)
(* implement the pool of qubits.                                           *)
(***************************************************************************)
THEOREM PoolImplemented == Spec => PoolSpec
<1>1. Init => Pool!Init
  BY GivenType, InitInv DEF Init, Pool!Init, IInv, Given
<1>2. IInv /\ [Next]_vars => [Pool!Next]_Given
  BY NextStep
<1> QED
  BY <1>1, <1>2, TablesAgree, PTL DEF Spec, PoolSpec, Pool!Spec

-----------------------------------------------------------------------------
(***************************************************************************)
(* The operands of a call reach the inputs of its routine.  While the      *)
(* routine is translated, its signature is the one that the table of the   *)
(* caller gave it, and each operand has the register of its instruction.   *)
(***************************************************************************)
SignatureKept ==
  /\ kind = "none" => code = <<>> /\ regs = <<>>
  /\ kind # "none" => args \in Seq(Qubits \cup Params) /\ code = Convention(args) /\ regs = [k \in DOMAIN args |-> k]

OperandsLoaded ==
  LET loads == AtPlaces(call.code, {k \in DOMAIN call.code : call.code[k].op = "load"})
  IN  /\ Len(call.operands) = Len(loads)
      /\ \A k \in DOMAIN loads : loads[k].val = k - 1 /\ loads[k].arg = call.operands[k]

CallInv == SignatureKept /\ OperandsLoaded

LEMMA OperandsSequence ==
  ASSUME NEW vs \in Operands \cup {<<>>}
  PROVE  \E n \in Nat : DOMAIN vs = 1 .. n /\ vs \in Seq(Qubits \cup Params) /\ IsInjective(vs)
<1>1. CASE vs = <<>>
  BY <1>1 DEF IsInjective
<1>2. CASE vs \in Operands
  <2>1. PICK n \in 0 .. MaxArgs : vs \in [1 .. n -> Visible \cup Params] /\ IsInjective(vs)
    BY <1>2 DEF Operands
  <2>2. Visible \subseteq Qubits /\ n \in Nat
    BY <2>1 DEF Visible
  <2>3. vs \in [1 .. n -> Qubits \cup Params] /\ DOMAIN vs = 1 .. n
    BY <2>1, <2>2
  <2>4. vs \in Seq(Qubits \cup Params)
    BY <2>2, <2>3
  <2> QED
    BY <2>1, <2>2, <2>3, <2>4
<1> QED
  BY <1>1, <1>2

\* An operand of an accepted call is mapped to the register of its own instruction.
LEMMA OwnRegister ==
  ASSUME IInv, kind = "none", NEW vs \in Operands \cup {<<>>}, Accepts(vs), NEW k \in DOMAIN vs
  PROVE  Lookup(vs, k) = k
<1>1. PICK n \in Nat : DOMAIN vs = 1 .. n /\ IsInjective(vs)
  BY OperandsSequence
<1>2. \A i \in DOMAIN vs : vs[i] \in Qubits => held[vs[i]] \in Ids /\ held[vs[i]] # None
  BY OperandsHeld, IdsAreNoNone DEF ToSet
<1>3. \A i, j \in DOMAIN vs : vs[i] \in Qubits /\ vs[j] \in Qubits /\ held[vs[i]] = held[vs[j]] => i = j
  <2> TAKE i, j \in DOMAIN vs
  <2> HAVE vs[i] \in Qubits /\ vs[j] \in Qubits /\ held[vs[i]] = held[vs[j]]
  <2>1. \A q \in Qubits : Given[q] = held[q]
    BY DEF IInv, FramesAgree, NoRoutine, Given
  <2>2. vs[i] = vs[j]
    BY <1>2, <2>1 DEF IInv, IdsDistinct
  <2> QED
    BY <1>1, <2>2 DEF IsInjective
<1>4. LoadedBy(vs, k) = InputOf(vs, k)
  <2>1. \A j \in 1 .. k - 1 : j \in DOMAIN vs
    BY <1>1
  <2>2. {j \in 1 .. k - 1 : vs[j] \notin Qubits \/ held[vs[j]] = None} = {j \in 1 .. k - 1 : vs[j] \notin Qubits}
    BY <1>2, <2>1
  <2> QED
    BY <2>2 DEF LoadedBy, InputOf
<1>5. \A i \in DOMAIN vs : /\ vs[i] \in Qubits => Convention(vs)[i].op = "set" /\ Convention(vs)[i].val = held[vs[i]]
                           /\ vs[i] \notin Qubits => Convention(vs)[i].op = "load" /\ Convention(vs)[i].val = InputOf(vs, i)
  BY DEF Convention
<1> DEFINE op == IF vs[k] \in Qubits /\ held[vs[k]] # None THEN "set" ELSE "load"
           val == IF op = "set" THEN held[vs[k]] ELSE LoadedBy(vs, k)
           found == {i \in DOMAIN vs : Convention(vs)[i].op = op /\ Convention(vs)[i].val = val}
<1>6. found = {k}
  <2>1. CASE vs[k] \in Qubits
    <3>1. op = "set" /\ val = held[vs[k]]
      BY <1>2, <2>1
    <3> QED
      BY <1>3, <1>5, <2>1, <3>1
  <2>2. CASE vs[k] \notin Qubits
    <3>1. op = "load" /\ val = InputOf(vs, k)
      BY <1>4, <2>2
    <3>2. \A i \in ClassicalPlaces(vs) : InputOf(vs, i) = InputOf(vs, k) => i = k
      BY <1>1, <2>2, InputsAreRanks DEF ClassicalPlaces
    <3> QED
      BY <1>5, <2>2, <3>1, <3>2 DEF ClassicalPlaces
  <2> QED
    BY <2>1, <2>2
<1>7. Lookup(vs, k) = IF found = {} THEN 0 ELSE CHOOSE i \in found : \A j \in found : i <= j
  BY DEF Lookup
<1>8. k \in Nat
  BY <1>1
<1> HIDE DEF found
<1> QED
  BY <1>6, <1>7, <1>8

\* The classical operands are those the routine loads, in the same order.
LEMMA EndOfCall ==
  ASSUME IInv, SignatureKept, EndCall
  PROVE  OperandsLoaded'
<1> DEFINE K == ClassicalPlaces(args)
<1>1. args \in Seq(Qubits \cup Params) /\ code = Convention(args) /\ kind # "none"
  BY DEF SignatureKept, EndCall
<1>2. Len(args) \in Nat /\ DOMAIN args = 1 .. Len(args) /\ \A k \in DOMAIN args : args[k] \in Qubits \cup Params
  BY <1>1
<1>3. \A k \in DOMAIN args : args[k] \in Qubits => HeldWithResults[args[k]] # None /\ args[k] \notin Params
  <2> TAKE k \in DOMAIN args
  <2> HAVE args[k] \in Qubits
  <2>1. args[k] \in Passed
    BY DEF Passed, ToSet
  <2>2. held[args[k]] # None
    BY <1>1, <2>1 DEF IInv, FramesAgree, PassedAgree
  <2> QED
    BY <2>2, ValuesAssumption DEF HeldWithResults
<1>4. {k \in DOMAIN args : args[k] \in Params \/ HeldWithResults[args[k]] = None} = K
  BY <1>2, <1>3 DEF ClassicalPlaces
<1>5. call'.operands = AtPlaces(args, K) /\ call'.code = code
  <2>1. call' = [operands |-> ClassicalArgs, code |-> code, virtual |-> virtual]
    BY DEF EndCall
  <2>2. ClassicalArgs = AtPlaces(args, K)
    BY <1>4 DEF ClassicalArgs
  <2> QED
    BY <2>1, <2>2
<1>6. DOMAIN code = DOMAIN args /\ \A k \in DOMAIN args :
        /\ code[k].op = "load" <=> k \in K
        /\ k \in K => code[k].val = InputOf(args, k) /\ code[k].arg = args[k]
  BY <1>1 DEF Convention, ClassicalPlaces
<1>7. {k \in DOMAIN call'.code : call'.code[k].op = "load"} = K
  BY <1>5, <1>6 DEF ClassicalPlaces
<1>8. /\ DOMAIN InOrder(K) = 1 .. Cardinality(K) /\ Cardinality(K) \in Nat
      /\ \A n \in DOMAIN InOrder(K) : InOrder(K)[n] \in K /\ Rank(K, InOrder(K)[n]) = n
      /\ \A k \in K : InputOf(args, k) + 1 = Rank(K, k)
  BY <1>2, InOrderLists, InputsAreRanks
<1>9. \A k \in K : k \in DOMAIN args /\ InputOf(args, k) \in Nat
  <2> TAKE k \in K
  <2>1. k \in 1 .. Len(args) /\ k - 1 \in Nat
    BY <1>2 DEF ClassicalPlaces
  <2>2. InputOf(args, k) = Rank(K, k - 1) /\ Rank(K, k - 1) \in Nat
    BY <1>2, <2>1, InputsAreRanks, RankStep
  <2> QED
    BY <1>2, <2>1, <2>2
<1> HIDE DEF K
<1> DEFINE loads == AtPlaces(code, K)
<1>10. DOMAIN loads = 1 .. Cardinality(K) /\ DOMAIN AtPlaces(args, K) = 1 .. Cardinality(K)
  BY <1>8 DEF AtPlaces
<1>11. Len(loads) = Cardinality(K) /\ Len(AtPlaces(args, K)) = Cardinality(K)
  BY <1>8, <1>10
<1>12. ASSUME NEW n \in DOMAIN loads PROVE loads[n].val = n - 1 /\ loads[n].arg = AtPlaces(args, K)[n]
  <2> DEFINE i == InOrder(K)[n]
  <2>1. n \in DOMAIN InOrder(K) /\ i \in K /\ Rank(K, i) = n
    BY <1>8, <1>10, <1>12
  <2>2. loads[n] = code[i] /\ AtPlaces(args, K)[n] = args[i]
    BY <2>1 DEF AtPlaces
  <2>3. InputOf(args, i) = n - 1
    BY <1>8, <1>9, <2>1
  <2> HIDE DEF i
  <2> QED
    BY <1>6, <1>9, <2>1, <2>2, <2>3
<1> HIDE DEF loads
<1> QED
  BY <1>5, <1>7, <1>11, <1>12 DEF OperandsLoaded, loads

LEMMA NothingLoaded == NoCall.code = <<>> /\ NoCall.operands = <<>> /\ (call = NoCall => OperandsLoaded)
<1>1. NoCall.code = <<>> /\ NoCall.operands = <<>>
  BY DEF NoCall
<1>2. \A k \in DOMAIN NoCall.code : FALSE
  BY <1>1
<1>3. {k \in DOMAIN NoCall.code : NoCall.code[k].op = "load"} = {}
  BY <1>2
<1>4. DOMAIN InOrder({}) = {}
  <2>1. DOMAIN InOrder({}) = 1 .. 0
    BY FS_EmptySet DEF InOrder
  <2> QED
    BY <2>1
<1>5. AtPlaces(NoCall.code, {}) = <<>>
  BY <1>4 DEF AtPlaces
<1>6. ASSUME call = NoCall PROVE OperandsLoaded
  <2>1. {k \in DOMAIN call.code : call.code[k].op = "load"} = {} /\ AtPlaces(call.code, {}) = <<>>
    BY <1>3, <1>5, <1>6
  <2>2. call.operands = <<>> /\ Len(<<>>) = 0 /\ \A k \in DOMAIN <<>> : FALSE
    BY <1>1, <1>6
  <2> QED
    BY <2>1, <2>2 DEF OperandsLoaded
<1> QED
  BY <1>1, <1>6

LEMMA CallStep ==
  ASSUME IInv, CallInv, [Next]_vars
  PROVE  CallInv'
<1> USE DEF main, routine, program
<1>1. ASSUME NEW k \in {"local", "request"}, NEW vs \in Operands \cup {<<>>}, BeginCall(k, vs)
      PROVE  CallInv'
  <2>1. OperandsLoaded'
    <3>1. call' = NoCall
      BY <1>1 DEF BeginCall
    <3>2. (call = NoCall => OperandsLoaded)'
      BY NothingLoaded, PTL
    <3>3. NoCall' = NoCall
      BY DEF NoCall
    <3> QED
      BY <3>1, <3>2, <3>3
  <2>2. kind = "none" /\ code = <<>> /\ regs = <<>>
    BY <1>1 DEF BeginCall, Idle, CallInv, SignatureKept
  <2>3. CASE ~Accepts(vs)
    BY <1>1, <2>1, <2>2, <2>3 DEF BeginCall, CallInv, SignatureKept
  <2>4. CASE Accepts(vs)
    <3>1. /\ kind' = k /\ args' = vs /\ code' = Convention(vs) /\ held' = held
          /\ regs' = [i \in DOMAIN vs |-> Lookup(vs, i)]
      BY <1>1, <2>4 DEF BeginCall
    <3>2. vs \in Seq(Qubits \cup Params)
      BY OperandsSequence
    <3>3. regs' = [i \in DOMAIN vs |-> i]
      BY <2>2, <2>4, <3>1, OwnRegister
    <3>4. Convention(vs)' = Convention(vs)
      BY <3>1 DEF Convention, InputOf
    <3> QED
      BY <2>1, <3>1, <3>2, <3>3, <3>4 DEF CallInv, SignatureKept
  <2> QED
    BY <2>3, <2>4
<1>2. CASE BeginLocal \/ BeginRequest
  BY <1>1, <1>2 DEF BeginLocal, BeginRequest
<1>3. CASE EndCall
  <2>1. SignatureKept'
    BY <1>3 DEF EndCall, SignatureKept
  <2> QED
    BY <1>3, <2>1, EndOfCall DEF CallInv
<1>4. CASE UNCHANGED <<held, kind, args, code, regs, call>>
  <2>1. Convention(args)' = Convention(args)
    BY <1>4 DEF Convention, InputOf
  <2> QED
    BY <1>4, <2>1 DEF CallInv, SignatureKept, OperandsLoaded
<1>5. ASSUME NEW q \in Qubits, Body(q) PROVE UNCHANGED <<held, kind, args, code, regs, call>>
  BY <1>5 DEF Body, Alloc, Free, Measure, Release, Eprs, EprsMeasure
<1>6. CASE NextBlock \/ UNCHANGED vars
  BY <1>4, <1>6 DEF NextBlock, vars
<1> QED
  BY <1>2, <1>3, <1>4, <1>5, <1>6 DEF Next

(***************************************************************************)
(* The two sides of the call convention agree: every operand is mapped to  *)
(* the register of its own instruction, and the n-th value the host passes *)
(* is the one the routine loads from input n.                              *)
(***************************************************************************)
THEOREM InputsAgree == Spec => []InputsMatch
<1>1. Init => CallInv
  BY NothingLoaded DEF Init, CallInv, SignatureKept
<1>2. IInv /\ CallInv /\ [Next]_vars => CallInv'
  BY CallStep
<1>3. CallInv => InputsMatch
  <2> SUFFICES ASSUME CallInv, NEW k \in DOMAIN regs
               PROVE  regs[k] \in DOMAIN code /\ code[regs[k]].arg = args[k]
    BY DEF InputsMatch, CallInv, OperandsLoaded
  <2>1. kind # "none" /\ k \in DOMAIN args /\ regs[k] = k /\ code = Convention(args)
    BY DEF CallInv, SignatureKept
  <2> QED
    BY <2>1 DEF Convention
<1> QED
  BY <1>1, <1>2, <1>3, TablesAgree, PTL DEF Spec
=============================================================================
