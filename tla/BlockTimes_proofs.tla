------------------------- MODULE BlockTimes_proofs ---------------------------
(***************************************************************************)
(* qoalahost-reorder-blocks implements BlockOrder: for every set of        *)
(* programs whose blocks take time, and whatever optimum the solver        *)
(* returns.  The invariant says what the solver's starts have to do with   *)
(* the references while the blocks are sorted by them.                     *)
(***************************************************************************)
EXTENDS BlockTimes, TLAPS

\* The start of a block is after the starts of the blocks it must follow.
StartsInOrder(s) ==
  \A e \in before : s[e[1]] < s[e[2]]

StartsAreNumbers(s) == \A b \in known : s[b] \in Int

KnownTakeTime == \A b \in known : Length(prog, b) \in Nat \ {0}

OrderInv ==
  /\ prog \in Programs
  /\ known \subseteq Blocks(prog)
  /\ before \subseteq known \X known
  /\ stage \in {"build", "order", "order again"} => order = <<>>
  /\ stage # "failed" => KnownTakeTime
  /\ stage = "sort" => StartsInOrder(starts) /\ StartsAreNumbers(starts)

(***************************************************************************)
(* Every solution of the first integer program starts a block after the    *)
(* blocks it must follow.                                                  *)
(***************************************************************************)
LEMMA SolutionsInOrder ==
  ASSUME prog \in Programs, known \subseteq Blocks(prog), before \subseteq known \X known,
         KnownTakeTime,
         NEW s \in OrderSolutions(prog, known, before)
  PROVE  StartsInOrder(s) /\ StartsAreNumbers(s)
<1> DEFINE M == BigM(prog, known)
<1>1. M \in Int
  <2>1. AllTime(prog, known) \in Nat
    BY LengthsAssumption
  <2>2. HalfWord \in Nat \ {0}
    BY TimesAssumption
  <2> QED
    BY <2>1, <2>2 DEF BigM, Unsigned
<1>2. s \in [known -> 0 .. M]
  BY DEF OrderSolutions, Starts
<1>3. StartsAreNumbers(s)
  <2> SUFFICES ASSUME NEW b \in known PROVE s[b] \in Int
    BY DEF StartsAreNumbers
  <2>1. s[b] \in 0 .. M
    BY <1>2
  <2> HIDE DEF M
  <2> QED
    BY <1>1, <2>1
<1>4. \A e \in before : s[e[2]] - s[e[1]] >= Length(prog, e[1])
  <2> DEFINE follow == {<<d[1], d[2], Length(prog, d[1])>> : d \in before}
  <2>1. \A d \in follow : s[d[2]] - s[d[1]] >= d[3]
    BY DEF OrderSolutions
  <2> TAKE e \in before
  <2>2. <<e[1], e[2], Length(prog, e[1])>> \in follow
    OBVIOUS
  <2> HIDE DEF follow
  <2> DEFINE d == <<e[1], e[2], Length(prog, e[1])>>
  <2>3. s[d[2]] - s[d[1]] >= d[3]
    BY <2>1, <2>2
  <2> QED
    BY <2>3
<1> SUFFICES ASSUME NEW e \in before
             PROVE  s[e[1]] < s[e[2]]
  BY <1>3 DEF StartsInOrder
<1>5. e[1] \in known /\ e[2] \in known
  OBVIOUS
<1>6. Length(prog, e[1]) \in Nat \ {0}
  BY <1>5 DEF KnownTakeTime
<1>7. s[e[1]] \in Int /\ s[e[2]] \in Int
  BY <1>3, <1>5 DEF StartsAreNumbers
<1> QED
  BY <1>4, <1>6, <1>7

\* The optima of a set are in it.
LEMMA BestAmong == ASSUME NEW S, NEW terms PROVE Best(S, terms) \subseteq S
  BY DEF Best

LEMMA OptimaSolve ==
  ASSUME NEW p, NEW given, NEW edges, NEW t, NEW r
  PROVE  /\ PrimaryOptima(p, given, edges) \subseteq OrderSolutions(p, given, edges)
         /\ SecondaryOptima(p, given, edges, t, r) \subseteq OrderSolutions(p, given, edges)
<1>1. PrimaryOptima(p, given, edges) \subseteq OrderSolutions(p, given, edges)
  BY BestAmong DEF PrimaryOptima
<1>2. SecondaryOptima(p, given, edges, t, r) \subseteq OrderSolutions(p, given, edges)
  <2> DEFINE S == {s \in OrderSolutions(p, given, edges) : Cost(LifetimeWeight(p, given), s) = t}
  <2>1. SecondaryOptima(p, given, edges, t, r) \subseteq S
    BY BestAmong DEF SecondaryOptima
  <2> QED
    BY <2>1
<1> QED
  BY <1>1, <1>2

-----------------------------------------------------------------------------
(***************************************************************************)
(* The invariant is inductive.                                             *)
(***************************************************************************)
LEMMA OrderInvInit == Init => OrderInv
  BY DEF Init, OrderInv, KnownTakeTime

\* A block that is added to the known ones takes time, or the pass fails.
LEMMA VisitKeepsOrderInv == OrderInv /\ Visit => OrderInv'
<1> SUFFICES ASSUME OrderInv, Visit PROVE OrderInv'
  OBVIOUS
<1> DEFINE b == visited + 1
<1>1. /\ stage = "build" /\ stage' \in {"build", "failed"}
      /\ b \in Blocks(prog) /\ order' = order /\ prog' = prog
  BY DEF Visit, solving
<1>2. CASE LeftOut(b) /\ UNCHANGED <<stage, known, nops, before, missing>>
  BY <1>1, <1>2 DEF OrderInv, KnownTakeTime
<1>3. CASE /\ ~LeftOut(b) /\ known' = known \cup {b} /\ RecordEdges(b)
           /\ stage' = IF Empty(b) THEN "failed" ELSE "build"
  <2>1. known' \subseteq Blocks(prog)
    BY <1>1, <1>3 DEF OrderInv
  <2>2. before' \subseteq known' \X known'
    BY <1>3 DEF OrderInv, RecordEdges
  <2>3. ASSUME stage' # "failed" PROVE KnownTakeTime'
    <3>1. Length(prog, b) \in Nat \ {0}
      BY <1>1, <1>3, <2>3, LengthsAssumption DEF OrderInv, LeftOut, Returns, Empty
    <3> QED
      BY <1>1, <1>3, <3>1 DEF OrderInv, KnownTakeTime
  <2> QED
    BY <1>1, <2>1, <2>2, <2>3 DEF OrderInv
<1> QED
  BY <1>2, <1>3 DEF Visit

\* The starts that are sorted are those of a solution.
LEMMA SolveKeepsOrderInv == OrderInv /\ (SolveOrder \/ SolveOrderAgain) => OrderInv'
<1> SUFFICES ASSUME OrderInv, SolveOrder \/ SolveOrderAgain PROVE OrderInv'
  OBVIOUS
<1>1. /\ UNCHANGED <<prog, known, before, order>>
      /\ stage \in {"order", "order again"} /\ stage' \in {"sort", "order again"}
      /\ stage' = "sort" => starts' \in OrderSolutions(prog, known, before)
  BY OptimaSolve DEF SolveOrder, SolveOrderAgain, building
<1>2. KnownTakeTime
  BY <1>1 DEF OrderInv
<1>3. ASSUME stage' = "sort" PROVE StartsInOrder(starts') /\ StartsAreNumbers(starts')
  <2>1. starts' \in OrderSolutions(prog, known, before)
    BY <1>1, <1>3
  <2> QED
    BY <1>2, <2>1, SolutionsInOrder DEF OrderInv
<1>4. stage' = "sort" => (StartsInOrder(starts) /\ StartsAreNumbers(starts))'
  BY <1>1, <1>3 DEF StartsInOrder, StartsAreNumbers
<1>5. KnownTakeTime'
  BY <1>1, <1>2 DEF KnownTakeTime
<1> QED
  BY <1>1, <1>4, <1>5 DEF OrderInv

\* Every other step leaves the references and the solution that is sorted alone.
LEMMA OthersKeepOrderInv ==
  ASSUME OrderInv, UNCHANGED <<prog, known, before>>,
         stage = "failed" => stage' = "failed",
         stage' = "sort" => stage = "sort" /\ starts' = starts,
         stage' \in {"build", "order", "order again"} => order' = <<>>
  PROVE  OrderInv'
  BY DEF OrderInv, KnownTakeTime, StartsInOrder, StartsAreNumbers

LEMMA StepKeepsOrderInv == OrderInv /\ [Step \/ Halt]_vars => OrderInv'
<1> SUFFICES ASSUME OrderInv, [Step \/ Halt]_vars PROVE OrderInv'
  OBVIOUS
<1> USE DEF building, solving
<1>1. CASE Visit
  BY <1>1, VisitKeepsOrderInv
<1>2. CASE SolveOrder \/ SolveOrderAgain
  BY <1>2, SolveKeepsOrderInv
<1>3. CASE Built
  BY <1>3, OthersKeepOrderInv DEF Built, Finish, OrderInv
<1>4. CASE SolveOrderFails \/ SolveGapFails \/ Crash
  BY <1>4, OthersKeepOrderInv DEF SolveOrderFails, SolveGapFails, Crash, Finish
<1>5. CASE \E b \in known : TakeNext(b)
  BY <1>5, OthersKeepOrderInv DEF TakeNext
<1>6. CASE Sorted
  BY <1>6, OthersKeepOrderInv DEF Sorted
<1>7. CASE Reorder
  BY <1>7, OthersKeepOrderInv DEF Reorder, MoveRequest, RequestsMoved, MoveOrdered, Moved, Clean
<1>8. CASE SolveGap \/ SolveSpread \/ Annotate
  BY <1>8, OthersKeepOrderInv DEF SolveGap, SolveSpread, Annotate, Clean
<1>9. CASE Halt \/ UNCHANGED vars
  BY <1>9, OthersKeepOrderInv DEF Halt, vars, OrderInv
<1> QED
  BY <1>1, <1>2, <1>3, <1>4, <1>5, <1>6, <1>7, <1>8, <1>9 DEF Step, Solve, Date

-----------------------------------------------------------------------------
(***************************************************************************)
(* A step of the pass is a step of BlockOrder, or none.                    *)
(***************************************************************************)
LEMMA VisitRequires == OrderInv /\ Visit => Order!Require \/ UNCHANGED <<before, order>>
<1> SUFFICES ASSUME OrderInv, Visit, before' # before PROVE Order!Require
  BY DEF Visit, solving
<1>1. order = <<>> /\ order' = order
  BY DEF Visit, OrderInv, solving
<1>2. before \subseteq before'
  BY DEF Visit, RecordEdges
<1>3. before' \subseteq Block \X Block
  <2>1. OrderInv'
    BY VisitKeepsOrderInv
  <2> QED
    BY <2>1 DEF OrderInv, Block
<1> QED
  BY <1>1, <1>2, <1>3 DEF Order!Require

\* A known block that starts no later than any other that is left follows only blocks that were placed.
LEMMA TakeNextPlaces ==
  ASSUME OrderInv, NEW b \in known, TakeNext(b)
  PROVE  b \in Block /\ Order!Place(b)
<1>1. StartsInOrder(starts) /\ StartsAreNumbers(starts)
  BY DEF OrderInv, TakeNext
<1>2. \A e \in before : e[2] = b => e[1] \in Placed
  <2> SUFFICES ASSUME NEW e \in before, e[2] = b, e[1] \notin Placed PROVE FALSE
    OBVIOUS
  <2>1. e[1] \in known
    BY DEF OrderInv
  <2>2. starts[b] <= starts[e[1]]
    BY <2>1 DEF TakeNext, Soonest
  <2>3. starts[e[1]] < starts[b]
    BY <1>1 DEF StartsInOrder
  <2>4. starts[b] \in Int /\ starts[e[1]] \in Int
    BY <1>1, <2>1 DEF StartsAreNumbers
  <2> QED
    BY <2>2, <2>3, <2>4
<1>3. b \in Block
  BY DEF OrderInv, Block
<1>4. b \notin Placed /\ order' = Append(order, b) /\ UNCHANGED before
  BY DEF TakeNext, building
<1> QED
  BY <1>2, <1>3, <1>4 DEF Order!Place, Order!Placed, Placed

LEMMA StepImplementsOrder == OrderInv /\ [Step \/ Halt]_vars => [Order!Next]_<<before, order>>
<1> SUFFICES ASSUME OrderInv, [Step \/ Halt]_vars PROVE [Order!Next]_<<before, order>>
  OBVIOUS
<1> USE DEF building, solving
<1>1. CASE Visit
  BY <1>1, VisitRequires DEF Order!Next
<1>2. CASE \E b \in known : TakeNext(b)
  BY <1>2, TakeNextPlaces DEF Order!Next
<1>3. CASE Built \/ Solve \/ Sorted
  BY <1>3 DEF Built, Finish, Solve, SolveOrder, SolveOrderFails, SolveOrderAgain, Sorted
<1>4. CASE Reorder
  BY <1>4 DEF Reorder, MoveRequest, RequestsMoved, MoveOrdered, Moved
<1>5. CASE Date
  BY <1>5 DEF Date, SolveGap, SolveGapFails, Crash, Finish, SolveSpread, Annotate
<1>6. CASE Halt \/ UNCHANGED vars
  BY <1>6 DEF Halt, vars
<1> QED
  BY <1>1, <1>2, <1>3, <1>4, <1>5, <1>6 DEF Step

(***************************************************************************)
(* The pass puts every block behind those it must follow, in every program *)
(* and for every optimum of the solver (OrderImplemented).                 *)
(***************************************************************************)
THEOREM OrderImplementation == Spec => OrderImplemented
<1>1. Init => Order!Init
  BY DEF Init, Order!Init
<1> QED
  BY <1>1, OrderInvInit, StepKeepsOrderInv, StepImplementsOrder, PTL DEF Spec, OrderImplemented, Order!Spec
=============================================================================
