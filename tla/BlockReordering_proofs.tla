----------------------- MODULE BlockReordering_proofs ------------------------
(***************************************************************************)
(* Theorems about Precedences, for every set of programs that meets        *)
(* ProgramsAssumption, and about BlockReordering, which reads the metadata *)
(* it leaves, for those that also meet ReorderAssumption.  Those about a   *)
(* run of the reordered list assume ClassicalMerges as well: pruning the   *)
(* edges into a merge point that is a call lets it be listed before the    *)
(* branch.                                                                 *)
(***************************************************************************)
EXTENDS BlockReordering, FiniteSetTheorems, WellFoundedInduction, TLAPS

-----------------------------------------------------------------------------
(***************************************************************************)
(* The inductive invariant.  What must precede a block (MustPrecede) does  *)
(* so in the list at every moment, control-flow predecessors included:     *)
(* these never enter deps before the metadata is written, but a move that  *)
(* broke their order could not be seen afterwards.                         *)
(***************************************************************************)
MustPrecede(b) == deps[b] \cup PrevComm(b) \cup PrevEnt(b) \cup CfgPreds(prog, b)

ListInOrder == \A b \in Blocks : \A a \in MustPrecede(b) : pos[a] < pos[b]

PosInjective == \A a, b \in Blocks : pos[a] = pos[b] => a = b

AnchoredInOrder == \A a, b \in Anchored : a < b => pos[a] < pos[b]

\* Nothing moves before the floaters are looked at.
Unmoved == phase \in {"collect", "memory", "merge"} => pos = [b \in Blocks |-> b]

ScanHasBranch == scanning => phase = "floaters" /\ branches # {}

TodoFloats == \A f \in todo : IsFloater(f)

MetaWritten == meta = [b \in Blocks |-> IF phase = "done" THEN MetaOf(b) ELSE NoMeta]

IInv ==
  /\ prog \in Programs
  /\ TypeOK
  /\ PosInjective
  /\ ListInOrder
  /\ AnchoredInOrder
  /\ Unmoved
  /\ ScanHasBranch
  /\ TodoFloats
  /\ MetaWritten

-----------------------------------------------------------------------------
(***************************************************************************)
(* A non-empty set of naturals has a smallest element, which Smallest      *)
(* returns.  Inductions below are by way of a smallest counterexample.     *)
(***************************************************************************)
LEMMA LeastNatural ==
  ASSUME NEW S, S \subseteq Nat, S # {}
  PROVE  \E n \in S : \A m \in S : n <= m
<1> DEFINE R == {r \in Nat \X Nat : r[1] < r[2]}
<1>1. IsWellFoundedOn(R, Nat)
  BY NatLessThanWellFounded DEF OpToRel
<1> HIDE DEF R
<1>2. PICK n \in S : \A m \in S : ~ (<<m, n>> \in R)
  BY <1>1, WFMin
<1>3. ASSUME NEW m \in S PROVE n <= m
  <2>1. m \in Nat /\ n \in Nat
    OBVIOUS
  <2>2. ~ (m < n)
    BY <1>2, <2>1 DEF R
  <2> QED
    BY <2>1, <2>2
<1> QED
  BY <1>3

LEMMA SmallestIsLeast ==
  ASSUME NEW S \in SUBSET Nat, S # {}
  PROVE  Smallest(S) \in S /\ \A x \in S : Smallest(S) <= x
  BY LeastNatural DEF Smallest

(***************************************************************************)
(* The branch the floater loop works on is one of those left.              *)
(***************************************************************************)
LEMMA BranchIsBlock ==
  ASSUME TypeOK, branches # {}
  PROVE  Branch \in Blocks
<1>1. branches \in SUBSET Nat
  BY DEF TypeOK, Blocks, BlocksOf
<1> QED BY <1>1, SmallestIsLeast DEF Branch, TypeOK

(***************************************************************************)
(* Moving f in front of c permutes the positions, keeps the order of all   *)
(* other blocks, and leaves f after what was before c.                     *)
(***************************************************************************)
LEMMA MoveKeepsOrder ==
  ASSUME TypeOK, PosInjective,
         NEW f \in Blocks, NEW c \in Blocks, pos[c] < pos[f]
  PROVE  /\ MovedBefore(f, c) \in [Blocks -> Blocks]
         /\ \A a, b \in Blocks : MovedBefore(f, c)[a] = MovedBefore(f, c)[b] => a = b
         /\ \A a, b \in Blocks : b # f /\ pos[a] < pos[b]
                                  => MovedBefore(f, c)[a] < MovedBefore(f, c)[b]
         /\ \A a \in Blocks : pos[a] < pos[c] => MovedBefore(f, c)[a] < MovedBefore(f, c)[f]
         /\ MovedBefore(f, c)[f] < MovedBefore(f, c)[c]
<1> DEFINE new == MovedBefore(f, c)
<1>1. Blocks = 0 .. prog.last /\ prog.last \in Int /\ pos \in [Blocks -> Blocks]
  BY DEF Blocks, BlocksOf, TypeOK, IsProgram
<1>2. \A b \in Blocks : pos[b] \in Nat /\ pos[b] <= prog.last
  BY <1>1
<1>3. \A b \in Blocks :
        /\ new[b] = IF b = f THEN pos[c]
                    ELSE IF pos[c] <= pos[b] /\ pos[b] < pos[f] THEN pos[b] + 1 ELSE pos[b]
        /\ b # f => pos[b] # pos[f]
  BY DEF MovedBefore, PosInjective
<1>4. new \in [Blocks -> Blocks]
  <2>1. ASSUME NEW b \in Blocks PROVE new[b] \in Nat /\ new[b] <= prog.last
    <3>1. CASE b = f
      BY <1>2, <1>3, <3>1
    <3>2. CASE b # f /\ pos[c] <= pos[b] /\ pos[b] < pos[f]
      <4>1. new[b] = pos[b] + 1
        BY <1>3, <3>2
      <4> QED BY <1>1, <1>2, <3>2, <4>1
    <3>3. CASE b # f /\ ~(pos[c] <= pos[b] /\ pos[b] < pos[f])
      BY <1>2, <1>3, <3>3
    <3> QED BY <3>1, <3>2, <3>3
  <2>2. new \in [Blocks -> 0 .. prog.last]
    BY <2>1, <1>1 DEF MovedBefore
  <2> QED BY <2>2, <1>1
<1>5. \A a, b \in Blocks : b # f /\ pos[a] < pos[b] => new[a] < new[b]
  BY <1>2, <1>3
<1>6. \A a \in Blocks : pos[a] < pos[c] => new[a] < new[f]
  BY <1>2, <1>3
<1>7. new[f] < new[c]
  BY <1>2, <1>3
<1>8. \A a, b \in Blocks : new[a] = new[b] => pos[a] = pos[b]
  BY <1>2, <1>3
<1> QED BY <1>4, <1>5, <1>6, <1>7, <1>8 DEF PosInjective

(***************************************************************************)
(* References to earlier communications and requests name blocks.          *)
(***************************************************************************)
LEMMA PrevAreEarlierBlocks ==
  ASSUME IsProgram(prog), NEW b \in Blocks
  PROVE  /\ PrevComm(b) \subseteq Blocks /\ \A a \in PrevComm(b) : a < b
         /\ PrevEnt(b) \subseteq Blocks /\ \A a \in PrevEnt(b) : a < b
         /\ CfgPreds(prog, b) \subseteq Blocks
BY DEF PrevComm, PrevEnt, PreviousIn, RequestBlocks, CfgPreds, IsProgram, Blocks

(***************************************************************************)
(* The metadata of a block is well-formed.                                 *)
(***************************************************************************)
LEMMA MetaTyped ==
  ASSUME TypeOK, NEW b \in Blocks
  PROVE  MetaOf(b) \in [preds : SUBSET Blocks, deps : SUBSET Blocks,
                        prevComm : SUBSET Blocks, prevEnt : SUBSET Blocks]
<1>1. IsProgram(prog) /\ deps[b] \in SUBSET Blocks
  BY DEF TypeOK
<1>2. MetaPreds(b) \subseteq Blocks
  BY <1>1, PrevAreEarlierBlocks DEF MetaPreds, KeptPreds, InFrontOf
<1>3. PrevComm(b) \subseteq Blocks /\ PrevEnt(b) \subseteq Blocks
  BY <1>1, PrevAreEarlierBlocks
<1> QED BY <1>1, <1>2, <1>3 DEF MetaOf

-----------------------------------------------------------------------------
(***************************************************************************)
(* Initially the list is the source program, and nothing is recorded.      *)
(***************************************************************************)
LEMMA InitEstablishes == Init => IInv
<1> SUFFICES ASSUME Init PROVE IInv
  OBVIOUS
<1>1. prog \in Programs /\ WellFormed(prog)
  BY ProgramsAssumption DEF Init
<1>2. IsProgram(prog) /\ prog.last \in Nat /\ Blocks = 0 .. prog.last
  BY <1>1 DEF WellFormed, IsProgram, Blocks, BlocksOf
<1>3. \A b \in Blocks : pos[b] = b /\ deps[b] = {}
  BY DEF Init
<1>4. NoMeta \in [preds : SUBSET Blocks, deps : SUBSET Blocks,
                  prevComm : SUBSET Blocks, prevEnt : SUBSET Blocks]
  BY DEF NoMeta
<1>5. TypeOK
  BY <1>2, <1>4 DEF Init, TypeOK, Phases
<1>6. PosInjective
  BY <1>3 DEF PosInjective
<1>7. ListInOrder
  <2> SUFFICES ASSUME NEW b \in Blocks, NEW a \in MustPrecede(b) PROVE pos[a] < pos[b]
    BY DEF ListInOrder
  <2>1. a \in Blocks
    BY <1>2, <1>3, PrevAreEarlierBlocks DEF MustPrecede
  <2>2. a \in CfgPreds(prog, b) => a < b
    BY <1>1 DEF WellFormed, CfgPreds, Blocks
  <2>3. a < b
    BY <1>2, <1>3, <2>2, PrevAreEarlierBlocks DEF MustPrecede
  <2> QED BY <1>3, <2>1, <2>3
<1>8. AnchoredInOrder
  BY <1>2, <1>3 DEF AnchoredInOrder, Anchored, IsProgram, Blocks
<1> QED
  BY <1>1, <1>5, <1>6, <1>7, <1>8 DEF IInv, Init, ScanHasBranch, Unmoved, TodoFloats, MetaWritten

(***************************************************************************)
(* A step that moves nothing and changes deps only by adding dependencies  *)
(* on earlier blocks, or by removing some, keeps the list in order.        *)
(***************************************************************************)
LEMMA SameListStaysInOrder ==
  ASSUME IInv, UNCHANGED <<prog, pos>>,
         \A b \in Blocks : \A d \in deps'[b] : d \in deps[b] \/ pos[d] < pos[b]
  PROVE  PosInjective' /\ ListInOrder' /\ AnchoredInOrder'
<1>1. Blocks' = Blocks /\ Anchored' = Anchored
  BY DEF Blocks, Anchored
<1>2. \A b : PrevComm(b)' = PrevComm(b) /\ PrevEnt(b)' = PrevEnt(b)
  BY DEF PrevComm, PrevEnt
<1>3. ListInOrder'
  <2> SUFFICES ASSUME NEW b \in Blocks, NEW a \in MustPrecede(b)' PROVE pos[a] < pos[b]
    BY <1>1 DEF ListInOrder
  <2>1. a \in MustPrecede(b) \/ pos[a] < pos[b]
    BY <1>2 DEF MustPrecede
  <2> QED BY <2>1 DEF IInv, ListInOrder
<1> QED BY <1>1, <1>3 DEF IInv, PosInjective, AnchoredInOrder

(***************************************************************************)
(* Data and memory dependencies point backward in the source program, and  *)
(* so, the list being unmoved, does what is propagated at a merge point.   *)
(***************************************************************************)
LEMMA CollectKeepsInv == IInv /\ CollectDataDeps => IInv'
<1> SUFFICES ASSUME IInv, CollectDataDeps PROVE IInv'
  OBVIOUS
<1>1. Blocks' = Blocks
  BY DEF CollectDataDeps, Blocks
<1>2. WellFormed(prog) /\ IsProgram(prog) /\ pos = [b \in Blocks |-> b]
  BY ProgramsAssumption DEF IInv, TypeOK, Unmoved, CollectDataDeps
<1>3. \A b \in Blocks : DataDeps(b) \subseteq Blocks /\ \A d \in DataDeps(b) : d < b
  <2> SUFFICES ASSUME NEW b \in Blocks PROVE DataDeps(b) \subseteq Blocks /\ \A d \in DataDeps(b) : d < b
    OBVIOUS
  <2>1. b \in Nat /\ 0 \in Blocks
    BY <1>2 DEF IsProgram, Blocks, BlocksOf
  <2>2. prog.uses[b] \subseteq Blocks /\ \A d \in prog.uses[b] : d < b
    BY <1>2 DEF IsProgram, WellFormed, Blocks
  <2>3. b \in prog.comm => 0 < b
    BY <1>2, <2>1 DEF WellFormed
  <2> QED BY <2>1, <2>2, <2>3 DEF DataDeps
<1>4. \A b \in Blocks : \A d \in deps'[b] : d \in deps[b] \/ pos[d] < pos[b]
  BY <1>2, <1>3 DEF CollectDataDeps
<1>5. PosInjective' /\ ListInOrder' /\ AnchoredInOrder'
  BY <1>4, SameListStaysInOrder DEF CollectDataDeps
<1>6. TypeOK'
  BY <1>1, <1>3 DEF IInv, TypeOK, CollectDataDeps, Phases
<1> QED
  BY <1>1, <1>5, <1>6 DEF IInv, ScanHasBranch, Unmoved, TodoFloats, IsFloater, RequestBlocks, MetaWritten, CollectDataDeps

(***************************************************************************)
(* Memory dependencies follow the order of the callees, which is the order *)
(* of the calls: they point backward too.                                  *)
(***************************************************************************)
LEMMA MemoryKeepsInv == IInv /\ ResolveMemorySideEffects => IInv'
<1> SUFFICES ASSUME IInv, ResolveMemorySideEffects PROVE IInv'
  OBVIOUS
<1>1. Blocks' = Blocks
  BY DEF ResolveMemorySideEffects, Blocks
<1>2. CalleesInCallOrder(prog) /\ pos = [b \in Blocks |-> b]
  BY ProgramsAssumption DEF IInv, ScanHasBranch, Unmoved, ResolveMemorySideEffects
<1>3. \A b \in Blocks : MemoryDeps(b) \subseteq Blocks /\ \A d \in MemoryDeps(b) : d < b
  BY <1>2 DEF MemoryDeps, CalleesInCallOrder, Blocks
<1>4. \A b \in Blocks : \A d \in deps'[b] : d \in deps[b] \/ pos[d] < pos[b]
  BY <1>2, <1>3 DEF ResolveMemorySideEffects
<1>5. PosInjective' /\ ListInOrder' /\ AnchoredInOrder'
  BY <1>4, SameListStaysInOrder DEF ResolveMemorySideEffects
<1>6. TypeOK'
  BY <1>1, <1>3 DEF IInv, TypeOK, ResolveMemorySideEffects, Phases
<1> QED
  BY <1>1, <1>5, <1>6 DEF IInv, ScanHasBranch, Unmoved, TodoFloats, IsFloater, RequestBlocks, MetaWritten, ResolveMemorySideEffects

(***************************************************************************)
(* What is propagated at a merge point stands before the block it is handed *)
(* to.                                                                     *)
(***************************************************************************)
LEMMA MergeKeepsInv == IInv /\ PropagateMergePoint => IInv'
<1> SUFFICES ASSUME IInv, PropagateMergePoint PROVE IInv'
  OBVIOUS
<1>1. Blocks' = Blocks
  BY DEF PropagateMergePoint, Blocks
<1>2. cursor \in Blocks
  BY DEF IInv, TypeOK, PropagateMergePoint, IsProgram, Blocks, BlocksOf
<1>3. \A x : PropagatedTo(x, cursor) \subseteq Blocks /\ \A d \in PropagatedTo(x, cursor) : pos[d] < pos[x]
  BY <1>2 DEF PropagatedTo, IInv, TypeOK
<1>4. \A b \in Blocks : \A d \in deps'[b] : d \in deps[b] \/ pos[d] < pos[b]
  BY <1>3 DEF PropagateMergePoint
<1>5. PosInjective' /\ ListInOrder' /\ AnchoredInOrder'
  BY <1>4, SameListStaysInOrder DEF PropagateMergePoint
<1>6. TypeOK'
  <2>1. deps' \in [Blocks -> SUBSET Blocks]
    BY <1>3 DEF IInv, TypeOK, PropagateMergePoint
  <2> QED BY <1>1, <2>1 DEF IInv, TypeOK, PropagateMergePoint
<1> QED
  BY <1>1, <1>5, <1>6 DEF IInv, ScanHasBranch, Unmoved, TodoFloats, IsFloater, RequestBlocks, MetaWritten, PropagateMergePoint

-----------------------------------------------------------------------------
(***************************************************************************)
(* The steps of the floater loop that move nothing.                        *)
(***************************************************************************)
LEMMA BookkeepingKeepsInv ==
  IInv /\ (CollectBranches \/ BeginScan \/ NextBranch \/ EndFloaters \/ EndReduction) => IInv'
<1> SUFFICES ASSUME IInv, CollectBranches \/ BeginScan \/ NextBranch \/ EndFloaters \/ EndReduction
             PROVE  IInv'
  OBVIOUS
<1> USE DEF CollectBranches, BeginScan, NextBranch, EndFloaters, EndReduction
<1>1. UNCHANGED <<prog, online, pos, deps, meta>> /\ phase' \notin {"collect", "memory", "merge", "done"}
      /\ phase # "done" /\ Blocks' = Blocks
  BY DEF Blocks
<1>2. PosInjective' /\ ListInOrder' /\ AnchoredInOrder'
  BY <1>1, SameListStaysInOrder
<1>3. TypeOK'
  BY <1>1 DEF IInv, TypeOK, Phases, CondBlocks, Blocks
<1>4. TodoFloats'
  BY <1>1 DEF IInv, TodoFloats, IsFloater, RequestBlocks
<1>5. MetaWritten'
  BY <1>1 DEF IInv, MetaWritten
<1> QED BY <1>1, <1>2, <1>3, <1>4, <1>5 DEF IInv, ScanHasBranch, Unmoved

(***************************************************************************)
(* A floater in front of the branch becomes a dependency on an earlier     *)
(* block; one that cannot be moved is left.                                *)
(***************************************************************************)
LEMMA PinKeepsInv ==
  ASSUME IInv, phase = "floaters", scanning, NEW f \in todo, PinFloater(f) \/ LeaveFloater(f)
  PROVE  IInv'
<1>1. Branch \in Blocks /\ f \in Blocks /\ Blocks' = Blocks
  BY BranchIsBlock DEF IInv, ScanHasBranch, TypeOK, Blocks, PinFloater, LeaveFloater
<1>2. deps' \in [Blocks -> SUBSET Blocks] /\ \A b \in Blocks : \A d \in deps'[b] : d \in deps[b] \/ pos[d] < pos[b]
  <2>1. deps \in [Blocks -> SUBSET Blocks]
    BY DEF IInv, TypeOK
  <2>2. CASE PinFloater(f)
    <3>1. deps' = [deps EXCEPT ![Branch] = @ \cup {f}] /\ pos[f] < pos[Branch]
      BY <2>2 DEF PinFloater
    <3> QED BY <1>1, <2>1, <3>1
  <2>3. CASE LeaveFloater(f)
    BY <2>1, <2>3 DEF LeaveFloater
  <2> QED BY <2>2, <2>3
<1> /\ UNCHANGED <<prog, online, pos, phase, cursor, branches, scanning, before, reduced, meta>>
    /\ todo' = todo \ {f}
  BY DEF PinFloater, LeaveFloater
<1>3. PosInjective' /\ ListInOrder' /\ AnchoredInOrder'
  BY <1>2, SameListStaysInOrder
<1>4. TypeOK'
  BY <1>1, <1>2 DEF IInv, TypeOK
<1>5. TodoFloats'
  BY DEF IInv, TodoFloats, IsFloater, RequestBlocks
<1>6. MetaWritten'
  BY <1>1 DEF IInv, MetaWritten
<1> QED BY <1>1, <1>3, <1>4, <1>5, <1>6 DEF IInv, ScanHasBranch, Unmoved

(***************************************************************************)
(* A floater is moved in front of the branch only when all it must follow  *)
(* is there already; having no control-flow predecessor, it is no anchor.  *)
(***************************************************************************)
LEMMA MoveKeepsInv ==
  ASSUME IInv, phase = "floaters", scanning, NEW f \in todo, MoveFloater(f)
  PROVE  IInv'
<1> DEFINE c == Branch
<1>1. c \in Blocks /\ f \in Blocks /\ Blocks' = Blocks /\ Anchored' = Anchored
  BY BranchIsBlock DEF IInv, ScanHasBranch, TypeOK, Blocks, Anchored, MoveFloater
<1>2. pos[c] < pos[f]
  BY <1>1 DEF MoveFloater, IInv, TypeOK, IsProgram, Blocks, BlocksOf
<1>3. /\ pos' \in [Blocks -> Blocks]
      /\ \A a, b \in Blocks : pos'[a] = pos'[b] => a = b
      /\ \A a, b \in Blocks : b # f /\ pos[a] < pos[b] => pos'[a] < pos'[b]
      /\ \A a \in Blocks : pos[a] < pos[c] => pos'[a] < pos'[f]
      /\ pos'[f] < pos'[c]
  <2> HIDE DEF c
  <2>1. pos' = MovedBefore(f, c)
    BY DEF MoveFloater, c
  <2> QED BY <1>1, <1>2, <2>1, MoveKeepsOrder DEF IInv
<1>4. CfgPreds(prog, f) = {} /\ f \notin prog.glue
  BY DEF IInv, TodoFloats, IsFloater
<1>5. TypeOK'
  <2>1. deps' \in [Blocks -> SUBSET Blocks]
    BY <1>1 DEF IInv, TypeOK, MoveFloater
  <2> QED BY <1>1, <1>3, <2>1 DEF IInv, TypeOK, MoveFloater
<1>6. PosInjective'
  BY <1>1, <1>3 DEF PosInjective
<1>7. ListInOrder'
  <2> SUFFICES ASSUME NEW b \in Blocks, NEW a \in MustPrecede(b)' PROVE pos'[a] < pos'[b]
    BY <1>1 DEF ListInOrder
  <2>1. a \in MustPrecede(b) \/ (a = f /\ b = c)
    BY <1>1 DEF MustPrecede, MoveFloater, PrevComm, PrevEnt, IInv, TypeOK
  <2>2. CASE a = f /\ b = c
    BY <1>3, <2>2
  <2>3. CASE a \in MustPrecede(b)
    <3>1. a \in Blocks /\ pos[a] < pos[b]
      BY <2>3, PrevAreEarlierBlocks DEF IInv, TypeOK, ListInOrder, MustPrecede
    <3>2. CASE b # f
      BY <1>3, <3>1, <3>2
    <3>3. CASE b = f
      <4>1. pos[a] < pos[c]
        BY <1>4, <2>3, <3>3 DEF MustPrecede, MoveFloater, CanMove
      <4> QED BY <1>3, <3>1, <3>3, <4>1
    <3> QED BY <3>2, <3>3
  <2> QED BY <2>1, <2>2, <2>3
<1>8. AnchoredInOrder'
  <2> SUFFICES ASSUME NEW a \in Anchored, NEW b \in Anchored, a < b PROVE pos'[a] < pos'[b]
    BY <1>1 DEF AnchoredInOrder
  <2>1. a \in Blocks /\ b \in Blocks /\ b # f
    BY <1>4 DEF Anchored, IInv, TypeOK, IsProgram, Blocks
  <2>2. pos[a] < pos[b]
    BY DEF IInv, AnchoredInOrder
  <2> QED BY <1>3, <2>1, <2>2
<1>9. MetaWritten'
  BY <1>1 DEF IInv, MetaWritten, MoveFloater
<1> QED BY <1>5, <1>6, <1>7, <1>8, <1>9 DEF IInv, ScanHasBranch, Unmoved, TodoFloats, MoveFloater

-----------------------------------------------------------------------------
(***************************************************************************)
(* The reduction only removes dependencies.                                *)
(***************************************************************************)
LEMMA ReductionKeepsInv == IInv /\ TransitiveReduction => IInv'
<1> SUFFICES ASSUME IInv, phase = "reduce", NEW b0 \in Reducible, ReduceBlock(b0) PROVE IInv'
  BY DEF TransitiveReduction
<1> USE DEF ReduceBlock
<1>1. b0 \in Blocks /\ Blocks' = Blocks
  BY DEF Reducible, Blocks
<1>2. \A b \in Blocks : deps'[b] \subseteq deps[b]
  BY DEF IInv, TypeOK
<1>3. PosInjective' /\ ListInOrder' /\ AnchoredInOrder'
  BY <1>2, SameListStaysInOrder
<1>4. TypeOK'
  <2>1. deps' \in [Blocks -> SUBSET Blocks]
    BY <1>2, <1>1 DEF IInv, TypeOK
  <2> QED BY <1>1, <2>1 DEF IInv, TypeOK
<1>5. TodoFloats'
  BY DEF IInv, TodoFloats, IsFloater, RequestBlocks
<1>6. MetaWritten'
  BY <1>1 DEF IInv, MetaWritten
<1> QED BY <1>3, <1>4, <1>5, <1>6 DEF IInv, ScanHasBranch, Unmoved

(***************************************************************************)
(* The references written into blk_meta are blocks that must precede, or the *)
(* block in front.                                                         *)
(***************************************************************************)
LEMMA EmitKeepsInv == IInv /\ EmitMeta => IInv'
<1> SUFFICES ASSUME IInv, EmitMeta PROVE IInv'
  OBVIOUS
<1> USE DEF EmitMeta
<1>1. Blocks' = Blocks
  BY DEF Blocks
<1>2. PosInjective' /\ ListInOrder' /\ AnchoredInOrder'
  BY SameListStaysInOrder
<1>3. TypeOK'
  <2>1. \A b \in Blocks : MetaOf(b) \in [preds : SUBSET Blocks, deps : SUBSET Blocks,
                                         prevComm : SUBSET Blocks, prevEnt : SUBSET Blocks]
    BY MetaTyped DEF IInv
  <2> QED BY <1>1, <2>1 DEF IInv, TypeOK, Phases
<1>4. TodoFloats'
  BY DEF IInv, TodoFloats, IsFloater, RequestBlocks
<1>5. MetaWritten'
  <2>1. \A b : MetaOf(b)' = MetaOf(b)
    BY <1>1 DEF MetaOf, MetaPreds, KeptPreds, PrunedPred, InFrontOf, PrevComm, PrevEnt
  <2> QED BY <1>1, <2>1 DEF MetaWritten
<1> QED BY <1>2, <1>3, <1>4, <1>5 DEF IInv, ScanHasBranch, Unmoved

-----------------------------------------------------------------------------
(***************************************************************************)
(* Every step of the pass keeps the inductive invariant.                   *)
(***************************************************************************)
LEMMA NextKeepsInv == IInv /\ [Next]_vars => IInv'
<1> SUFFICES ASSUME IInv, [Next]_vars PROVE IInv'
  OBVIOUS
<1>1. CASE CollectDataDeps
  BY <1>1, CollectKeepsInv
<1>2. CASE ResolveMemorySideEffects
  BY <1>2, MemoryKeepsInv
<1>3. CASE PropagateMergePoint
  BY <1>3, MergeKeepsInv
<1>4. CASE CollectBranches \/ BeginScan \/ NextBranch \/ EndFloaters \/ EndReduction
  BY <1>4, BookkeepingKeepsInv
<1>5. CASE VisitFloater
  <2>1. PICK f \in todo : PinFloater(f) \/ MoveFloater(f) \/ LeaveFloater(f)
    BY <1>5 DEF VisitFloater
  <2>2. phase = "floaters" /\ scanning
    BY <1>5 DEF VisitFloater
  <2> QED BY <2>1, <2>2, PinKeepsInv, MoveKeepsInv
<1>6. CASE TransitiveReduction
  BY <1>6, ReductionKeepsInv
<1>7. CASE EmitMeta
  BY <1>7, EmitKeepsInv
<1>8. CASE UNCHANGED vars
  <2>1. Blocks' = Blocks /\ Anchored' = Anchored
    BY <1>8 DEF vars, Blocks, Anchored
  <2>2. PosInjective' /\ ListInOrder' /\ AnchoredInOrder'
    BY <1>8, SameListStaysInOrder DEF vars
  <2>3. \A b : MetaOf(b)' = MetaOf(b)
    BY <1>8, <2>1 DEF vars, MetaOf, MetaPreds, KeptPreds, PrunedPred, InFrontOf, PrevComm, PrevEnt
  <2>4. MetaWritten'
    BY <1>8, <2>1, <2>3 DEF vars, IInv, MetaWritten
  <2>5. TypeOK'
    BY <1>8, <2>1 DEF vars, IInv, TypeOK
  <2>6. TodoFloats' /\ Unmoved' /\ ScanHasBranch'
    BY <1>8, <2>1 DEF vars, IInv, TodoFloats, IsFloater, RequestBlocks, Unmoved, ScanHasBranch
  <2> QED BY <1>8, <2>2, <2>4, <2>5, <2>6 DEF vars, IInv
<1> QED BY <1>1, <1>2, <1>3, <1>4, <1>5, <1>6, <1>7, <1>8 DEF Next

(***************************************************************************)
(* The inductive invariant holds in every state of the pass.               *)
(***************************************************************************)
THEOREM PrecedencesInv == Spec => []IInv
<1> QED BY InitEstablishes, NextKeepsInv, PTL DEF Spec

(***************************************************************************)
(* For every program, positions, dependencies, floaters and references     *)
(* stay within the blocks of the main function.                            *)
(***************************************************************************)
THEOREM TypeCorrect == Spec => []TypeOK
<1>1. IInv => TypeOK
  BY DEF IInv
<1> QED BY <1>1, PrecedencesInv, PTL

(***************************************************************************)
(* References name what must precede a block, or the block in front of it. *)
(***************************************************************************)
LEMMA ReferencesBackward == IInv => ReferencesPointBackward
<1> SUFFICES ASSUME IInv, NEW b \in Blocks, NEW r \in References(b) PROVE pos[r] < pos[b]
  BY DEF ReferencesPointBackward
<1>1. CASE phase # "done"
  BY <1>1 DEF IInv, MetaWritten, References, NoMeta
<1>2. CASE phase = "done"
  <2>1. meta[b] = MetaOf(b)
    BY <1>2 DEF IInv, MetaWritten
  <2>2. r \in MetaPreds(b) \cup MustPrecede(b)
    BY <2>1 DEF References, MetaOf, MustPrecede
  <2>3. CASE r \in MustPrecede(b)
    BY <2>3 DEF IInv, ListInOrder
  <2>4. CASE r \in InFrontOf(b)
    <3>1. pos[b] \in Int
      <4>1. pos[b] \in 0 .. prog.last /\ prog.last \in Int
        BY DEF IInv, TypeOK, IsProgram, Blocks, BlocksOf
      <4> QED BY <4>1
    <3> QED BY <2>4, <3>1 DEF InFrontOf
  <2> QED BY <2>2, <2>3, <2>4 DEF MetaPreds, KeptPreds, MustPrecede
<1> QED BY <1>1, <1>2

(***************************************************************************)
(* For every program, and whichever floaters are moved in whichever order, *)
(* the metadata of a block names only blocks in front of it.               *)
(***************************************************************************)
THEOREM ReferencesCorrect == Spec => []ReferencesPointBackward
<1> QED BY ReferencesBackward, PrecedencesInv, PTL

(***************************************************************************)
(* For every program, a step leaves jump targets and jumps in their order. *)
(***************************************************************************)
THEOREM AnchorsStay == Spec => JumpTargetsStay
<1>1. IInv' => (\A a, b \in Anchored' : a < b => pos'[a] < pos'[b])
  BY DEF IInv, AnchoredInOrder
<1>2. [Next]_vars => Anchored' = Anchored
  BY DEF Next, vars, Anchored, Blocks, CollectDataDeps, ResolveMemorySideEffects, PropagateMergePoint,
         CollectBranches, BeginScan, VisitFloater, PinFloater, MoveFloater, LeaveFloater, NextBranch,
         EndFloaters, TransitiveReduction, ReduceBlock, EndReduction, EmitMeta
<1>3. IInv' /\ [Next]_vars => [\A a, b \in Anchored : a < b => pos'[a] < pos'[b]]_pos
  BY <1>1, <1>2
<1> QED BY <1>3, PrecedencesInv, PTL DEF Spec, JumpTargetsStay

-----------------------------------------------------------------------------
(***************************************************************************)
(* The recursive function in Closure exists: each of its initial parts     *)
(* does, and two of them agree.                                            *)
(***************************************************************************)
OneStep(d, g) == [b \in DOMAIN d |-> g[b] \cup UNION {d[a] : a \in g[b]}]

IsPart(d, n, f) ==
  /\ f = [k \in 0 .. n |-> f[k]]
  /\ f[0] = d
  /\ \A k \in 1 .. n : f[k] = OneStep(d, f[k - 1])

LEMMA PartExists ==
  ASSUME NEW d, NEW n \in Nat
  PROVE  \E f : IsPart(d, n, f)
<1> DEFINE Bad == {k \in Nat : ~ \E f : IsPart(d, k, f)}
<1> SUFFICES Bad = {}
  OBVIOUS
<1> SUFFICES ASSUME Bad # {} PROVE FALSE
  OBVIOUS
<1>1. PICK k \in Bad : \A m \in Bad : k <= m
  BY LeastNatural
<1>2. CASE k = 0
  <2> DEFINE f == [i \in 0 .. 0 |-> d]
  <2>1. IsPart(d, 0, f)
    BY DEF IsPart
  <2> QED
    BY <1>2, <2>1
<1>3. CASE k # 0
  <2>1. k - 1 \in Nat /\ k - 1 \notin Bad
    BY <1>1, <1>3
  <2>2. PICK f : IsPart(d, k - 1, f)
    BY <2>1
  <2> DEFINE g == [i \in 0 .. k |-> IF i = k THEN OneStep(d, f[k - 1]) ELSE f[i]]
  <2>3. g[0] = d
    BY <1>3, <2>2 DEF IsPart
  <2>4. \A i \in 1 .. k : g[i] = OneStep(d, g[i - 1])
    <3> TAKE i \in 1 .. k
    <3>1. CASE i = k
      BY <2>1, <3>1
    <3>2. CASE i # k
      <4>1. i \in 1 .. k - 1 /\ i - 1 \in 0 .. k /\ i - 1 # k
        BY <2>1, <3>2
      <4>2. f[i] = OneStep(d, f[i - 1])
        BY <2>2, <4>1 DEF IsPart
      <4> QED
        BY <3>2, <4>1, <4>2
    <3> QED
      BY <3>1, <3>2
  <2>5. g = [i \in 0 .. k |-> g[i]]
    OBVIOUS
  <2>6. IsPart(d, k, g)
    <3> HIDE DEF g
    <3> QED
      BY <2>3, <2>4, <2>5 DEF IsPart
  <2> QED
    BY <2>6
<1> QED
  BY <1>2, <1>3

LEMMA PartsAgree ==
  ASSUME NEW d, NEW n \in Nat, NEW m \in Nat, NEW f, IsPart(d, n, f), NEW g, IsPart(d, m, g),
         NEW i \in Nat, i <= n, i <= m
  PROVE  f[i] = g[i]
<1> DEFINE Bad == {k \in Nat : k <= n /\ k <= m /\ f[k] # g[k]}
<1> SUFFICES ASSUME Bad # {} PROVE FALSE
  OBVIOUS
<1>1. PICK k \in Bad : \A j \in Bad : k <= j
  BY LeastNatural
<1>2. CASE k = 0
  BY <1>2 DEF IsPart
<1>3. CASE k # 0
  <2>1. k \in 1 .. n /\ k \in 1 .. m /\ k - 1 \in Nat /\ k - 1 \notin Bad
    BY <1>1, <1>3
  <2>2. f[k - 1] = g[k - 1]
    BY <2>1
  <2> QED
    BY <2>1, <2>2 DEF IsPart
<1> QED
  BY <1>2, <1>3

LEMMA ClosureUnfolds ==
  ASSUME NEW d, NEW n \in Nat
  PROVE  /\ Closure(d, 0) = d
         /\ Closure(d, n + 1) = OneStep(d, Closure(d, n))
<1> DEFINE part(k) == CHOOSE f : IsPart(d, k, f)
           F == [k \in Nat |-> part(k)[k]]
           Rec(h) == [k \in Nat |-> IF k = 0 THEN d ELSE OneStep(d, h[k - 1])]
           G == CHOOSE h : h = Rec(h)
<1>1. \A k \in Nat : IsPart(d, k, part(k))
  BY PartExists
<1>2. F[0] = d
  BY <1>1 DEF IsPart
<1>3. ASSUME NEW k \in Nat \ {0} PROVE F[k] = OneStep(d, F[k - 1])
  <2>1. k - 1 \in Nat /\ k \in 1 .. k
    OBVIOUS
  <2>2. part(k)[k] = OneStep(d, part(k)[k - 1])
    BY <1>1, <2>1 DEF IsPart
  <2>3. part(k)[k - 1] = part(k - 1)[k - 1]
    <3> HIDE DEF part
    <3> QED
      BY <1>1, <2>1, PartsAgree
  <2> QED
    BY <2>1, <2>2, <2>3
<1>4. F = Rec(F)
  <2> HIDE DEF part
  <2>1. \A k \in Nat : F[k] = IF k = 0 THEN d ELSE OneStep(d, F[k - 1])
    BY <1>2, <1>3
  <2>2. F = [k \in Nat |-> F[k]]
    OBVIOUS
  <2> HIDE DEF F
  <2> QED
    BY <2>1, <2>2
<1> HIDE DEF F
<1>5. G = Rec(G)
  BY <1>4
<1>6. \A k \in Nat : Closure(d, k) = G[k]
  BY DEF Closure, OneStep
<1> HIDE DEF G
<1>7. G[0] = d
  BY <1>5
<1>8. G[n + 1] = OneStep(d, G[n])
  <2>1. n + 1 \in Nat /\ n + 1 # 0 /\ (n + 1) - 1 = n
    OBVIOUS
  <2>2. G[n + 1] = Rec(G)[n + 1]
    BY <1>5
  <2> QED
    BY <2>1, <2>2
<1> QED
  BY <1>6, <1>7, <1>8

-----------------------------------------------------------------------------
(***************************************************************************)
(* What b leads to along d in any number of steps.  When d follows the     *)
(* positions of the list, that is what Closure computes.                   *)
(***************************************************************************)
Reach(d, b) ==
  {a \in Blocks : \A S \in SUBSET Blocks : d[b] \subseteq S /\ (\A x \in S : d[x] \subseteq S) => a \in S}

IsDeps(d) == d \in [Blocks -> SUBSET Blocks] /\ \A b \in Blocks : \A a \in d[b] : pos[a] < pos[b]

LEMMA ReachGrows ==
  ASSUME NEW d \in [Blocks -> SUBSET Blocks], NEW b \in Blocks
  PROVE  /\ Reach(d, b) \subseteq Blocks
         /\ d[b] \subseteq Reach(d, b)
         /\ \A x \in Reach(d, b) : d[x] \subseteq Reach(d, b)
  BY DEF Reach

LEMMA ReachIsLeast ==
  ASSUME NEW d, NEW b \in Blocks,
         NEW S \in SUBSET Blocks, d[b] \subseteq S, \A x \in S : d[x] \subseteq S
  PROVE  Reach(d, b) \subseteq S
  BY DEF Reach

LEMMA ReachIsTransitive ==
  ASSUME NEW d \in [Blocks -> SUBSET Blocks], NEW b \in Blocks, NEW x \in Reach(d, b)
  PROVE  Reach(d, x) \subseteq Reach(d, b)
<1>1. x \in Blocks
  BY ReachGrows
<1>2. d[x] \subseteq Reach(d, b) /\ Reach(d, b) \in SUBSET Blocks
  BY ReachGrows
<1> QED
  BY <1>1, <1>2, ReachGrows, ReachIsLeast

\* More dependencies lead further.
LEMMA ReachIsMonotonic ==
  ASSUME NEW d, NEW e \in [Blocks -> SUBSET Blocks], \A b \in Blocks : d[b] \subseteq e[b], NEW b \in Blocks
  PROVE  Reach(d, b) \subseteq Reach(e, b)
<1>1. Reach(e, b) \in SUBSET Blocks /\ d[b] \subseteq Reach(e, b)
  BY ReachGrows
<1>2. \A x \in Reach(e, b) : d[x] \subseteq Reach(e, b)
  BY <1>1, ReachGrows
<1> QED
  BY <1>1, <1>2, ReachIsLeast

LEMMA ClosureInReach ==
  ASSUME NEW d \in [Blocks -> SUBSET Blocks], NEW n \in Nat
  PROVE  /\ DOMAIN Closure(d, n) = Blocks
         /\ \A b \in Blocks : Closure(d, n)[b] \subseteq Reach(d, b)
<1> DEFINE Ok(k) == /\ DOMAIN Closure(d, k) = Blocks
                   /\ \A b \in Blocks : Closure(d, k)[b] \subseteq Reach(d, b)
           Bad == {k \in Nat : ~Ok(k)}
<1> SUFFICES ASSUME Bad # {} PROVE FALSE
  OBVIOUS
<1>1. PICK k \in Bad : \A j \in Bad : k <= j
  BY LeastNatural
<1>2. CASE k = 0
  BY <1>2, ClosureUnfolds, ReachGrows
<1>3. CASE k # 0
  <2>1. k - 1 \in Nat /\ (k - 1) + 1 = k /\ k - 1 \notin Bad
    BY <1>1, <1>3
  <2>2. Ok(k - 1)
    BY <2>1
  <2>3. Closure(d, k) = OneStep(d, Closure(d, k - 1))
    BY <2>1, ClosureUnfolds
  <2> DEFINE g == Closure(d, k - 1)
  <2>4. \A b \in Blocks : Closure(d, k)[b] = g[b] \cup UNION {d[a] : a \in g[b]}
    BY <2>3 DEF OneStep
  <2>5. DOMAIN Closure(d, k) = Blocks
    BY <2>3 DEF OneStep
  <2> HIDE DEF g
  <2>6. \A b \in Blocks : g[b] \subseteq Reach(d, b)
    BY <2>2 DEF g
  <2>7. \A b \in Blocks : Closure(d, k)[b] \subseteq Reach(d, b)
    BY <2>4, <2>6, ReachGrows
  <2> QED
    BY <2>5, <2>7
<1> QED
  BY <1>2, <1>3

\* What b leads to is met after at most as many steps as it stands in front of b.
LEMMA ReachInSteps ==
  ASSUME TypeOK, NEW d, IsDeps(d), NEW b \in Blocks, NEW n \in Nat
  PROVE  \A x \in Reach(d, b) : pos[x] < pos[b] - (n + 1) \/ x \in Closure(d, n)[b]
<1>0. d \in [Blocks -> SUBSET Blocks] /\ \A x \in Blocks : pos[x] \in Int
  <2>1. \A x \in Blocks : pos[x] \in 0 .. prog.last
    BY DEF TypeOK, Blocks, BlocksOf
  <2> QED
    BY <2>1 DEF IsDeps, TypeOK, IsProgram
<1> DEFINE Met(k) == {x \in Blocks : pos[x] < pos[b] - (k + 1) \/ x \in Closure(d, k)[b]}
           Bad == {k \in Nat : ~(Reach(d, b) \subseteq Met(k))}
<1> SUFFICES ASSUME Bad # {} PROVE FALSE
  <2>1. Reach(d, b) \subseteq Met(n)
    OBVIOUS
  <2> QED
    BY <2>1
<1>1. PICK k \in Bad : \A j \in Bad : k <= j
  BY LeastNatural
<1>2. \A x \in Blocks : \A y \in d[x] : y \in Blocks /\ pos[y] < pos[x] /\ pos[y] \in Int /\ pos[x] \in Int
  BY <1>0 DEF IsDeps
<1>3. Met(k) \in SUBSET Blocks
  OBVIOUS
<1>4. d[b] \subseteq Met(k) /\ \A x \in Met(k) : d[x] \subseteq Met(k)
  <2>1. CASE k = 0
    <3>1. Closure(d, k)[b] = d[b]
      BY <2>1, ClosureUnfolds
    <3>2. \A x \in Met(k) : \A y \in d[x] : pos[y] < pos[b] - (k + 1)
      BY <1>0, <1>2, <2>1, <3>1
    <3> QED
      BY <1>0, <1>2, <3>1, <3>2
  <2>2. CASE k # 0
    <3>1. k - 1 \in Nat /\ (k - 1) + 1 = k /\ k - 1 \notin Bad
      BY <1>1, <2>2
    <3>2. Reach(d, b) \subseteq Met(k - 1)
      BY <3>1
    <3>3. Closure(d, k) = OneStep(d, Closure(d, k - 1))
      BY <3>1, ClosureUnfolds
    <3>4. Closure(d, k)[b] = Closure(d, k - 1)[b] \cup UNION {d[a] : a \in Closure(d, k - 1)[b]}
      BY <1>0, <3>3 DEF OneStep
    <3>5. Closure(d, k)[b] \subseteq Reach(d, b)
      BY <1>0, ClosureInReach
    <3>6. d[b] \subseteq Met(k)
      <4>1. ASSUME NEW x \in d[b] PROVE x \in Met(k)
        <5>1. x \in Reach(d, b) /\ x \in Blocks
          BY <1>0, <1>2, ReachGrows
        <5>2. pos[x] < pos[b] - k \/ x \in Closure(d, k - 1)[b]
          BY <3>1, <3>2, <5>1
        <5>3. CASE x \in Closure(d, k - 1)[b]
          BY <3>4, <5>1, <5>3
        <5>4. CASE pos[x] < pos[b] - k /\ x \notin Closure(d, k - 1)[b]
          <6>1. \A j \in Nat : d[b] \subseteq Closure(d, j)[b]
            <7> DEFINE Lost == {j \in Nat : ~(d[b] \subseteq Closure(d, j)[b])}
            <7> SUFFICES ASSUME Lost # {} PROVE FALSE
              OBVIOUS
            <7>1. PICK j \in Lost : \A i \in Lost : j <= i
              BY LeastNatural
            <7>2. CASE j = 0
              BY <7>2, ClosureUnfolds
            <7>3. CASE j # 0
              <8>1. j - 1 \in Nat /\ (j - 1) + 1 = j /\ j - 1 \notin Lost
                BY <7>1, <7>3
              <8>2. Closure(d, j) = OneStep(d, Closure(d, j - 1))
                BY <8>1, ClosureUnfolds
              <8> QED
                BY <1>0, <8>1, <8>2 DEF OneStep
            <7> QED
              BY <7>2, <7>3
          <6> QED
            BY <3>1, <5>4, <6>1
        <5> QED
          BY <5>2, <5>3, <5>4
      <4> QED
        BY <4>1
    <3>7. ASSUME NEW x \in Met(k), NEW y \in d[x] PROVE y \in Met(k)
      <4>1. y \in Blocks /\ pos[y] < pos[x] /\ pos[y] \in Int /\ pos[x] \in Int /\ pos[b] \in Int
        BY <1>0, <1>2
      <4>2. CASE pos[x] <= pos[b] - (k + 1)
        BY <4>1, <4>2
      <4>3. CASE ~(pos[x] <= pos[b] - (k + 1))
        <5>1. x \in Closure(d, k)[b]
          BY <4>1, <4>3
        <5>2. x \in Met(k - 1)
          BY <3>2, <3>5, <5>1
        <5>3. x \in Closure(d, k - 1)[b]
          BY <3>1, <4>1, <4>3, <5>2
        <5> QED
          BY <3>4, <4>1, <5>3
      <4> QED
        BY <4>2, <4>3
    <3> QED
      BY <3>6, <3>7
  <2> QED
    BY <2>1, <2>2
<1>5. Reach(d, b) \subseteq Met(k)
  <2> HIDE DEF Met
  <2> QED
    BY <1>3, <1>4, ReachIsLeast
<1> QED
  BY <1>5

LEMMA ClosureIsReach ==
  ASSUME TypeOK, NEW d, IsDeps(d)
  PROVE  Closure(d, prog.last) = [b \in Blocks |-> Reach(d, b)]
<1>1. prog.last \in Nat /\ d \in [Blocks -> SUBSET Blocks]
  BY DEF TypeOK, IsProgram, IsDeps
<1>2. ASSUME NEW b \in Blocks PROVE Closure(d, prog.last)[b] = Reach(d, b)
  <2>1. \A x \in Blocks : pos[x] \in 0 .. prog.last
    BY DEF TypeOK, Blocks, BlocksOf
  <2>2. Reach(d, b) \subseteq Blocks
    BY <1>1, ReachGrows
  <2>3. \A x \in Reach(d, b) : ~(pos[x] < pos[b] - (prog.last + 1))
    BY <1>1, <2>1, <2>2
  <2>4. Reach(d, b) \subseteq Closure(d, prog.last)[b]
    BY <1>1, <2>3, ReachInSteps
  <2> QED
    BY <1>1, <2>4, ClosureInReach
<1>3. DOMAIN Closure(d, prog.last) = Blocks
  BY <1>1, ClosureInReach
<1>4. Closure(d, prog.last) = [b \in Blocks |-> Closure(d, prog.last)[b]]
  <2>1. CASE prog.last = 0
    BY <1>1, <1>3, <2>1, ClosureUnfolds
  <2>2. CASE prog.last # 0
    <3>1. prog.last - 1 \in Nat /\ (prog.last - 1) + 1 = prog.last
      BY <1>1, <2>2
    <3>2. Closure(d, prog.last) = OneStep(d, Closure(d, prog.last - 1))
      BY <3>1, ClosureUnfolds
    <3> QED
      BY <1>3, <3>2 DEF OneStep
  <2> QED
    BY <2>1, <2>2
<1> QED
  BY <1>2, <1>4
-----------------------------------------------------------------------------
(***************************************************************************)
(* What is recorded before the reduction, and what the reduction keeps.    *)
(* The reduction replaces edges by paths, so that deps alone says nothing  *)
(* of an edge once a block was processed: what survives is what a block    *)
(* leads to.                                                               *)
(***************************************************************************)
MemoryRecorded ==
  /\ phase \in {"merge", "floaters"} => \A b \in Blocks : MemoryDeps(b) \subseteq deps[b]
  /\ phase \in {"reduce", "emit", "done"} => \A b \in Blocks : MemoryDeps(b) \subseteq before[b]

SameReach ==
  phase \in {"reduce", "emit", "done"} =>
    IsDeps(before) /\ \A b \in Blocks : Reach(deps, b) = Reach(before, b)

LEMMA DepsAreDeps == IInv => IsDeps(deps)
  BY DEF IInv, TypeOK, IsDeps, ListInOrder, MustPrecede

(***************************************************************************)
(* Dropping from one block what it depends on through another changes the  *)
(* reach of none: the dropped dependency nearest to the block is reached   *)
(* through one that was kept, or through a nearer one.                     *)
(***************************************************************************)
LEMMA DroppingKeepsReach ==
  ASSUME TypeOK, NEW d, IsDeps(d), NEW b0 \in Blocks, NEW e,
         e = [d EXCEPT ![b0] = @ \ (d[b0] \cap UNION {d[x] : x \in d[b0]})]
  PROVE  \A b \in Blocks : Reach(e, b) = Reach(d, b)
<1>1. /\ d \in [Blocks -> SUBSET Blocks] /\ e \in [Blocks -> SUBSET Blocks]
      /\ \A b \in Blocks : e[b] \subseteq d[b]
      /\ \A b \in Blocks : b # b0 => e[b] = d[b]
  BY DEF IsDeps
<1>2. /\ \A x \in Blocks : pos[x] \in Nat /\ prog.last - pos[x] \in Nat
      /\ prog.last \in Nat
  <2>1. \A x \in Blocks : pos[x] \in 0 .. prog.last
    BY DEF TypeOK, Blocks, BlocksOf
  <2> QED
    BY <2>1 DEF TypeOK, IsProgram
<1>3. d[b0] \subseteq Reach(e, b0)
  <2> DEFINE Lost == {y \in d[b0] : y \notin Reach(e, b0)}
             Near == {prog.last - pos[y] : y \in Lost}
  <2> SUFFICES ASSUME Lost # {} PROVE FALSE
    OBVIOUS
  <2>1. Lost \subseteq Blocks
    BY <1>1
  <2>2. Near \subseteq Nat /\ Near # {}
    BY <1>2, <2>1
  <2>3. PICK n \in Near : \A m \in Near : n <= m
    <3> HIDE DEF Near
    <3> QED
      BY <2>2, LeastNatural
  <2>4. PICK y \in Lost : n = prog.last - pos[y]
    BY <2>3
  <2>5. y \notin e[b0] /\ y \in Blocks
    BY <1>1, <2>1, ReachGrows
  <2>6. PICK x \in d[b0] : y \in d[x]
    BY <1>1, <2>5
  <2>7. x \in Blocks /\ x # b0 /\ pos[y] < pos[x]
    <3>1. x \in Blocks
      BY <1>1
    <3>2. pos[x] < pos[b0] /\ pos[y] < pos[x]
      BY <2>6, <3>1 DEF IsDeps
    <3> QED
      BY <1>2, <3>1, <3>2
  <2>8. x \notin Lost
    <3> SUFFICES ASSUME x \in Lost PROVE FALSE
      OBVIOUS
    <3>1. prog.last - pos[x] \in Near
      OBVIOUS
    <3>2. prog.last - pos[y] <= prog.last - pos[x]
      BY <2>3, <2>4, <3>1
    <3> QED
      BY <1>2, <2>5, <2>7, <3>2
  <2>9. x \in Reach(e, b0) /\ y \in e[x]
    BY <1>1, <2>6, <2>7, <2>8
  <2> QED
    BY <1>1, <2>9, ReachGrows
<1>4. \A b \in Blocks : d[b] \subseteq Reach(e, b)
  BY <1>1, <1>3, ReachGrows
<1> TAKE b \in Blocks
<1>5. Reach(e, b) \subseteq Reach(d, b)
  BY <1>1, ReachIsMonotonic
<1>6. Reach(d, b) \subseteq Reach(e, b)
  <2>1. Reach(e, b) \in SUBSET Blocks /\ d[b] \subseteq Reach(e, b)
    BY <1>1, <1>4, ReachGrows
  <2>2. \A x \in Reach(e, b) : d[x] \subseteq Reach(e, b)
    <3> TAKE x \in Reach(e, b)
    <3>1. Reach(e, x) \subseteq Reach(e, b) /\ x \in Blocks
      BY <1>1, <2>1, ReachIsTransitive
    <3> QED
      BY <1>4, <3>1
  <2> QED
    BY <2>1, <2>2, ReachIsLeast
<1> QED
  BY <1>5, <1>6

LEMMA InitRecords == Init => MemoryRecorded /\ SameReach
  BY DEF Init, MemoryRecorded, SameReach

LEMMA NextRecords ==
  IInv /\ MemoryRecorded /\ SameReach /\ [Next]_vars => (MemoryRecorded /\ SameReach)'
<1> SUFFICES ASSUME IInv, MemoryRecorded, SameReach, [Next]_vars
             PROVE  MemoryRecorded' /\ SameReach'
  OBVIOUS
<1>1. Blocks' = Blocks /\ prog' = prog
  BY DEF Next, vars, Blocks, CollectDataDeps, ResolveMemorySideEffects, PropagateMergePoint,
         CollectBranches, BeginScan, VisitFloater, PinFloater, MoveFloater, LeaveFloater, NextBranch,
         EndFloaters, TransitiveReduction, ReduceBlock, EndReduction, EmitMeta
<1>2. \A b : MemoryDeps(b)' = MemoryDeps(b)
  BY <1>1 DEF MemoryDeps
<1>3. deps \in [Blocks -> SUBSET Blocks]
  BY DEF IInv, TypeOK
<1> USE DEF MemoryRecorded, SameReach
<1>4. CASE CollectDataDeps \/ BeginScan \/ NextBranch \/ CollectBranches \/ ResolveMemorySideEffects
  <2>1. phase' \notin {"reduce", "emit", "done"}
    BY <1>4 DEF CollectDataDeps, BeginScan, NextBranch, CollectBranches, ResolveMemorySideEffects
  <2>2. phase' \in {"merge", "floaters"} => \A b \in Blocks : MemoryDeps(b) \subseteq deps'[b]
    BY <1>4 DEF CollectDataDeps, BeginScan, NextBranch, CollectBranches, ResolveMemorySideEffects
  <2> QED
    BY <1>1, <1>2, <2>1, <2>2
<1>5. CASE PropagateMergePoint \/ VisitFloater
  <2>1. phase' = phase /\ phase \in {"merge", "floaters"}
    BY <1>5 DEF PropagateMergePoint, VisitFloater, PinFloater, MoveFloater, LeaveFloater
  <2>2. \A b \in Blocks : deps[b] \subseteq deps'[b]
    <3>1. CASE PropagateMergePoint
      BY <1>3, <3>1 DEF PropagateMergePoint
    <3>2. CASE VisitFloater
      <4>1. branches # {} /\ Branch \in Blocks
        BY <3>2, BranchIsBlock DEF VisitFloater, IInv, ScanHasBranch
      <4>2. PICK f : deps' = [deps EXCEPT ![Branch] = @ \cup {f}] \/ deps' = deps
        BY <3>2 DEF VisitFloater, PinFloater, MoveFloater, LeaveFloater
      <4> QED
        BY <1>3, <4>1, <4>2
    <3> QED
      BY <1>5, <3>1, <3>2
  <2> QED
    BY <1>1, <1>2, <2>1, <2>2
<1>6. CASE EndFloaters
  <2>1. before' = deps /\ deps' = deps /\ pos' = pos /\ phase = "floaters" /\ phase' = "reduce"
    BY <1>6 DEF EndFloaters
  <2>2. IsDeps(deps)
    BY DepsAreDeps
  <2>3. \A b \in Blocks : MemoryDeps(b) \subseteq deps[b]
    BY <2>1
  <2>4. IsDeps(before)'
    BY <1>1, <2>1, <2>2 DEF IsDeps
  <2>5. \A b : Reach(deps, b)' = Reach(before, b)'
    BY <2>1 DEF Reach
  <2> QED
    BY <1>1, <1>2, <2>1, <2>3, <2>4, <2>5
<1>7. CASE TransitiveReduction
  <2>1. PICK b0 \in Reducible : ReduceBlock(b0)
    BY <1>7 DEF TransitiveReduction
  <2>2. b0 \in Blocks /\ phase = "reduce" /\ phase' = "reduce" /\ before' = before /\ pos' = pos
    BY <1>7, <2>1 DEF Reducible, TransitiveReduction, ReduceBlock
  <2>3. deps' = [deps EXCEPT ![b0] = @ \ (deps[b0] \cap UNION {deps[x] : x \in deps[b0]})]
    BY <2>1 DEF ReduceBlock, Indirect
  <2>4. \A b \in Blocks : Reach(deps', b) = Reach(deps, b)
    BY <2>2, <2>3, DepsAreDeps, DroppingKeepsReach DEF IInv
  <2>5. IsDeps(before)'
    BY <1>1, <2>2 DEF IsDeps
  <2>6. \A b : Reach(deps, b)' = Reach(deps', b) /\ Reach(before, b)' = Reach(before, b)
    BY <1>1, <2>2 DEF Reach
  <2> QED
    BY <1>1, <1>2, <2>2, <2>4, <2>5, <2>6
<1>8. CASE EndReduction \/ EmitMeta \/ UNCHANGED vars
  <2>1. /\ UNCHANGED <<deps, before, pos>>
        /\ phase \in {"reduce", "emit", "done"} \/ phase' = phase
        /\ phase' \in {"reduce", "emit", "done"} \/ phase' = phase
    BY <1>8 DEF EndReduction, EmitMeta, vars
  <2>2. IsDeps(before)' <=> IsDeps(before)
    BY <1>1, <2>1 DEF IsDeps
  <2>3. \A b : Reach(deps, b)' = Reach(deps, b) /\ Reach(before, b)' = Reach(before, b)
    BY <1>1, <2>1 DEF Reach
  <2>4. phase' \in {"merge", "floaters"} => phase \in {"merge", "floaters"}
    BY <2>1
  <2>5. phase' \in {"reduce", "emit", "done"} => phase \in {"reduce", "emit", "done"}
    BY <2>1
  <2> QED
    BY <1>1, <1>2, <2>1, <2>2, <2>3, <2>4, <2>5
<1> QED
  BY <1>4, <1>5, <1>6, <1>7, <1>8 DEF Next

LEMMA RecordsKept == Spec => [](MemoryRecorded /\ SameReach)
  BY InitRecords, NextRecords, PrecedencesInv, PTL DEF Spec

(***************************************************************************)
(* For every program, and in whichever order the map is visited, the       *)
(* reduction leaves the transitive dependencies of every block as they     *)
(* were.                                                                   *)
(***************************************************************************)
THEOREM ReductionCorrect == Spec => []ReductionLossless
<1>1. IInv /\ SameReach => ReductionLossless
  <2> SUFFICES ASSUME IInv, SameReach, phase \in {"emit", "done"}
               PROVE  Closure(deps, prog.last) = Closure(before, prog.last)
    BY DEF ReductionLossless
  <2>1. IsDeps(deps) /\ IsDeps(before) /\ TypeOK
    BY DepsAreDeps DEF SameReach, IInv
  <2>2. [b \in Blocks |-> Reach(deps, b)] = [b \in Blocks |-> Reach(before, b)]
    BY DEF SameReach
  <2> QED
    BY <2>1, <2>2, ClosureIsReach
<1> QED
  BY <1>1, PrecedencesInv, RecordsKept, PTL

(***************************************************************************)
(* The metadata leads from the later of two conflicting calls to the       *)
(* earlier one.                                                            *)
(***************************************************************************)
LEMMA ReferencesAreDeps ==
  ASSUME IInv
  PROVE  IsDeps([b \in Blocks |-> References(b)])
<1>1. \A b \in Blocks : References(b) \subseteq Blocks
  BY DEF IInv, TypeOK, References
<1> QED
  BY <1>1, ReferencesBackward DEF IsDeps, ReferencesPointBackward

LEMMA ConflictsRecorded ==
  ASSUME IInv, MemoryRecorded, SameReach, phase = "done",
         NEW a \in Blocks, NEW b \in Blocks, a < b, Conflict(prog, a, b)
  PROVE  a \in Reach([x \in Blocks |-> References(x)], b)
<1> DEFINE refs == [x \in Blocks |-> References(x)]
<1>1. CalleesInCallOrder(prog) /\ a # b
  <2>1. a \in Int
    BY DEF Blocks, BlocksOf
  <2> QED
    BY <2>1, ProgramsAssumption DEF IInv
<1>2. a \in MemoryDeps(b)
  BY <1>1 DEF MemoryDeps, CalleesInCallOrder, Blocks
<1>3. IsDeps(before) /\ IsDeps(deps) /\ IsDeps(refs)
  BY ReferencesAreDeps, DepsAreDeps DEF SameReach
<1>4. a \in Reach(before, b)
  BY <1>2, <1>3, ReachGrows DEF MemoryRecorded, IsDeps
<1>5. a \in Reach(deps, b)
  BY <1>4 DEF SameReach
<1>6. \A x \in Blocks : deps[x] \subseteq refs[x]
  BY DEF IInv, MetaWritten, MetaOf, References
<1>7. deps \in [Blocks -> SUBSET Blocks] /\ refs \in [Blocks -> SUBSET Blocks]
  BY <1>3 DEF IsDeps
<1> HIDE DEF refs
<1>8. Reach(deps, b) \subseteq Reach(refs, b)
  BY <1>6, <1>7, ReachIsMonotonic
<1> QED
  BY <1>5, <1>8 DEF refs

(***************************************************************************)
(* For every program, the recorded metadata orders any two calls that      *)
(* write a common qubit, although the reduction may have removed their own *)
(* edge and the pruning the control-flow edge between their blocks.        *)
(***************************************************************************)
THEOREM ConflictsCorrect == Spec => []ConflictsStayOrdered
<1>1. IInv /\ MemoryRecorded /\ SameReach => ConflictsStayOrdered
  <2> SUFFICES ASSUME IInv, MemoryRecorded, SameReach, phase = "done",
                      NEW a \in Blocks, NEW b \in Blocks, a < b, Conflict(prog, a, b)
               PROVE  a \in Recorded[b]
    BY DEF ConflictsStayOrdered
  <2>1. Recorded = [x \in Blocks |-> Reach([y \in Blocks |-> References(y)], x)]
    BY ReferencesAreDeps, ClosureIsReach DEF Recorded, IInv
  <2> QED
    BY <2>1, ConflictsRecorded
<1> QED
  BY <1>1, PrecedencesInv, RecordsKept, PTL

-----------------------------------------------------------------------------
(***************************************************************************)
(* Metadata: what is known of the first pass, and that nothing ever needs  *)
(* the last block, which therefore stays the last of the list.             *)
(***************************************************************************)
MetadataInv == IInv /\ MemoryRecorded /\ SameReach

LastUnneeded ==
  /\ \A b \in Blocks : prog.last \notin deps[b]
  /\ prog.last \notin todo
  /\ pos[prog.last] = prog.last

LEMMA LastIsBlock ==
  ASSUME IInv
  PROVE  /\ prog.last \in Nat /\ Blocks = 0 .. prog.last /\ prog.last \in Blocks
         /\ \A b \in Blocks : pos[b] \in Blocks
<1>1. prog.last \in Nat /\ pos \in [Blocks -> Blocks]
  BY DEF IInv, TypeOK, IsProgram
<1>2. Blocks = 0 .. prog.last
  BY DEF Blocks, BlocksOf
<1> QED
  BY <1>1, <1>2

LEMMA InitLast == Init /\ IInv => LastUnneeded
  BY LastIsBlock DEF Init, LastUnneeded

LEMMA NextLast == IInv /\ LastUnneeded /\ [Next]_vars => LastUnneeded'
<1> SUFFICES ASSUME IInv, LastUnneeded, [Next]_vars PROVE LastUnneeded'
  OBVIOUS
<1>1. /\ prog.last \in Nat /\ Blocks = 0 .. prog.last /\ prog.last \in Blocks
      /\ \A b \in Blocks : pos[b] \in Blocks
      /\ deps \in [Blocks -> SUBSET Blocks]
  BY LastIsBlock DEF IInv, TypeOK
<1>2. Blocks' = Blocks /\ prog' = prog
  BY DEF Next, vars, Blocks, CollectDataDeps, ResolveMemorySideEffects, PropagateMergePoint,
         CollectBranches, BeginScan, VisitFloater, PinFloater, MoveFloater, LeaveFloater, NextBranch,
         EndFloaters, TransitiveReduction, ReduceBlock, EndReduction, EmitMeta
<1> USE DEF LastUnneeded
<1>3. CASE CollectDataDeps
  <2>1. WellFormed(prog)
    BY ProgramsAssumption DEF IInv
  <2>2. ASSUME NEW b \in Blocks PROVE prog.last \notin DataDeps(b)
    <3>1. b \in Int /\ b <= prog.last
      BY <1>1
    <3>2. \A a \in prog.uses[b] : a < b
      BY <2>1 DEF WellFormed, Blocks
    <3>3. b \in prog.comm => b # 0
      BY <2>1 DEF WellFormed
    <3> QED
      BY <1>1, <3>1, <3>2, <3>3 DEF DataDeps
  <2> QED
    BY <1>2, <1>3, <2>2 DEF CollectDataDeps
<1>4. CASE ResolveMemorySideEffects
  <2>1. CalleesInCallOrder(prog)
    BY ProgramsAssumption DEF IInv
  <2>2. ASSUME NEW b \in Blocks PROVE prog.last \notin MemoryDeps(b)
    <3>1. b \in Int /\ b <= prog.last
      BY <1>1
    <3>2. \A a \in MemoryDeps(b) : a < b
      BY <2>1 DEF MemoryDeps, CalleesInCallOrder, Blocks
    <3> QED
      BY <1>1, <3>1, <3>2
  <2> QED
    BY <1>2, <1>4, <2>2 DEF ResolveMemorySideEffects
<1>5. CASE PropagateMergePoint
  <2>1. cursor \in Blocks
    BY <1>1, <1>5 DEF PropagateMergePoint, IInv, TypeOK
  <2>2. \A x : prog.last \notin PropagatedTo(x, cursor)
    BY <2>1 DEF PropagatedTo
  <2> QED
    BY <1>1, <1>2, <1>5, <2>2 DEF PropagateMergePoint
<1>6. CASE BeginScan
  <2>1. TransitiveNeeds(Branch) \subseteq Blocks \ {prog.last}
    <3>1. \A b \in Blocks : Reach(deps, b) \subseteq Blocks \ {prog.last}
      <4> TAKE b \in Blocks
      <4> DEFINE S == Blocks \ {prog.last}
      <4>1. S \in SUBSET Blocks /\ deps[b] \subseteq S /\ \A x \in S : deps[x] \subseteq S
        BY <1>1
      <4> HIDE DEF S
      <4>2. Reach(deps, b) \subseteq S
        BY <4>1, ReachIsLeast
      <4> QED
        BY <4>2 DEF S
    <3>2. \A b \in Blocks : Closure(deps, prog.last)[b] \subseteq Reach(deps, b)
      BY <1>1, ClosureInReach
    <3> QED
      BY <3>1, <3>2 DEF TransitiveNeeds
  <2> QED
    BY <1>2, <1>6, <2>1 DEF BeginScan
<1>7. CASE VisitFloater
  <2>1. PICK f \in todo : PinFloater(f) \/ MoveFloater(f) \/ LeaveFloater(f)
    BY <1>7 DEF VisitFloater
  <2>2. f # prog.last /\ f \in Blocks /\ Branch \in Blocks
    BY <1>7, BranchIsBlock DEF VisitFloater, IInv, TypeOK, ScanHasBranch
  <2>3. \A b \in Blocks : prog.last \notin deps'[b]
    BY <1>1, <2>1, <2>2 DEF PinFloater, MoveFloater, LeaveFloater
  <2>4. prog.last \notin todo'
    BY <2>1 DEF PinFloater, MoveFloater, LeaveFloater
  <2>5. pos'[prog.last] = prog.last
    <3>1. CASE PinFloater(f) \/ LeaveFloater(f)
      BY <3>1 DEF PinFloater, LeaveFloater
    <3>2. CASE MoveFloater(f)
      <4>1. pos' = MovedBefore(f, Branch)
        BY <3>2 DEF MoveFloater
      <4>2. pos[f] \in Int /\ pos[f] <= prog.last
        BY <1>1, <2>2
      <4> QED
        BY <1>1, <2>2, <4>1, <4>2 DEF MovedBefore
    <3> QED
      BY <2>1, <3>1, <3>2
  <2> QED
    BY <1>2, <2>3, <2>4, <2>5
<1>8. CASE NextBranch \/ EndFloaters \/ CollectBranches \/ EndReduction \/ EmitMeta \/ UNCHANGED vars
  <2>1. UNCHANGED <<deps, todo, pos>>
    BY <1>8 DEF NextBranch, EndFloaters, CollectBranches, EndReduction, EmitMeta, vars
  <2> QED
    BY <1>2, <2>1
<1>9. CASE TransitiveReduction
  <2>1. PICK b0 : ReduceBlock(b0)
    BY <1>9 DEF TransitiveReduction
  <2>2. UNCHANGED <<todo, pos>> /\ \A b \in Blocks : deps'[b] \subseteq deps[b]
    BY <1>1, <2>1 DEF ReduceBlock
  <2> QED
    BY <1>2, <2>2
<1> QED
  BY <1>3, <1>4, <1>5, <1>6, <1>7, <1>8, <1>9 DEF Next

(***************************************************************************)
(* No step of the second pass changes what the first one computed.         *)
(***************************************************************************)
LEMMA StepsOfFirstPass ==
  [ReorderNext]_ReorderVars => [Next]_vars
  BY DEF ReorderNext, ReorderVars, VisitBlock, EndBuild, NextStart, MoveBlocks, RunBlock

LEMMA MetadataHolds == ReorderSpec => [](MetadataInv /\ LastUnneeded)
<1>1. Init => MetadataInv /\ LastUnneeded
  BY InitEstablishes, InitRecords, InitLast DEF MetadataInv
<1>2. MetadataInv /\ LastUnneeded /\ [ReorderNext]_ReorderVars => (MetadataInv /\ LastUnneeded)'
  BY StepsOfFirstPass, NextKeepsInv, NextRecords, NextLast DEF MetadataInv
<1> QED
  BY <1>1, <1>2, PTL DEF ReorderSpec

-----------------------------------------------------------------------------
(***************************************************************************)
(* What a step of the second pass may assume of the first.                 *)
(***************************************************************************)
Metadata == MetadataInv /\ LastUnneeded

LEMMA OnlyLastReturns ==
  ASSUME IInv
  PROVE  \A b \in Blocks : Returns(b) <=> b = prog.last
  BY ReorderAssumption DEF IInv, SingleReturn, Returns, Blocks

\* The list of the first pass has a block at each place.
LEMMA EveryPlaceTaken ==
  ASSUME IInv, NEW k \in Blocks
  PROVE  ListedAt(k) \in Blocks /\ pos[ListedAt(k)] = k
<1>1. IsFiniteSet(Blocks)
  BY LastIsBlock, FS_Interval
<1>2. pos \in Injection(Blocks, Blocks)
  BY DEF IInv, TypeOK, PosInjective, Injection, IsInjective
<1>3. pos \in Surjection(Blocks, Blocks)
  BY <1>1, <1>2, FS_Injection
<1>4. \E b \in Blocks : pos[b] = k
  BY <1>3 DEF Surjection
<1> QED
  BY <1>4 DEF ListedAt

(***************************************************************************)
(* A reference names a block that is listed before and does not return.    *)
(***************************************************************************)
LEMMA ReferencesKnown ==
  ASSUME Metadata, NEW b \in Blocks
  PROVE  /\ References(b) \subseteq Blocks \ {prog.last}
         /\ \A r \in References(b) : pos[r] < pos[b]
<1>1. References(b) \subseteq Blocks
  BY DEF Metadata, MetadataInv, IInv, TypeOK, References
<1>2. \A r \in References(b) : pos[r] < pos[b]
  BY ReferencesBackward DEF Metadata, MetadataInv, ReferencesPointBackward
<1>3. pos[b] \in Int /\ pos[b] <= prog.last /\ pos[prog.last] = prog.last
  BY LastIsBlock DEF Metadata, MetadataInv, LastUnneeded
<1> QED
  BY <1>1, <1>2, <1>3, LastIsBlock DEF Metadata, MetadataInv

(***************************************************************************)
(* While the blocks are visited, those met so far are known, but for the   *)
(* one that returns, with an edge for each of their references.            *)
(***************************************************************************)
BuildInv ==
  /\ stage \in {"build", "solve", "run", "end"}
  /\ visited \in 0 .. prog.last + 1
  /\ phase # "done" => stage = "build" /\ visited = 0
  /\ stage # "build" => visited = prog.last + 1
  /\ known = {b \in Blocks : pos[b] < visited /\ b # prog.last}
  /\ \A b \in known : \A r \in References(b) : <<r, b>> \in edges
  /\ unresolved = {}

LEMMA InitBuild == Init /\ IInv /\ ReorderInit => BuildInv
<1> SUFFICES ASSUME Init, IInv, ReorderInit PROVE BuildInv
  OBVIOUS
<1>1. \A b \in Blocks : ~(pos[b] < 0)
  BY LastIsBlock
<1> QED
  BY <1>1, LastIsBlock DEF Init, ReorderInit, BuildInv

LEMMA VisitKeepsBuild ==
  ASSUME Metadata, BuildInv, phase = "done", VisitBlock
  PROVE  BuildInv'
<1> DEFINE b == ListedAt(visited)
<1>0. IInv /\ UNCHANGED vars /\ stage = "build" /\ stage' = stage /\ visited' = visited + 1
  BY DEF VisitBlock, Metadata, MetadataInv
<1>1. Blocks' = Blocks /\ prog' = prog /\ pos' = pos /\ phase' = phase /\ \A x : References(x)' = References(x)
  BY <1>0 DEF vars, Blocks, References
<1>2. visited \in Blocks
  BY LastIsBlock, <1>0 DEF VisitBlock, BuildInv
<1>3. b \in Blocks /\ pos[b] = visited
  BY <1>0, <1>2, EveryPlaceTaken
<1> HIDE DEF b
<1>4. \A x \in Blocks : pos[x] < visited + 1 <=> (pos[x] < visited \/ x = b)
  <2> TAKE x \in Blocks
  <2>1. pos[x] = visited <=> x = b
    BY <1>0, <1>3 DEF IInv, PosInjective
  <2>2. pos[x] \in Int /\ visited \in Int
    BY <1>0, <1>2, LastIsBlock
  <2> QED
    BY <2>1, <2>2
<1>5. visited' \in 0 .. prog.last + 1
  BY <1>0, <1>2, LastIsBlock
<1>6. CASE Returns(b) /\ UNCHANGED <<known, edges, unresolved>>
  <2>1. b = prog.last
    BY <1>0, <1>3, <1>6, OnlyLastReturns
  <2>2. known = {x \in Blocks : pos[x] < visited + 1 /\ x # prog.last}
    BY <1>4, <2>1 DEF BuildInv
  <2> QED
    BY <1>0, <1>1, <1>5, <1>6, <2>2 DEF BuildInv
<1>7. CASE ~Returns(b) /\ RecordEdges(b)
  <2>1. b # prog.last
    BY <1>0, <1>3, <1>7, OnlyLastReturns
  <2>2. References(b) \subseteq known
    BY <1>3, ReferencesKnown DEF BuildInv
  <2>3. /\ known' = known \cup {b}
        /\ edges' = edges \cup {<<r, b>> : r \in References(b)}
        /\ unresolved' = {}
    <3>1. /\ References(b) \cap (known \cup {b}) = References(b)
          /\ References(b) \ (known \cup {b}) = {}
      BY <2>2
    <3> QED
      BY <1>7, <3>1 DEF RecordEdges, BuildInv
  <2>4. known \cup {b} = {x \in Blocks : pos[x] < visited + 1 /\ x # prog.last}
    BY <1>3, <1>4, <2>1 DEF BuildInv
  <2>5. \A x \in known' : \A r \in References(x) : <<r, x>> \in edges'
    BY <2>3 DEF BuildInv
  <2> QED
    BY <1>0, <1>1, <1>5, <2>3, <2>4, <2>5 DEF BuildInv
<1> QED
  BY <1>6, <1>7 DEF VisitBlock, b

LEMMA NextBuild == Metadata /\ BuildInv /\ [ReorderNext]_ReorderVars => BuildInv'
<1> SUFFICES ASSUME Metadata, BuildInv, [ReorderNext]_ReorderVars PROVE BuildInv'
  OBVIOUS
<1>1. CASE Next /\ UNCHANGED rvars
  <2>1. phase # "done" /\ stage = "build" /\ visited = 0 /\ known = {} /\ UNCHANGED rvars /\ Blocks' = Blocks /\ prog' = prog
    <3>1. phase # "done"
      BY <1>1 DEF Next, CollectDataDeps, ResolveMemorySideEffects, PropagateMergePoint,
         CollectBranches, BeginScan, VisitFloater, NextBranch,
         EndFloaters, TransitiveReduction, EndReduction, EmitMeta
    <3>2. Blocks' = Blocks /\ prog' = prog
      BY <1>1 DEF Next, Blocks, CollectDataDeps, ResolveMemorySideEffects, PropagateMergePoint,
         CollectBranches, BeginScan, VisitFloater, PinFloater, MoveFloater, LeaveFloater, NextBranch,
         EndFloaters, TransitiveReduction, ReduceBlock, EndReduction, EmitMeta
    <3>3. stage = "build" /\ visited = 0
      BY <3>1 DEF BuildInv
    <3>4. known = {}
      <4>1. \A b \in Blocks : ~(pos[b] < 0)
        BY LastIsBlock DEF Metadata, MetadataInv
      <4> QED
        BY <3>3, <4>1 DEF BuildInv
    <3> QED
      BY <1>1, <3>1, <3>2, <3>3, <3>4
  <2>2. known = {b \in Blocks : pos'[b] < 0 /\ b # prog.last}
    <3>1. IInv'
      BY <1>1, NextKeepsInv DEF Metadata, MetadataInv
    <3>2. \A b \in Blocks : pos'[b] \in 0 .. prog.last
      BY <2>1, <3>1 DEF IInv, TypeOK, Blocks, BlocksOf
    <3> QED
      BY <2>1, <3>2
  <2> QED
    BY <2>1, <2>2 DEF BuildInv, rvars
<1>2. CASE phase = "done" /\ VisitBlock
  BY <1>2, VisitKeepsBuild
<1>3. CASE (phase = "done" /\ EndBuild) \/ (\E b \in known : NextStart(b)) \/ MoveBlocks \/ RunBlock \/ UNCHANGED ReorderVars
  <2>1. /\ UNCHANGED <<vars, visited, known, edges, unresolved>>
        /\ stage' = stage \/ (phase = "done" /\ visited > prog.last /\ stage' = "solve") \/ stage # "build"
        /\ stage' \in {"build", "solve", "run", "end"}
        /\ stage # "build" => stage' # "build"
    BY <1>3 DEF EndBuild, NextStart, MoveBlocks, RunBlock, Return, FallThrough, JumpTo, ReorderVars, rvars, BuildInv
  <2>2. Blocks' = Blocks /\ prog' = prog /\ pos' = pos /\ phase' = phase /\ \A x : References(x)' = References(x)
    BY <2>1 DEF vars, Blocks, References
  <2>3. stage' # "build" => visited = prog.last + 1
    BY <2>1, LastIsBlock DEF BuildInv, Metadata, MetadataInv
  <2> QED
    BY <2>1, <2>2, <2>3 DEF BuildInv
<1> QED
  BY <1>1, <1>2, <1>3 DEF ReorderNext

LEMMA BuildHolds == ReorderSpec => [](Metadata /\ BuildInv)
<1>1. ReorderSpec => []Metadata
  BY MetadataHolds DEF Metadata
<1>2. Init /\ ReorderInit => BuildInv
  BY InitEstablishes, InitBuild
<1> QED
  BY <1>1, <1>2, NextBuild, PTL DEF ReorderSpec

(***************************************************************************)
(* For every program, every reference the second pass reads names a block  *)
(* it has already met: the compilation does not stop at this step.         *)
(***************************************************************************)
NeverFails == stage # "failed"

THEOREM ReferencesResolve == ReorderSpec => []NeverFails
<1>1. BuildInv => NeverFails
  BY DEF BuildInv, NeverFails
<1> QED
  BY <1>1, BuildHolds, PTL

-----------------------------------------------------------------------------
(***************************************************************************)
(* Whatever order of start times the solver returns, the new list holds    *)
(* every block once, behind all its references.                            *)
(***************************************************************************)
BehindReferences == \A i \in DOMAIN list : \A r \in References(list[i]) : \E j \in DOMAIN list : j < i /\ list[j] = r

ListInv ==
  /\ list \in Seq(Blocks)
  /\ \A i, j \in DOMAIN list : list[i] = list[j] => i = j
  /\ stage = "build" => list = <<>>
  /\ stage = "solve" => Listed \subseteq known
  /\ stage \in {"run", "end"} => Blocks \subseteq Listed /\ list # <<>> /\ list[Len(list)] = prog.last
  /\ BehindReferences

LEMMA InitList == ReorderInit => ListInv
  BY DEF ReorderInit, ListInv, BehindReferences

LEMMA AppendKeepsList ==
  ASSUME ListInv, NEW b \in Blocks, b \notin Listed, References(b) \subseteq Listed,
         list' = Append(list, b), UNCHANGED vars
  PROVE  /\ list' \in Seq(Blocks) /\ Len(list') = Len(list) + 1 /\ list'[Len(list')] = b
         /\ \A i, j \in DOMAIN list' : list'[i] = list'[j] => i = j
         /\ Listed' = Listed \cup {b}
         /\ BehindReferences'
<1>1. /\ Len(list) \in Nat /\ DOMAIN list = 1 .. Len(list)
      /\ list' \in Seq(Blocks) /\ Len(list') = Len(list) + 1 /\ list'[Len(list')] = b
      /\ DOMAIN list' = 1 .. Len(list) + 1
      /\ \A i \in DOMAIN list : list'[i] = list[i] /\ list[i] # b
  BY DEF ListInv, Listed
<1>2. \A i \in DOMAIN list' : i \in DOMAIN list \/ i = Len(list')
  BY <1>1
<1>3. DOMAIN list \subseteq DOMAIN list' /\ \A i \in DOMAIN list : i < Len(list')
  BY <1>1
<1>4. Len(list') \in DOMAIN list'
  BY <1>1
<1>5. \A i, j \in DOMAIN list' : list'[i] = list'[j] => i = j
  BY <1>1, <1>2 DEF ListInv
<1>6. Listed' = Listed \cup {b}
  BY <1>1, <1>2, <1>3, <1>4 DEF Listed
<1>7. \A x : References(x)' = References(x)
  BY DEF vars, References
<1>8. ASSUME NEW i \in DOMAIN list', NEW r \in References(list'[i])
      PROVE  \E j \in DOMAIN list' : j < i /\ list'[j] = r
  <2>1. CASE i \in DOMAIN list
    BY <1>1, <1>3, <1>8, <2>1 DEF ListInv, BehindReferences
  <2>2. CASE i = Len(list')
    <3>1. r \in Listed
      BY <1>1, <1>8, <2>2
    <3> QED
      BY <1>1, <1>3, <2>2, <3>1 DEF Listed
  <2> QED
    BY <1>2, <2>1, <2>2
<1>9. BehindReferences'
  BY <1>7, <1>8 DEF BehindReferences
<1> QED
  BY <1>1, <1>5, <1>6, <1>9

LEMMA StartKeepsList ==
  ASSUME Metadata, BuildInv, ListInv, NEW b \in known, NextStart(b)
  PROVE  ListInv'
<1>1. b \in Blocks /\ b \notin Listed /\ list' = Append(list, b) /\ UNCHANGED <<vars, known>>
      /\ stage' = "solve" /\ stage = "solve"
  BY DEF NextStart, BuildInv
<1>2. References(b) \subseteq Listed
  BY DEF NextStart, MayStart, BuildInv
<1>3. Blocks' = Blocks
  BY <1>1 DEF vars, Blocks
<1> QED
  BY <1>1, <1>2, <1>3, AppendKeepsList DEF ListInv

LEMMA MoveKeepsList ==
  ASSUME Metadata, BuildInv, ListInv, MoveBlocks
  PROVE  ListInv'
<1>0. IInv /\ stage = "solve" /\ stage' = "run" /\ known \subseteq Listed /\ UNCHANGED vars
  BY DEF MoveBlocks, Metadata, MetadataInv
<1>1. ReturnBlock = prog.last
  BY <1>0, OnlyLastReturns, LastIsBlock DEF ReturnBlock
<1>2. Blocks \subseteq known \cup {prog.last} /\ prog.last \notin known
  <2>1. visited = prog.last + 1
    BY <1>0 DEF BuildInv
  <2>2. \A b \in Blocks : pos[b] < prog.last + 1
    BY <1>0, LastIsBlock
  <2> QED
    BY <2>1, <2>2 DEF BuildInv
<1>3. Listed \subseteq known
  BY <1>0 DEF ListInv
<1>4. References(prog.last) \subseteq Listed
  BY <1>0, <1>2, ReferencesKnown, LastIsBlock
<1>5. prog.last \in Blocks /\ prog.last \notin Listed /\ list' = Append(list, prog.last)
  BY <1>0, <1>1, <1>2, <1>3, LastIsBlock DEF MoveBlocks
<1>6. Blocks' = Blocks /\ prog' = prog
  BY <1>0 DEF vars, Blocks
<1>7. /\ list' \in Seq(Blocks) /\ Len(list') = Len(list) + 1 /\ list'[Len(list')] = prog.last
      /\ \A i, j \in DOMAIN list' : list'[i] = list'[j] => i = j
      /\ Listed' = Listed \cup {prog.last}
      /\ BehindReferences'
  BY <1>0, <1>4, <1>5, AppendKeepsList
<1>8. list' # <<>>
  BY <1>7 DEF ListInv
<1> QED
  BY <1>0, <1>2, <1>6, <1>7, <1>8 DEF ListInv

LEMMA NextList == Metadata /\ BuildInv /\ ListInv /\ [ReorderNext]_ReorderVars => ListInv'
<1> SUFFICES ASSUME Metadata, BuildInv, ListInv, [ReorderNext]_ReorderVars PROVE ListInv'
  OBVIOUS
<1>0. Blocks' = Blocks /\ prog' = prog
  BY StepsOfFirstPass DEF Next, vars, Blocks, CollectDataDeps, ResolveMemorySideEffects, PropagateMergePoint,
         CollectBranches, BeginScan, VisitFloater, PinFloater, MoveFloater, LeaveFloater, NextBranch,
         EndFloaters, TransitiveReduction, ReduceBlock, EndReduction, EmitMeta
<1>1. CASE (Next /\ UNCHANGED rvars) \/ (phase = "done" /\ (VisitBlock \/ EndBuild))
  <2>1. stage = "build" /\ stage' \in {"build", "solve"} /\ list' = list
    <3>1. CASE Next /\ UNCHANGED rvars
      <4>1. phase # "done"
        BY <3>1 DEF Next, CollectDataDeps, ResolveMemorySideEffects, PropagateMergePoint,
         CollectBranches, BeginScan, VisitFloater, NextBranch,
         EndFloaters, TransitiveReduction, EndReduction, EmitMeta
      <4> QED
        BY <3>1, <4>1 DEF BuildInv, rvars
    <3>2. CASE phase = "done" /\ (VisitBlock \/ EndBuild)
      BY <3>2 DEF BuildInv, VisitBlock, EndBuild
    <3> QED
      BY <1>1, <3>1, <3>2
  <2>2. list' = <<>>
    BY <2>1 DEF ListInv
  <2> QED
    BY <2>1, <2>2 DEF ListInv, BehindReferences, Listed
<1>2. CASE \E b \in known : NextStart(b)
  BY <1>2, StartKeepsList
<1>3. CASE MoveBlocks
  BY <1>3, MoveKeepsList
<1>4. CASE RunBlock \/ UNCHANGED ReorderVars
  <2>1. UNCHANGED <<vars, list, known>> /\ (stage' = stage \/ (stage = "run" /\ stage' = "end"))
    BY <1>4 DEF RunBlock, Return, FallThrough, JumpTo, ReorderVars, rvars
  <2>2. Listed' = Listed /\ \A x : References(x)' = References(x)
    BY <2>1 DEF Listed, References, vars
  <2>3. BehindReferences'
    BY <2>1, <2>2 DEF ListInv, BehindReferences
  <2> QED
    BY <1>0, <2>1, <2>2, <2>3 DEF ListInv
<1> QED
  BY <1>1, <1>2, <1>3, <1>4 DEF ReorderNext

LEMMA ListHolds == ReorderSpec => [](Metadata /\ BuildInv /\ ListInv)
<1>1. ReorderSpec => [](Metadata /\ BuildInv)
  BY BuildHolds
<1> QED
  BY <1>1, InitList, NextList, PTL DEF ReorderSpec

-----------------------------------------------------------------------------
(***************************************************************************)
(* The new list: what a block leads to along the references stands in      *)
(* front of it.                                                            *)
(***************************************************************************)
Ordered == Metadata /\ BuildInv /\ ListInv /\ stage \in {"run", "end"}

Refs == [b \in Blocks |-> References(b)]

LEMMA IndexFinds ==
  ASSUME ListInv
  PROVE  /\ \A i \in DOMAIN list : IndexOf(list[i]) = i
         /\ \A b \in Listed : IndexOf(b) \in DOMAIN list /\ list[IndexOf(b)] = b
         /\ \A i \in DOMAIN list : i \in Nat /\ i <= Len(list)
  BY DEF ListInv, Listed, IndexOf

LEMMA ReachedIsListedBefore ==
  ASSUME Ordered, NEW b \in Blocks, NEW a \in Reach(Refs, b)
  PROVE  IndexOf(a) < IndexOf(b)
<1>1. Blocks \subseteq Listed /\ ListInv
  BY DEF Ordered, ListInv
<1>2. Refs \in [Blocks -> SUBSET Blocks]
  BY ReferencesAreDeps DEF Ordered, Metadata, MetadataInv, IsDeps, Refs
<1>3. \A x \in Blocks : IndexOf(x) \in Nat /\ \A r \in Refs[x] : IndexOf(r) < IndexOf(x)
  <2> TAKE x \in Blocks
  <2>1. IndexOf(x) \in DOMAIN list /\ list[IndexOf(x)] = x /\ IndexOf(x) \in Nat
    BY <1>1, IndexFinds
  <2>2. ASSUME NEW r \in Refs[x] PROVE IndexOf(r) < IndexOf(x)
    <3>1. PICK j \in DOMAIN list : j < IndexOf(x) /\ list[j] = r
      BY <1>1, <2>1, <2>2 DEF Refs, ListInv, BehindReferences
    <3> QED
      BY <1>1, <3>1, IndexFinds
  <2> QED
    BY <2>1, <2>2
<1> DEFINE S == {x \in Blocks : IndexOf(x) < IndexOf(b)}
<1>4. S \in SUBSET Blocks /\ Refs[b] \subseteq S
  BY <1>2, <1>3
<1>5. \A x \in S : Refs[x] \subseteq S
  <2> TAKE x \in S
  <2>1. ASSUME NEW r \in Refs[x] PROVE r \in S
    <3>1. x \in Blocks /\ r \in Blocks /\ IndexOf(r) < IndexOf(x) /\ IndexOf(x) < IndexOf(b)
      BY <1>2, <1>3, <2>1
    <3>2. IndexOf(r) \in Nat /\ IndexOf(x) \in Nat /\ IndexOf(b) \in Nat
      BY <1>3, <3>1
    <3> QED
      BY <3>1, <3>2
  <2> QED
    BY <2>1
<1>6. Reach(Refs, b) \subseteq S
  <2> HIDE DEF S
  <2> QED
    BY <1>4, <1>5, ReachIsLeast
<1> QED
  BY <1>6

(***************************************************************************)
(* Each member of S refers to the one before it: the later lead to the     *)
(* earlier.                                                                *)
(***************************************************************************)
LEMMA ChainIsReached ==
  ASSUME IInv, NEW S \in SUBSET Blocks, \A b \in Blocks : PreviousIn(S, b) \subseteq References(b),
         NEW a \in S, NEW b \in S, a < b
  PROVE  a \in Reach(Refs, b)
<1>1. Refs \in [Blocks -> SUBSET Blocks] /\ S \subseteq Nat /\ \A x \in S : x \in Blocks
  BY ReferencesAreDeps, LastIsBlock DEF IsDeps, Refs
<1> DEFINE Bad == {x \in S : a < x /\ a \notin Reach(Refs, x)}
<1> SUFFICES ASSUME Bad # {} PROVE FALSE
  OBVIOUS
<1>2. PICK x \in Bad : \A y \in Bad : x <= y
  BY <1>1, LeastNatural
<1> DEFINE Gap == {x - y : y \in {z \in S : z < x}}
<1>3. PICK n \in Gap : \A m \in Gap : n <= m
  <2>1. Gap \subseteq Nat /\ Gap # {}
    BY <1>1, <1>2
  <2> HIDE DEF Gap
  <2> QED
    BY <2>1, LeastNatural
<1>4. PICK p \in S : p < x /\ n = x - p
  BY <1>3
<1>5. \A y \in S : y < x => y <= p
  <2> TAKE y \in S
  <2> HAVE y < x
  <2>1. x - y \in Gap
    OBVIOUS
  <2>2. x - p <= x - y
    BY <1>3, <1>4, <2>1
  <2> QED
    BY <1>1, <2>2
<1>6. p \in Refs[x]
  BY <1>1, <1>4, <1>5 DEF PreviousIn, Refs
<1>7. p \in Reach(Refs, x) /\ x \in Blocks
  BY <1>1, <1>6, ReachGrows
<1>8. CASE a = p
  BY <1>7, <1>8
<1>9. CASE a # p
  <2>1. a < p /\ p \notin Bad
    BY <1>1, <1>2, <1>4, <1>5, <1>9
  <2>2. a \in Reach(Refs, p)
    BY <2>1
  <2> QED
    BY <1>1, <1>7, <2>2, ReachIsTransitive
<1> QED
  BY <1>8, <1>9

(***************************************************************************)
(* The order of the source program that must be kept.                      *)
(***************************************************************************)
MustStayInOrder(a, b) ==
  \/ {a, b} \subseteq prog.comm
  \/ {a, b} \subseteq RequestBlocks(prog)
  \/ Conflict(prog, a, b)

LEMMA ListedInOrder ==
  ASSUME Ordered, NEW a \in Blocks, NEW b \in Blocks, a < b, MustStayInOrder(a, b)
  PROVE  IndexOf(a) < IndexOf(b)
<1>1. IInv /\ MemoryRecorded /\ SameReach /\ phase = "done"
  BY DEF Ordered, Metadata, MetadataInv, BuildInv
<1>2. \A x \in Blocks : PrevComm(x) \subseteq References(x) /\ PrevEnt(x) \subseteq References(x)
  BY <1>1 DEF IInv, MetaWritten, MetaOf, References
<1>3. a \in Reach(Refs, b)
  <2>1. CASE {a, b} \subseteq prog.comm
    <3>1. prog.comm \in SUBSET Blocks
      BY <1>1 DEF IInv, TypeOK, IsProgram, Blocks
    <3> QED
      BY <1>1, <1>2, <2>1, <3>1, ChainIsReached DEF PrevComm
  <2>2. CASE {a, b} \subseteq RequestBlocks(prog)
    <3>1. RequestBlocks(prog) \in SUBSET Blocks
      BY DEF RequestBlocks, Blocks
    <3> QED
      BY <1>1, <1>2, <2>2, <3>1, ChainIsReached DEF PrevEnt
  <2>3. CASE Conflict(prog, a, b)
    BY <1>1, <2>3, ConflictsRecorded DEF Refs
  <2> QED
    BY <2>1, <2>2, <2>3 DEF MustStayInOrder
<1> QED
  BY <1>3, ReachedIsListedBefore

(***************************************************************************)
(* For every program, also with pruned merge points, and every order the   *)
(* solver may return, the new list has communications, entanglement        *)
(* requests and conflicting calls in the order of the source program.      *)
(***************************************************************************)
ListKeepsOrder ==
  stage \in {"run", "end"} =>
    \A a, b \in Blocks : a < b /\ MustStayInOrder(a, b) => IndexOf(a) < IndexOf(b)

THEOREM ListOrderCorrect == ReorderSpec => []ListKeepsOrder
<1>1. Metadata /\ BuildInv /\ ListInv => ListKeepsOrder
  BY ListedInOrder DEF ListKeepsOrder, Ordered
<1> QED
  BY <1>1, ListHolds, PTL

-----------------------------------------------------------------------------
(***************************************************************************)
(* The run.  Where no edge into a merge point is pruned, a jump goes       *)
(* forward in the new list.                                                *)
(***************************************************************************)
LEMMA JumpsAreReferences ==
  ASSUME Ordered, ClassicalMerges(prog), NEW b \in Blocks, NEW t \in prog.succ[b]
  PROVE  t \in Blocks /\ IndexOf(b) < IndexOf(t)
<1>1. IInv /\ phase = "done"
  BY DEF Ordered, Metadata, MetadataInv, BuildInv
<1>2. t \in Blocks /\ b \in CfgPreds(prog, t)
  BY <1>1 DEF IInv, TypeOK, IsProgram, CfgPreds, Blocks
<1>3. ~PrunedPred(b, t)
  <2>1. IsFiniteSet(Blocks)
    BY <1>1, LastIsBlock, FS_Interval
  <2>2. CfgPreds(prog, t) \in SUBSET Blocks
    BY DEF CfgPreds, Blocks
  <2>3. Cardinality(CfgPreds(prog, t)) \in Nat
    BY <2>1, <2>2, FS_Subset, FS_CardinalityType
  <2>4. IsQuantum(prog, t) => Cardinality(CfgPreds(prog, t)) < 2
    BY <1>2 DEF ClassicalMerges, Blocks
  <2> QED
    BY <2>3, <2>4 DEF PrunedPred
<1>4. b \in References(t)
  BY <1>1, <1>2, <1>3 DEF IInv, MetaWritten, MetaOf, MetaPreds, KeptPreds, References
<1>5. b \in Reach(Refs, t)
  BY <1>1, <1>2, <1>4, ReferencesAreDeps, ReachGrows DEF IsDeps, Refs
<1> QED
  BY <1>2, <1>5, ReachedIsListedBefore

RunInv ==
  /\ ran \in Seq(Blocks)
  /\ stage \in {"build", "solve"} => ran = <<>> /\ at = 1
  /\ stage = "run" => at \in DOMAIN list /\ \A i \in DOMAIN ran : IndexOf(ran[i]) < at
  /\ stage \in {"run", "end"} => \A i, j \in DOMAIN ran : i < j => IndexOf(ran[i]) < IndexOf(ran[j])

LEMMA InitRun == ReorderInit => RunInv
  BY DEF ReorderInit, RunInv

LEMMA RunBlockKeepsRun ==
  ASSUME Metadata, BuildInv, ListInv, RunInv, ClassicalMerges(prog), RunBlock
  PROVE  RunInv'
<1> DEFINE b == list[at]
<1>0. /\ Ordered /\ IInv /\ stage = "run" /\ at \in DOMAIN list
      /\ UNCHANGED <<vars, list>> /\ Blocks' = Blocks /\ prog' = prog /\ ran' = Append(ran, b)
  BY DEF RunBlock, RunInv, Ordered, Metadata, MetadataInv, vars, Blocks
<1>1. b \in Blocks /\ IndexOf(b) = at
  BY <1>0, IndexFinds DEF ListInv
<1> HIDE DEF b
<1>2. \A x : IndexOf(x)' = IndexOf(x)
  BY <1>0 DEF IndexOf
<1>3. ran' \in Seq(Blocks)
  BY <1>0, <1>1 DEF RunInv
<1>4. /\ DOMAIN ran' = 1 .. Len(ran) + 1 /\ DOMAIN ran = 1 .. Len(ran) /\ Len(ran) \in Nat
      /\ \A i \in DOMAIN ran : ran'[i] = ran[i]
      /\ ran'[Len(ran) + 1] = b
  BY <1>0, <1>1 DEF RunInv
<1>5. \A i \in DOMAIN ran : IndexOf(ran[i]) < at
  BY <1>0 DEF RunInv
<1>6. \A i, j \in DOMAIN ran' : i < j => IndexOf(ran'[i]) < IndexOf(ran'[j])
  <2> TAKE i, j \in DOMAIN ran'
  <2> HAVE i < j
  <2>1. CASE j \in DOMAIN ran
    <3>1. i \in DOMAIN ran
      BY <1>4, <2>1
    <3> QED
      BY <1>0, <1>4, <2>1, <3>1 DEF RunInv
  <2>2. CASE j \notin DOMAIN ran
    <3>1. j = Len(ran) + 1 /\ i \in DOMAIN ran
      BY <1>4, <2>2
    <3> QED
      BY <1>1, <1>4, <1>5, <3>1
  <2> QED
    BY <2>1, <2>2
<1>7. \A i \in DOMAIN ran' : IndexOf(ran'[i]) <= at
  <2> TAKE i \in DOMAIN ran'
  <2>1. at \in Nat
    BY <1>0, IndexFinds
  <2>2. CASE i \in DOMAIN ran
    <3>1. ran[i] \in Listed
      BY <1>0, <2>2 DEF RunInv, ListInv
    <3>2. IndexOf(ran[i]) \in Nat
      BY <3>1, IndexFinds
    <3> QED
      BY <1>4, <1>5, <2>1, <2>2, <3>2
  <2>3. CASE i \notin DOMAIN ran
    <3>1. i = Len(ran) + 1
      BY <1>4, <2>3
    <3> QED
      BY <1>1, <1>4, <2>1, <3>1
  <2> QED
    BY <2>2, <2>3
<1>8. CASE Returns(b) /\ Return
  BY <1>0, <1>2, <1>3, <1>6, <1>8 DEF Return, RunInv
<1>9. CASE ~Returns(b) /\ at' \in DOMAIN list /\ at < at' /\ stage' = stage
  <2>1. \A i \in DOMAIN ran' : IndexOf(ran'[i]) < at'
    <3> TAKE i \in DOMAIN ran'
    <3>1. ran'[i] \in Listed
      BY <1>0, <1>3 DEF ListInv
    <3>2. IndexOf(ran'[i]) \in Nat /\ at \in Nat /\ at' \in Nat
      BY <1>0, <1>9, <3>1, IndexFinds
    <3> QED
      BY <1>7, <1>9, <3>2
  <2> QED
    BY <1>0, <1>2, <1>3, <1>6, <1>9, <2>1 DEF RunInv
<1>10. CASE ~Returns(b) /\ FallThrough
  <2>1. b # prog.last
    BY <1>0, <1>1, <1>10, OnlyLastReturns
  <2>2. at # Len(list) /\ DOMAIN list = 1 .. Len(list)
    BY <1>0, <2>1 DEF ListInv, b
  <2> QED
    BY <1>0, <1>9, <1>10, <2>2 DEF FallThrough, ListInv
<1>11. CASE ~Returns(b) /\ \E t \in prog.succ[b] : JumpTo(t)
  <2>1. PICK t \in prog.succ[b] : JumpTo(t)
    BY <1>11
  <2>2. t \in Blocks /\ IndexOf(b) < IndexOf(t)
    BY <1>0, <1>1, JumpsAreReferences
  <2>3. IndexOf(t) \in DOMAIN list
    BY <1>0, <2>2, IndexFinds DEF ListInv
  <2> QED
    BY <1>1, <1>9, <1>11, <2>1, <2>2, <2>3 DEF JumpTo
<1>12. \/ Returns(b) /\ Return
       \/ ~Returns(b) /\ FallThrough
       \/ ~Returns(b) /\ \E t \in prog.succ[b] : JumpTo(t)
  BY DEF RunBlock, b, Returns
<1> QED
  BY <1>8, <1>10, <1>11, <1>12

LEMMA NextRun ==
  ASSUME Metadata, BuildInv, ListInv, ListInv', BuildInv', RunInv, ClassicalMerges(prog), [ReorderNext]_ReorderVars
  PROVE  RunInv'
<1>0. Blocks' = Blocks
  BY StepsOfFirstPass DEF Next, vars, Blocks, CollectDataDeps, ResolveMemorySideEffects, PropagateMergePoint,
         CollectBranches, BeginScan, VisitFloater, PinFloater, MoveFloater, LeaveFloater, NextBranch,
         EndFloaters, TransitiveReduction, ReduceBlock, EndReduction, EmitMeta
<1>1. CASE RunBlock
  BY <1>1, RunBlockKeepsRun
<1>2. CASE UNCHANGED ReorderVars
  BY <1>0, <1>2 DEF ReorderVars, rvars, RunInv, IndexOf
<1>3. CASE (Next /\ UNCHANGED rvars) \/ (phase = "done" /\ (VisitBlock \/ EndBuild)) \/ (\E b \in known : NextStart(b)) \/ MoveBlocks
  <2>1. stage \in {"build", "solve"} /\ UNCHANGED <<ran, at>>
    <3>1. CASE Next /\ UNCHANGED rvars
      <4>1. phase # "done"
        BY <3>1 DEF Next, CollectDataDeps, ResolveMemorySideEffects, PropagateMergePoint,
         CollectBranches, BeginScan, VisitFloater, NextBranch,
         EndFloaters, TransitiveReduction, EndReduction, EmitMeta
      <4> QED
        BY <3>1, <4>1 DEF BuildInv, rvars
    <3>2. CASE (phase = "done" /\ (VisitBlock \/ EndBuild)) \/ (\E b \in known : NextStart(b)) \/ MoveBlocks
      BY <3>2 DEF VisitBlock, EndBuild, NextStart, MoveBlocks
    <3> QED
      BY <1>3, <3>1, <3>2
  <2>2. ran' = <<>> /\ at' = 1
    BY <2>1 DEF RunInv
  <2>3. stage' = "run" => 1 \in DOMAIN list'
    BY DEF ListInv
  <2> QED
    BY <1>0, <2>2, <2>3 DEF RunInv
<1> QED
  BY <1>1, <1>2, <1>3 DEF ReorderNext

(***************************************************************************)
(* The program stays one of Programs, so that what they all satisfy holds  *)
(* of it.                                                                  *)
(***************************************************************************)
AllMergesClassical == \A p \in Programs : ClassicalMerges(p)

LEMMA RunHolds ==
  AllMergesClassical => (ReorderSpec => [](Metadata /\ BuildInv /\ ListInv /\ RunInv))
<1> SUFFICES ASSUME AllMergesClassical PROVE ReorderSpec => [](Metadata /\ BuildInv /\ ListInv /\ RunInv)
  OBVIOUS
<1>1. Metadata => ClassicalMerges(prog)
  BY DEF AllMergesClassical, Metadata, MetadataInv, IInv
<1>2. /\ Metadata /\ BuildInv /\ ListInv /\ (BuildInv /\ ListInv)' /\ RunInv /\ [ReorderNext]_ReorderVars
      => RunInv'
  BY <1>1, NextRun
<1> QED
  BY <1>2, InitRun, ListHolds, PTL DEF ReorderSpec

(***************************************************************************)
(* Where no merge point is a call, a run of any program executes no block  *)
(* twice, whatever its branches decide and the solver returned.            *)
(***************************************************************************)
THEOREM RunsOnceCorrect == AllMergesClassical => (ReorderSpec => []RunsOnce)
<1>1. ListInv /\ BuildInv /\ RunInv => RunsOnce
  <2> SUFFICES ASSUME ListInv, BuildInv, RunInv, NEW i \in DOMAIN ran, NEW j \in DOMAIN ran, ran[i] = ran[j]
               PROVE  i = j
    BY DEF RunsOnce
  <2>1. stage \in {"run", "end"} /\ i \in Nat /\ j \in Nat
    BY DEF BuildInv, RunInv
  <2>2. IndexOf(ran[i]) \in Nat
    <3>1. ran[i] \in Listed
      BY <2>1 DEF ListInv, RunInv
    <3> QED
      BY <3>1, IndexFinds
  <2>3. ~(i < j) /\ ~(j < i)
    BY <2>1, <2>2 DEF RunInv
  <2> QED
    BY <2>1, <2>3
<1> QED
  BY <1>1, RunHolds, PTL

(***************************************************************************)
(* Where no merge point is a call, every run of every program does its     *)
(* communications, its requests and its conflicting calls in the order of  *)
(* the source program.                                                     *)
(***************************************************************************)
THEOREM RunOrderCorrect == AllMergesClassical => (ReorderSpec => []RunKeepsOrder)
<1>1. Metadata /\ ListInv /\ BuildInv /\ RunInv => RunKeepsOrder
  <2> SUFFICES ASSUME Metadata, ListInv, BuildInv, RunInv, NEW i \in DOMAIN ran, NEW j \in DOMAIN ran, i < j,
                      MustStayInOrder(ran[i], ran[j])
               PROVE  ran[i] < ran[j]
    BY DEF RunKeepsOrder, MustStayInOrder
  <2>1. Ordered /\ ran[i] \in Blocks /\ ran[j] \in Blocks
    BY DEF BuildInv, RunInv, Ordered
  <2>2. IndexOf(ran[i]) < IndexOf(ran[j])
    BY <2>1 DEF RunInv, Ordered
  <2>3. IndexOf(ran[i]) \in Nat /\ IndexOf(ran[j]) \in Nat
    BY <2>1, IndexFinds DEF Ordered, ListInv
  <2>4. ran[i] \in Nat /\ ran[j] \in Nat
    BY <2>1, LastIsBlock DEF Metadata, MetadataInv
  <2>5. ran[i] # ran[j]
    BY <2>2, <2>3
  <2>6. MustStayInOrder(ran[j], ran[i])
    BY DEF MustStayInOrder, Conflict
  <2>7. ~(ran[j] < ran[i])
    BY <2>1, <2>2, <2>3, <2>6, ListedInOrder
  <2> QED
    BY <2>4, <2>5, <2>7
<1> QED
  BY <1>1, RunHolds, PTL
=============================================================================
