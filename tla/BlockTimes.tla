----------------------------- MODULE BlockTimes ------------------------------
(***************************************************************************)
(* qoalahost-reorder-blocks with its solver: the blocks of the main        *)
(* function become an integer program; its solution orders them, in two    *)
(* rounds; the blocks are moved one after the other; a second program,     *)
(* over the order just found, dates them, in two rounds again.             *)
(*                                                                         *)
(* The solver is external: it returns any optimum.  BlockReordering goes   *)
(* from addPrecedences to a run of the result and leaves the objectives    *)
(* open; here programs come with the references already made.              *)
(*                                                                         *)
(* After a step that fails the pass goes on with what is there, but the    *)
(* module is discarded: "failed" is the end.  "crashed" stands for a       *)
(* failing assertion, or a null pointer that is read.                      *)
(***************************************************************************)
EXTENDS TimedBlocks

CONSTANT Programs

Block == UNION {Blocks(p) : p \in Programs}

EmptyIn(p, b) == p.blocks[b].type = "CL" /\ p.blocks[b].size = 0

\* Every operation takes time, so every block with operations does.
ASSUME LengthsAssumption ==
  \A p \in Programs :
    /\ \A b \in Blocks(p) : p.blocks[b].type = "end" \/ EmptyIn(p, b) \/ Length(p, b) \in Nat \ {0}
    /\ \A given \in SUBSET Blocks(p) : AllTime(p, given) \in Nat

VARIABLES
  prog,     \* the program, with the options of the pass
  stage,
  visited,  \* how many blocks of the function were looked at
  known,    \* the blocks the solver is given
  nops,     \* the blocks with a synthetic nop at their end
  before,   \* precedences between them
  missing,  \* references that no known block answers
  total,    \* zStar: the sum of lifetimes the second round keeps
  rank,     \* the qubits, by when the first round allocates them
  starts,   \* the starts of blocks in the last solution
  order,    \* orderedBlockIds
  list,     \* the blocks of the function
  at,       \* where the loops that move blocks are
  point,    \* insertionPoint
  moved,    \* alreadyMoved
  gap,      \* gmin
  dates     \* the deadline of each block that has one

building == <<visited, known, nops, before, missing>>
solving == <<total, rank, starts, order>>
moving == <<list, at, point, moved>>
dating == <<gap, dates>>
vars == <<prog, stage, building, solving, moving, dating>>

None == 0

Init ==
  /\ prog \in Programs
  /\ stage = "build"
  /\ visited = 0
  /\ known = {}
  /\ nops = {}
  /\ before = {}
  /\ missing = {}
  /\ total = 0
  /\ rank = <<>>
  /\ starts = <<>>
  /\ order = <<>>
  /\ list = [b \in Blocks(prog) |-> b]
  /\ at = 1
  /\ point = 1
  /\ moved = {}
  /\ gap = 0
  /\ dates = <<>>

Finish(how) == stage' = how /\ UNCHANGED <<prog, building, solving, moving, dating>>

-----------------------------------------------------------------------------
(***************************************************************************)
(* buildMilpBlocks.                                                        *)
(***************************************************************************)
Returns(b) == prog.blocks[b].type = "end"
Grouped(b) == prog.group /\ prog.blocks[b].type = "QC"
Empty(b) == EmptyIn(prog, b)
Isolated(b) == prog.blocks[b].after = {} /\ \A c \in Blocks(prog) : b \notin prog.blocks[c].after

LeftOut(b) == Returns(b) \/ Grouped(b) \/ (Empty(b) /\ Isolated(b))

\* recordEdge, for every reference of blk_meta
RecordEdges(b) ==
  LET refs == prog.blocks[b].after IN
  /\ before' = before \cup ((refs \cap known') \X {b})
  /\ missing' = missing \cup ((refs \ known') \X {b})

Visit ==
  LET b == visited + 1 IN
  /\ stage = "build"
  /\ b \in Blocks(prog)
  /\ visited' = b
  /\ \/ LeftOut(b) /\ UNCHANGED <<stage, known, nops, before, missing>>
     \/ /\ ~LeftOut(b)
        /\ known' = known \cup {b}
        /\ nops' = IF Quantum(prog, b) THEN nops \cup {b} ELSE nops
        /\ RecordEdges(b)
        /\ stage' = IF Empty(b) THEN "failed" ELSE "build"
  /\ UNCHANGED <<prog, solving, moving, dating>>

Built ==
  /\ stage = "build"
  /\ visited = Len(prog.blocks)
  /\ Finish(IF missing # {} /\ ~prog.group THEN "failed" ELSE "order")

-----------------------------------------------------------------------------
(***************************************************************************)
(* The two rounds of the first integer program.  Without the second, the   *)
(* order is the one of the first.                                          *)
(***************************************************************************)
NoSolution == OrderSolutions(prog, known, before) = {}

SolveOrder ==
  /\ stage = "order"
  /\ ~NoSolution
  /\ LET optima == PrimaryOptima(prog, known, before) IN
     \/ /\ prog.unoptimize
        /\ starts' \in optima
        /\ stage' = "sort"
        /\ UNCHANGED <<total, rank>>
     \/ /\ ~prog.unoptimize
        /\ \E x \in {<<Cost(LifetimeWeight(prog, known), s), Ranks(prog, known, s)>> : s \in optima} :
             total' = x[1] /\ rank' = x[2]
        /\ stage' = "order again"
        /\ UNCHANGED starts
  /\ UNCHANGED <<prog, building, order, moving, dating>>

SolveOrderFails == stage = "order" /\ NoSolution /\ Finish("failed")

SolveOrderAgain ==
  /\ stage = "order again"
  /\ starts' \in SecondaryOptima(prog, known, before, total, rank)
  /\ stage' = "sort"
  /\ UNCHANGED <<prog, building, total, rank, order, moving, dating>>

\* getOrderedBlocks sorts by start; blocks that start together come in any order.
Placed == {order[i] : i \in DOMAIN order}

\* Fault: blocks that start late go first
Latest(b) == \A c \in known \ Placed : starts[b] >= starts[c]

Soonest(b) == \A c \in known \ Placed : starts[b] <= starts[c]

TakeNext(b) ==
  /\ stage = "sort"
  /\ b \in known \ Placed
  /\ Soonest(b)
  /\ order' = Append(order, b)
  /\ UNCHANGED <<prog, stage, building, total, rank, starts, moving, dating>>

Sorted ==
  /\ stage = "sort"
  /\ known \subseteq Placed
  /\ starts' = <<>>
  /\ stage' = IF prog.group THEN "requests" ELSE "move"
  /\ UNCHANGED <<prog, building, total, rank, order, moving, dating>>

-----------------------------------------------------------------------------
(***************************************************************************)
(* reorderBlocksByMilpOrder: the loop over the blocks of the function that *)
(* moves requests to the front while it goes, then the loop over the       *)
(* order.  (The block that returns is not looked for: the loop that should *)
(* find it stops at blk_meta, the first operation of a block.)             *)
(***************************************************************************)
PlaceOf(l, b) == CHOOSE i \in DOMAIN l : l[i] = b

Next(l, b) == LET i == PlaceOf(l, b) IN IF i = Len(l) THEN None ELSE l[i + 1]

MovedBefore(l, b, c) ==
  IF b = c THEN l
  ELSE LET rest == SelectSeq(l, LAMBDA x : x # b) IN InsertAt(rest, PlaceOf(rest, c), b)

\* Fault: the insertion point stays where it was unless the block was there
MoveToFront(b) ==
  /\ list' = MovedBefore(list, b, Head(list))
  /\ point' = Next(list', b)

Move(b) ==
  /\ list' = MovedBefore(list, b, point)
  /\ point' = Next(list', b)

MoveRequest ==
  /\ stage = "requests"
  /\ at # None
  /\ \/ /\ prog.blocks[at].type = "QC"
        /\ Move(at)
        /\ moved' = moved \cup {at}
     \/ prog.blocks[at].type # "QC" /\ UNCHANGED <<list, point, moved>>
  /\ at' = Next(list', at)
  /\ UNCHANGED <<prog, stage, building, solving, dating>>

RequestsMoved ==
  /\ stage = "requests"
  /\ at = None
  /\ at' = 1
  /\ stage' = "move"
  /\ UNCHANGED <<prog, building, solving, list, point, moved, dating>>

MoveOrdered ==
  /\ stage = "move"
  /\ at \in DOMAIN order
  /\ IF order[at] \in moved THEN UNCHANGED <<list, point>> ELSE Move(order[at])
  /\ at' = at + 1
  /\ UNCHANGED <<prog, stage, building, solving, moved, dating>>

Clean(how) ==
  /\ stage' = how
  /\ nops' = {}

Moved ==
  /\ stage = "move"
  /\ at > Len(order)
  /\ IF prog.deadlines THEN stage' = "gap" /\ UNCHANGED nops ELSE Clean("done")
  /\ UNCHANGED <<prog, visited, known, before, missing, solving, moving, dating>>

-----------------------------------------------------------------------------
(***************************************************************************)
(* The two rounds of the second integer program.  The order is a chain     *)
(* whose last block is looked for among those that follow another one:     *)
(* with fewer than two blocks there is none, which is asserted not to be.  *)
(***************************************************************************)
CannotDate == Len(order) < 2 \/ AllocMissing(prog, known)

NoDates == DeadlineSolutions(prog, order, 0) = {}

SolveGap ==
  /\ stage = "gap"
  /\ ~CannotDate
  /\ ~NoDates
  /\ gap' = Max({LeastGap(prog, order, s) : s \in DeadlineSolutions(prog, order, 0)})
  /\ stage' = "spread"
  /\ UNCHANGED <<prog, building, solving, moving, dates>>

SolveGapFails == stage = "gap" /\ ~CannotDate /\ NoDates /\ Finish("failed")

Crash == stage = "gap" /\ CannotDate /\ Finish("crashed")

SolveSpread ==
  /\ stage = "spread"
  /\ starts' \in SpreadOptima(prog, order, gap)
  /\ stage' = "date"
  /\ UNCHANGED <<prog, building, total, rank, order, moving, dating>>

(***************************************************************************)
(* computeBlockDeadlines: the time from the end of the first block to the  *)
(* start of a block, as a 32-bit integer.  What a number that does not fit *)
(* becomes is undefined: the least integer, or the greatest.  A negative   *)
(* one is replaced by the one before it plus 1.                            *)
(***************************************************************************)
ToInt(x) == IF x < HalfWord THEN {x} ELSE {-HalfWord, HalfWord - 1}

\* Fault: the dates count from the start of the first block
DeadlinesFromStart(o) == {[i \in DOMAIN o |-> starts[o[i]] - starts[o[1]]]}

DeadlinesOf(o) ==
  LET refEnd == starts[o[1]] + Length(prog, o[1])
      of[i \in 0 .. Len(o)] ==
        IF i = 0 THEN {<<>>}
        ELSE UNION {{Append(d, IF x < 0 THEN (IF i = 1 THEN 0 ELSE d[i - 1]) + 1 ELSE x) :
                       x \in ToInt(starts[o[i]] - refEnd)} : d \in of[i - 1]}
  IN of[Len(o)]

\* annotateBlockDeadlines: the first block of the order has no deadline.
Annotate ==
  /\ stage = "date"
  /\ \E o \in {x \in SetToSeqs(known) : IsSorted(x, LAMBDA b, c : starts[b] <= starts[c])} :
       \E d \in DeadlinesOf(o) :
         dates' = [b \in known \ {o[1]} |-> d[PlaceOf(o, b)]]
  /\ Clean("done")
  /\ UNCHANGED <<prog, visited, known, before, missing, solving, moving, gap>>

-----------------------------------------------------------------------------
Solve == SolveOrder \/ SolveOrderFails \/ SolveOrderAgain
Reorder == MoveRequest \/ RequestsMoved \/ MoveOrdered \/ Moved
Date == SolveGap \/ SolveGapFails \/ Crash \/ SolveSpread \/ Annotate

Step == Visit \/ Built \/ Solve \/ (\E b \in known : TakeNext(b)) \/ Sorted \/ Reorder \/ Date

Ended == stage \in {"done", "failed", "crashed"}

Halt == Ended /\ UNCHANGED vars

(***************************************************************************)
(* The pass goes on until it has ended: weak fairness of Step, which is    *)
(* enabled until then (no run deadlocks), without an ENABLED that would    *)
(* solve the integer programs anew.                                        *)
(***************************************************************************)
Spec == Init /\ [][Step \/ Halt]_vars /\ ([]<>Ended \/ []<><<TRUE>>_vars)

-----------------------------------------------------------------------------
(***************************************************************************)
(* Properties.                                                             *)
(***************************************************************************)
Order == INSTANCE BlockOrder WITH Block <- Block, before <- before, order <- order

(***************************************************************************)
(* The pass puts the blocks in an order that respects every reference:     *)
(* sorting by the solver's starts never puts a block before one it must    *)
(* follow, although only the starts of single operations are constrained.  *)
(***************************************************************************)
OrderImplemented == Order!Spec

Done == stage = "done"

InOrderOf(S, l) == SelectSeq(l, LAMBDA b : b \in S)

(***************************************************************************)
(* The function then lists the grouped requests as they were, the solver's *)
(* order, and the blocks that were left out as they were: the loop that    *)
(* moves the block it stands on skips none.                                *)
(***************************************************************************)
ListAsOrdered ==
  Done =>
    LET requests == {b \in Blocks(prog) : Grouped(b)}
        all == [b \in Blocks(prog) |-> b]
    IN list = InOrderOf(requests, all) \o order \o InOrderOf(Blocks(prog) \ (requests \cup known), all)

(***************************************************************************)
(* What the selectors and M stand for: two blocks that no reference orders *)
(* do their tasks one after the other, all in the same order, with time in *)
(* between.  Here starts are bounded generously, not by M; the first of    *)
(* them can be 0.                                                          *)
(***************************************************************************)
OneByOne(x, s) ==
  LET later == s[x[2]] - s[x[1]] IN
  \/ \A c \in x[3] : later + c.shift > c.first
  \/ \A c \in x[3] : later + c.shift < -c.second

BestTotal ==
  LET follow == {<<e[1], e[2], Length(prog, e[1])>> : e \in before}
      served == {<<x[1], x[2], SharedSlots(prog, x[1], x[2])>> : x \in Unordered(prog, known, before)}
      weight == LifetimeWeight(prog, known)
      good(s) ==
        /\ \A e \in follow : s[e[2]] - s[e[1]] >= e[3]
        /\ \A x \in served : OneByOne(x, s)
      all == UNION {{(b :> 0) @@ s : s \in [known \ {b} -> 0 .. 2 * AllTime(prog, known) + 4]} : b \in known}
  IN Min({Cost(weight, s) : s \in {t \in all : good(t)}})

(***************************************************************************)
(* "bigM = 2 * total is generous enough to never cut off an optimal        *)
(* solution" (createVariables): the first round finds the least sum of     *)
(* lifetimes there is.                                                     *)
(***************************************************************************)
PrimaryOptimal == stage = "order again" /\ known # {} => total = BestTotal

\* When blocks start, counted from the end of the first one.
Start(b) == IF b \in DOMAIN dates THEN dates[b] ELSE -Length(prog, b)

Dated == Done /\ prog.deadlines

\* A horizon beyond the greatest 32-bit integer has dates beyond it, too.
Fits == Horizon(prog, order) <= HalfWord

\* The lives of the qubits that are really there: one for each call that allocates.
Lives ==
  LET does(what) ==
        UNION {{<<b, i>> : i \in {j \in DOMAIN Routine(prog, b) : Routine(prog, b)[j].does = what}} :
                 b \in {c \in known : Quantum(prog, c)}}
  IN {x \in does("alloc") \X does("meas") : Origin(prog, x[2][1], x[2][2]) = x[1][1]}

EndIn(dateOf(_), u) == dateOf(u[1]) + Offset(prog, u[1], u[2] + 2)

LivesWithin(dateOf(_)) ==
  \A x \in Lives : EndIn(dateOf, x[2]) - EndIn(dateOf, x[1]) <= prog.lifetime

(***************************************************************************)
(* "Constrains each qubit's lifetime to stay within Lmax":  a program that *)
(* keeps the deadlines measures every qubit in time.  Each routine here is *)
(* called once.                                                            *)
(***************************************************************************)
LifetimesWithinLimit == Dated /\ Fits => LivesWithin(Start)

\* The dates that leave the same time g behind every block.
EvenStart(g, b) ==
  LET i == PlaceOf(order, b) IN
  SumOver(1 .. i - 1, LAMBDA j : (IF j = 1 THEN 0 ELSE Length(prog, order[j])) + g)
    - (IF i = 1 THEN Length(prog, b) ELSE 0)

Allowed(g) ==
  LET last == order[Len(order)]
      even(b) == EvenStart(g, b)
  IN /\ even(last) + Length(prog, last) + Length(prog, order[1]) <= Horizon(prog, order)
     /\ LivesWithin(even)

(***************************************************************************)
(* The deadlines leave the same time between any two blocks that follow    *)
(* each other, and no longer time would be allowed: neither a lifetime nor *)
(* the second objective makes some gap longer than the least.              *)
(***************************************************************************)
GapsEven ==
  Dated /\ Fits =>
    /\ \A b \in known : Start(b) = EvenStart(gap, b)
    /\ Allowed(gap)
    /\ ~Allowed(gap + 1)

(***************************************************************************)
(* A program whose references are answered is reordered: there always is a *)
(* solution within M, unless M is beyond the greatest integer, and the     *)
(* loops over the blocks end.  With deadlines, two blocks are needed, and  *)
(* qubits that live long enough.                                           *)
(***************************************************************************)
Solved == {b \in Blocks(prog) : ~LeftOut(b)}

Answered ==
  /\ \A b \in Solved : ~Empty(b)
  /\ ~prog.group => \A b \in Blocks(prog) : \A c \in prog.blocks[b].after : Returns(b) \/ (c < b /\ ~LeftOut(c))

Datable ==
  /\ Cardinality(Solved) > 1
  /\ ~AllocMissing(prog, Solved)
  /\ prog.lifetime >= AllTime(prog, Blocks(prog))

Solvable ==
  /\ Answered
  /\ 2 * AllTime(prog, Solved) <= HalfWord
  /\ prog.deadlines => Datable

ReorderEnds ==
  /\ <>Ended
  /\ Solvable => <>Done

(***************************************************************************)
(* "For each qubit, record its init (netqasm.init or netqasm.eprs) and     *)
(* measure operations" (MILPReordering.cpp:609), "Constrains each qubit's  *)
(* lifetime to stay within Lmax" (:1678), also when a routine is called    *)
(* for more than one qubit.                                                *)
(***************************************************************************)
EachLifetimeWithinLimit == LifetimesWithinLimit
=============================================================================
