------------------------- MODULE QMemoryEfficiency -------------------------
(***************************************************************************)
(* The estimate of quantum memory: a traversal of the list of blocks that  *)
(* counts allocations (virtual qubits) and those for which no measured     *)
(* qubit is left to be used again (physical qubits).  At a conditional     *)
(* branch it walks both sides, by recursion, and goes on with the counts   *)
(* of the worse one.  The stack of calls is a variable.                    *)
(* A definition marked "Fault" is the one below it as a plausible mistake  *)
(* would have it; it is not part of the specification.                     *)
(***************************************************************************)
EXTENDS QubitReuse

CONSTANT Mains   \* the main functions the estimate is made for

VARIABLES
  main,    \* the main function
  stack,   \* the calls of traverseCFGAndCountQMem, the innermost last
  counts   \* virtualQubits, physicalQubits and measured

vars == <<main, stack, counts>>

NoBlock == -1
NoCounts == [virtual |-> 0, physical |-> 0, measured |-> 0]

(***************************************************************************)
(* A call: its next block, the visited set and condBrTargets; while it     *)
(* waits for a side of a branch also the targets, the counts before the    *)
(* branch and, on the false side, what the true one left.                  *)
(***************************************************************************)
Call(block, visited, forbidden) ==
  [block |-> block, visited |-> visited, forbidden |-> forbidden, side |-> "none",
   falseDest |-> NoBlock, initial |-> NoCounts, trueCounts |-> NoCounts, visitedTrue |-> {}]

Init ==
  /\ main \in Mains
  /\ stack = <<Call(0, {}, {})>>
  /\ counts = NoCounts

Top == stack[Len(stack)]
Callers == SubSeq(stack, 1, Len(stack) - 1)

-----------------------------------------------------------------------------
\* Fault: a measured qubit is used again for ever.
CountedOnce(c, op) ==
  IF op[1] = "measure" THEN [c EXCEPT !.measured = @ + 1]
  ELSE IF c.measured = 0 THEN [c EXCEPT !.virtual = @ + 1, !.physical = @ + 1]
  ELSE [c EXCEPT !.virtual = @ + 1]

\* processCalleeQMemOps, one operation.
Counted(c, op) ==
  IF op[1] = "measure" THEN [c EXCEPT !.measured = @ + 1]
  ELSE IF c.measured = 0 THEN [c EXCEPT !.virtual = @ + 1, !.physical = @ + 1]
  ELSE [c EXCEPT !.virtual = @ + 1, !.measured = @ - 1]

ScanNextPhysicalBlock(visited, forbidden) ==
  LET left == BlocksOf(main) \ (visited \cup forbidden) IN
  IF left = {} THEN NoBlock ELSE Smallest(left)

\* The call is over at the end of the list, or at a visited block.
Over(call) == call.block = NoBlock \/ call.block \in call.visited

Visited == Top.visited \cup {Top.block}

Advance(b) ==
  /\ main.term[b] \in {"nop", "return"}
  /\ stack' = Append(Callers, [Top EXCEPT !.visited = Visited,
                                          !.block = ScanNextPhysicalBlock(Visited, Top.forbidden)])

FollowBr(b) ==
  /\ main.term[b] = "br"
  /\ \E t \in main.succ[b] : stack' = Append(Callers, [Top EXCEPT !.visited = Visited, !.block = t])

EvaluateTrueSide(b) ==
  /\ main.term[b] = "cond"
  /\ \E t, e \in main.succ[b] :
       /\ {t, e} = main.succ[b]
       /\ stack' = Callers
            \o <<[Top EXCEPT !.visited = Visited, !.side = "true", !.falseDest = e, !.initial = counts'],
                 Call(t, Visited, Top.forbidden \cup {t, e})>>

VisitBlock ==
  /\ stack # <<>>
  /\ Top.side = "none"
  /\ ~Over(Top)
  /\ counts' = FoldLeft(Counted, counts, main.ops[Top.block])
  /\ Advance(Top.block) \/ FollowBr(Top.block) \/ EvaluateTrueSide(Top.block)
  /\ UNCHANGED main

-----------------------------------------------------------------------------
Caller == stack[Len(stack) - 1]
Outer == SubSeq(stack, 1, Len(stack) - 2)

\* Fault: the false side counts on.
NotRestored == counts

Restored == Caller.initial

\* The true side is walked: the counts before the branch are restored.
EvaluateFalseSide ==
  /\ Len(stack) > 1
  /\ Over(Top)
  /\ Caller.side = "true"
  /\ counts' = Restored
  /\ LET targets == main.succ[Caller.block] IN
     stack' = Outer \o <<[Caller EXCEPT !.side = "false", !.trueCounts = counts, !.visitedTrue = Top.visited],
                         Call(Caller.falseDest, Caller.visited, Caller.forbidden \cup targets)>>
  /\ UNCHANGED main

\* Fault: the lower count.
BetterCounts(c, d) == IF c.physical <= d.physical THEN c ELSE d

WorseCounts(c, d) == IF c.physical >= d.physical THEN c ELSE d

PickWorstCase ==
  /\ Len(stack) > 1
  /\ Over(Top)
  /\ Caller.side = "false"
  /\ counts' = WorseCounts(Caller.trueCounts, counts)
  /\ LET both == Caller.visitedTrue \cup Top.visited IN
     stack' = Append(Outer, Call(ScanNextPhysicalBlock(both, Caller.forbidden), both, Caller.forbidden))
  /\ UNCHANGED main

Return ==
  /\ Len(stack) = 1
  /\ Over(Top)
  /\ stack' = <<>>
  /\ UNCHANGED <<main, counts>>

Next == VisitBlock \/ EvaluateFalseSide \/ PickWorstCase \/ Return

Spec == Init /\ [][Next]_vars

-----------------------------------------------------------------------------
(***************************************************************************)
(* Properties.                                                             *)
(***************************************************************************)
Runs == {Executed(main, AsListed(main), side) : side \in Outcomes(main, AsListed(main))}

Peak(run) == MostAlive(Along(main, run))

Done == stack = <<>>

(***************************************************************************)
(* "so the qubit alloc/free sequence here matches what allocateQubit/      *)
(* releaseQubit would produce" (QMemoryEfficiency.cpp:55-56): without a    *)
(* branch, the physical qubits are as many as the ids handed out.          *)
(***************************************************************************)
IdsHandedOut ==
  LET ids == FoldLeft(LAMBDA i, b : AfterCall(i, main, b), NoIds, InOrder(main, BlocksOf(main))) IN
  {ids.idOf[q] : q \in DOMAIN ids.idOf}

MatchesTranslation ==
  Done /\ CondBlocks(main) = {} =>
    /\ counts.physical = Cardinality(IdsHandedOut)
    /\ counts.virtual = Allocations(Along(main, BlocksOf(main)))

(***************************************************************************)
(* No count is made up of both sides of a branch: the estimate does not    *)
(* exceed what the most demanding run needs, at a time and in all.         *)
(***************************************************************************)
NeverOverstated ==
  Done => /\ \E run \in Runs : counts.physical <= Peak(run)
          /\ \E run \in Runs : counts.virtual <= Allocations(Along(main, run))

(***************************************************************************)
(* Of the sides of a branch the one that needs more counts: if only the    *)
(* sides have calls after it, no run needs more than the estimate says.    *)
(***************************************************************************)
OnlySidesCall ==
  \A c \in CondBlocks(main), b \in BlocksOf(main) :
    b > c /\ main.ops[b] # <<>> => b \in Arms(main, c)

WorseSideCounts == Done /\ OnlySidesCall => \A run \in Runs : Peak(run) <= counts.physical

(***************************************************************************)
(* "For conditional branches, both paths are evaluated and the worst case  *)
(* (highest physical qubit count) is selected" (QMemoryEfficiency.cpp:     *)
(* 173-174): no run needs more qubits at a time than the estimate says.    *)
(***************************************************************************)
WorstCaseSelected == Done => \A run \in Runs : Peak(run) <= counts.physical

(***************************************************************************)
(* A call waits for a measurement exactly if the translation gives it an   *)
(* id that was in use before, whichever calls measured in between.         *)
(***************************************************************************)
WaitsIfReused ==
  Done /\ CondBlocks(main) = {} =>
    {d[1] : d \in ReuseDeps(main)} = {s[1] : s \in SharedSlots(main)}

(***************************************************************************)
(* "the alloc cannot begin before the measurement has completed, because   *)
(* they share the same physical qubit slot" (QubitLifetime.cpp:466-468).   *)
(***************************************************************************)
WaitsForOwnSlot ==
  Done /\ CondBlocks(main) = {} => ReuseDeps(main) = SharedSlots(main)
=============================================================================
