----------------------------- MODULE Precedences -----------------------------
(***************************************************************************)
(* addPrecedences: computes, for every block of the main function, the     *)
(* blocks that must stay before it, and records them in the block's        *)
(* blk_meta.  While doing so it may move blocks in front of a conditional  *)
(* branch.  One action per step of the pass, in the order of the code.     *)
(* A definition marked "Fault" is the one below it as a plausible mistake  *)
(* would have it; it is not part of the specification.                     *)
(***************************************************************************)
EXTENDS HostProgram

CONSTANT Programs      \* the main functions the pass is given

ASSUME ProgramsAssumption ==
  \A p \in Programs : WellFormed(p) /\ CalleesInCallOrder(p)

VARIABLES
  prog,       \* the main function
  online,     \* the option useOnlineScheduler
  pos,        \* position of each block in the current block list
  deps,       \* blockDeps: the blocks each block depends on
  phase,      \* the step of the pass
  cursor,     \* merge points: the next block whose dependencies are propagated
  branches,   \* condBrBlocks still to be processed
  scanning,   \* whether the floaters of the current branch are being visited
  todo,       \* the part of transitiveNeeds not visited yet
  before,     \* the dependencies the transitive reduction started from (history)
  reduced,    \* the blocks the transitive reduction has processed
  meta        \* the blk_meta operations

vars == <<prog, online, pos, deps, phase, cursor, branches, scanning, todo,
          before, reduced, meta>>

Blocks == BlocksOf(prog)

Phases == {"collect", "memory", "merge", "floaters", "reduce", "emit", "done"}

NoMeta == [preds |-> {}, deps |-> {}, prevComm |-> {}, prevEnt |-> {}]

Init ==
  /\ prog \in Programs
  /\ online \in BOOLEAN
  /\ pos = [b \in Blocks |-> b]
  /\ deps = [b \in Blocks |-> {}]
  /\ phase = "collect"
  /\ cursor = 0
  /\ branches = {}
  /\ scanning = FALSE
  /\ todo = {}
  /\ before = [b \in Blocks |-> {}]
  /\ reduced = {}
  /\ meta = [b \in Blocks |-> NoMeta]

-----------------------------------------------------------------------------
(***************************************************************************)
(* Data dependencies: on the blocks that define an operand, and of every   *)
(* classical communication on the first block, which holds the remote ids. *)
(***************************************************************************)
DataDeps(b) == prog.uses[b] \cup (IF b \in prog.comm THEN {0} ELSE {})

CollectDataDeps ==
  /\ phase = "collect"
  /\ deps' = [b \in Blocks |-> DataDeps(b)]
  /\ phase' = "memory"
  /\ UNCHANGED <<prog, online, pos, cursor, branches, scanning, todo, before, reduced, meta>>

\* Fault: only calls with the very same operands conflict.
EqualMemoryDeps(b) ==
  {a \in Blocks : /\ a # b /\ IsQuantum(prog, a) /\ IsQuantum(prog, b)
                  /\ prog.writes[a] = prog.writes[b] /\ prog.writes[a] # {}
                  /\ prog.callee[a] < prog.callee[b]}

\* Calls with conflicting effects, in the order of the routines they call.
MemoryDeps(b) == {a \in Blocks : a # b /\ Conflict(prog, a, b) /\ prog.callee[a] < prog.callee[b]}

ResolveMemorySideEffects ==
  /\ phase = "memory"
  /\ deps' = [b \in Blocks |-> deps[b] \cup MemoryDeps(b)]
  /\ phase' = "merge"
  /\ UNCHANGED <<prog, online, pos, cursor, branches, scanning, todo, before, reduced, meta>>

-----------------------------------------------------------------------------
(***************************************************************************)
(* Merge points: what a block depends on is handed to its control-flow     *)
(* predecessors that stand after it in the list.                           *)
(***************************************************************************)
PropagatedTo(pred, b) == {d \in deps[b] : d # pred /\ pos[d] < pos[pred]}

PropagateMergePoint ==
  /\ phase = "merge"
  /\ cursor <= prog.last
  /\ deps' = [x \in Blocks |->
                IF x \in CfgPreds(prog, cursor) THEN deps[x] \cup PropagatedTo(x, cursor)
                                                ELSE deps[x]]
  /\ cursor' = cursor + 1
  /\ UNCHANGED <<prog, online, pos, phase, branches, scanning, todo, before, reduced, meta>>

CollectBranches ==
  /\ phase = "merge"
  /\ cursor > prog.last
  /\ branches' = CondBlocks(prog)
  /\ phase' = "floaters"
  /\ UNCHANGED <<prog, online, pos, deps, cursor, scanning, todo, before, reduced, meta>>

-----------------------------------------------------------------------------
(***************************************************************************)
(* Floaters: blocks control reaches only by falling through the list.      *)
(* Those that blocks after a conditional branch need are kept in front of  *)
(* the branch, and moved there when nothing they depend on forbids it.     *)
(***************************************************************************)
Branch == Smallest(branches)

\* Fault: the first of the operations instead of the previous one.
FirstIn(S, b) == {a \in S : b \in S /\ a < b /\ \A x \in S : x < b => a <= x}

PreviousIn(S, b) == {a \in S : b \in S /\ a < b /\ \A x \in S : x < b => x <= a}

PrevComm(b) == PreviousIn(prog.comm, b)

PrevEnt(b) == PreviousIn(RequestBlocks(prog), b)

TransitiveNeeds(c) ==
  LET all == Closure(deps, prog.last) IN UNION {all[b] : b \in {x \in Blocks : pos[x] > pos[c]}}

\* Fault: jump targets float too.
AnyFloater(f) == f \notin prog.glue /\ (online \/ f \notin RequestBlocks(prog))

\* The static scheduler leaves entanglement requests alone.
IsFloater(f) ==
  /\ CfgPreds(prog, f) = {}
  /\ f \notin prog.glue
  /\ online \/ f \notin RequestBlocks(prog)

\* Fault: the previous communication and request are not looked at.
DataAllowsMove(f, c) == \A d \in deps[f] : pos[d] < pos[c]

CanMove(f, c) == \A d \in deps[f] \cup PrevComm(f) \cup PrevEnt(f) : pos[d] < pos[c]

\* Fault: the block stays where it is.
NotMoved(f, c) == pos

MovedBefore(f, c) ==
  [b \in Blocks |-> IF b = f THEN pos[c]
                    ELSE IF pos[c] <= pos[b] /\ pos[b] < pos[f] THEN pos[b] + 1
                    ELSE pos[b]]

BeginScan ==
  /\ phase = "floaters"
  /\ branches # {}
  /\ ~scanning
  /\ scanning' = TRUE
  /\ todo' = {f \in Blocks \cap TransitiveNeeds(Branch) : f # Branch /\ IsFloater(f)}
  /\ UNCHANGED <<prog, online, pos, deps, phase, cursor, branches, before, reduced, meta>>

\* The set is unordered: any unvisited floater may be the next.
PinFloater(f) ==
  /\ pos[f] < pos[Branch]
  /\ deps' = [deps EXCEPT ![Branch] = @ \cup {f}]
  /\ todo' = todo \ {f}
  /\ UNCHANGED <<prog, online, pos, phase, cursor, branches, scanning, before, reduced, meta>>

MoveFloater(f) ==
  /\ pos[f] > pos[Branch]
  /\ CanMove(f, Branch)
  /\ pos' = MovedBefore(f, Branch)
  /\ deps' = [deps EXCEPT ![Branch] = @ \cup {f}]
  /\ scanning' = FALSE
  /\ todo' = {}
  /\ UNCHANGED <<prog, online, phase, cursor, branches, before, reduced, meta>>

LeaveFloater(f) ==
  /\ pos[f] > pos[Branch]
  /\ ~CanMove(f, Branch)
  /\ todo' = todo \ {f}
  /\ UNCHANGED <<prog, online, pos, deps, phase, cursor, branches, scanning, before, reduced, meta>>

VisitFloater ==
  /\ phase = "floaters"
  /\ scanning
  /\ \E f \in todo : PinFloater(f) \/ MoveFloater(f) \/ LeaveFloater(f)

NextBranch ==
  /\ phase = "floaters"
  /\ scanning
  /\ todo = {}
  /\ branches' = branches \ {Branch}
  /\ scanning' = FALSE
  /\ UNCHANGED <<prog, online, pos, deps, phase, cursor, todo, before, reduced, meta>>

EndFloaters ==
  /\ phase = "floaters"
  /\ branches = {}
  /\ phase' = "reduce"
  /\ before' = deps
  /\ UNCHANGED <<prog, online, pos, deps, cursor, branches, scanning, todo, reduced, meta>>

-----------------------------------------------------------------------------
(***************************************************************************)
(* Transitive reduction: one pass over blockDeps, whose map has no order.  *)
(* A block without an indirect dependency is left out of the interleaving: *)
(* visiting it changes nothing, then or later, since sets only shrink.     *)
(***************************************************************************)
\* Fault: drops the dependency others come through, not the one that comes through it.
Doubled(b) == {d \in deps[b] : deps[d] \cap deps[b] # {}}

Indirect(b) == deps[b] \cap UNION {deps[d] : d \in deps[b]}

Reducible == {b \in Blocks \ reduced : Indirect(b) # {}}

ReduceBlock(b) ==
  /\ deps' = [deps EXCEPT ![b] = @ \ Indirect(b)]
  /\ reduced' = reduced \cup {b}
  /\ UNCHANGED <<prog, online, pos, phase, cursor, branches, scanning, todo, before, meta>>

TransitiveReduction == phase = "reduce" /\ \E b \in Reducible : ReduceBlock(b)

EndReduction ==
  /\ phase = "reduce"
  /\ Reducible = {}
  /\ phase' = "emit"
  /\ UNCHANGED <<prog, online, pos, deps, cursor, branches, scanning, todo, before, reduced, meta>>

-----------------------------------------------------------------------------
(***************************************************************************)
(* blk_meta: an edge from a predecessor into a quantum merge point is      *)
(* dropped when the merge point needs nothing from it; a block that is     *)
(* only a jump and has no predecessor left gets the block in front of it.  *)
(***************************************************************************)
\* Fault: edges into classical merge points are pruned too.
AnyPrunedPred(a, b) ==
  /\ Cardinality(CfgPreds(prog, b)) >= 2
  /\ a \notin deps[b]
  /\ ~Conflict(prog, a, b)

PrunedPred(a, b) ==
  /\ Cardinality(CfgPreds(prog, b)) >= 2
  /\ IsQuantum(prog, b)
  /\ a \notin deps[b]
  /\ ~Conflict(prog, a, b)

KeptPreds(b) == {a \in CfgPreds(prog, b) : ~PrunedPred(a, b)}

InFrontOf(b) == {a \in Blocks : pos[a] = pos[b] - 1}

MetaPreds(b) == IF KeptPreds(b) = {} /\ b \in prog.glue THEN InFrontOf(b) ELSE KeptPreds(b)

MetaOf(b) == [preds |-> MetaPreds(b), deps |-> deps[b],
              prevComm |-> PrevComm(b), prevEnt |-> PrevEnt(b)]

EmitMeta ==
  /\ phase = "emit"
  /\ meta' = [b \in Blocks |-> MetaOf(b)]
  /\ phase' = "done"
  /\ UNCHANGED <<prog, online, pos, deps, cursor, branches, scanning, todo, before, reduced>>

Next ==
  \/ CollectDataDeps \/ ResolveMemorySideEffects
  \/ PropagateMergePoint \/ CollectBranches
  \/ BeginScan \/ VisitFloater \/ NextBranch \/ EndFloaters
  \/ TransitiveReduction \/ EndReduction
  \/ EmitMeta

Spec == Init /\ [][Next]_vars /\ WF_vars(Next)

-----------------------------------------------------------------------------
(***************************************************************************)
(* Properties.                                                             *)
(***************************************************************************)
(***************************************************************************)
(* Every position is one of the list and every dependency, floater and     *)
(* reference is a block of the function: moves neither push a block off    *)
(* the list nor leave the maps of the pass with a stale key.               *)
(***************************************************************************)
TypeOK ==
  /\ IsProgram(prog)
  /\ online \in BOOLEAN
  /\ pos \in [Blocks -> Blocks]
  /\ deps \in [Blocks -> SUBSET Blocks]
  /\ phase \in Phases
  /\ cursor \in Nat
  /\ branches \in SUBSET Blocks
  /\ scanning \in BOOLEAN
  /\ todo \in SUBSET Blocks
  /\ before \in [Blocks -> SUBSET Blocks]
  /\ reduced \in SUBSET Blocks
  /\ meta \in [Blocks -> [preds : SUBSET Blocks, deps : SUBSET Blocks,
                         prevComm : SUBSET Blocks, prevEnt : SUBSET Blocks]]

References(b) == meta[b].preds \cup meta[b].deps \cup meta[b].prevComm \cup meta[b].prevEnt

(***************************************************************************)
(* Whatever was moved, propagated and pruned, a block's blk_meta names     *)
(* only blocks that stand before it in the final list.  The reordering     *)
(* pass resolves a reference only to a block it has already met, so one    *)
(* forward reference makes the compilation fail.                           *)
(***************************************************************************)
ReferencesPointBackward == \A b \in Blocks : \A r \in References(b) : pos[r] < pos[b]

(***************************************************************************)
(* The reduction loses no ordering, in whichever order the map is visited: *)
(* what a block transitively depended on before, it still does.            *)
(***************************************************************************)
ReductionLossless ==
  phase \in {"emit", "done"} => Closure(deps, prog.last) = Closure(before, prog.last)

Recorded == Closure([b \in Blocks |-> References(b)], prog.last)

(***************************************************************************)
(* Two calls that write a common qubit stay in program order under every   *)
(* order that respects the recorded metadata, also when the reduction      *)
(* removed their own edge and the pruning the control-flow edge.           *)
(***************************************************************************)
ConflictsStayOrdered ==
  phase = "done" =>
    \A a, b \in Blocks : a < b /\ Conflict(prog, a, b) => a \in Recorded[b]

(***************************************************************************)
(* Blocks control jumps to, and blocks that are only a jump, keep their    *)
(* order in the list through every move of a floater.                      *)
(***************************************************************************)
Anchored == {b \in Blocks : CfgPreds(prog, b) # {}} \cup prog.glue

JumpTargetsStay == [][\A a, b \in Anchored : a < b => pos'[a] < pos'[b]]_pos

(***************************************************************************)
(* The floater loop ends: every move, and the scan that is started over    *)
(* after it, brings the pass nearer to its end.                            *)
(***************************************************************************)
PassEnds == <>(phase = "done")

(***************************************************************************)
(* "Skip blocks with CFG predecessors - they are part of a conditional     *)
(* structure and must not be moved" (Precedences.cpp:474-475), "Each       *)
(* conditional op must end up in its own wrapper routine, called from      *)
(* within its branch arm block" (MIRtoLIR-Branching-conditional-quantum-   *)
(* ops.mlir:4-5): no call of an arm gets in front of the branch that       *)
(* guards it.                                                              *)
(***************************************************************************)
ArmsStayBehindBranch ==
  \A c \in CondBlocks(prog) : \A b \in Arms(prog, c) : IsQuantum(prog, b) => pos[c] < pos[b]

(***************************************************************************)
(* "If a predecessor P can jump past a dependency D (because D is placed   *)
(* after P in the list), then D becomes unreachable" (Precedences.cpp:     *)
(* 338-340): no move makes a jump skip, or reach, other blocks than in the *)
(* list the pass started from, whatever the branches decide.               *)
(***************************************************************************)
NothingJumpedPast ==
  phase = "done" =>
    LET given == [b \in Blocks |-> b] IN
    \A side \in Outcomes(prog, given) : Executed(prog, pos, side) = Executed(prog, given, side)
=============================================================================
