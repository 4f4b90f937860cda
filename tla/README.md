# qoala-mlir: verification project

qoala-mlir compiles quantum network programs: QNet source is lowered to the
QMem, then to the QoalaHost and NetQASM dialects, and translated to iQoala
text. A compiled program has a classical `main` function, made of basic blocks
that run on the host processor, and routines its blocks call on the quantum
processor. The compiler's own hard problem is *order*: it cancels and erases
operations on circuits, moves quantum operations into routines, cuts `main` into
small blocks, works out which block must follow which, lets a solver list the
blocks anew and date them, estimates how long qubits must be kept, and hands out
qubit ids and registers in the order the text happens to have.

The modules are TLA+; TLC checks them on small instances and TLAPS checks the
theorems of the eight `_proofs` modules. `PROJECT.json` lists the components,
runs, findings, theorems, known hazards, and the lines each definition models.

## 1. The system

The compiler is one process, one thread: there are no messages or locks. What is
hard is (a) *unordered containers*: several loops visit hash sets, so the same
input is compiled along many orders; (b) *edit while iterating*: lists and maps
change under loops that read them; (c) *tables tied only by ids* that are used
again; (d) *fixed-width arithmetic* on times and angles; (e) *rewriting to a
fixpoint*, in an order a driver chooses; and (f) the *run of the compiled
program*, which the passes only imagine.

| Part | State | Operations | Interacts with | What makes it correct |
|---|---|---|---|---|
| QNet peephole, DCE, linearity | the IR, live set | rewrites to a fixpoint; mark and erase | before HIR → MIR | what measurements observe is kept, it ends, nothing used is erased |
| Conversions HIR → MIR → LIR | the IR | one rewrite per operation | between all others | types and operands preserved |
| MIR helpers (constant folding, rotations, communication, angles) | the IR | one walk each | between the conversions | no operation lost |
| Functionize and op classifiers | groups of operations per qubit, the active group | open, merge and close a group; outline it as a routine; call it after its last operation | runs on QMem, before the lowering; leaves calls for isolation | calls keep the order of operations on a qubit |
| Isolation, remote ids, entanglement first | block list | splits blocks so that each holds one call or receive; ends them with `nop_term`; moves request blocks | leaves the list `addPrecedences` works on | every split block falls through to the rest |
| addPrecedences | block list, `blockDeps`, `blk_meta` | collect data, memory and communication dependencies, merge points, floaters, transitive reduction, pruning, emission | reads isolated blocks, writes `blk_meta` | references point backward, no order of conflicting calls is lost |
| reorder-blocks (MILP) | blocks, tasks, precedence edges, solution, deadlines | build the model, solve twice, move blocks, solve twice again, write deadlines | reads `blk_meta`, edits the list | every edge respected, lifetimes shortest, deadlines consistent |
| Traversal, memory efficiency | visited set, per-path sums | find a block whose prerequisites are met; fork at branches | reads `blk_meta` | every path is met, arms do not mix |
| Qubit lifetime | tasks per processor, global time, lifetimes | cut blocks into tasks, schedule them on two processors | uses the traversal and the MILP tasks | dependences respected, time monotonic, it ends |
| Gate count, success probability | counters | one walk | uses lifetimes | arithmetic |
| iQoala translation: main | blocks, headers, register map | emit instructions and headers, copy block arguments, delete empty blocks, type blocks | last step | a run of the text is a run of the function |
| iQoala translation: routines, context | qubits and registers in use, tables of main and of the routine | allocate, use, consume, release; argument convention | called at each call of main | no id used twice at a time; the two sides of a call agree |
| Dialects, tools, bindings | none | verifiers, registration, I/O | all | not modelled: no state |

## 2. What is modelled

The modules follow the passes. `Peephole` and `DeadCode` work on QNet.
`Functionize` and `Isolation` produce a block list, `Precedences` annotates it,
`BlockReordering` reorders it and runs the result; `BlockTimes` is the same pass
with its solver. `Traversal` walks the same blocks for the lifetime estimate,
`LifetimeScheduler` plays one path, `QubitReuse` and `QMemoryEfficiency` count
qubits over the list. `HostTranslation` and
`RoutineTranslation` make iQoala of it. Three small modules say what others
promise and are implemented by them: `QubitPool` by `RoutineTranslation`,
`MainRun` by `HostTranslation`, `BlockOrder` by `BlockTimes`. `HostProgram` and
`HostMain` are the forms in which main functions are handed over.

### Peephole, DeadCode (on QNetProgram, Circuits)
`QNetProgram` is a function of operations named by their places, with at most
one `scf.if`; who makes a qubit and how often it is used is read off the wires
(SSA). `Circuits` is the yardstick and not code: measurements are pulled back
through gates to operators on the initial state. `CheckLinear` comes first,
then each pattern is an action over its set of matches; the greedy driver may
take any match. `CollectRoots`, `Mark` (one operation of the worklist), `Doom` and
`EraseLast` are dead-code elimination, with and without classical awareness.
`TurnsOf` reads `crot_x` by an angle as turning the target by plus or minus it, as the control says,
so that a full turn is the identity, as normalisation takes it (normalize_controlled_rotation_angle.mlir). The
repository does not fix this: it does not eliminate a controlled full turn
(controlled_2pi_not_eliminated.mlir), and for a rotation applied only if the control is set it is a phase.
Angles are multiples of quarter turns: floats drift by a hundredth of one,
since no 32-bit number is a multiple of pi; integers have `WordBits` bits and the
remainder of C++.

### Functionize (functionizeModule)
Input is a QMem program: operations block by block, named by their index, with
qubits and operands. `RegisterQubits`, `GroupRequests` (one remote and kind at a time,
any order, since the map has none) and the classification of one operation
(`LeaveInBody`, `Barrier`, `DefineQubit`, `Operate`; `ClassifyAlone` for the
simple classifier) fill `grouper`, the `PerQubitGrouper`: committed groups, the active group
and the qubits it is for. `Outline` turns one group into a routine and its call,
appended to `calls`. An operation has the place of its call, the last of its group,
or its own; the body is what keeps its own.

### Isolation (LowerQMemToLowerDialects up to addPrecedences)
`list` is the block list. `IsolateOp` cuts a block around the next operation of
`marked`: first receives, then calls. `CreateNewEmptyFirstBlock`,
`AddRemoteIDs` and `GroupEntanglementBlocksFirst` follow. A call directly
followed by a receive leaves a block with a `nop_term` only, as in the code.
`Lowered` reads the list as a `HostProgram`; `HandsOverWellFormed` says that it
meets what `Precedences` assumes, so the assumptions of that module are checked
here against the code that must establish them.

### HostProgram, Precedences (addPrecedences)
`HostProgram` is a lowered `main` as data: blocks `0 .. last`, each with a type
(`CL` classical, `CC` receive, `QL` local routine, `QC` request routine), a
terminator, the blocks its operands come from, and the qubits its routine
writes. `Precedences` has one action per stage: `CollectDataDeps`,
`ResolveMemorySideEffects`, `PropagateMergePoint` (one block at a time, since the loop
reads sets it extends), `CollectBranches`, the floater loop (`BeginScan`, `VisitFloater`,
`NextBranch`, `EndFloaters`), `TransitiveReduction` (one block at a time, any
order), `EndReduction`, `EmitMeta`. `pos` is the block
list, `deps` is `blockDeps`, `meta` the emitted `blk_meta`. `before` is history.

### BlockReordering (reorder-blocks, then a run of the result)
Extends `Precedences`: `VisitBlock` reads `blk_meta` back in list order and
resolves references against the blocks met so far; `NextStart` picks any block whose
predecessors have started; `MoveBlocks` appends what the solver was not given: the block that
returns. The code has room for one (`returnBlock`), hence `ReorderAssumption`.
`RunBlock` then walks the list as the runtime does: fall through, jump, return.
The runtime is not in this repository: it is modelled from the comment at
Precedences.cpp:337-341. The solver's objective and times are left open here:
every order the edges allow is checked.

### TimedBlocks, BlockTimes (reorder-blocks with its solver)
`TimedBlocks` states the two integer programs as sets of solutions: the time of
operations, precedences, FCFS inequalities with their big-M bound in words
of `2 * HalfWord` values, both objectives, lifetime, horizon and gap
constraints. The solver is external and returns *any* optimum (`Best`). `BlockTimes` is the
pass: `Visit` builds the model block by block, `SolveOrder` and `SolveOrderAgain`
are the two rounds, `TakeNext` sorts by start, `MoveRequest` and `MoveOrdered` move
blocks one at a time while the loop stands on them, `SolveGap`, `SolveSpread` and
`Annotate` date them. Ends are `done`, `failed` and `crashed` (a failing assertion,
a null pointer that is read).

### Traversal (paths of the lifetime estimate)
Extends `Precedences`: when the pass is done, `Start` takes the first block of the
list. `Visit` adds a block to the path and looks for the next: `Scan` takes the first block
of the list that is `Ready` by its metadata and not `forbidden`, `FollowJump` takes the target
of a jump whatever its metadata says, `Fork` walks one side of a branch and pushes
the rest of the recursion on `forks`, from where `OtherSide` takes it up. `paths` are the
blocks handed to the scheduler. `took` is history. `Executed` (in
`HostProgram`) says which blocks a run executes that walks the list.

### QubitReuse, QMemoryEfficiency (on QubitCalls)
`QubitCalls` is a list of blocks with the allocations and measurements of the routine each one
calls, and the ids the translation gives out along the list. `QubitReuse` is the walk of
`detectReuseBlockDeps` with its queue `freed` (`ReuseDeps`), and the slots the translation
gives out again (`SharedSlots`). `QMemoryEfficiency` counts virtual and physical qubits: `stack` holds the calls of
the recursive `traverseCFGAndCountQMem`, `VisitBlock` counts a block and moves on,
`EvaluateFalseSide` and `PickWorstCase` are what a call does when a side has returned.

### LifetimeScheduler (list scheduler of the lifetime estimate)
Input is one execution path, of the kind that `Traversal` completes (`blocks` and
`jumped`), with times and tasks added. `Advance` looks up
the first available task of each processor and adds the smaller time still
needed; `ScheduleTaskIfReady` is done for `qpu`, then `cpu`, as in one
iteration of `runScheduler`. Times are unsigned: every difference is `% Word`.
`ended` and `overtaken` are history; `overtaken` records that a task was
picked in front of one already pending on its processor.

### RoutineTranslation (calls, routines, qubit ids)
A call translates its routine: `Functionize` makes one of each per call, so no routine is called
twice here (hand-written input may; section 6). The context (`qubits`), the frame of
main (`held`, `freed`) and the routine (`ids`, `uses`, `keeps`) are separate tables, as
in the code, tied only by ids. Actions begin a call, a local or a request
routine, allocate, measure, free, and end the call, which releases in main what
the routine consumed. The program is revealed step by step: any sequence of
calls, on both arms of a branch, of any operations. `Given` maps it to
`QubitPool`.

### HostMain, MainRun, HostTranslation (the host section)
`HostMain` is a main function with values, arguments of blocks and headers;
`MainRun` is what MLIR says a run does; `Listing` lists a set of
numbers, and what stands at these places of a sequence, in order. `HostTranslation` emits the host blocks
operation by operation (`Constant`, `CmpI`, `MulI`, `Communicate`, `Call`, `BlkMeta`,
`Jump`, `CondBranch`, ...), deletes empty blocks one at a time (`DeleteEmptyBlock`),
sets block types, and then runs the text on host registers. Copies for block
arguments are made one after the other.

Definitions marked `Fault` are mistakes the mutation runs put in place of the
definition below them. No other definition refers to them.

## 3. What the runs check

| Run | Instance | Shows |
|---|---|---|
| `qnet_passes` | two wires; up to 2 operations of 13 (floats and Hermitian gates) or 8 (integer rotations), up to 3 of 6; a branch with rotations before, in both arms and after, whose arms measure the qubit, hand it on, or begin it; 8 settings of the options | measurements observe what they did, on every path and for every order of patterns; angles end up in range; patterns come to an end; what is erased is not used |
| `functionize` | every program of two qubits with four operations in one block or three in `if` and `if`/`else` shapes, and the repository's grouping test; simple and per-qubit classifier, size limits 0, 1 and 3, requests grouped or not | groups are outlined in an order every qubit and operand agrees with; values reach their uses; receives are not crossed; routines have one block, one remote, the right size; no cut loses an operation or a jump target; the result is what `addPrecedences` assumes; the passes end |
| `precedences` | six control-flow shapes of 8 to 12 blocks, every typing, up to two operands per block, both schedulers | references point backward; the reduction loses no order; conflicting calls stay ordered; jump targets keep their order; the pass ends |
| `block_reordering` | shapes `IfThen` and `TwoIfs`, merge points classical, every order the edges allow, every branch outcome | a run runs no block twice, keeps messages, requests and conflicting calls in order |
| `block_times` | sixteen small functions (one or two qubits, requests, references that fail, fewer than two blocks, times that overflow), every option, five limits, every optimum | the list is the order that was found; lifetimes are the shortest; deadlines keep them within the limit and leave even gaps; the order implements `BlockOrder`; the pass ends, and succeeds when a solution exists |
| `traversal` | `precedences` on five shapes whose branching blocks compute nothing for others, then the traversal | every combination of branch outcomes is walked once; a path has only blocks its run executes, and misses one only if it is not ready there: a dependency, or every predecessor, is not on the path |
| `qmemory_efficiency` | a list, `if`, `if`/`else`, two `if`s; every way to allocate and measure up to three qubits in their calls | the counts are those of the translation, never those of two sides together, and of the worse side; without a branch, a call waits for a measurement exactly if its id was in use before |
| `lifetime_scheduler` | every path of 3 blocks of 4 kinds with any dependences; every path of 4 blocks of 3 kinds following at most one block each; jumps into the last block; one qubit, measured nowhere, later in its routine, or in any block that follows it directly or not | it ends; unless a task was overtaken, tasks start after what they depend on and lifetimes are exact |
| `routine_translation` | 3 qubits, 2 physical ones, 3 classical values, calls with up to 3 operands, in any order, and 1 measurement, any number of calls | ids are reserved while a value has one; operands are mapped to the registers that load them, and the n-th value passed is the one loaded from input n; a released qubit is never passed; the tables implement `QubitPool` |
| `host_translation` | `if` with an arm cut around a call, `if`/`else` listed either way, both sides to one block; 8 tests, arms with every kind of arithmetic | headers keep their order, jumps name blocks that are listed, the run implements `MainRun` and ends |
| `arms_stay`, `dead_code_used` | smaller instances of the same modules | each is violated, see below |

**Bounds.** The shapes are the smallest where each mechanism acts. Circuits: two
patterns meet in three operations (a pair inside a pair), an eligible pair with
another use needs a branch; exponents stay at `WordBits - 3`, see section 4, and
`Tolerance` exceeds the drift of a chain. Order: a merge
point, one branch with a block that can float, two branches in sequence (moves
for one change the start of the next), an arm long enough to be split, a
receive between branches (a floater that cannot move). Paths: the same shapes, since forks
nest where one branch follows another. Qubits: three are enough for two slots to be
freed in either order and one to be used again. Schedules: three blocks are enough
for a dependence chain over both processors with a third block competing for
one; routines have up to two parts, so that a task can be pending while another
becomes available. `Word = 128` exceeds the number of tasks times the longest
(`NeverTooLong`), so a wrap in the model is one in the code. The run in `BlockReordering` is cut
after `MaxSteps` blocks, one more than the program has: a run that long repeats
a block, which `RunsOnce` reports (and `RunsOnceCorrect` excludes).
Grouping: four operations are enough to define two qubits, use both together and use
one again, so that a group is closed by another qubit and reopened; a block with a
request, a receive and gates on both sides of it; and, with three in branching
shapes, a qubit defined before a branch and used in an arm. Limit 3 lets a group
be closed by the limit after a definition, limit 1 after every operation.
Solver: `HalfWord = 32` holds every bound of the shapes but the last, whose
times make the big-M bound wrap around so that the solver finds no solution:
that is why `ReorderEnds` asks for success only below half of it. Translation: with two physical qubits
and three qubits, ids run out and are used again; three operands put a qubit between two
inputs, and pass three of them; 12 registers are enough for every program, integers are modulo 3.

**Fairness.** Weak fairness of the next-state relation. The passes run in one thread
that no one suspends; no choice is assumed fair, so `RewritingEnds`, `PassEnds`, `RunImplemented`,
`LoweringEnds` and `AllScheduled` hold for every order and every branch
outcome. `BlockTimes` states the same in the equivalent form
"the pass has ended again and again, or steps are taken for ever": to
evaluate whether a solver step is enabled would mean to enumerate its solutions
once more. Whether the solver itself ends is assumed.

**Deadlock** checking is off where a pass, and a program, stop when they are
done. `BlockTimes` has a `Halt` step at its ends and checks it. The liveness properties say
that nothing stops earlier.

## 4. Findings

Two have a run that TLC ends with a counterexample.

1. `ArmsStayBehindBranch`: isolating the second call of an arm leaves a block
   without control-flow predecessors, which the floater loop takes for a block
   outside the conditional and moves in front of the branch.
2. `NothingDangles`: dead-code elimination does not follow a qubit through the end of an
   arm (`scf.yield`), and erases gates that are used.

Seen in the models, and not kept as runs; where a definition is named, it is in the
module and TLC violates it on the instances given:

- `NotScheduledBeforeDependences` (LifetimeScheduler, all paths): the unsigned time increment
  wraps when an earlier task of a processor becomes available while a later one is
  pending: the global time goes backward (QubitLifetime.cpp:397).
- `EachLifetimeWithinLimit` (BlockTimes): the table from operation to task has one entry for
  an operation of a routine that several blocks call, so the lifetime
  constraint of the first qubit bounds the last call (MILPReordering.cpp:95).
- `NothingJumpedPast` (Precedences, `TwoBranchPrograms`): a block that computes a value, is
  reached by falling through and ends with a branch is a floater; it is moved, with its branch,
  in front of an earlier one, which a run then jumps over (Precedences.cpp:476-484, 521).
- `PathsComplete` (Traversal, `OneBranchPrograms`): a receive that must follow a receive of an
  arm is never ready on the path that skips the arm (AnalysisTraversal.cpp:14-24); it and what depends
  on it is missing from the schedule.
- `WorstCaseSelected` (QMemoryEfficiency, `ShortArmMains`): the side that skips an arm scans the
  arm's jump, which leads to a visited block, and ends before the calls that follow the branch
  (QMemoryEfficiency.cpp:77-79, 161): a run may need more qubits than estimated.
- `WaitsForOwnSlot` (QMemoryEfficiency, `ShortArmMains`): an allocation waits for the first
  measurement in the queue (QubitLifetime.cpp:494), but is given the lowest id
  (iQoalaContext.cpp:48-56), which another measurement may have freed.
- `IdsFollowLifetimes` (RoutineTranslation): a pair that its request measures at once
  keeps its id for ever (NetQASMToiQoalaTranslation.cpp:273-277). With three such
  requests and `MaxPhyQubits = 2` no id is left.
- `BranchTargetsListed` (HostTranslation, programs `EmptyArm`): an empty block that only the
  true side of a conditional branch names is deleted (iQoalaMCBlocks.cpp:78).
- `HeadersKept` (HostTranslation): a block whose metadata names a previous communication
  and no previous request loses the former: the branch for an empty `prev_ent` calls
  `setPrevComm(nullptr)` (QoalaHostToiQoalaTranslation.cpp:405).
- `VirtualIDsMatch` (RoutineTranslation): the type CUSTOM of virtual ids is always
  overwritten with INCREMENT (iQoalaMCRoutines.cpp:137). `RefusedOnlyIfReleased`: a call
  on one arm is refused for a qubit that the other arm released.
- `PathsStayOnTheirSide` for `LongArm` programs: the second isolated call of an arm, and what follows
  it, have no predecessor in the metadata and are scanned on the path of the other side
  (AnalysisTraversal.cpp:29). `NeverOverstated` for `LongArmMains` in the
  same way: only the targets of a branch are kept from the scan, not the rest of the arms
  (QMemoryEfficiency.cpp:110-114).
- A receive needed after a branch but ordered after a receive of an arm is
  listed between the arm and its merge point; the arm's jump skips it
  (Precedences.cpp:514).
- A quantum merge point whose edges were pruned may be listed before the branch,
  whose jumps then lead backward to it (Precedences.cpp:605).
- Nothing keeps operations of the other arm from standing between an operation
  of an arm and the arm's jump (MILPReordering.cpp:832).
- A qubit whose measurement is on the path not taken is reported with the time
  of its initialisation as its lifetime (QubitLifetime.cpp:313).
- With grouped requests the call stands at the last request of its remote and
  kind; an operation between two of them that uses what the first one makes is in
  front of it. Request blocks are moved in front of the block with the remote ids
  (`RemoteIDsInFront`), which `addPrecedences` asserts to be the first; a
  function that moves it back is never called.
- Integer angles at `d = 30`: the period `1 << 31` is negative, so normalisation
  leaves (-2^d, 2^d] and rewrites the number for ever, although the comment
  claims d in [0, 30] (PeepholeOptimizations.cpp:643). The runs stay below.

These also bound the passing runs: `block_reordering` excludes quantum merge
points, `traversal` branching blocks that compute for others and long arms, `qmemory_efficiency`
long arms, two properties of `lifetime_scheduler` hold until a task is
overtaken, `OrderKept` and `ValuesReach` are for programs whose grouped requests
may be put off (`Groupable`), `HandsOverWellFormed` for grouped
requests of the first block, `ErasedTogether` for functions whose dead code can all be
erased: no dead integer rotation (isCandidateForErasure names none), no
qubit handed on by an arm, and with awareness no dead outcome that
arithmetic still reads; and `LifetimesWithinLimit` for qubits that are measured by routines of their own.

Seen while reading: a receive has no MILP task (MILPReordering.cpp:33-39), so its
latency counts as 0 in the lifetime estimate; with fewer than two blocks for the
solver `assert(tail)` fails (MILPReordering.cpp:1666) and with grouped requests
and deadlines a missing allocation is read through a null pointer
(both are `crashed` in `BlockTimes`); comments on the FCFS inequalities state the opposite
meaning of z (MILPReordering.cpp:857); the loop looking for the returning
block never finds it (MILPReordering.cpp:1334). The default `twoPiEpsilon` of 0
eliminates no full turn of a 32-bit angle other than 0. CheckLinear does not look at X, Y, Z and integer
rotations, counts uses of outcomes, and refuses a qubit used once in each arm.
A routine that allocates, or measures, two qubits counts as one in
`detectReuseBlockDeps` (QubitLifetime.cpp:447-455); `qmemory_efficiency` has one of each per call.
A block whose first task takes no time gets fewer tasks than groups
(QubitLifetime.cpp:247); a declared remote that is never used leaves no first block
(AddRemoteIDPlaceholders.cpp:28); a reference into a map is held while it grows (Precedences.cpp:356).

## 5. What is proved

**`BlockReordering_proofs`**, first part: `addPrecedences`, for every set of programs that meets
`ProgramsAssumption` (any number of blocks, any control flow and operands):
`PrecedencesInv` (`Spec => []IInv`), `TypeCorrect`, `ReferencesCorrect` (`blk_meta` names only
blocks listed before its own), `AnchorsStay` (no step changes the order of jump targets
and bridges), `ReductionCorrect` and `ConflictsCorrect`. `ReferencesPointBackward` is not inductive:
it speaks of `meta`, which is only
written at the end. `IInv` says why it will hold: all that must precede a block
(`deps`, previous communication and request, control-flow predecessors) does
so in the list at every moment (`ListInOrder`), positions are a permutation,
anchors are in order, floaters being visited really are floaters, and nothing has moved
before the floater loop. Control-flow predecessors never enter `deps`, so a
move that broke their order would only show in the metadata: they must be part
of the invariant. The central lemma, `MoveKeepsOrder`, says that moving a block in
front of another permutes positions and keeps the order of all other pairs.

`ReductionLossless` and `ConflictsStayOrdered` are about paths. The reduction replaces an edge
by a path, whose edges a later step replaces in turn, so no invariant about edges
survives it; `SameReach` says that what each block leads to is the same as when the
reduction began. *Reach* is the least set closed under dependencies, which needs no induction;
`ClosureIsReach` ties it to the recursive `Closure` of the model, by a smallest
counterexample. `DroppingKeepsReach` is the heart: of the dependencies a step drops, the
one nearest in the list is still reached, since the one it was dropped for is nearer. It
needs `ListInOrder`: in a cyclic graph the same reduction would lose order.

Second part, for the same programs, if each returns from one block: the
two passes together. `ReferencesResolve`: the second pass finds every reference (its own
failure exit is dead code on metadata of the first). `ListOrderCorrect`: whatever
the solver answers, also with pruned merge points, the list has communications, requests and conflicting calls in source order.
`RunsOnceCorrect` and `RunOrderCorrect`: if no merge point is a call
(`AllMergesClassical`, which the run assumes too and without which section 4 has a
counterexample), so does every run, and it executes no block twice. The
invariant has four layers: the metadata (with `LastUnneeded`: no block needs the
last one, which therefore stays last, so that listing it behind the others breaks nothing), the edges built so far
(`BuildInv`), the list (`ListInv`: each block once and behind its references) and the run
(`RunInv`: what has run stands before `at`). Order of conflicting calls then follows from `ConflictsRecorded`: a chain
of references leads from the later to the earlier call, and each link goes backward in the list.

**`Functionize_proofs`**, for every source program that meets `SourcesAssumption`, both
classifiers and every size limit, as long as requests are not grouped (`Ungrouped`):
`OrderIsKept`, `ValuesAreReached` and `RoutinesAreBounded`, after each single step of the classifiers,
the outlining and the passes that follow. `IInv` describes the groups and not the calls: each is `Formed` (in
source order, on the same qubits and in one block, an allocation only right in front of its
definition, and nothing but operations that stay in the body between its first
and its last), they are one behind the other, and between the last operation of the active
group and the next to be classified all stay in the body (`Open`), which is why it
may be extended. Calls are those of the first groups. `FollowsGroup` does the work: an operation
that must follow one of a group, and is not in it, stands behind the whole group, hence behind its call;
it rests on qubits being defined once and on nothing following a measurement, both
of which `IsSource` states.

**`LifetimeScheduler_proofs`**, for every path that meets `PathsAssumption` (blocks follow
earlier ones, a qubit is measured behind its initialisation, the word holds the number of
tasks times the longest): `SchedulerTypeCorrect`; `ScheduledInOrder`, which holds even
after a task was overtaken; and until then `StartsInTime`, `LifetimesReported` and
`TimeGoesOn`. That time is right is not inductive: all differences
are modulo `Word`, so they mean something only if no processor is ahead of the global time
and none lags by more than its pending task takes (`LagInTime`), an idle one not at all
(`IdleSettled`), for which a pending task must have all it needs behind its processor's time
(`PendingAfterNeeds`). That `globalTime` itself never wraps is `TimeIsSpent`: it is at most what the scheduled
tasks, and one that is due, take in sequence. `StructInv`, what is scheduled and
picked, does not depend on times and is proved first.

**`RoutineTranslation_proofs`**, for every number of qubits, physical qubits,
parameters and operands (`PoolAssumption`, `ValuesAssumption`): `TablesAgree`
(`Spec => []IInv`), `RoutineTypeCorrect`, `IdsStayReserved`, `IdsStayDistinct`,
`KeepsStayLive`, `ReleasedNeverPassed`, `InputsAgree` and `PoolImplemented`, the refinement of `QubitPool`. That ids
are distinct is not inductive: a qubit passed to a routine is in two tables
at once, the context frees an id inside the routine while main still
holds it, and main learns of it only at the end of the call. The invariant relates the tables:
what main holds and the routine has not consumed is what the routine's table says,
consumed ids are those whose values lost them, and both are reserved in the context.
`InputsAgree` rests on this too: a qubit operand finds its `set` by its id, which no other
operand has. A classical one is found by its rank among the classical operands
(`InputsAreRanks`), and `InOrderLists` says that a list taken in order has at each
place the member of that rank, on both sides of the call. Until the call ends, the signature stays what the
tables of the caller gave it (`SignatureKept`).

**`HostTranslation_proofs`**, for every main function that meets `IsMain`, any word and any
number of registers. `IsMain` is what the verifier and the earlier passes leave: a value is
made once and used in sight of where it is made, only the last block returns, jumps lead
forward (main has no loops), no comparison is compared, no header names a block twice.
`JumpsCorrect`: no block, listed or not, jumps to a deleted one. `JumpsResolve` is not
inductive: the code asks every block it ever made, and about one already deleted anything may be answered.
But a deleted block had no instructions, so it jumps nowhere and a wrong answer can
only keep a block that nobody needs; the invariant is that deleted blocks are empty and that no
block jumps to them, and that none is deleted while instructions are still emitted.
`OrderOfHeaders` (`HeaderOrderKept`) adds what each header says at each stage: that of `blk_meta`
until the references to removed blocks are taken out, once, and then that without them.
`TranslationRight` (`Spec => []TransInv`) says what the translation leaves behind. A value gets its
register where it is made and keeps it, and no register is given out that anything made before uses
(`OwnRegisters`): two values share one only if one is the extension of the other. Comparisons get
none. The code of a block is, instruction by instruction, what its operations stand for
(`OpsRight`), at the place their number among the emitting ones gives (`Place`), followed by the
copies and the branch of its terminator (`CodeRight`).

**`HostRun_proofs`**, for the same functions and whatever is received: `RunRight`, that a run of
the host blocks implements `MainRun`, with the same values in front of every block and the same
messages and results in the same order. It is the safety half of `RunImplemented`. One
instruction is run at a time, and a step of `MainRun` is a whole block, so all but the last
instruction of a block stutter. The invariant, `RunInv`, is about the prefix of the block that
has run: what it left in the registers (`OpsPart`), how far the copies for the
chosen side have come (`TermPart`), and what went out since the block was entered (`OutPart`,
where the n-th send is found by its rank among the sends). A comparison is in no register; its value
is read off those of its operands, which works since these are integers.
The copies overwrite arguments of the block that is entered, one after the other, and an argument could hold
what a later copy or a test still reads. It does not: the argument belongs to a block
further on, which dominates no earlier one (`NoneAhead`), so it is not in sight, and what is in sight has
other registers (`OwnIn`). Extensions and copies are why registers and values are
not one to one and the mapping is by visibility. With a jump backward the argument
would be in sight, and copies made one after the other could be wrong.

**`DeadCode_proofs`**, for every set of circuits the verifier of MLIR accepts
(`ProgramsAssumption`), all options and every word width. `AnglesCorrect`: with normalisation, no known
angle is out of range once the patterns have come to an end, since one that was
would still match, and erasing adds none. `NormalizesOnce` says of integers what makes them come to an end: below
exponent 30 the new numerator is in range, the same modulo the period, and left alone from then on,
in spite of the negative remainders of C++ and of words that wrap; at 30 it is false (section 4).
Powers of two are known through the subsets they count, which needs no
induction. `ErasedTogetherCorrect`: if all that is dead may be erased (`Erasable`), nothing is erased
while it is used. While marking, what is live has its makers live or on the
worklist (`MarkInv`); so, when it is empty, what takes something dead is dead too, and all of it is on
the list to erase (`EraseInv`). The last of that list has no taker, which would stand
behind it: makers precede takers (`MakersPrecede`), across the branch as well. Erasing an operation nobody takes leaves the
makers of all others alone (`ErasingKeepsMakers`).

**`BlockTimes_proofs`**, for every set of programs whose operations take time
(`LengthsAssumption`): `OrderImplementation`, that the pass implements `BlockOrder`. `OrderInv`
says that precedences relate known blocks and that in the last solution every
precedence starts earlier; lengths being positive, the first of the remaining blocks
has all its predecessors placed. FCFS, objectives and big-M play no part: any solution will do.

Only model-checked: the liveness properties, for the prover does not handle fairness,
among them that a run of the host blocks ends; `ListAsOrdered`, `NothingLost`, `HandsOver`,
`ObservablesKept`, the properties of `QMemoryEfficiency` and those of
`Functionize` for grouped requests (`RequestGroup`), whose definitions filter, fold or
flatten sequences with library operators that take an operator (`SelectSeq`,
`FoldLeft`), which the provers cannot expand; `PrimaryOptimal`, `LifetimesWithinLimit`
and `GapsEven`, which are sums over an optimum; and the properties of `Traversal`, of
which `PathsStayOnTheirSide` fails for longer arms (section 4) and the others have been
checked on the shapes of the run.

## 6. Not modelled, and why

Gate counts, success probability, angle conversion: arithmetic over one walk,
partly on floating-point numbers. Conversions: one pattern per operation,
checked by the repository's own tests. The choice of the path that takes longer (QubitLifetime.cpp:575):
`Traversal` has no times, `LifetimeScheduler` plays paths of its own, with times and
tasks that `Traversal` does not know. Tools, bindings, dialect classes: no
state. `PatternRewriteDriver.cpp` is MLIR's greedy driver, ported back from a later
LLVM and used by HIR to MIR only (QoalaHIRToQoalaMIR.cpp:117); the peephole pass runs MLIR's own. In iQoala: sections of metadata, the text of
instructions, a second call of the same routine (its placeholders are replaced once, at the first
call, QoalaHostToiQoalaTranslation.cpp:51-83), jumps inside routines (routines of the model are one block), vector messages.
In QNet: angles that are no multiples of quarter turns, qubits passed as block
arguments of `cf` branches, nested branches, `eprs_measure`, and the limit of
ten rounds the greedy driver sets itself. Memory-level effects of editing a map under a
reference lie below the level of the models. Three details no checked program shows: a `cond_br` that names the
same quantum block twice counts as two predecessors (Precedences.cpp:574) and as one here; of two qubits with
one measuring operation the code keeps one (QubitLifetime.cpp:105-114); a CC block of `TimedBlocks`
is a receive, where a send would be CC as well (QoalaHost.cpp:233-257).

## 7. Plan

1. `Traversal` composed with `LifetimeScheduler`: the paths with tasks, and the one that
   takes longer.
2. An abstract two-processor schedule that `LifetimeScheduler` implements as
   long as nothing is overtaken.
3. Proofs: the properties of `Traversal`; grouped requests, whose sequences must first be
   written without operators for parameters.
