----------------------------- MODULE Traversal -----------------------------
(***************************************************************************)
(* The traversal of the lifetime estimate, over the blocks and the blk_meta *)
(* that addPrecedences leaves: it visits, again and again, the first block *)
(* of the list whose prerequisites are met, follows jumps at once, and at  *)
(* a conditional branch walks one side to its end and then the other.      *)
(* Every path it completes is played by LifetimeScheduler.                 *)
(* A definition marked "Fault" is the one below it as a plausible mistake  *)
(* would have it; it is not part of the specification.                     *)
(***************************************************************************)
EXTENDS Precedences, Sequences

VARIABLES
  walk,       \* "idle", "walking" or "ended"
  next,       \* block: the next one to visit, or NoBlock
  path,       \* visited: the blocks of this path, in the order of the visits
  jumped,     \* the blocks of the path that wait for the one visited before
  forbidden,  \* condBrTargets: targets of the branches met on the path
  forks,      \* the branches whose other side is still to be walked
  took,       \* the side of each branch on this path (history)
  paths       \* the completed paths, as the scheduler is given them

walkVars == <<walk, next, path, jumped, forbidden, forks, took, paths>>

NoBlock == -1

TraversalInit ==
  /\ Init
  /\ walk = "idle"
  /\ next = NoBlock
  /\ path = <<>>
  /\ jumped = {}
  /\ forbidden = {}
  /\ forks = <<>>
  /\ took = [c \in CondBlocks(prog) |-> NoBlock]
  /\ paths = {}

-----------------------------------------------------------------------------
\* buildBlockPrerequisites: all dependencies must have been visited, and one predecessor.
Dependencies(b) == meta[b].deps \cup meta[b].prevEnt \cup meta[b].prevComm
Predecessors(b) == meta[b].preds

Ready(b, visited) ==
  /\ Dependencies(b) \subseteq visited
  /\ Predecessors(b) # {} => Predecessors(b) \cap visited # {}

\* Fault: targets of branches are scanned too.
ScanForAnyBlock(visited) ==
  LET ready == {b \in Blocks \ visited : Ready(b, visited)} IN
  IF ready = {} THEN NoBlock ELSE CHOOSE b \in ready : \A x \in ready : pos[b] <= pos[x]

\* The first ready block in the order of the list.
ScanForReadyBlock(visited) ==
  LET ready == {b \in Blocks \ (visited \cup forbidden) : Ready(b, visited)} IN
  IF ready = {} THEN NoBlock ELSE CHOOSE b \in ready : \A x \in ready : pos[b] <= pos[x]

Visited == {path[i] : i \in DOMAIN path}

Start ==
  /\ phase = "done"
  /\ walk = "idle"
  /\ walk' = "walking"
  /\ next' = CHOOSE b \in Blocks : pos[b] = 0
  /\ UNCHANGED <<path, jumped, forbidden, forks, took, paths>>

Scan(b) ==
  /\ prog.term[b] \in {"nop", "return"}
  /\ next' = ScanForReadyBlock(Visited \cup {b})
  /\ UNCHANGED <<jumped, forbidden, forks, took>>

\* Fault: after a jump the next block is scanned for.
ScanAfterJump(b) ==
  /\ prog.term[b] = "br"
  /\ next' = ScanForReadyBlock(Visited \cup {b})
  /\ UNCHANGED <<jumped, forbidden, forks, took>>

\* A jump looks at no prerequisite.
FollowJump(b) ==
  /\ prog.term[b] = "br"
  /\ \E t \in prog.succ[b] : next' = t /\ jumped' = jumped \cup ({t} \ Visited)
  /\ UNCHANGED <<forbidden, forks, took>>

\* Fault: a branch on a path forgets the branches before it.
ForkOnce(b) ==
  /\ prog.term[b] = "cond"
  /\ forbidden' = forbidden \cup prog.succ[b]
  /\ \E t, e \in prog.succ[b] :
       /\ {t, e} = prog.succ[b]
       /\ next' = t
       /\ took' = [took EXCEPT ![b] = t]
       /\ forks' = <<[next |-> e, path |-> Append(path, b), jumped |-> jumped,
                     forbidden |-> forbidden', took |-> [took EXCEPT ![b] = e]]>>
  /\ UNCHANGED jumped

\* One side is walked first; the scan may start blocks of neither side on its own.
Fork(b) ==
  /\ prog.term[b] = "cond"
  /\ forbidden' = forbidden \cup prog.succ[b]
  /\ \E t, e \in prog.succ[b] :
       /\ {t, e} = prog.succ[b]
       /\ next' = t
       /\ took' = [took EXCEPT ![b] = t]
       /\ forks' = Append(forks, [next |-> e, path |-> Append(path, b), jumped |-> jumped,
                                  forbidden |-> forbidden', took |-> [took EXCEPT ![b] = e]])
  /\ UNCHANGED jumped

Visit ==
  /\ walk = "walking"
  /\ next \in Blocks \ Visited
  /\ path' = Append(path, next)
  /\ Scan(next) \/ FollowJump(next) \/ Fork(next)
  /\ UNCHANGED <<walk, paths>>

\* No block is ready, or a jump led to a visited one: the tasks are scheduled.
PathEnds == next = NoBlock \/ next \in Visited

Completed == [blocks |-> path, jumped |-> jumped, took |-> took]

OtherSide ==
  /\ walk = "walking"
  /\ PathEnds
  /\ forks # <<>>
  /\ paths' = paths \cup {Completed}
  /\ LET f == forks[Len(forks)] IN
       /\ next' = f.next
       /\ path' = f.path
       /\ jumped' = f.jumped
       /\ forbidden' = f.forbidden
       /\ took' = f.took
  /\ forks' = SubSeq(forks, 1, Len(forks) - 1)
  /\ UNCHANGED walk

EndTraversal ==
  /\ walk = "walking"
  /\ PathEnds
  /\ forks = <<>>
  /\ paths' = paths \cup {Completed}
  /\ walk' = "ended"
  /\ UNCHANGED <<next, path, jumped, forbidden, forks, took>>

TraversalNext ==
  \/ Next /\ UNCHANGED walkVars
  \/ (Start \/ Visit \/ OtherSide \/ EndTraversal) /\ UNCHANGED vars

TraversalVars == <<vars, walkVars>>

TraversalSpec == TraversalInit /\ [][TraversalNext]_TraversalVars

-----------------------------------------------------------------------------
(***************************************************************************)
(* Properties.                                                             *)
(***************************************************************************)
BlocksOn(p) == {p.blocks[i] : i \in DOMAIN p.blocks}

(***************************************************************************)
(* The scan starts no block of the side not taken: every block of a path   *)
(* is one that a run with the same branch outcomes executes.               *)
(***************************************************************************)
PathsStayOnTheirSide ==
  walk = "ended" => \A p \in paths : BlocksOn(p) \subseteq Executed(prog, pos, p.took)

(***************************************************************************)
(* No path ends at a jump, or with a ready block: a block of its run that  *)
(* it misses waits for a dependency, or for a first predecessor, that is   *)
(* not on it.  One predecessor is enough: a merge point is not excused by  *)
(* the arm that was not taken.                                             *)
(***************************************************************************)
MissingBlocksWait ==
  walk = "ended" =>
    \A p \in paths : \A b \in Executed(prog, pos, p.took) \ BlocksOn(p) :
      ~Ready(b, BlocksOn(p))

(***************************************************************************)
(* At the end each combination of branch outcomes that a run can show has  *)
(* been walked once, and no other.                                         *)
(***************************************************************************)
EveryOutcomeWalked ==
  walk = "ended" => {p.took : p \in paths} = Outcomes(prog, pos)

(***************************************************************************)
(* "Run the scheduler to completion on a set of accumulated tasks along an *)
(* exection path" (QubitLifetime.cpp:402): no block that is executed on    *)
(* a path is missing from its tasks.                                       *)
(***************************************************************************)
PathsComplete ==
  walk = "ended" => \A p \in paths : Executed(prog, pos, p.took) \subseteq BlocksOn(p)
=============================================================================
