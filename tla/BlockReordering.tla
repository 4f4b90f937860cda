--------------------------- MODULE BlockReordering ---------------------------
(***************************************************************************)
(* qoalahost-reorder-blocks: reads the blk_meta operations back, asks the  *)
(* solver for a schedule, and lists the blocks of the main function in the *)
(* order of their start times.  Then one run of the program the way the    *)
(* comments of addPrecedences describe the online scheduler: "The online   *)
(* scheduler walks blocks sequentially by list index, following jumps".    *)
(*                                                                         *)
(* The objective of the solver is left open: every order of start times    *)
(* that its precedence constraints allow is considered.  An operation      *)
(* takes at least one time unit, so a block starts after the blocks it     *)
(* must follow.  Entanglement requests are not grouped.                    *)
(***************************************************************************)
EXTENDS Precedences, Sequences

ASSUME ReorderAssumption == \A p \in Programs : SingleReturn(p)

VARIABLES
  stage,       \* the step of the pass, then of the run
  visited,     \* how many blocks of the list were turned into MILP blocks
  known,       \* idToBlockMap
  edges,       \* the precedences <<first, second>>
  unresolved,  \* the references to a block that was not known
  list,        \* the blocks in their new order
  at,          \* the run: index of the next block
  ran,         \* the run: the blocks that ran, in order
  taken        \* the run: the last target of each branch, or NotTaken

rvars == <<stage, visited, known, edges, unresolved, list, at, ran, taken>>

NotTaken == -1

ReorderInit ==
  /\ stage = "build"
  /\ visited = 0
  /\ known = {}
  /\ edges = {}
  /\ unresolved = {}
  /\ list = <<>>
  /\ at = 1
  /\ ran = <<>>
  /\ taken = [c \in CondBlocks(prog) |-> NotTaken]

-----------------------------------------------------------------------------
(***************************************************************************)
(* The model of the solver, built block by block in list order.  The block *)
(* that returns is not part of it.                                         *)
(***************************************************************************)
ListedAt(k) == CHOOSE b \in Blocks : pos[b] = k

Returns(b) == prog.term[b] = "return"

\* recordEdge, for every reference of blk_meta
RecordEdges(b) ==
  LET here == known \cup {b} IN
  /\ known' = here
  /\ edges' = edges \cup {<<r, b>> : r \in References(b) \cap here}
  /\ unresolved' = unresolved \cup {<<r, b>> : r \in References(b) \ here}

VisitBlock ==
  LET b == ListedAt(visited) IN
  /\ stage = "build"
  /\ visited <= prog.last
  /\ visited' = visited + 1
  /\ \/ Returns(b) /\ UNCHANGED <<known, edges, unresolved>>
     \/ ~Returns(b) /\ RecordEdges(b)
  /\ UNCHANGED <<vars, stage, list, at, ran, taken>>

EndBuild ==
  /\ stage = "build"
  /\ visited > prog.last
  /\ stage' = IF unresolved = {} THEN "solve" ELSE "failed"
  /\ UNCHANGED <<vars, visited, known, edges, unresolved, list, at, ran, taken>>

-----------------------------------------------------------------------------
Listed == {list[i] : i \in DOMAIN list}

\* The precedence constraints put the start of b after the blocks before it.
MayStart(b) == \A e \in edges : e[2] = b => e[1] \in Listed

NextStart(b) ==
  /\ stage = "solve"
  /\ b \notin Listed
  /\ MayStart(b)
  /\ list' = Append(list, b)
  /\ UNCHANGED <<vars, stage, visited, known, edges, unresolved, at, ran, taken>>

\* The block the solver was not given stays behind the others.
ReturnBlock == CHOOSE b \in Blocks : Returns(b)

MoveBlocks ==
  /\ stage = "solve"
  /\ known \subseteq Listed
  /\ list' = Append(list, ReturnBlock)
  /\ stage' = "run"
  /\ UNCHANGED <<vars, visited, known, edges, unresolved, at, ran, taken>>

-----------------------------------------------------------------------------
(***************************************************************************)
(* The run.  A list whose jumps go backward could be walked for ever; it   *)
(* is cut after MaxSteps blocks.                                           *)
(***************************************************************************)
MaxSteps == prog.last + 2

IndexOf(b) == CHOOSE i \in DOMAIN list : list[i] = b

Return == stage' = "end" /\ UNCHANGED <<at, taken>>

FallThrough == at' = at + 1 /\ UNCHANGED <<stage, taken>>

JumpTo(t) == at' = IndexOf(t) /\ UNCHANGED stage

RunBlock ==
  LET b == list[at] IN
  /\ stage = "run"
  /\ Len(ran) < MaxSteps
  /\ ran' = Append(ran, b)
  /\ \/ Returns(b) /\ Return
     \/ prog.term[b] = "nop" /\ FallThrough
     \/ prog.term[b] = "br" /\ \E t \in prog.succ[b] : JumpTo(t) /\ UNCHANGED taken
     \/ prog.term[b] = "cond" /\ \E t \in prog.succ[b] : JumpTo(t) /\ taken' = [taken EXCEPT ![b] = t]
  /\ UNCHANGED <<vars, visited, known, edges, unresolved, list>>

ReorderNext ==
  \/ Next /\ UNCHANGED rvars
  \/ phase = "done" /\ (VisitBlock \/ EndBuild)
  \/ \E b \in known : NextStart(b)
  \/ MoveBlocks
  \/ RunBlock

ReorderVars == <<vars, rvars>>

ReorderSpec ==
  Init /\ ReorderInit /\ [][ReorderNext]_ReorderVars /\ WF_ReorderVars(ReorderNext)

-----------------------------------------------------------------------------
(***************************************************************************)
(* Properties.                                                             *)
(***************************************************************************)

(***************************************************************************)
(* A block runs at most once, whatever the branches decide: no jump leads  *)
(* backward in the new order.                                              *)
(***************************************************************************)
RunsOnce == \A i, j \in DOMAIN ran : ran[i] = ran[j] => i = j

(***************************************************************************)
(* Messages, and entanglement requests, happen in the order of the source  *)
(* program: the peer does them in that order.  So do calls that write a    *)
(* common qubit, along every path.                                         *)
(***************************************************************************)
RunKeepsOrder ==
  \A i, j \in DOMAIN ran :
    i < j /\ (\/ {ran[i], ran[j]} \subseteq prog.comm
              \/ {ran[i], ran[j]} \subseteq RequestBlocks(prog)
              \/ Conflict(prog, ran[i], ran[j])) => ran[i] < ran[j]

=============================================================================
