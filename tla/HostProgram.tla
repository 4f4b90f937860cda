----------------------------- MODULE HostProgram -----------------------------
(***************************************************************************)
(* The main function of a program lowered to the QoalaHost dialect, seen   *)
(* as a list of basic blocks.  Only what block ordering depends on is      *)
(* kept: how control leaves a block, the blocks whose SSA values it reads, *)
(* the routine it calls and the qubits that routine writes.                *)
(*                                                                         *)
(* A block is named by its index in the list the ordering passes start     *)
(* from: block b is the one they give the id "block_b".                    *)
(***************************************************************************)
EXTENDS Integers, FiniteSets

(***************************************************************************)
(* CL: classical code, CC: one receive, QL: one call of a local routine,   *)
(* QC: one call of a request (entanglement) routine.                       *)
(***************************************************************************)
BlockTypes == {"CL", "CC", "QL", "QC"}

(***************************************************************************)
(* How a block ends: nop_term falls through to the next block of the list, *)
(* br and cond_br jump, return ends the program.                           *)
(***************************************************************************)
Terminators == {"nop", "br", "cond", "return"}

BlocksOf(p) == 0 .. p.last

(***************************************************************************)
(* The fields of a program:                                                *)
(*   last    index of the last block                                       *)
(*   type    block type, decided by the first operation of the block       *)
(*   term    terminator                                                    *)
(*   succ    jump targets (none for nop_term and return)                   *)
(*   uses    the other blocks that define an operand of the block          *)
(*   comm    the blocks with a classical send or receive                   *)
(*   glue    the blocks that hold a jump and nothing else                  *)
(*   callee  position in the module of the routine a QL/QC block calls     *)
(*   writes  the qubits (named by the block that produced them) passed to  *)
(*           this routine and written by its operations; every netqasm     *)
(*           operation with a memory effect has the Write effect.  What a  *)
(*           routine creates itself is a value of its own, not a qubit of  *)
(*           the caller, and meets no other call                           *)
(***************************************************************************)
IsProgram(p) ==
  /\ p.last \in Nat
  /\ p.type \in [BlocksOf(p) -> BlockTypes]
  /\ p.term \in [BlocksOf(p) -> Terminators]
  /\ p.succ \in [BlocksOf(p) -> SUBSET BlocksOf(p)]
  /\ p.uses \in [BlocksOf(p) -> SUBSET BlocksOf(p)]
  /\ p.comm \in SUBSET BlocksOf(p)
  /\ p.glue \in SUBSET BlocksOf(p)
  /\ p.callee \in [BlocksOf(p) -> Nat]
  /\ p.writes \in [BlocksOf(p) -> SUBSET BlocksOf(p)]

CfgPreds(p, b) == {a \in BlocksOf(p) : b \in p.succ[a]}

\* Where control may go from block b, in the list the passes start from.
Flow(p, b) == IF p.term[b] = "nop" THEN {b + 1} ELSE p.succ[b]

CondBlocks(p) == {b \in BlocksOf(p) : p.term[b] = "cond"}

RequestBlocks(p) == {b \in BlocksOf(p) : p.type[b] = "QC"}

IsQuantum(p, b) == p.type[b] \in {"QL", "QC"}

\* Two calls whose routines write a common qubit.
Conflict(p, a, b) == IsQuantum(p, a) /\ IsQuantum(p, b) /\ p.writes[a] \cap p.writes[b] # {}

(***************************************************************************)
(* What the lowering and the verifiers give the ordering passes: operands  *)
(* are defined in an earlier block, jumps go forward, the first block      *)
(* holds only remote references and is nobody's jump target.               *)
(***************************************************************************)
WellFormed(p) ==
  /\ IsProgram(p)
  /\ \A b \in BlocksOf(p) :
       /\ \A a \in p.uses[b] : a < b
       /\ \A s \in p.succ[b] : b < s
  /\ p.comm # {} => 0 \notin p.comm

\* The routines of the module stand in the order of their calls.
CalleesInCallOrder(p) ==
  \A a, b \in BlocksOf(p) : Conflict(p, a, b) => (a < b <=> p.callee[a] < p.callee[b])

\* The pass that moves the blocks keeps the block that returns, one, at the end.
SingleReturn(p) == \A b \in BlocksOf(p) : p.term[b] = "return" <=> b = p.last

\* No merge point is a call: no edge into it is pruned.
ClassicalMerges(p) == \A b \in BlocksOf(p) : IsQuantum(p, b) => Cardinality(CfgPreds(p, b)) < 2

(***************************************************************************)
(* Transitive closure of a dependency function d, where d[b] is the set of *)
(* blocks b depends on.                                                    *)
(***************************************************************************)
Closure(d, n) ==
  LET grow[k \in Nat] ==
        IF k = 0 THEN d
        ELSE LET g == grow[k-1] IN [b \in DOMAIN d |-> g[b] \cup UNION {d[a] : a \in g[b]}]
  IN  grow[n]

\* The blocks that run on one outcome of the branch c and not on the other.
Arms(p, c) ==
  LET reach   == Closure([b \in BlocksOf(p) |-> Flow(p, b)], p.last)
      from(s) == {s} \cup reach[s]
  IN  UNION {from(s) \ from(t) : s, t \in p.succ[c]}

\* The blocks a run executes that walks the list, pos giving the place of each block, and
\* leaves each branch to the target in side.
Executed(p, pos, side) ==
  LET leads(a, b) ==
        CASE p.term[a] = "nop" -> pos[b] = pos[a] + 1
          [] p.term[a] = "br" -> b \in p.succ[a]
          [] p.term[a] = "cond" -> b = side[a]
          [] OTHER -> FALSE
      reached[b \in BlocksOf(p)] ==
        pos[b] = 0 \/ \E a \in BlocksOf(p) : pos[a] < pos[b] /\ leads(a, b) /\ reached[a]
  IN  {b \in BlocksOf(p) : reached[b]}

\* What the branches of a run may do; a branch that is not executed goes nowhere.
Nowhere == -1
Outcomes(p, pos) ==
  {side \in [CondBlocks(p) -> (UNION {p.succ[c] : c \in CondBlocks(p)}) \cup {Nowhere}] :
     LET ran == Executed(p, pos, side) IN
     \A c \in CondBlocks(p) : IF c \in ran THEN side[c] \in p.succ[c] ELSE side[c] = Nowhere}

Smallest(S) == CHOOSE m \in S : \A x \in S : m <= x
=============================================================================
