---------------------------- MODULE MCTraversal ----------------------------
(***************************************************************************)
(* Instances of Traversal for model checking.                              *)
(***************************************************************************)
EXTENDS Traversal, MCPrograms

\* No block computes for others and branches: such a block may be moved, see NothingJumpedPast.
BranchesOnlyBranch(p) == \A b \in BlocksOf(p) : p.uses[b] \cap CondBlocks(p) = {}

TraversedPrograms ==
  {p \in UNION {ProgramsOf(s) : s \in {Line, IfThen, IfThenElse, TwoIfs, LateIf}} :
     WellFormed(p) /\ BranchesOnlyBranch(p)}

OneBranchPrograms == {p \in ProgramsOf(IfThen) : WellFormed(p)}
=============================================================================
