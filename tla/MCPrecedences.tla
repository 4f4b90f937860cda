---------------------------- MODULE MCPrecedences ----------------------------
(***************************************************************************)
(* Instances of Precedences for model checking.                            *)
(***************************************************************************)
EXTENDS Precedences, MCPrograms

\* Filtered, so that TLC keeps the programs as an explicit set.
AllPrograms ==
  {p \in UNION {ProgramsOf(s) : s \in {Line, IfThen, IfThenElse, TwoIfs, LongArm, LateIf}} : WellFormed(p)}

LongArmPrograms == {p \in ProgramsOf(LongArm) : WellFormed(p)}

\* Two branches, the second reached by falling through.
TwoBranchPrograms == {p \in ProgramsOf(LateIf) : WellFormed(p)}
=============================================================================
