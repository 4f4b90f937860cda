-------------------------- MODULE MCBlockReordering --------------------------
(***************************************************************************)
(* Instances of BlockReordering for model checking.                        *)
(***************************************************************************)
EXTENDS BlockReordering, MCPrograms

ReorderedPrograms ==
  {p \in UNION {ProgramsOf(s) : s \in {IfThen, TwoIfs}} : ClassicalMerges(p)}
=============================================================================
