------------------------ MODULE MCRoutineTranslation ------------------------
(***************************************************************************)
(* Instances of RoutineTranslation for model checking.                     *)
(***************************************************************************)
EXTENDS RoutineTranslation, TLC

Symmetry == Permutations(Qubits) \cup Permutations(Params)
=============================================================================
