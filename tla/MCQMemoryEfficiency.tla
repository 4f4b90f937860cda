------------------------ MODULE MCQMemoryEfficiency ------------------------
(***************************************************************************)
(* Instances of QMemoryEfficiency for model checking.                      *)
(***************************************************************************)
EXTENDS QMemoryEfficiency, MCQubitMemory

LongArmMains == MainsOf(LongArms)

\* No block of an arm is reached by falling through; see NeverOverstated.
ShortArmMains == UNION {MainsOf(s) : s \in {Straight, IfThen, IfThenElse, TwoIfs}}
=============================================================================
