------------------------------ MODULE DeadCode ------------------------------
(***************************************************************************)
(* The passes on QNet, in the order the documentation gives them: the      *)
(* check of linearity, the peephole optimisations, and the elimination of  *)
(* dead code, which marks what measurements depend on and erases the rest. *)
(*                                                                         *)
(* "broken" is the end of a run that erases an operation while its results *)
(* are used: an assertion of MLIR, or without assertions an invalid        *)
(* function.                                                               *)
(***************************************************************************)
EXTENDS Peephole

VARIABLES
  worklist,   \* operations to mark, and what they take with them
  live,
  doomed      \* toErase

ASSUME ProgramsAssumption == \A p \in Programs : IsFunction(p)

marking == <<worklist, live, doomed>>
vars == <<program, phase, ops, marking>>

Init ==
  /\ source \in Programs
  /\ opts \in Options
  /\ phase = "check"
  /\ ops = source
  /\ worklist = <<>>
  /\ live = {}
  /\ doomed = {}

-----------------------------------------------------------------------------
(***************************************************************************)
(* qnet-check-linear: each result of the operations that isQuantumOp names *)
(* has at most one use, the outcome of a measurement too.                  *)
(***************************************************************************)
IsQuantumOp(o) ==
  \/ o.kind \in Sources \cup {"rot", "measure"}
  \/ o.kind = "gate" /\ o.name \in {"h", "cnot", "cz"}

UsedOnce(i) ==
  IF ops[i].kind = "measure"
  THEN ops[i].use = "unused" \/ \A j \in DOMAIN ops : ops[j].kind = "if" => ops[j].cond # i
  ELSE \A w \in Wires(ops[i]) : NumUses(ops, w, i) <= 1

CheckLinear ==
  /\ phase = "check"
  /\ phase' = IF opts.check /\ \E i \in DOMAIN ops : IsQuantumOp(ops[i]) /\ ~UsedOnce(i)
              THEN "refused" ELSE "peephole"
  /\ UNCHANGED <<program, ops, marking>>

-----------------------------------------------------------------------------
(***************************************************************************)
(* qnet-dead-code-elimination.                                             *)
(***************************************************************************)
\* measurementResultIsObserved
Observed(m) ==
  \/ ops[m].use = "returned"
  \/ \E j \in DOMAIN ops : ops[j].kind = "if" /\ ops[j].cond = m

Of(kinds) == {i \in DOMAIN ops : ops[i].kind \in kinds}

Roots == {m \in Of({"measure"}) : opts.aware => Observed(m)}

CollectRoots ==
  /\ phase = "peephole"
  /\ NoMatch
  /\ phase' = "mark"
  /\ worklist' = InOrder(Roots)
  /\ live' = Of({"eprs"})
  /\ UNCHANGED <<program, ops, doomed>>

\* Fault: only the first operand is followed
FirstMaker(i) == IF Makers(ops, i) = <<>> THEN <<>> ELSE <<Head(Makers(ops, i))>>

Producers(i) == Makers(ops, i)

Mark ==
  /\ phase = "mark"
  /\ worklist # <<>>
  /\ LET i == Last(worklist) IN
     /\ live' = live \cup {i}
     /\ worklist' = IF i \in live THEN Front(worklist) ELSE Front(worklist) \o Producers(i)
  /\ UNCHANGED <<program, phase, ops, doomed>>

\* isCandidateForErasure names no rotation by an integer angle.
Candidates == Of({"new", "gate", "rot"} \cup IF opts.aware THEN {"measure"} ELSE {})

Doom ==
  /\ phase = "mark"
  /\ worklist = <<>>
  /\ doomed' = Candidates \ live
  /\ phase' = "erase"
  /\ UNCHANGED <<program, ops, worklist, live>>

\* The last one first.
EraseLast ==
  /\ phase = "erase"
  /\ doomed # {}
  /\ LET i == Max(doomed) IN
     \/ /\ ~IsUsed(ops, i)
        /\ ops' = Erase({i})
        /\ doomed' = doomed \ {i}
        /\ UNCHANGED phase
     \/ /\ IsUsed(ops, i)
        /\ phase' = "broken"
        /\ UNCHANGED <<ops, doomed>>
  /\ UNCHANGED <<program, worklist, live>>

Finish ==
  /\ phase = "erase"
  /\ doomed = {}
  /\ phase' = "done"
  /\ UNCHANGED <<program, ops, marking>>

-----------------------------------------------------------------------------
Optimize == Rewrite /\ UNCHANGED <<program, phase, marking>>
Eliminate == CollectRoots \/ Mark \/ Doom \/ EraseLast \/ Finish

Next == CheckLinear \/ Optimize \/ Eliminate

Spec == Init /\ [][Next]_vars /\ WF_vars(Next)

Ended == phase \in {"refused", "done", "broken"}

-----------------------------------------------------------------------------
(***************************************************************************)
(* Properties.                                                             *)
(***************************************************************************)

(***************************************************************************)
(* No rewriting and no erasure changes what can be observed: on every path *)
(* the measurements that are left measure what they did in the source, and *)
(* those whose outcome matters are all left.                               *)
(***************************************************************************)
Matters(m) == source[m].kind = "measure" /\ (source[m].use = "returned" \/ ~opts.aware)

ObservablesKept ==
  /\ \A m \in DOMAIN source : Matters(m) => m \in DOMAIN ops
  /\ \A arm \in Arms : \A m \in Measurements(ops, arm) :
       Observes(ops, AllWires(source), arm, m) = Observes(source, AllWires(source), arm, m)

(***************************************************************************)
(* When the patterns have come to an end, "the surviving rotation angles   *)
(* are normalized": no known angle is outside (-pi, pi], a float by more   *)
(* than 32 bits can tell, an integer at all.                               *)
(***************************************************************************)
Canonical(o) ==
  CASE o.kind = "rot" -> -HalfTurn < o.a.v /\ o.a.v <= HalfTurn
    [] o.kind = "int" -> o.d.v < WordBits - 1 => -(2 ^ o.d.v) < o.n.v /\ o.n.v <= 2 ^ o.d.v

AnglesCanonical ==
  opts.normalize /\ phase \in {"mark", "erase", "done"} =>
    \A i \in Of({"rot", "int"}) : Known(ops[i]) => Canonical(ops[i])

(***************************************************************************)
(* Dead code goes as a whole: nothing is erased that something left behind *)
(* takes.  This needs what is dead to be erasable, down to the last use.   *)
(***************************************************************************)
NothingDangles == phase # "broken"

Erasable ==
  /\ Of({"int"}) \subseteq live
  /\ Yields(ops) = {}
  /\ opts.aware => \A m \in Of({"measure"}) : ops[m].use # "added"

ErasedTogether == Erasable => NothingDangles

(***************************************************************************)
(* The patterns do not undo each other for ever, whichever comes first,    *)
(* and the passes end.                                                     *)
(***************************************************************************)
RewritingEnds == <>Ended
=============================================================================
