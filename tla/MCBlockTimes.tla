---------------------------- MODULE MCBlockTimes -----------------------------
(***************************************************************************)
(* Programs for model checking: up to three blocks for the solver, beside  *)
(* blocks it is not given, with qubits that are prepared, requested and    *)
(* measured in blocks of their own or in one, and every option of the pass.*)
(***************************************************************************)
EXTENDS BlockTimes

Op(does, time, qubit) == [does |-> does, time |-> time, qubit |-> qubit]

Prepare == <<Op("alloc", 1, 0)>>
Request == <<Op("alloc", 2, 0)>>
Measure == <<Op("meas", 1, 1)>>
Rotate == <<Op("other", 1, 1)>>
MeasureBoth == <<Op("meas", 1, 1), Op("meas", 1, 2)>>
Whole == <<Op("alloc", 1, 0), Op("meas", 2, 0)>>
PrepareWith == <<Op("alloc", 1, 0), Op("other", 1, 1)>>

\* The routine a call names is its index here.
Routines == <<Prepare, Request, Measure, Rotate, MeasureBoth, Whole, Prepare, PrepareWith>>

B(type, size, callee, args, after) ==
  [type |-> type, size |-> size, callee |-> callee, args |-> args, after |-> after]

CL(n, after) == B("CL", n, 0, <<>>, after)
CC(after) == B("CC", 1, 0, <<>>, after)
QL(r, args, after) == B("QL", 0, r, args, after)
QC(after) == B("QC", 0, 2, <<>>, after)
End(after) == B("end", 1, 0, <<>>, after)

Shapes == {
  \* one qubit, and a block that may come between or must
  <<QL(1, <<>>, {}), CC({}), QL(3, <<1>>, {1}), End({3})>>,
  <<QL(1, <<>>, {}), CL(2, {1}), QL(3, <<1>>, {1, 2}), End({})>>,
  <<CL(1, {}), QL(1, <<>>, {}), QL(3, <<2>>, {2}), End({1})>>,
  <<QL(1, <<>>, {}), QL(4, <<1>>, {1}), CL(0, {}), QL(3, <<1>>, {1, 2}), End({})>>,
  \* two qubits
  <<QL(1, <<>>, {}), QL(6, <<>>, {}), QL(3, <<1>>, {1}), End({})>>,
  <<QC({}), QL(1, <<>>, {}), QL(5, <<1, 2>>, {1, 2}), End({})>>,
  <<QL(1, <<>>, {}), CL(0, {}), QL(7, <<>>, {1}), QL(5, <<1, 3>>, {1, 3})>>,
  \* requests behind other blocks, and one whose pair is measured later
  <<QL(1, <<>>, {}), QC({}), QL(3, <<1>>, {1}), End({})>>,
  <<CC({}), CL(0, {}), QC({1}), CL(1, {}), End({})>>,
  <<CL(2, {}), QC({}), QL(3, <<2>>, {2}), End({})>>,
  \* no qubit, one block, none
  <<CL(1, {}), CC({1}), CL(1, {}), End({2})>>,
  <<CL(2, {}), End({})>>,
  <<End({})>>,
  \* references that fail
  <<CL(0, {}), CL(1, {1}), End({})>>,
  <<CL(1, {2}), CL(1, {}), End({})>>,
  \* times that add up to more than an integer holds
  <<CL(16, {}), CL(16, {1}), End({})>>
}

\* The longest life, and the horizon.
Limits == {<<40, 0>>, <<40, 17>>, <<7, 40>>, <<7, 5>>, <<4, 0>>}

Options ==
  {[group |-> g, unoptimize |-> u, deadlines |-> d, lifetime |-> l[1], horizon |-> l[2]] :
     g \in BOOLEAN, u \in BOOLEAN, d \in BOOLEAN, l \in Limits}

\* Only deadlines read the limits; grouping needs a request.
Sensible(blocks, o) ==
  /\ ~o.deadlines \/ o.unoptimize => <<o.lifetime, o.horizon>> = <<40, 0>>
  /\ o.group => \E b \in DOMAIN blocks : blocks[b].type = "QC"

Program(blocks, o) ==
  [blocks |-> blocks, routines |-> Routines, group |-> o.group, unoptimize |-> o.unoptimize,
   deadlines |-> o.deadlines, lifetime |-> o.lifetime, horizon |-> o.horizon]

SmallPrograms ==
  UNION {{Program(blocks, o) : o \in {x \in Options : Sensible(blocks, x)}} : blocks \in Shapes}

\* Two qubits that meet in a gate, and are measured by calls of the same routine.
SharedRoutine ==
  {Program(<<QL(1, <<>>, {}), QL(8, <<1>>, {1}), QL(3, <<1>>, {2}), QL(3, <<2>>, {2}), End({})>>,
           [group |-> FALSE, unoptimize |-> FALSE, deadlines |-> TRUE, lifetime |-> 11, horizon |-> 20])}
=============================================================================
