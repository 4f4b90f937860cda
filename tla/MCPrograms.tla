----------------------------- MODULE MCPrograms ------------------------------
(***************************************************************************)
(* The small main functions the block-ordering modules are checked on.  A  *)
(* shape fixes the control flow; block types and operands vary over it.    *)
(***************************************************************************)
EXTENDS HostProgram, Sequences

(***************************************************************************)
(* A shape lists, per block, its terminator, its jump targets and the      *)
(* types it may have; arms are the sets of blocks under one branch of a    *)
(* conditional, glue the blocks that are only a jump.  Block 0 holds the   *)
(* remote references.                                                      *)
(***************************************************************************)
Plain(types) == [term |-> "nop", to |-> {}, types |-> types]
Entry        == Plain({"CL"})
Cond(t, e)   == [term |-> "cond", to |-> {t, e}, types |-> {"CL"}]
Jump(t)      == [term |-> "br", to |-> {t}, types |-> {"CL"}]
Exit         == [term |-> "return", to |-> {}, types |-> {"CL"}]

\* No branch: two qubits, gates on them and messages between the gates.
Line == [blocks |-> <<Entry, Plain({"QC"}), Plain({"QC"}), Plain({"QL"}), Plain({"CC", "QL"}),
                      Plain({"QL"}), Plain({"CL"}), Exit>>,
         arms |-> {}, glue |-> {}]

\* if (..) { T }  and a block that may float in front of the branch.
IfThen == [blocks |-> <<Entry, Plain({"CC"}), Plain({"QC"}), Cond(4, 6),
                        Plain({"QL", "CC"}), Jump(6), Plain({"QL", "CL"}),
                        Plain({"CC", "QL"}), Exit>>,
           arms |-> {4 .. 5}, glue |-> {5}]

\* if (..) { T } else { E }
IfThenElse == [blocks |-> <<Entry, Plain({"CC"}), Plain({"QC"}), Cond(4, 6),
                            Plain({"QL"}), Jump(8), Plain({"QL", "CC"}), Jump(8),
                            Plain({"QL", "CL"}), Plain({"QC", "CC"}), Exit>>,
               arms |-> {4 .. 5, 6 .. 7}, glue |-> {5, 7}]

\* if (..) { T }  if (..) { U }: the first merge block is the second branch.
TwoIfs == [blocks |-> <<Entry, Plain({"CC", "QC"}), Plain({"QC"}), Cond(4, 6),
                        Plain({"QL"}), Jump(6), Cond(7, 9), Plain({"QL"}), Jump(9),
                        Plain({"QL", "CC"}), Exit>>,
           arms |-> {4 .. 5, 7 .. 8}, glue |-> {5, 8}]

\* if (..) { T; T' }: isolating the second call or receive leaves it, and what
\* follows it, without a control-flow predecessor.
LongArm == [blocks |-> <<Entry, Plain({"QC"}), Cond(3, 6), Plain({"CC", "QL"}), Plain({"CC", "QL"}),
                            Jump(6), Plain({"CL", "QL"}), Exit>>,
            arms |-> {3 .. 5}, glue |-> {}]

\* if (..) { T }  x = recv()  if (x) { U }
LateIf == [blocks |-> <<Entry, Plain({"QC"}), Cond(3, 5), Plain({"QL"}), Jump(5), Plain({"QL"}),
                        Plain({"CC"}), Cond(8, 10), Plain({"CC"}), Jump(10), Plain({"CL"}), Exit>>,
           arms |-> {3 .. 4, 8 .. 9}, glue |-> {4, 9}]

-----------------------------------------------------------------------------
Last(s) == Len(s.blocks) - 1
At(s, b) == s.blocks[b + 1]

Dominates(s, a, b) == a < b /\ \A arm \in s.arms : a \in arm => b \in arm

AtMostOne(S) == {{}} \cup {{x} : x \in S}

\* The functions f on 0 .. n with f[b] in choices[b].
Product(choices, n) ==
  LET upTo[b \in Nat] ==
        IF b = 0 THEN {<<>>}
        ELSE {Append(f, x) : f \in upTo[b-1], x \in choices[b-1]}
  IN  {[b \in 0 .. n |-> f[b+1]] : f \in upTo[n + 1]}

Typings(s) == Product([b \in 0 .. Last(s) |-> At(s, b).types], Last(s))

\* A request produces a qubit; receives, local routines and computations a number.
NumbersBefore(s, t, b) ==
  {a \in 1 .. b - 1 : Dominates(s, a, b) /\ a \notin s.glue /\ t[a] # "QC"}
QubitsBefore(s, t, b) == {a \in 1 .. b - 1 : Dominates(s, a, b) /\ t[a] = "QC"}

\* A gate on one qubit, or on two in a program without branches; a computation
\* from at most one number.
Gates(s, qubits) ==
  IF s.arms = {} THEN {{q, r} : q, r \in qubits} ELSE {{q} : q \in qubits}

Operands(s, t, b) ==
  CASE t[b] = "QL" -> Gates(s, QubitsBefore(s, t, b))
    [] At(s, b).term = "cond" /\ NumbersBefore(s, t, b) # {} -> {{a} : a \in NumbersBefore(s, t, b)}
    [] t[b] = "CL" /\ b # 0 /\ b \notin s.glue -> AtMostOne(NumbersBefore(s, t, b))
    [] OTHER -> {{}}

Uses(s, t) == Product([b \in 0 .. Last(s) |-> Operands(s, t, b)], Last(s))

\* Blocks that also send what they compute.
Senders(s, t) == AtMostOne({b \in 1 .. Last(s) : t[b] = "CL" /\ b \notin s.glue /\ At(s, b).term = "nop"})

Program(s, t, u, send) ==
  [last   |-> Last(s),
   type   |-> t,
   term   |-> [b \in 0 .. Last(s) |-> At(s, b).term],
   succ   |-> [b \in 0 .. Last(s) |-> At(s, b).to],
   uses   |-> u,
   comm   |-> {b \in 0 .. Last(s) : t[b] = "CC"} \cup send,
   glue   |-> s.glue,
   callee |-> [b \in 0 .. Last(s) |-> b],
   writes |-> [b \in 0 .. Last(s) |-> IF t[b] = "QL" THEN u[b] ELSE {}]]

ProgramsOf(s) ==
  UNION {{Program(s, t, u, send) : u \in Uses(s, t), send \in Senders(s, t)} : t \in Typings(s)}
=============================================================================
