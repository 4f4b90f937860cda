----------------------------- MODULE QNetProgram -----------------------------
(***************************************************************************)
(* A function of the QNet dialect: operations on qubits in the order of    *)
(* the text, named by their places, which they keep while others are       *)
(* erased.  Qubits are values: an operation takes its qubits from the      *)
(* operations before it on the same wires.  There is at most one scf.if,   *)
(* so an operation stands in one of four parts: "entry", the two arms      *)
(* "then" and "else", or "after".                                          *)
(*   kind   "new", "eprs"  start a wire                                    *)
(*          "gate"         name: h, x, y, z, cnot or cz                    *)
(*          "rot"          axis, a: a rotation by a float angle; on two    *)
(*                         wires it is crot_x                              *)
(*          "int"          axis, n, d: one by n pi / 2^d                   *)
(*          "measure"      use: what becomes of the outcome                *)
(*          "if"           cond: the measurement it reads, or 0;           *)
(*                         yields: the wires its arms hand on              *)
(*   on     its wires, in the order of the operands                        *)
(* Angles are records: v, and whether it is known, a constant of the text. *)
(* One that is not has some value at run time: the v of this execution.    *)
(***************************************************************************)
EXTENDS Circuits, Listing

Arms == {"then", "else"}
Sources == {"new", "eprs"}

Wires(o) == Range(o.on)

Parts == Arms \cup {"entry", "after"}
Gates == {"h", "x", "y", "z", "cnot", "cz"}
Axes == {"X", "Y", "Z"}

Operation ==
  [kind : Sources, part : Parts, on : Seq(Nat)]
    \cup [kind : {"gate"}, part : Parts, on : Seq(Nat), name : Gates]
    \cup [kind : {"rot"}, part : Parts, on : Seq(Nat), axis : Axes, a : [v : Int, known : BOOLEAN]]
    \cup [kind : {"int"}, part : Parts, on : Seq(Nat), axis : Axes,
          n : [v : Int, known : BOOLEAN], d : [v : Nat, known : BOOLEAN]]
    \cup [kind : {"measure"}, part : Parts, on : Seq(Nat), use : {"unused", "returned", "added"}]
    \cup [kind : {"if"}, part : {"after"}, on : {<<>>}, cond : Nat, yields : SUBSET Nat]

(***************************************************************************)
(* What the verifier of MLIR sees to: the parts follow each other, and an  *)
(* operation takes wires that were started where it can see them.          *)
(***************************************************************************)
Sees(f, s, j, w) ==
  \/ s < j /\ f[s].part = f[j].part
  \/ f[s].part = "entry" /\ f[j].part # "entry"
  \/ f[j].part = "after" /\ \E i \in DOMAIN f : f[i].kind = "if" /\ w \in f[i].yields

IsFunction(f) ==
  /\ f \in Seq(Operation)
  /\ \A i, j \in DOMAIN f :
       /\ f[i].part = "entry" /\ f[j].part # "entry" => i < j
       /\ f[i].kind = "if" /\ f[j].part = "after" => i <= j
       /\ f[i].kind = "if" /\ f[j].part \in Arms => j < i
  /\ \A i \in DOMAIN f : f[i].kind = "if" /\ f[i].cond # 0 =>
       f[i].cond \in DOMAIN f /\ f[f[i].cond].kind = "measure"
  /\ \A j \in DOMAIN f : f[j].kind \notin Sources =>
       \A w \in Wires(f[j]) :
         \E s \in DOMAIN f : f[s].kind \in Sources /\ w \in Wires(f[s]) /\ Sees(f, s, j, w)

(***************************************************************************)
(* SSA: who makes the qubit that an operation takes.                       *)
(***************************************************************************)
Touching(ops, w, part) == {i \in DOMAIN ops : ops[i].part = part /\ w \in Wires(ops[i])}

TheIf(ops) == CHOOSE i \in DOMAIN ops : ops[i].kind = "if"

Yields(ops) == UNION {ops[i].yields : i \in {j \in DOMAIN ops : ops[j].kind = "if"}}

\* The maker of the qubit on wire w just before place i, as the part sees it.
MakerAt(ops, w, part, i) ==
  LET here == {j \in Touching(ops, w, part) : j < i} IN
  CASE here # {} -> Max(here)
    [] here = {} /\ part = "after" /\ w \in Yields(ops) -> TheIf(ops)
    [] OTHER -> Max(Touching(ops, w, "entry"))

Maker(ops, w, i) == MakerAt(ops, w, ops[i].part, i)

\* How often the qubit that i makes on w is used: by operations, and by the ends of the arms.
Takers(ops, w, i) ==
  {j \in DOMAIN ops : w \in Wires(ops[j]) /\ ops[j].kind \notin Sources /\ Maker(ops, w, j) = i}

YieldedBy(ops, w, i) == {arm \in Arms : w \in Yields(ops) /\ MakerAt(ops, w, arm, TheIf(ops)) = i}

NumUses(ops, w, i) == Cardinality(Takers(ops, w, i)) + Cardinality(YieldedBy(ops, w, i))

HasOneUse(ops, i) == \A w \in Wires(ops[i]) : NumUses(ops, w, i) = 1

\* The makers of what an operation takes: qubits, or the outcome an scf.if reads.
Makers(ops, i) ==
  CASE ops[i].kind = "if" -> IF ops[i].cond = 0 THEN <<>> ELSE <<ops[i].cond>>
    [] ops[i].kind \in Sources -> <<>>
    [] OTHER -> [k \in DOMAIN ops[i].on |-> Maker(ops, ops[i].on[k], i)]

IsUsed(ops, i) ==
  \/ \E w \in Wires(ops[i]) : ops[i].kind # "measure" /\ NumUses(ops, w, i) > 0
  \/ ops[i].kind = "measure" /\ ops[i].use # "unused"
  \/ \E j \in DOMAIN ops : ops[j].kind = "if" /\ ops[j].cond = i

-----------------------------------------------------------------------------
(***************************************************************************)
(* Angles.  A float angle counts hundredths of a quarter turn: 32 bits     *)
(* hold no multiple of a quarter turn but 0, and the nearest number is     *)
(* further from 0 by about one unit.  An integer angle is exact, its       *)
(* numbers have WordBits bits.                                             *)
(***************************************************************************)
CONSTANT WordBits

ASSUME WordBitsAssumption == WordBits \in Nat \ {0, 1}

Unit == 100
HalfTurn == 2 * Unit
FullTurn == 4 * Unit

F32(a) == IF a % Unit = 0 THEN a + a \div Unit ELSE a

Nearest(a) == (a + Unit \div 2) \div Unit

HalfWord == 2 ^ (WordBits - 1)

Wrap(x) == ((x + HalfWord) % (2 * HalfWord)) - HalfWord

IntAngle(n, d) == (n * HalfTurn) \div (2 ^ d)

Quarters(o) == IF o.kind = "rot" THEN Nearest(o.a.v) ELSE Nearest(IntAngle(o.n.v, o.d.v))

(***************************************************************************)
(* The turns of an operation.  crot_x turns the target one way or the      *)
(* other, as the control says.                                             *)
(***************************************************************************)
One(o, letter) == o.on[1] :> letter
Two(o, first, second) == (o.on[1] :> first) @@ (o.on[2] :> second)

TurnsOf(o) ==
  CASE o.kind \in {"rot", "int"} /\ Len(o.on) = 1 -> <<<<One(o, o.axis), Quarters(o)>>>>
    [] o.kind \in {"rot", "int"} -> <<<<Two(o, "Z", o.axis), Quarters(o)>>>>
    [] o.kind = "gate" ->
         (CASE o.name = "h" -> <<<<One(o, "Z"), 1>>, <<One(o, "X"), 1>>, <<One(o, "Z"), 1>>>>
            [] o.name = "x" -> <<<<One(o, "X"), 2>>>>
            [] o.name = "y" -> <<<<One(o, "Y"), 2>>>>
            [] o.name = "z" -> <<<<One(o, "Z"), 2>>>>
            [] o.name = "cnot" -> <<<<Two(o, "Z", "X"), 1>>, <<Two(o, "Z", "I"), 3>>, <<Two(o, "I", "X"), 3>>>>
            [] o.name = "cz" -> <<<<Two(o, "Z", "Z"), 1>>, <<Two(o, "Z", "I"), 3>>, <<Two(o, "I", "Z"), 3>>>>)
    [] OTHER -> <<>>

(***************************************************************************)
(* What an execution through one arm observes: the operator that each      *)
(* measurement on its way measures of the initial state.                   *)
(***************************************************************************)
OnPath(ops, arm) == {i \in DOMAIN ops : ops[i].part \in {"entry", arm, "after"}}

AllWires(ops) == UNION {Wires(ops[i]) : i \in DOMAIN ops}

Observes(ops, wires, arm, m) ==
  LET before == InOrder({i \in OnPath(ops, arm) : i < m})
      turns == FlattenSeq([k \in DOMAIN before |-> TurnsOf(ops[before[k]])])
  IN PulledBack(turns, Measured(wires, ops[m].on[1]))

Measurements(ops, arm) == {m \in OnPath(ops, arm) : ops[m].kind = "measure"}
=============================================================================
