------------------------------ MODULE Peephole ------------------------------
(***************************************************************************)
(* qnet-peephole-optimizations: rewriting patterns for neighbouring gates  *)
(* and single rotations, applied greedily until none matches.  Which match *)
(* comes first is left open.                                               *)
(*                                                                         *)
(* Each pattern is given by its matches and by what it makes of one.       *)
(*                                                                         *)
(* A definition marked Fault is the one below it as a plausible mistake    *)
(* would have it; it is not part of the specification.                     *)
(***************************************************************************)
EXTENDS QNetProgram

CONSTANTS
  Programs,   \* functions to compile
  Options,    \* the options of the passes
  Tolerance   \* what a loose twoPiEpsilon forgives

VARIABLES
  source,     \* the function as it was written
  opts,
  phase,
  ops         \* the function as it is

program == <<source, opts>>

Erase(S) == [i \in DOMAIN ops \ S |-> ops[i]]

Known(o) == IF o.kind = "rot" THEN o.a.known ELSE o.n.known /\ o.d.known

\* Fault: the results of the first gate may have other uses
FeedsAmongOthers(i, j) ==
  /\ ops[i].on = ops[j].on
  /\ \A w \in Wires(ops[j]) : Maker(ops, w, j) = i

\* Gate j takes every qubit that i makes, in order, and nobody else does.
Feeds(i, j) ==
  /\ ops[i].on = ops[j].on
  /\ \A w \in Wires(ops[j]) : Maker(ops, w, j) = i
  /\ HasOneUse(ops, i)

Pairs(first, second) ==
  {p \in (DOMAIN ops) \X (DOMAIN ops) :
     /\ p[1] < p[2]
     /\ ops[p[1]].kind = first /\ ops[p[2]].kind = second
     /\ Feeds(p[1], p[2])}

-----------------------------------------------------------------------------
\* CancelHermitianPairPattern
HermitianPairs ==
  {p \in Pairs("gate", "gate") : opts.hermitian /\ ops[p[1]].name = ops[p[2]].name}

CancelHermitianPair ==
  \E p \in HermitianPairs : ops' = Erase({p[1], p[2]})

\* PauliToRotationPattern: by the 32-bit number nearest to pi.
Axis == [x |-> "X", y |-> "Y", z |-> "Z"]

Paulis == {i \in DOMAIN ops : opts.pauli /\ ops[i].kind = "gate" /\ ops[i].name \in DOMAIN Axis}

Constant(v) == [v |-> v, known |-> TRUE]

Rotation(o, axis, a) == [kind |-> "rot", part |-> o.part, on |-> o.on, axis |-> axis, a |-> Constant(a)]

PauliToRotation ==
  \E i \in Paulis : ops' = [ops EXCEPT ![i] = Rotation(@, Axis[@.name], F32(HalfTurn))]

-----------------------------------------------------------------------------
\* FoldRotationPairPattern: the second rotation takes the sum.
SameAxis(p) == ops[p[1]].axis = ops[p[2]].axis
BothKnown(p) == Known(ops[p[1]]) /\ Known(ops[p[2]])

RotationPairs == {p \in Pairs("rot", "rot") : opts.fold /\ SameAxis(p) /\ BothKnown(p)}

Replaced(p, o) == [i \in DOMAIN ops \ {p[1]} |-> IF i = p[2] THEN o ELSE ops[i]]

FoldRotationPair ==
  \E p \in RotationPairs :
    ops' = Replaced(p, [ops[p[2]] EXCEPT !.a = Constant(F32(ops[p[1]].a.v + @.v))])

\* FoldFloatThenIntRotationPattern, FoldIntThenFloatRotationPattern: single qubits only.
Float(o) == IF o.kind = "rot" THEN o.a.v ELSE IntAngle(o.n.v, o.d.v)

MixedPairs ==
  {p \in Pairs("rot", "int") \cup Pairs("int", "rot") :
     opts.fold /\ SameAxis(p) /\ BothKnown(p) /\ Len(ops[p[1]].on) = 1}

FoldMixedPair ==
  \E p \in MixedPairs :
    LET o == ops[p[2]] IN
    ops' = Replaced(p, Rotation(o, o.axis, F32(Float(ops[p[1]]) + Float(o))))

(***************************************************************************)
(* combineIntRotAngles: both numbers over the greater denominator.  When   *)
(* all four are constants, a sum that does not fit is no match; otherwise  *)
(* the sum is left to arithmetic that wraps around.                        *)
(***************************************************************************)
Denominator(o1, o2) == Max({o1.d.v, o2.d.v})

Sum(o1, o2) ==
  LET d == Denominator(o1, o2) IN o1.n.v * 2 ^ (d - o1.d.v) + o2.n.v * 2 ^ (d - o2.d.v)

Combines(p) ==
  BothKnown(p) =>
    /\ \A i \in {p[1], p[2]} : Denominator(ops[p[1]], ops[p[2]]) - ops[i].d.v < WordBits - 1
    /\ Wrap(Sum(ops[p[1]], ops[p[2]])) = Sum(ops[p[1]], ops[p[2]])

\* FoldIntRotationPairPattern, FoldCrotXIntRotationPairPattern
IntPairs == {p \in Pairs("int", "int") : opts.fold /\ SameAxis(p) /\ Combines(p)}

FoldIntPair ==
  \E p \in IntPairs :
    LET o1 == ops[p[1]] o2 == ops[p[2]] IN
    ops' = Replaced(p, [o2 EXCEPT
      !.n = [v |-> Wrap(Sum(o1, o2)), known |-> BothKnown(p)],
      !.d = [v |-> Denominator(o1, o2), known |-> o1.d.known /\ o2.d.known]])

-----------------------------------------------------------------------------
\* NormalizeRotationAnglePattern: into (-pi, pi].
Normalized(a) ==
  LET r == a % FullTurn IN IF r > HalfTurn THEN r - FullTurn ELSE r

KnownRotations(kind) == {i \in DOMAIN ops : ops[i].kind = kind /\ Known(ops[i])}

WideRotations == {i \in KnownRotations("rot") : opts.normalize /\ Normalized(ops[i].a.v) # ops[i].a.v}

NormalizeRotation ==
  \E i \in WideRotations : ops' = [ops EXCEPT ![i].a = Constant(F32(Normalized(@.v)))]

(***************************************************************************)
(* NormalizeIntRotationPattern, NormalizeCrotXIntRotationPattern: n modulo *)
(* 2^(d+1) into (-2^d, 2^d], with the remainder of the language, which has *)
(* the sign of the dividend.                                               *)
(***************************************************************************)
Magnitude(x) == IF x < 0 THEN -x ELSE x
Rem(x, m) == IF x < 0 THEN -(Magnitude(x) % Magnitude(m)) ELSE x % Magnitude(m)

\* Fault: the remainder of a negative number is taken to be in range
NormalizedOnce(n, d) ==
  LET period == Wrap(2 ^ (d + 1))
      mod == Rem(n, period)
  IN IF mod > 2 ^ d THEN mod - period ELSE mod

NormalizedInt(n, d) ==
  LET period == Wrap(2 ^ (d + 1))
      mod == Rem(Wrap(Rem(n, period) + period), period)
  IN IF mod > 2 ^ d THEN Wrap(mod - period) ELSE mod

\* Fault: every rotation is rewritten, whether or not its number changes
AnyIntRotations == {i \in KnownRotations("int") : opts.normalize /\ ops[i].d.v < WordBits - 1}

WideIntRotations ==
  {i \in KnownRotations("int") :
     /\ opts.normalize
     /\ ops[i].d.v < WordBits - 1
     /\ NormalizedInt(ops[i].n.v, ops[i].d.v) # ops[i].n.v}

NormalizeInt ==
  \E i \in WideIntRotations : ops' = [ops EXCEPT ![i].n = Constant(NormalizedInt(@.v, ops[i].d.v))]

-----------------------------------------------------------------------------
\* EliminateFullTurnRotationPattern: uncontrolled; within twoPiEpsilon of a full turn.
Epsilon == IF opts.epsilon = "loose" THEN Tolerance ELSE 0

FullTurns ==
  {i \in KnownRotations("rot") :
     /\ opts.epsilon # "negative"
     /\ Len(ops[i].on) = 1
     /\ Magnitude(((ops[i].a.v + HalfTurn) % FullTurn) - HalfTurn) <= Epsilon}

EliminateFullTurn == \E i \in FullTurns : ops' = Erase({i})

\* EliminateZeroIntRotationPattern, EliminateZeroCrotXIntRotationPattern
ZeroRotations ==
  {i \in DOMAIN ops : opts.epsilon # "negative" /\ ops[i].kind = "int" /\ ops[i].n = Constant(0)}

EliminateZeroInt == \E i \in ZeroRotations : ops' = Erase({i})

-----------------------------------------------------------------------------
NoMatch ==
  /\ HermitianPairs = {} /\ Paulis = {}
  /\ RotationPairs = {} /\ MixedPairs = {} /\ IntPairs = {}
  /\ WideRotations = {} /\ WideIntRotations = {}
  /\ FullTurns = {} /\ ZeroRotations = {}

Rewrite ==
  /\ phase = "peephole"
  /\ \/ CancelHermitianPair \/ PauliToRotation
     \/ FoldRotationPair \/ FoldMixedPair \/ FoldIntPair
     \/ NormalizeRotation \/ NormalizeInt
     \/ EliminateFullTurn \/ EliminateZeroInt
=============================================================================
