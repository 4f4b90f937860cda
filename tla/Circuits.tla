------------------------------ MODULE Circuits ------------------------------
(***************************************************************************)
(* What a circuit does, as far as measurements can tell.  Every gate here  *)
(* turns about a Pauli operator by quarters: a measurement of a wire is Z  *)
(* on it, pulled back through the gates before it to an operator on the    *)
(* initial state.  Two circuits that pull their measurements back to the   *)
(* same operators have the same outcomes, whatever the initial state.      *)
(* This is the meaning of the gates in the code, not code of its own.      *)
(***************************************************************************)
EXTENDS Integers, FiniteSets, FiniteSetsExt, SequencesExt

Letters == {"I", "X", "Y", "Z"}

\* The product of two Pauli letters is i^Phase(a, b) times a letter.
Cycle == {<<"X", "Y">>, <<"Y", "Z">>, <<"Z", "X">>}

Phase(a, b) == IF <<a, b>> \in Cycle THEN 1 ELSE IF <<b, a>> \in Cycle THEN 3 ELSE 0

Product(a, b) ==
  CHOOSE c \in Letters :
    CASE a = "I" -> c = b
      [] b = "I" -> c = a
      [] a = b -> c = "I"
      [] OTHER -> c \notin {"I", a, b}

(***************************************************************************)
(* An operator: a letter for each wire, and a power of i in front.  A turn *)
(* is about an axis, which gives letters to some wires.                    *)
(***************************************************************************)
On(axis, w) == IF w \in DOMAIN axis THEN axis[w] ELSE "I"

Anticommute(axis, op) ==
  Cardinality({w \in DOMAIN axis : Phase(axis[w], op.letters[w]) # 0}) % 2 = 1

Turned(axis, quarters, op) ==
  LET k == quarters % 4
      product == [w \in DOMAIN op.letters |-> Product(On(axis, w), op.letters[w])]
      power == MapThenSumSet(LAMBDA w : Phase(axis[w], op.letters[w]), DOMAIN axis)
  IN CASE k = 0 \/ ~Anticommute(axis, op) -> op
       [] k = 2 -> [op EXCEPT !.power = (@ + 2) % 4]
       [] OTHER -> [letters |-> product, power |-> (op.power + power + k) % 4]

\* Pulled back through a circuit: a sequence of turns <<axis, quarters>>, the last one first.
PulledBack(turns, op) == FoldRight(LAMBDA t, o : Turned(t[1], t[2], o), turns, op)

Measured(wires, w) == [letters |-> [v \in wires |-> IF v = w THEN "Z" ELSE "I"], power |-> 0]
=============================================================================
