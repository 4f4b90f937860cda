---------------------------- MODULE MCQNetPasses ----------------------------
(***************************************************************************)
(* Functions on two wires for model checking.                              *)
(***************************************************************************)
EXTENDS DeadCode

C(v) == [v |-> v, known |-> TRUE]
D(v) == [v |-> v, known |-> FALSE]

Gate(name, on) == [kind |-> "gate", name |-> name, on |-> on]
Rot(axis, on, a) == [kind |-> "rot", axis |-> axis, on |-> on, a |-> a]
IntRot(axis, on, n, d) == [kind |-> "int", axis |-> axis, on |-> on, n |-> n, d |-> d]
Measure(w, use) == [kind |-> "measure", on |-> <<w>>, use |-> use]
Start(kind, w) == [kind |-> kind, on |-> <<w>>]
If(cond, yields) == [kind |-> "if", on |-> <<>>, cond |-> cond, yields |-> yields]

In(part, s) == [i \in DOMAIN s |-> [part |-> part] @@ s[i]]

Function(entry, then, else, test, after) ==
  In("entry", entry) \o In("then", then) \o In("else", else) \o In("after", test \o after)

Strings(S, n) == UNION {[1 .. k -> S] : k \in 0 .. n}

Starts == <<Start("eprs", 1), Start("new", 2)>>

(***************************************************************************)
(* In one piece: up to three operations between the start of two wires and *)
(* the measurement of one or both.  Angles are multiples of quarter turns, *)
(* outside (-pi, pi] too; d = 2 is the greatest exponent at which the      *)
(* period is a number of five bits.                                        *)
(***************************************************************************)
Hermitian == {Gate("h", <<1>>), Gate("z", <<1>>), Gate("cnot", <<1, 2>>), Gate("cnot", <<2, 1>>), Gate("cz", <<1, 2>>)}

Floats == {
  Rot("Z", <<1>>, C(101)), Rot("Z", <<1>>, C(202)), Rot("Z", <<1>>, C(-202)), Rot("Z", <<1>>, C(404)),
  Rot("X", <<1>>, C(303)), Rot("Z", <<1>>, D(101)), Rot("X", <<1, 2>>, C(202)), Rot("X", <<1, 2>>, C(101))}

Ints == {
  IntRot("Z", <<1>>, C(3), C(1)), IntRot("Z", <<1>>, C(-6), C(2)), IntRot("Z", <<1>>, C(14), C(2)), IntRot("Z", <<1>>, C(1), C(0)),
  IntRot("X", <<1, 2>>, C(-3), C(1)), IntRot("X", <<1, 2>>, C(6), C(2)), IntRot("Z", <<1>>, D(15), C(1)), IntRot("Z", <<1>>, D(5), D(0))}

Ends == {<<Measure(1, "returned"), Measure(2, "unused")>>, <<Measure(2, "returned")>>, <<Measure(1, "added")>>}

Pieces(S, n) == {Function(Starts \o s, <<>>, <<>>, <<>>, e) : s \in Strings(S, n), e \in Ends}

Chosen == {
  Gate("h", <<1>>), Gate("z", <<1>>), Gate("cnot", <<1, 2>>), Rot("Z", <<1>>, C(202)),
  IntRot("Z", <<1>>, C(14), C(2)), IntRot("Z", <<1>>, D(15), C(1))}

InOnePiece == Pieces(Hermitian \cup Floats, 2) \cup Pieces(Ints, 2) \cup Pieces(Chosen, 3)

(***************************************************************************)
(* With a branch on the outcome of the second wire.  The arms hand the     *)
(* first wire on, or measure it, or leave it alone.                        *)
(***************************************************************************)
Condition == 4

Branch(before, then, else, yields, after) ==
  Function(Starts \o <<before>> \o <<Measure(2, "unused")>>, then, else, <<If(Condition, yields)>>, after)

Turns == {Gate("h", <<1>>), Rot("Z", <<1>>, C(202)), IntRot("Z", <<1>>, C(6), C(2))}

Last1 == <<Measure(1, "returned")>>

Branches ==
  {Branch(g, s, t, {1}, u \o Last1) : g \in Turns, s \in Strings(Turns, 1), t \in Strings(Turns, 1), u \in Strings(Turns, 1)}
    \cup {Branch(g, s \o Last1, t \o <<Measure(1, "unused")>>, {}, <<>>) : g \in Turns, s \in Strings(Turns, 1), t \in Strings(Turns, 1)}
    \cup {Branch(g, s \o Last1, <<>>, {}, <<>>) : g \in Turns, s \in Strings(Turns, 1)}

\* The arms begin the first wire themselves and hand it on.
Yielding ==
  {Function(<<Start("new", 2), Measure(2, "unused")>>,
            <<Start("eprs", 1)>> \o s, <<Start("eprs", 1)>> \o t, <<If(2, {1})>>, Last1) :
     s \in Strings(Turns, 2), t \in Strings(Turns, 1)}

MCPrograms == InOnePiece \cup Branches \cup Yielding

Opts(hermitian, pauli, fold, normalize, epsilon, aware, check) ==
  [hermitian |-> hermitian, pauli |-> pauli, fold |-> fold, normalize |-> normalize,
   epsilon |-> epsilon, aware |-> aware, check |-> check]

MCOptions ==
  {Opts(TRUE, p, TRUE, TRUE, IF p THEN "zero" ELSE "loose", a, p) : p \in BOOLEAN, a \in BOOLEAN}
    \cup {Opts(FALSE, TRUE, TRUE, FALSE, "negative", a, TRUE) : a \in BOOLEAN}
    \cup {Opts(TRUE, TRUE, TRUE, TRUE, "zero", FALSE, FALSE), Opts(FALSE, FALSE, FALSE, TRUE, "zero", FALSE, TRUE)}

\* The options as they are when none is given.
DefaultOptions == {Opts(TRUE, FALSE, TRUE, TRUE, "zero", FALSE, TRUE)}
=============================================================================
