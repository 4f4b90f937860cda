---------------------------- MODULE MCIsolation ----------------------------
(***************************************************************************)
(* Instances of Functionize and Isolation for model checking: all programs *)
(* of two qubits and a few operations, on three control-flow shapes.       *)
(***************************************************************************)
EXTENDS Isolation

Op(kind, block, qubits, reads, remote) ==
  [kind |-> kind, block |-> block, qubits |-> qubits, reads |-> reads, remote |-> remote]

ExitTo(term, to, reads) == [term |-> term, to |-> to, reads |-> reads]

Straight == <<ExitTo("return", {}, {})>>

IfThen == <<ExitTo("cond", {1, 2}, {}), ExitTo("br", {2}, {}), ExitTo("return", {}, {})>>

IfThenElse ==
  <<ExitTo("cond", {1, 2}, {}), ExitTo("br", {3}, {}), ExitTo("br", {3}, {}), ExitTo("return", {}, {})>>

\* What may come next; TRUE: it reads the latest value that is there.
Templates ==
  {<<"init", <<q>>, FALSE, "none">> : q \in {1, 2}}
  \cup {<<"eprs", <<q>>, FALSE, "bob">> : q \in {1, 2}}
  \cup {<<"eprs_measure", <<2>>, FALSE, r>> : r \in {"alice", "bob"}}
  \cup {<<"gate", g, FALSE, "none">> : g \in {<<1>>, <<1, 2>>, <<2, 1>>}}
  \cup {<<"gate", <<1>>, TRUE, "none">>, <<"measure", <<1>>, FALSE, "none">>,
        <<"recv", <<>>, FALSE, "bob">>, <<"send", <<>>, TRUE, "bob">>, <<"classical", <<>>, TRUE, "none">>}

Values(p, b) ==
  {v \in OpsOf(p) : /\ p.ops[v].kind \in Valued
                    /\ Available(p, v, Len(p.ops) + 1, b)}

Latest(p, b) == {v \in Values(p, b) : \A w \in Values(p, b) : w <= v}

\* The new operation can be part of a source program.
Fits(p, t, b) ==
  /\ t[3] => Values(p, b) # {}
  /\ \A q \in ToSet(t[2]) :
       /\ \A i \in OpsOf(p) : p.ops[i].kind = "measure" => q \notin QubitsOf(p, i)
       /\ IF t[1] \in Definitions THEN DefiningOps(p, q) = {}
          ELSE \E d \in DefiningOps(p, q) : Available(p, d, Len(p.ops) + 1, b) /\ p.ops[d].kind # "eprs_measure"

Grown(p) ==
  {[p EXCEPT !.ops = Append(@, Op(x[1][1], x[2], x[1][2], IF x[1][3] THEN Latest(p, x[2]) ELSE {}, x[1][4]))] :
     x \in {y \in Templates \X (p.ops[Len(p.ops)].block .. LastBlock(p)) : Fits(p, y[1], y[2])}}

Bodies(shape, size) ==
  LET start == [ops |-> [q \in {1, 2} |-> Op("qalloc", 0, <<q>>, {}, "none")], exits |-> shape]
      grow[n \in 0 .. size] == IF n = 0 THEN {start} ELSE UNION {Grown(p) : p \in grow[n - 1]}
  IN  grow[size]

\* The branch tests the latest value of the first block.
WithTest(p) ==
  [p EXCEPT !.exits[1].reads = {v \in Latest(p, 0) : p.ops[v].block = 0}]

ProgramsOf(shape, size) == {WithTest(p) : p \in {x \in Bodies(shape, size) : IsSource(WithTest(x))}}

\* The requests of two remotes and two kinds, interleaved with gates (the grouping test of the repository).
GroupingTest ==
  LET alloc(q) == Op("qalloc", 0, <<q>>, {}, "none")
      ask(kind, q, remote) == Op(kind, 0, <<q>>, {}, remote)
      gate(q) == Op("gate", 0, <<q>>, {}, "none")
  IN  [ops |-> <<alloc(1), ask("eprs", 1, "bob"), alloc(3), ask("eprs", 3, "bob"),
                 alloc(5), ask("eprs", 5, "charlie"), alloc(7), ask("eprs_measure", 7, "charlie"),
                 alloc(9), ask("eprs_measure", 9, "charlie"), alloc(11), ask("eprs_measure", 11, "bob"),
                 gate(1), gate(1)>>,
       exits |-> Straight]

AllSources ==
  {GroupingTest} \cup ProgramsOf(Straight, 4) \cup ProgramsOf(IfThen, 3) \cup ProgramsOf(IfThenElse, 3)

StraightSources == ProgramsOf(Straight, 3)

PassOptions(simple, maxOps, groupReqs) == [simple |-> simple, maxOps |-> maxOps, groupReqs |-> groupReqs]

AllOptions ==
  {PassOptions(TRUE, 0, FALSE), PassOptions(TRUE, 0, TRUE), PassOptions(FALSE, 0, TRUE)} \cup {PassOptions(FALSE, m, FALSE) : m \in {0, 1, 3}}

GroupingOptions == {PassOptions(FALSE, 0, TRUE)}
=============================================================================
