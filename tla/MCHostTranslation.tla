------------------------- MODULE MCHostTranslation --------------------------
(***************************************************************************)
(* Main functions for model checking: after blocks with the sockets,       *)
(* constants and a receive comes a conditional whose arms are cut around   *)
(* calls, and whose targets take arguments; then messages are sent and     *)
(* results returned.                                                       *)
(***************************************************************************)
EXTENDS HostTranslation

O(k, res, args, val, pred) == [k |-> k, res |-> res, args |-> args, val |-> val, pred |-> pred]
B(args, ops, term, header) == [args |-> args, ops |-> ops, term |-> term, meta |-> header]
T(k, to, with, cond, args) == [k |-> k, to |-> to, with |-> with, cond |-> cond, args |-> args]

ToNext == T("next", <<>>, <<>>, "", <<>>)
To(d, vs) == T("br", <<d>>, <<vs>>, "", <<>>)
If(c, t, tv, f, fv) == T("cond", <<t, f>>, <<tv, fv>>, c, <<>>)
Ret(vs) == T("return", <<>>, <<>>, "", vs)
Meta(preds, deps, comm, ent) ==
  [preds |-> preds, deps |-> deps, comm |-> comm, ent |-> ent, deadlines |-> {}]

Sock == O("sock", <<"s">>, <<>>, 0, "")
Const(v, n) == O("const", <<v>>, <<>>, n, "")
Flag(n) == O("flag", <<"c">>, <<>>, n, "")
Cmp(pred, v, w) == O("cmp", <<"c">>, <<v, w>>, 0, pred)
Calc(k, r, v, w) == O(k, <<r>>, <<v, w>>, 0, "")

\* What decides the branch.
Tests == {Flag(0), Flag(1)} \cup {Cmp(k, "x", "a") : k \in {"eq", "gt", "lt", "ge"}}
           \cup {Cmp("ne", "a", "x"), Cmp("eq", "a", "x")}

\* What an arm computes from its argument p before its call.
Compared == <<O("cmp", <<"k">>, <<"p", "a">>, 0, "eq")>>

Computed == {<<>>, Compared, <<Calc("add", "z", "p", "a")>>, <<Calc("mul", "z", "a", "x")>>,
             <<Calc("mul", "z", "x", "x")>>, <<Calc("mul", "z", "p", "a")>>,
             <<O("ext", <<"z">>, <<"a">>, 0, ""), Calc("sub", "w", "z", "x")>>}
Newest(ops) == IF ops = <<>> \/ ops[1].k = "cmp" THEN "p" ELSE "z"

\* The sockets, constants, a receive, and a block with the comparison, or with nothing.
Front4(test) ==
  << B(<<>>, <<Sock>>, ToNext, NoMeta),
     B(<<>>, <<Const("a", 1)>> \o IF test.k = "flag" THEN <<test>> ELSE <<>>, ToNext, NoMeta),
     B(<<>>, <<O("recv", <<"x">>, <<"s">>, 0, "")>>, ToNext, Meta(<<>>, <<1, 2>>, 0, 0)),
     B(<<>>, IF test.k = "cmp" THEN <<test>> ELSE <<>>, ToNext, Meta(<<>>, <<2, 3>>, 0, 0)) >>

\* if: an arm of three blocks, the middle one a call.  The false target is the merge point.
IfThen(test, ops, tv, fv, done) ==
  Front4(test) \o
  << B(<<>>, <<>>, If("c", 6, <<tv>>, 9, <<"x", fv>>), Meta(<<>>, <<4, 3>>, 0, 0)),
     B(<<"p">>, ops, ToNext, Meta(<<5>>, <<2>>, 0, 0)),
     B(<<>>, <<O("request", <<"y">>, <<Newest(ops)>>, 0, "")>>, ToNext, Meta(<<>>, <<6>>, 0, 0)),
     B(<<>>, <<>>, To(9, <<"y", Newest(ops)>>), Meta(<<4>>, <<7, 6>>, 0, 7)),
     B(<<"q", "r">>, IF done = <<>> THEN <<>> ELSE <<O("send", <<>>, <<"s", "r">>, 0, "")>>, Ret(done),
       Meta(<<5, 8>>, <<1, 2>>, 3, 7)) >>

\* if and else, either listed first, or both leading to the merge point.
IfElse(test, t, tv, e, ev, done) ==
  Front4(test) \o
  << B(<<>>, <<>>, If("c", t, tv, e, ev), Meta(<<4>>, <<2, 3>>, 0, 0)),
     B(<<"p">>, <<Calc("add", "z", "p", "x")>>, To(9, <<"z", "p">>), Meta(<<5>>, <<2>>, 0, 0)),
     B(<<"o">>, <<O("local", <<"y">>, <<"o">>, 0, "")>>, ToNext, Meta(<<5>>, <<2>>, 0, 0)),
     B(<<>>, <<>>, To(9, <<"y", "o">>), Meta(<<>>, <<7>>, 0, 0)),
     B(<<"q", "r">>, <<Calc("add", "u", "q", "r")>>, Ret(done), Meta(<<5, 6, 8>>, <<1, 4>>, 3, 0)) >>

\* The true target of a branch on a comparison has an instruction: see BranchTargetsListed.
SmallPrograms ==
  {IfThen(w[1], w[2], tv, fv, done) :
     w \in {<<test, ops>> \in Tests \X Computed : test.k = "cmp" => ops \notin {<<>>, Compared}},
     tv \in {"x", "a"}, fv \in {"x", "a"}, done \in {<<>>, <<"r", "q">>}}
  \cup
  {IfElse(test, way[1], <<tv>>, way[2], <<ev>>, <<"u", "q">>) :
     test \in Tests, way \in {<<6, 7>>, <<7, 6>>}, tv \in {"x", "a"}, ev \in {"x", "a"}}
  \cup
  {IfElse(test, 9, tv, 9, ev, <<"r">>) :
     test \in Tests, tv \in {<<"x", "a">>, <<"a", "x">>}, ev \in {<<"x", "a">>, <<"a", "x">>}}

\* An arm whose head has only a comparison in front of its call.
EmptyArm == {IfThen(Cmp("eq", "x", "a"), Compared, "x", "x", <<"r">>)}
=============================================================================
