----------------------------- MODULE QubitReuse -----------------------------
(***************************************************************************)
(* detectReuseBlockDeps, beside the translation that it predicts: a walk   *)
(* over the calls of the list keeps a queue of the calls that measured a   *)
(* qubit, and a call that allocates one has to wait for the first of them. *)
(***************************************************************************)
EXTENDS QubitCalls

Has(m, kind, b) == \E i \in DOMAIN m.ops[b] : m.ops[b][i][1] = kind

(***************************************************************************)
(* The walk:                                                               *)
(*   freed  the blocks that freed a slot, first in first out               *)
(*   deps   pairs of a block that allocates and the one it waits for       *)
(***************************************************************************)
\* Fault: the block stays in the queue.
ReuseKept(w, b) == [w EXCEPT !.deps = @ \cup {<<b, Head(w.freed)>>}]

\* The first block of the queue is taken by a call that allocates.
Reuse(w, b) == [freed |-> Tail(w.freed), deps |-> w.deps \cup {<<b, Head(w.freed)>>}]

VisitCall(m, walk, b) ==
  LET w == IF Has(m, "qalloc", b) /\ walk.freed # <<>> THEN Reuse(walk, b) ELSE walk IN
  IF Has(m, "measure", b) THEN [w EXCEPT !.freed = Append(@, b)] ELSE w

ReuseDeps(m) ==
  FoldLeft(LAMBDA w, b : VisitCall(m, w, b), [freed |-> <<>>, deps |-> {}], InOrder(m, BlocksOf(m))).deps

\* The ids a call is given that were in use before, each with the block that freed it.
Given(m, ids, b) ==
  LET after == AfterCall(ids, m, b)
      again == {q \in DOMAIN after.idOf \ DOMAIN ids.idOf : after.idOf[q] \in DOMAIN ids.freedIn}
  IN  {<<b, ids.freedIn[after.idOf[q]]>> : q \in again}

SharedSlots(m) ==
  UNION {Given(m, FoldLeft(LAMBDA i, a : AfterCall(i, m, a), NoIds, InOrder(m, 0 .. b - 1)), b) :
           b \in BlocksOf(m)}
=============================================================================
