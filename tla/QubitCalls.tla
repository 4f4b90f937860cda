----------------------------- MODULE QubitCalls -----------------------------
(***************************************************************************)
(* A main function as the analyses of quantum memory see it: a list of     *)
(* blocks, each with the allocations and measurements of the routine it    *)
(* calls, in order; and the ids that the translation to iQoala gives to    *)
(* the qubits on its way through a list.                                   *)
(*                                                                         *)
(* A main function has the fields last, term and succ of a HostProgram,    *)
(* listed in the order of its blocks, and                                  *)
(*   ops    for each block a sequence of <<"qalloc", q>> and               *)
(*          <<"measure", q>>                                               *)
(***************************************************************************)
EXTENDS HostProgram, Sequences, SequencesExt

AsListed(m) == [b \in BlocksOf(m) |-> b]

\* Some blocks, and the operations of their calls, in the order of the list.
InOrder(m, blocks) == SelectSeq([k \in 1 .. m.last + 1 |-> k - 1], LAMBDA b : b \in blocks)

Along(m, blocks) == FoldLeft(LAMBDA s, b : s \o m.ops[b], <<>>, InOrder(m, blocks))

Allocations(s) == Len(SelectSeq(s, LAMBDA op : op[1] = "qalloc"))

Alive(s) == 2 * Allocations(s) - Len(s)

\* The most qubits that are allocated and not measured at a time.
MostAlive(s) ==
  LET at == {Alive(SubSeq(s, 1, i)) : i \in 0 .. Len(s)} IN
  CHOOSE n \in at : \A k \in at : k <= n

(***************************************************************************)
(* allocateQubit hands out the first id that is not in use, releaseQubit,  *)
(* at a measurement, takes it back.                                        *)
(*   inUse    the ids in use                                               *)
(*   idOf     the id each qubit was given                                  *)
(*   freedIn  the block that freed each id last                            *)
(***************************************************************************)
NoIds == [inUse |-> {}, idOf |-> <<>>, freedIn |-> <<>>]

Extended(f, x, y) == [z \in DOMAIN f \cup {x} |-> IF z = x THEN y ELSE f[z]]

AllocateQubit(ids) == Smallest((0 .. Cardinality(ids.inUse)) \ ids.inUse)

Translated(ids, op, b) ==
  IF op[1] = "qalloc"
    THEN [ids EXCEPT !.inUse = @ \cup {AllocateQubit(ids)},
                     !.idOf = Extended(@, op[2], AllocateQubit(ids))]
    ELSE [ids EXCEPT !.inUse = @ \ {ids.idOf[op[2]]},
                     !.freedIn = Extended(@, ids.idOf[op[2]], b)]

\* The ids after the call of block b.
AfterCall(ids, m, b) == FoldLeft(LAMBDA i, op : Translated(i, op, b), ids, m.ops[b])
=============================================================================
