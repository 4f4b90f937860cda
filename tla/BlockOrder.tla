----------------------------- MODULE BlockOrder ------------------------------
(***************************************************************************)
(* What qoalahost-reorder-blocks promises of the order it gives to blocks: *)
(* first it learns which blocks a block must follow, then it puts the      *)
(* blocks in order one after the other, none of them twice and none before *)
(* a block that it must follow.  How it chooses among them is left open.   *)
(***************************************************************************)
EXTENDS Sequences

CONSTANT Block

VARIABLES
  before,  \* the pairs <<first, second>> that the order must respect
  order    \* the blocks put in order so far

Init == before = {} /\ order = <<>>

Placed == {order[i] : i \in DOMAIN order}

Require ==
  /\ order = <<>>
  /\ before \subseteq before'
  /\ before' \subseteq Block \X Block
  /\ UNCHANGED order

Place(b) ==
  /\ b \notin Placed
  /\ \A e \in before : e[2] = b => e[1] \in Placed
  /\ order' = Append(order, b)
  /\ UNCHANGED before

Next == Require \/ \E b \in Block : Place(b)

Spec == Init /\ [][Next]_<<before, order>>
=============================================================================
