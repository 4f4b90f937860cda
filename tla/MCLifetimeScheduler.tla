------------------------- MODULE MCLifetimeScheduler -------------------------
(***************************************************************************)
(* Instances of LifetimeScheduler: every path of three blocks, and every   *)
(* path of four in which a block follows at most one earlier block.        *)
(***************************************************************************)
EXTENDS LifetimeScheduler

\* A receive, a computation, a gate, and a routine cut in two.
Receive  == [host |-> 0, parts |-> <<>>]
Compute  == [host |-> 3, parts |-> <<>>]
Gate     == [host |-> 1, parts |-> <<1>>]
Entangle == [host |-> 1, parts |-> <<4, 1>>]

\* One qubit, initialised by the first routine and measured by a later one.
Routines(k) == {b \in DOMAIN k : k[b].parts # <<>>}

RECURSIVE After(_, _, _)
After(c, i, after) == \E a \in after[c] : a = i \/ After(a, i, after)

Measurements(k, i, after) ==
  {Elsewhere} \cup {<<b, 2>> : b \in {c \in Routines(k) : After(c, i, after)}}
    \cup (IF Len(k[i].parts) = 2 THEN {<<i, 3>>} ELSE {})

Qubits(k, after) ==
  IF Routines(k) = {} THEN {[init |-> <<>>, meas |-> <<>>]}
  ELSE LET i == CHOOSE b \in Routines(k) : \A c \in Routines(k) : b <= c
       IN  {[init |-> <<<<i, 2>>>>, meas |-> <<m>>] : m \in Measurements(k, i, after)}

Path(n, k, after, jumped, q) ==
  [size   |-> n,
   parts  |-> [b \in 1 .. n |-> k[b].parts],
   host   |-> [b \in 1 .. n |-> k[b].host],
   after  |-> after,
   jumped |-> jumped,
   init   |-> q.init,
   meas   |-> q.meas]

Following(n, most) ==
  {f \in [1 .. n -> {S \in SUBSET (1 .. n - 1) : Cardinality(S) <= most}] :
     \A b \in 1 .. n : \A a \in f[b] : a < b}

PathsOf(n, kinds, most) ==
  {Path(n, c[1], c[2], c[3], c[4]) :
     c \in UNION {{<<k, after, jumped, q>> : q \in Qubits(k, after), jumped \in {{}, {n}}} :
                    k \in [1 .. n -> kinds], after \in Following(n, most)}}

AllPaths == PathsOf(3, {Receive, Compute, Gate, Entangle}, 2) \cup PathsOf(4, {Receive, Gate, Entangle}, 1)

ThreeBlocks == PathsOf(3, {Gate, Entangle}, 1)
=============================================================================
