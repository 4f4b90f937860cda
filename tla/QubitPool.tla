----------------------------- MODULE QubitPool -----------------------------
(***************************************************************************)
(* What the translation to iQoala promises about physical qubits: while a  *)
(* qubit of the program has an id, no other has the same one.  Which id a  *)
(* qubit gets, and when it gives it up, is left open.                      *)
(***************************************************************************)
CONSTANTS
  Qubits,  \* the qubits of the program
  Ids,     \* the physical qubits
  None     \* no physical qubit

VARIABLE given  \* the id of each qubit

Init == given = [q \in Qubits |-> None]

\* A qubit takes an id that nobody has.
Take ==
  \E q \in Qubits, i \in Ids :
    /\ given[q] = None
    /\ \A r \in Qubits : given[r] # i
    /\ given' = [given EXCEPT ![q] = i]

\* Some qubits give up their ids.
Drop ==
  \E S \in SUBSET Qubits : given' = [q \in Qubits |-> IF q \in S THEN None ELSE given[q]]

Next == Take \/ Drop

Spec == Init /\ [][Next]_given
=============================================================================
