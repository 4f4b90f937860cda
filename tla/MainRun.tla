------------------------------ MODULE MainRun -------------------------------
(***************************************************************************)
(* What the translation to iQoala promises: a run of the main function as  *)
(* MLIR defines it, one block at a time.  Arguments of a block take the    *)
(* values of the branch that was taken, all of them at once.               *)
(***************************************************************************)
EXTENDS HostMain

CONSTANT Bits  \* what a receive or a routine delivers

VARIABLES
  main,  \* the program
  at,    \* the block control stands in front of; 0 when the function has returned
  env,   \* the values that are visible there
  out    \* what it sent and returned

Init ==
  /\ at = 1
  /\ env = [v \in Values(main) |-> NoValue]
  /\ out = <<>>

Fetched(b) ==
  UNION {Range(main[b].ops[i].res) : i \in {j \in DOMAIN main[b].ops : Fetches(main[b].ops[j])}}

\* The messages block b sends.
Sent(b, end) ==
  LET sends == InOrder({i \in DOMAIN main[b].ops : main[b].ops[i].k = "send"})
  IN  [n \in DOMAIN sends |-> end[main[b].ops[sends[n]].args[2]]]

Step ==
  /\ at # 0
  /\ \E got \in [Fetched(at) -> Bits] :
       LET end == AtEnd(main, at, env, got)
           term == main[at].term
           n == Taken(main, at, end)
           dest == IF term.k = "next" THEN at + 1 ELSE term.to[n]
           passed == IF term.k = "next" THEN <<>> ELSE term.with[n]
       IN  IF term.k = "return"
             THEN /\ at' = 0
                  /\ env' = [v \in DOMAIN env |-> NoValue]
                  /\ out' = out \o Sent(at, end) \o [i \in DOMAIN term.args |-> end[term.args[i]]]
             ELSE /\ at' = dest
                  /\ env' = Enter(main, dest, passed, end)
                  /\ out' = out \o Sent(at, end)

Spec == Init /\ [][Step /\ UNCHANGED main]_<<main, at, env, out>>
=============================================================================
