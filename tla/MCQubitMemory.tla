--------------------------- MODULE MCQubitMemory ---------------------------
(***************************************************************************)
(* The main functions the analyses of quantum memory are checked on: a     *)
(* shape fixes the control flow and the blocks with a call, every way to   *)
(* allocate and measure up to three qubits in these calls is an instance.  *)
(***************************************************************************)
EXTENDS QubitCalls

Qubits == {1, 2, 3}

Op(call) == [term |-> "nop", to |-> {}, call |-> call]
Plain  == Op(FALSE)
Called == Op(TRUE)
Cond(t, e) == [term |-> "cond", to |-> {t, e}, call |-> FALSE]
Jump(t) == [term |-> "br", to |-> {t}, call |-> FALSE]
Exit == [term |-> "return", to |-> {}, call |-> FALSE]

Straight == <<Called, Called, Called, Called, Called, Exit>>

\* if (..) { T }
IfThen == <<Called, Called, Cond(3, 5), Called, Jump(5), Plain, Called, Called, Exit>>

\* if (..) { T } else { E }
IfThenElse == <<Called, Cond(2, 4), Called, Jump(6), Called, Jump(6), Called, Called, Exit>>

\* if (..) { T; T' } else { E; E' }
LongArms == <<Called, Cond(2, 5), Called, Called, Jump(8), Called, Called, Jump(8), Plain, Called, Exit>>

\* if (..) { T }  if (..) { U }
TwoIfs == <<Called, Cond(2, 4), Called, Jump(4), Cond(5, 7), Called, Jump(7), Called, Called, Exit>>

-----------------------------------------------------------------------------
Flowing(s) ==
  [last |-> Len(s) - 1,
   term |-> [b \in 0 .. Len(s) - 1 |-> s[b + 1].term],
   succ |-> [b \in 0 .. Len(s) - 1 |-> s[b + 1].to]]

\* Nothing; one qubit allocated, measured or both.
Bodies == {<<>>} \cup UNION {{<<<<"qalloc", q>>>>, <<<<"measure", q>>>>,
                               <<<<"qalloc", q>>, <<"measure", q>>>>} : q \in Qubits}

\* On a run a qubit is allocated at most once, and measured at most once, after that.
Linear(ops) ==
  \A i \in 1 .. Len(ops) :
    LET before == {ops[j] : j \in 1 .. i - 1} IN
    /\ ops[i] \notin before
    /\ ops[i][1] = "measure" => <<"qalloc", ops[i][2]>> \in before

\* Qubits are numbered in the order in which the list allocates them.
Numbered(ops) ==
  \A i \in 1 .. Len(ops) :
    ops[i][1] = "qalloc" => \A q \in 1 .. ops[i][2] - 1 : \E j \in 1 .. i - 1 : ops[j] = <<"qalloc", q>>

MainsOf(s) ==
  LET f == Flowing(s)
      main(ops) == [last |-> f.last, term |-> f.term, succ |-> f.succ, ops |-> ops]
      calls == {b \in 0 .. f.last : s[b + 1].call}
      runs == {Executed(f, AsListed(f), side) : side \in Outcomes(f, AsListed(f))}
      extended[n \in 0 .. f.last + 1] ==
        IF n = 0 THEN {[b \in 0 .. f.last |-> <<>>]}
        ELSE IF n - 1 \notin calls THEN extended[n - 1]
        ELSE {o \in {[ops EXCEPT ![n - 1] = body] : ops \in extended[n - 1], body \in Bodies} :
                /\ Numbered(Along(main(o), 0 .. f.last))
                /\ \A run \in runs : Linear(Along(main(o), run))}
  IN  {main(ops) : ops \in extended[f.last + 1]}
=============================================================================
