---------------------------- MODULE Functionize ----------------------------
(***************************************************************************)
(* functionizeModule: moves the quantum operations of the main function    *)
(* into routines.  A classifier first groups the operations; every group   *)
(* is then outlined, and a call takes the place of its last operation.     *)
(* An operation, and the value it produces, is named by its index in the   *)
(* source; the value of a qalloc is a qubit.  A definition marked "Fault"  *)
(* is the one below it as a plausible mistake would have it.               *)
(***************************************************************************)
EXTENDS HostProgram, SequencesExt

(***************************************************************************)
(* classical stands for every operation outside the QMem dialect, gate for *)
(* rotations and all other gates.  The fields of a source program:         *)
(*   ops    the operations, block by block, terminators aside: kind, block *)
(*          and remote, the qubits it acts on, in order (a qalloc: its     *)
(*          own), and the other values it reads                            *)
(*   exits  for every block its terminator, targets and the values it reads*)
(***************************************************************************)
Requests == {"eprs", "eprs_measure"}
Definitions == {"init"} \cup Requests
QuantumKinds == {"qalloc", "gate", "measure"} \cup Definitions
Kinds == {"recv", "send", "classical"} \cup QuantumKinds

LastBlock(p) == Len(p.exits) - 1
Exit(p, b) == p.exits[b + 1]
OpsOf(p) == DOMAIN p.ops
QubitsOf(p, i) == ToSet(p.ops[i].qubits)
Operands(p, i) == p.ops[i].reads \cup (IF p.ops[i].kind = "qalloc" THEN {} ELSE QubitsOf(p, i))
DefiningOps(p, q) == {i \in OpsOf(p) : p.ops[i].kind \in Definitions /\ q \in QubitsOf(p, i)}

\* Every path from the entry to block b leads through block a.
Dominates(p, a, b) ==
  LET step == [c \in 0 .. LastBlock(p) |-> IF c = a THEN {} ELSE Exit(p, c).to]
  IN  a = b \/ a = 0 \/ b \notin Closure(step, LastBlock(p))[0]

\* A value that is there at position i of block b: its operation precedes, and dominates.
Available(p, v, i, b) == v < i /\ Dominates(p, p.ops[v].block, b)

\* What an operation of each kind takes and makes (QMemOps.td): qubits and other values are
\* never mixed up, and only the kinds of Valued make a value.
Valued == {"recv", "classical", "measure", "eprs_measure"}

TakesItsOperands(p, i) ==
  LET op == p.ops[i] IN
  /\ op.kind \in Kinds /\ op.block \in 0 .. LastBlock(p)
  /\ op.qubits \in Seq(OpsOf(p)) /\ op.reads \subseteq OpsOf(p)
  /\ \A v \in op.reads : p.ops[v].kind \in Valued
  /\ \A q \in QubitsOf(p, i) : p.ops[q].kind = "qalloc"
  /\ op.kind = "qalloc" => op.qubits = <<i>> /\ op.reads = {}
  /\ op.kind \in Definitions \cup {"measure"} => Len(op.qubits) = 1
  /\ op.kind \notin QuantumKinds => op.qubits = <<>>

(***************************************************************************)
(* What the verifiers and the lowering before leave: values and qubits are *)
(* defined on every path to their use, once; qubits are used linearly, so  *)
(* nothing follows a measurement; jumps go forward.                        *)
(***************************************************************************)
IsSource(p) ==
  /\ Len(p.ops) \in Nat /\ OpsOf(p) = 1 .. Len(p.ops) /\ Len(p.exits) \in Nat \ {0}
  /\ \A i \in OpsOf(p) :
       LET op == p.ops[i] IN
       /\ TakesItsOperands(p, i)
       /\ i > 1 => p.ops[i - 1].block <= op.block
       /\ \A v \in Operands(p, i) : Available(p, v, i, op.block)
       /\ \A q \in QubitsOf(p, i) :
            /\ Cardinality(DefiningOps(p, q)) = 1
            /\ op.kind \notin Definitions \cup {"qalloc"} =>
                 \A d \in DefiningOps(p, q) : Available(p, d, i, op.block) /\ p.ops[d].kind # "eprs_measure"
            /\ op.kind \in {"measure", "eprs_measure"} => \A j \in OpsOf(p) : j > i => q \notin QubitsOf(p, j)
  /\ \A b \in 0 .. LastBlock(p) :
       /\ Exit(p, b).to \subseteq b + 1 .. LastBlock(p)
       /\ \A v \in Exit(p, b).reads :
            /\ v \in OpsOf(p) /\ p.ops[v].kind \in Valued
            /\ Available(p, v, Len(p.ops) + 1, b) /\ p.ops[v].block <= b

KeyOf(p, i) == <<p.ops[i].remote, p.ops[i].kind>>
RequestOps(p) == {i \in OpsOf(p) : p.ops[i].kind \in Requests}
Keys(p) == {KeyOf(p, i) : i \in RequestOps(p)}

(***************************************************************************)
(* Programs whose requests may be put off to the last of the same remote   *)
(* and kind: they share a block and nothing in between uses what they make.*)
(***************************************************************************)
Groupable(p) ==
  \A i, j \in RequestOps(p) : i < j /\ KeyOf(p, i) = KeyOf(p, j) =>
    /\ p.ops[i].block = p.ops[j].block
    /\ \A u \in i + 1 .. j : QubitsOf(p, i) \cap QubitsOf(p, u) = {} /\ i \notin Operands(p, u)

CONSTANTS
  Sources,    \* the main functions
  Options     \* the pass options: [simple, maxOps, groupReqs]

ASSUME SourcesAssumption == \A p \in Sources : IsSource(p)

ASSUME OptionsAssumption == Options \subseteq [simple : BOOLEAN, maxOps : Nat, groupReqs : BOOLEAN]

VARIABLES
  source,     \* the main function
  option,     \* the options of the pass
  stage,      \* the step of the pass
  declared,   \* declaredQubits: allocated and not yet defined
  pending,    \* the remotes and kinds whose requests are not grouped yet
  cursor,     \* the next operation to classify
  current,    \* currentBlock, or NoBlock
  grouper,    \* committed groups, active group and its id
  calls       \* the routines outlined, in module order, each with its one call

fvars == <<source, option, stage, declared, pending, cursor, current, grouper, calls>>

Ops == OpsOf(source)
Kind(i) == source.ops[i].kind
Qubits(i) == source.ops[i].qubits
NoBlock == -1
NoGroup == [groups |-> <<>>, active |-> <<>>, id |-> <<>>]

Init ==
  /\ source \in Sources
  /\ option \in Options
  /\ stage = IF option.simple THEN "simple" ELSE "register"
  /\ declared = {}
  /\ pending = {}
  /\ cursor = 1
  /\ current = NoBlock
  /\ grouper = NoGroup
  /\ calls = <<>>

-----------------------------------------------------------------------------
(***************************************************************************)
(* PerQubitGrouper: one active group, named by its qubits in order.        *)
(***************************************************************************)
Commit(g) ==
  IF g.active = <<>> THEN g
  ELSE [groups |-> Append(g.groups, g.active), active |-> <<>>, id |-> <<>>]

NewGroup(g, id, ops) == [groups |-> Commit(g).groups, active |-> ops, id |-> id]

GroupForQubits(g, id) == IF g.id = id THEN g ELSE NewGroup(g, id, <<>>)

Full(g) == option.maxOps > 0 /\ Len(g.active) >= option.maxOps

AddOperation(g, i) ==
  LET own    == GroupForQubits(g, Qubits(i))
      target == IF Full(own) THEN GroupForQubits(Commit(own), Qubits(i)) ELSE own
  IN  [target EXCEPT !.active = Append(@, i)]

-----------------------------------------------------------------------------
(***************************************************************************)
(* functionizeOpClassifier: qubits are registered, then, if requests are   *)
(* grouped, every remote and kind gets its group, then the operations are  *)
(* classified one by one.                                                  *)
(***************************************************************************)

Allocations == {i \in Ops : Kind(i) = "qalloc"}

RegisterQubits ==
  /\ stage = "register"
  /\ declared' = Allocations
  /\ pending' = IF option.groupReqs THEN Keys(source) ELSE {}
  /\ stage' = "requests"
  /\ UNCHANGED <<source, option, cursor, current, grouper, calls>>

WithAllocation(i) == Qubits(i) \o <<i>>

RequestGroup(key) ==
  LET requests == SelectSeq([i \in Ops |-> i], LAMBDA i : i \in RequestOps(source) /\ KeyOf(source, i) = key)
  IN  FlattenSeq([k \in DOMAIN requests |-> WithAllocation(requests[k])])

\* The map of keys is unordered: any key may be the next.
GroupRequests ==
  /\ stage = "requests"
  /\ \E key \in pending :
       LET group == RequestGroup(key) IN
       /\ declared' = declared \ ToSet(group)
       /\ grouper' = Commit(NewGroup(grouper, SelectSeq(group, LAMBDA i : i \in Allocations), group))
       /\ pending' = pending \ {key}
  /\ UNCHANGED <<source, option, stage, cursor, current, calls>>

BeginClassify ==
  /\ stage = "requests"
  /\ pending = {}
  /\ stage' = "classify"
  /\ UNCHANGED <<source, option, declared, pending, cursor, current, grouper, calls>>

\* Crossing a block boundary commits the active group.
Entered(i) ==
  IF current \notin {NoBlock, source.ops[i].block} THEN Commit(grouper) ELSE grouper

Classifying(i) == stage = "classify" /\ i = cursor /\ i \in Ops

Classified(i) ==
  /\ cursor' = i + 1
  /\ current' = source.ops[i].block
  /\ UNCHANGED <<source, option, stage, pending, calls>>

\* Fault: it is forgotten that requests were grouped before.
StaysUngrouped(i) == Kind(i) \in {"send", "classical", "qalloc"}

\* Allocations wait for their definition; requests may have been grouped before.
Stays(i) == Kind(i) \in {"send", "classical", "qalloc"} \/ (option.groupReqs /\ Kind(i) \in Requests)

LeaveInBody(i) ==
  /\ Classifying(i)
  /\ Stays(i)
  /\ grouper' = Entered(i)
  /\ Classified(i)
  /\ UNCHANGED declared

\* Fault: a receive stays in the body like a send does.
NoBarrier(i) ==
  /\ Classifying(i)
  /\ Kind(i) = "recv"
  /\ grouper' = Entered(i)
  /\ Classified(i)
  /\ UNCHANGED declared

Barrier(i) ==
  /\ Classifying(i)
  /\ Kind(i) = "recv"
  /\ grouper' = Commit(Entered(i))
  /\ Classified(i)
  /\ UNCHANGED declared

\* A definition takes its allocation along; a request is alone with it.
DefineQubit(i) ==
  /\ Classifying(i)
  /\ Kind(i) \in Definitions /\ ~Stays(i)
  /\ Head(Qubits(i)) \in declared
  /\ declared' = declared \ QubitsOf(source, i)
  /\ LET defined == NewGroup(Entered(i), Qubits(i), WithAllocation(i))
     IN  grouper' = IF Kind(i) \in Requests THEN Commit(defined) ELSE defined
  /\ Classified(i)

Operate(i) ==
  /\ Classifying(i)
  /\ Kind(i) \in {"gate", "measure"}
  /\ grouper' = AddOperation(Entered(i), i)
  /\ Classified(i)
  /\ UNCHANGED declared

(***************************************************************************)
(* simpleOpClassifier: a group per operation, definitions with allocation. *)
(***************************************************************************)
DeclareAlone(i) ==
  /\ Kind(i) = "qalloc"
  /\ declared' = declared \cup {i}
  /\ UNCHANGED grouper

DefineAlone(i) ==
  /\ Kind(i) \in Definitions
  /\ Head(Qubits(i)) \in declared
  /\ declared' = declared \ QubitsOf(source, i)
  /\ grouper' = [grouper EXCEPT !.groups = Append(@, WithAllocation(i))]

OperateAlone(i) ==
  /\ Kind(i) \in {"gate", "measure"}
  /\ grouper' = [grouper EXCEPT !.groups = Append(@, <<i>>)]
  /\ UNCHANGED declared

StayAlone(i) ==
  /\ Kind(i) \notin QuantumKinds
  /\ UNCHANGED <<declared, grouper>>

ClassifyAlone(i) ==
  /\ stage = "simple" /\ i = cursor
  /\ DeclareAlone(i) \/ DefineAlone(i) \/ OperateAlone(i) \/ StayAlone(i)
  /\ cursor' = i + 1
  /\ UNCHANGED <<source, option, stage, pending, current, calls>>

Classify ==
  \E i \in Ops : LeaveInBody(i) \/ Barrier(i) \/ DefineQubit(i) \/ Operate(i) \/ ClassifyAlone(i)

EndClassify ==
  /\ stage \in {"classify", "simple"}
  /\ cursor \notin Ops
  /\ grouper' = Commit(grouper)
  /\ stage' = "outline"
  /\ UNCHANGED <<source, option, declared, pending, cursor, current, calls>>

-----------------------------------------------------------------------------
(***************************************************************************)
(* Outlining a group: operands defined elsewhere become arguments; results *)
(* used elsewhere, or not at all, are returned.  A result of a source      *)
(* operation used by a terminator is used elsewhere.                       *)
(***************************************************************************)
HasResult(i) == Kind(i) \in Valued \cup {"qalloc"}

Users(v) == {u \in Ops : v \in Operands(source, u)}

UsedByExit(v) == \E b \in 0 .. LastBlock(source) : v \in Exit(source, b).reads

Arguments(group) == (UNION {Operands(source, i) : i \in group}) \ group

Results(group) ==
  {v \in group : HasResult(v) /\ (Users(v) = {} \/ ~(Users(v) \subseteq group) \/ UsedByExit(v))}

\* Fault: the group is reversed before it is cloned, not before it is erased.
ReversedCallOf(group) ==
  [ops |-> Reverse(group), args |-> Arguments(ToSet(group)), results |-> Results(ToSet(group)),
   entangle |-> \E i \in ToSet(group) : Kind(i) \in Requests]

CallOf(group) ==
  [ops |-> group, args |-> Arguments(ToSet(group)), results |-> Results(ToSet(group)),
   entangle |-> \E i \in ToSet(group) : Kind(i) \in Requests]

\* Fault: every routine is put in front of those created before it.
OutlineOnTop ==
  /\ stage = "outline" /\ Len(calls) < Len(grouper.groups)
  /\ calls' = <<CallOf(grouper.groups[Len(calls) + 1])>> \o calls
  /\ UNCHANGED <<source, option, stage, declared, pending, cursor, current, grouper>>

Outline ==
  /\ stage = "outline" /\ Len(calls) < Len(grouper.groups)
  /\ calls' = Append(calls, CallOf(grouper.groups[Len(calls) + 1]))
  /\ UNCHANGED <<source, option, stage, declared, pending, cursor, current, grouper>>

EndOutline ==
  /\ stage = "outline" /\ Len(calls) = Len(grouper.groups)
  /\ stage' = "done"
  /\ UNCHANGED <<source, option, declared, pending, cursor, current, grouper, calls>>

Next ==
  \/ RegisterQubits \/ GroupRequests \/ BeginClassify
  \/ Classify \/ EndClassify
  \/ Outline \/ EndOutline

Spec == Init /\ [][Next]_fvars /\ WF_fvars(Next)

-----------------------------------------------------------------------------
(***************************************************************************)
(* The main function as it now stands.  Calls stand where the last         *)
(* operation of their group stood.                                         *)
(***************************************************************************)
\* Fault: the call is placed at the first operation of the group.
FirstOf(call) == Head(call.ops)

PlaceOf(call) == Last(call.ops)

CallsWith(i) == {c \in DOMAIN calls : i \in ToSet(calls[c].ops)}

Place(i) == IF CallsWith(i) = {} THEN i ELSE PlaceOf(calls[CHOOSE c \in CallsWith(i) : TRUE])

Within(i, call) == CHOOSE k \in DOMAIN call.ops : call.ops[k] = i

Precedes(i, j) ==
  \/ Place(i) < Place(j)
  \/ \E c \in CallsWith(i) \cap CallsWith(j) : Within(i, calls[c]) < Within(j, calls[c])

\* Whether value v is there, in block b, at the given place of the list.
Reaches(v, place, b) ==
  /\ Place(v) < place
  /\ Dominates(source, source.ops[Place(v)].block, b)
  /\ \A c \in CallsWith(v) : v \in calls[c].results

BlockOf(i) == source.ops[i].block

\* Requests are only put off in programs that allow it.
Placeable == option.groupReqs /\ ~option.simple => Groupable(source)

-----------------------------------------------------------------------------
(***************************************************************************)
(* Properties.                                                             *)
(***************************************************************************)
(***************************************************************************)
(* Two operations on a common qubit, or one that reads what the other      *)
(* makes, keep their order when they end up in routines, also while some   *)
(* groups are outlined and others are not.                                 *)
(***************************************************************************)
OrderKept ==
  Placeable =>
    \A i, j \in Ops :
      i < j /\ (QubitsOf(source, i) \cap QubitsOf(source, j) # {} \/ i \in source.ops[j].reads)
        => Precedes(i, j)

(***************************************************************************)
(* Whatever was outlined, every operation finds its operands: a routine    *)
(* gets them as arguments or makes them before, a call and an operation    *)
(* that stayed in the body stand after what they read on every path, and   *)
(* a routine returns what others read.                                     *)
(***************************************************************************)
OperandsReached ==
  /\ \A c \in DOMAIN calls :
       LET call == calls[c] IN
       /\ \A v \in call.args : Reaches(v, PlaceOf(call), BlockOf(PlaceOf(call)))
       /\ \A i \in ToSet(call.ops) : \A v \in Operands(source, i) \ call.args :
            v \in ToSet(call.ops) /\ Within(v, call) < Within(i, call)
  /\ \A i \in Ops : CallsWith(i) = {} =>
       \A v \in Operands(source, i) : Reaches(v, i, BlockOf(i))
  /\ \A b \in 0 .. LastBlock(source) : \A v \in Exit(source, b).reads :
       Reaches(v, Len(source.ops) + 1, b)

ValuesReach == Placeable => OperandsReached

(***************************************************************************)
(* Quantum operations do not cross a receive of their block: what is done  *)
(* before waiting for a message stays before it, what follows it stays     *)
(* after.  Allocations follow their definition, and grouped requests are   *)
(* put off on purpose.                                                     *)
(***************************************************************************)
BarriersHold ==
  \A r, i \in Ops :
    /\ Kind(r) = "recv" /\ BlockOf(r) = BlockOf(i)
    /\ Kind(i) \in QuantumKinds \ {"qalloc"}
    /\ option.groupReqs => Kind(i) \notin Requests
    => (i < r <=> Place(i) < r)

(***************************************************************************)
(* When all is outlined, every quantum operation is in one routine, never  *)
(* merged with one of another block (its allocation aside), nor past the   *)
(* size limit (a definition comes with its allocation); a request routine  *)
(* serves one remote and does nothing else.                                *)
(***************************************************************************)
RoutinesWellShaped ==
  stage = "done" /\ Placeable =>
    /\ \A i \in Ops : Kind(i) \in QuantumKinds => Cardinality(CallsWith(i)) = 1
    /\ \A c \in DOMAIN calls :
         LET worked == ToSet(calls[c].ops) \ Allocations
             keys   == {KeyOf(source, i) : i \in worked}
         IN  /\ Cardinality({BlockOf(i) : i \in worked}) = 1
             /\ Len(calls[c].ops) = Cardinality(ToSet(calls[c].ops))
             /\ IF calls[c].entangle
                THEN Cardinality(keys) = 1 /\ worked \subseteq RequestOps(source)
                ELSE option.maxOps > 0 => Len(calls[c].ops) <= (IF option.maxOps < 2 THEN 2 ELSE option.maxOps)

\* A routine stays within what bounds it: receives, its block, its remote, the size limit.
RoutinesInBounds == BarriersHold /\ RoutinesWellShaped

=============================================================================
