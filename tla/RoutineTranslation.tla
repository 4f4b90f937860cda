------------------------- MODULE RoutineTranslation -------------------------
(***************************************************************************)
(* Translation of routine calls to iQoala: the calls of the main function  *)
(* are translated in the order they are listed, and each call translates   *)
(* the routine it calls, operation by operation.  Two tables say which     *)
(* physical qubit a value is: one of the main function (its stack frame)   *)
(* and one of the routine.  The context knows which physical qubits are    *)
(* taken.  The tables are tied only by ids, and an id is used again as     *)
(* soon as its qubit is measured or freed.                                 *)
(*                                                                         *)
(* The program is revealed as it is translated: which values a call        *)
(* passes, and what its routine does, is chosen step by step among what    *)
(* Functionize produces.  It has one conditional, whose arms are listed    *)
(* one after the other.  Gates and classical operations change no table    *)
(* and are left out.                                                       *)
(*                                                                         *)
(* A definition marked Fault is the one below it as a plausible mistake    *)
(* would have it; it is not part of the specification.                     *)
(***************************************************************************)
EXTENDS Listing, Sequences, SequencesExt

CONSTANTS
  Qubits,        \* the results of qalloc operations
  Params,        \* classical values of the main function
  MaxPhyQubits,  \* MAX_PHY_QUBITS
  MaxArgs,       \* bound: operands of a call
  MaxBits        \* bound: measurements in a routine

None == 255  \* 0xFF

ASSUME PoolAssumption == MaxPhyQubits \in 1 .. None

ASSUME ValuesAssumption == Qubits \cap Params = {} /\ "bit" \notin Qubits

VARIABLES
  qubits,    \* context: which physical qubits are allocated
  held,      \* frame of main: the physical qubit of each value
  freed,     \* frame of main: the values whose qubit was released
  kind,      \* the routine that is translated: none, local or request
  args,      \* the operands of its call
  code,      \* the instructions of its call convention
  regs,      \* for each operand, the instruction whose register it is mapped to
  ids,       \* routine: qubitMap, the physical qubit of each value
  uses,      \* routine: usesQubits
  keeps,     \* routine: keepsQubits
  consumed,  \* routine: consumedQubits
  made,      \* the qubits and bits the body defined, in order
  virtual,   \* request: virtual ids
  pairs,     \* request: the qubits that are entangled
  call,      \* the call instruction emitted for the call that has ended, with its routine
  arm,       \* where in the main function the calls stand
  born,      \* program: where each qubit is defined
  dead,      \* program: where each qubit is measured or freed
  outcome

main == <<held, freed>>
routine == <<args, code, regs, uses, keeps, consumed, made, virtual, pairs>>
program == <<arm, born, dead>>
vars == <<qubits, main, kind, routine, ids, call, program, outcome>>

Ids == 0 .. MaxPhyQubits - 1

Arms == {"before", "then", "else", "after"}

NextArm == [before |-> "then", then |-> "else", else |-> "after", after |-> "after"]

\* A run through the first place may come to the second.
Reaches(a, b) == a = b \/ a = "before" \/ b = "after"

\* A value of the first place is visible in the second.
Dominates(a, b) == a = b \/ a = "before"

\* The results of calls in front of this one.
Visible == {q \in Qubits : (held[q] # None \/ q \in freed) /\ \A a \in born[q] : Dominates(a, arm)}

\* A qubit that is measured on the way here, on some path.
Dead(q) == \E a \in dead[q] : Reaches(a, arm)

Idle == outcome = "translating" /\ kind = "none"
In(k) == outcome = "translating" /\ kind = k

NoCall == [operands |-> <<>>, code |-> <<>>, virtual |-> <<>>]

Init ==
  /\ qubits = [i \in Ids |-> FALSE]
  /\ held = [q \in Qubits |-> None]
  /\ freed = {}
  /\ kind = "none"
  /\ args = <<>>
  /\ code = <<>>
  /\ regs = <<>>
  /\ ids = [q \in Qubits |-> None]
  /\ uses = {}
  /\ keeps = {}
  /\ consumed = {}
  /\ made = <<>>
  /\ virtual = <<>>
  /\ pairs = {}
  /\ call = NoCall
  /\ arm = "before"
  /\ born = [q \in Qubits |-> {}]
  /\ dead = [q \in Qubits |-> {}]
  /\ outcome = "translating"

-----------------------------------------------------------------------------
(***************************************************************************)
(* A call begins: none of its operands may be released.  The signature of  *)
(* the routine was converted before: a placeholder SET for an operand that *)
(* the routine uses as a qubit, a LOAD with a dense index for the others.  *)
(* Now the placeholders get the ids of the caller, and the operands are    *)
(* mapped to the registers of these instructions, which are looked up by   *)
(* the number they load.                                                   *)
(***************************************************************************)
Passed == ToSet(args) \cap Qubits

\* Fault: the index of the inputs is not incremented.
SameInput(vs, k) == 0

InputOf(vs, k) == Cardinality({j \in 1 .. k - 1 : vs[j] \notin Qubits})

Convention(vs) ==
  [k \in DOMAIN vs |->
     IF vs[k] \in Qubits THEN [op |-> "set", arg |-> vs[k], val |-> held[vs[k]]]
     ELSE [op |-> "load", arg |-> vs[k], val |-> InputOf(vs, k)]]

LoadedBy(vs, k) == Cardinality({j \in 1 .. k - 1 : vs[j] \notin Qubits \/ held[vs[j]] = None})

\* The first instruction that loads the operand, 0 if there is none.
Lookup(vs, k) ==
  LET op == IF vs[k] \in Qubits /\ held[vs[k]] # None THEN "set" ELSE "load"
      val == IF op = "set" THEN held[vs[k]] ELSE LoadedBy(vs, k)
      found == {i \in DOMAIN vs : Convention(vs)[i].op = op /\ Convention(vs)[i].val = val}
  IN  IF found = {} THEN 0 ELSE CHOOSE i \in found : \A j \in found : i <= j

\* Fault: a released operand is not noticed.
AcceptsAll(vs) == TRUE

Accepts(vs) == \A k \in DOMAIN vs : vs[k] \notin freed

BeginCall(k, vs) ==
  /\ Idle
  /\ IF Accepts(vs)
     THEN LET passed == ToSet(vs) \cap Qubits
              taken == {held[q] : q \in passed}
          IN  /\ kind' = k
              /\ args' = vs
              /\ code' = Convention(vs)
              /\ regs' = [i \in DOMAIN vs |-> Lookup(vs, i)]
              /\ ids' = [q \in Qubits |-> IF q \in passed THEN held[q] ELSE None]
              /\ uses' = taken
              /\ keeps' = taken
              /\ consumed' = {}
              /\ made' = <<>>
              /\ virtual' = <<>>
              /\ pairs' = {}
              /\ UNCHANGED outcome
     ELSE /\ outcome' = "refused"
          /\ args' = vs
          /\ UNCHANGED <<kind, code, regs, ids, uses, keeps, consumed, made, virtual, pairs>>
  /\ call' = NoCall
  /\ UNCHANGED <<qubits, main, program>>

\* The operands of a call are different values, all visible where it stands.
Operands == {vs \in UNION {[1 .. n -> Visible \cup Params] : n \in 0 .. MaxArgs} : IsInjective(vs)}

BeginLocal == \E vs \in Operands : BeginCall("local", vs)

\* The arguments of a request routine, if there are any, are not used.
BeginRequest == BeginCall("request", <<>>)

-----------------------------------------------------------------------------
(***************************************************************************)
(* The body of a routine.                                                  *)
(***************************************************************************)
FreeIds == {i \in Ids : ~qubits[i]}

\* allocateQubit: the lowest free one; with none left the answer is 0xFF.
Lowest == {i \in FreeIds : \A j \in FreeIds : i <= j}

Marked(i) == [qubits EXCEPT ![i] = TRUE]

(***************************************************************************)
(* QAllocOp.  With no physical qubit left, 0xFF is emitted as an id; what  *)
(* follows depends on a table that reserves this very number for its own   *)
(* use, and is not defined.                                                *)
(***************************************************************************)
Alloc(q) ==
  /\ kind # "none"
  /\ outcome = "translating"
  /\ born[q] = {}
  /\ born' = [born EXCEPT ![q] = {arm}]
  /\ \/ /\ Lowest = {}
        /\ outcome' = "exhausted"
        /\ UNCHANGED <<qubits, ids, uses, keeps, made, virtual>>
     \/ \E i \in Lowest :
          /\ qubits' = Marked(i)
          /\ ids' = [ids EXCEPT ![q] = i]
          /\ made' = Append(made, q)
          /\ uses' = IF kind = "local" THEN uses \cup {i} ELSE uses
          /\ keeps' = IF kind = "local" THEN keeps \cup {i} ELSE keeps
          /\ virtual' = IF kind = "request" THEN Append(virtual, i) ELSE virtual
          /\ UNCHANGED outcome
  /\ UNCHANGED <<main, kind, args, code, regs, consumed, pairs, call, arm, dead>>

\* Fault: the caller is not told.
ForgetConsumed(q) == consumed

Consumed(q) == consumed \cup {ids[q]}

KeptWithout(q) == keeps \ {ids[q]}

\* releaseQubit of the routine and of the context, addConsumedQubitID
Release(q) ==
  /\ In("local")
  /\ ids[q] # None
  /\ qubits' = [qubits EXCEPT ![ids[q]] = FALSE]
  /\ ids' = [ids EXCEPT ![q] = None]
  /\ keeps' = KeptWithout(q)
  /\ consumed' = Consumed(q)
  /\ dead' = [dead EXCEPT ![q] = @ \cup {arm}]
  /\ UNCHANGED <<main, kind, args, code, regs, uses, virtual, pairs, call, arm, born, outcome>>

Free(q) == Release(q) /\ UNCHANGED made

Bits == Len(SelectSeq(made, LAMBDA v : v = "bit"))

Measure(q) == Bits < MaxBits /\ Release(q) /\ made' = Append(made, "bit")

\* The qubit of a request that was not entangled yet.  All pairs of a request are of one kind.
Waiting(q) == In("request") /\ ids[q] # None /\ q \notin pairs /\ dead[q] = {}

Eprs(q) ==
  /\ Waiting(q)
  /\ Bits = 0
  /\ pairs' = pairs \cup {q}
  /\ UNCHANGED <<qubits, main, kind, args, code, regs, ids, uses, keeps, consumed, made, virtual, call, program, outcome>>

\* EprsMeasureOp translates to nothing: the qubit is measured, its id stays taken.
EprsMeasure(q) ==
  /\ Waiting(q)
  /\ pairs = {}
  /\ Bits < MaxBits
  /\ made' = Append(made, "bit")
  /\ dead' = [dead EXCEPT ![q] = @ \cup {arm}]
  /\ UNCHANGED <<qubits, main, kind, args, code, regs, ids, uses, keeps, consumed, virtual, pairs, call, arm, born, outcome>>

-----------------------------------------------------------------------------
(***************************************************************************)
(* The return of the routine and the rest of the call: the returned qubits *)
(* are mapped in the frame of main, the call instruction is emitted, and   *)
(* the ids that the routine consumed are unmapped.                         *)
(***************************************************************************)
Returned == {q \in ToSet(made) \cap Qubits : ids[q] # None /\ dead[q] = {}}

\* "local routines return either qubit references OR measurement values, but NOT both"
Results ==
  IF Returned = {} THEN SelectSeq(made, LAMBDA v : v = "bit") ELSE SelectSeq(made, LAMBDA v : v \in Returned)

HeldWithResults == [q \in Qubits |-> IF q \in Returned /\ held[q] = None THEN ids[q] ELSE held[q]]

\* Fault: the operands are computed when the consumed qubits are unmapped.
LateClassicalArgs ==
  AtPlaces(args, {k \in DOMAIN args : args[k] \in Params \/ HeldWithResults[args[k]] \in consumed \cup {None}})

ClassicalArgs == AtPlaces(args, {k \in DOMAIN args : args[k] \in Params \/ HeldWithResults[args[k]] = None})

\* unmapQubitID for every consumed id
Unmapped == {q \in Qubits : HeldWithResults[q] \in consumed}

EndCall ==
  /\ kind # "none"
  /\ outcome = "translating"
  /\ kind = "request" => Results # <<>> /\ \A q \in Qubits : ~Waiting(q)
  /\ held' = [q \in Qubits |-> IF q \in Unmapped THEN None ELSE HeldWithResults[q]]
  /\ freed' = freed \cup Unmapped
  /\ call' = [operands |-> ClassicalArgs, code |-> code, virtual |-> virtual]
  /\ kind' = "none"
  /\ ids' = [q \in Qubits |-> None]
  /\ args' = <<>>
  /\ code' = <<>>
  /\ regs' = <<>>
  /\ uses' = {}
  /\ keeps' = {}
  /\ consumed' = {}
  /\ made' = <<>>
  /\ virtual' = <<>>
  /\ pairs' = {}
  /\ UNCHANGED <<qubits, program, outcome>>

\* The next block of the main function, in list order.
NextBlock ==
  /\ Idle
  /\ arm # "after"
  /\ arm' = NextArm[arm]
  /\ UNCHANGED <<qubits, main, kind, routine, ids, call, born, dead, outcome>>

Body(q) == Alloc(q) \/ Free(q) \/ Measure(q) \/ Eprs(q) \/ EprsMeasure(q)

Next ==
  \/ BeginLocal
  \/ BeginRequest
  \/ \E q \in Qubits : Body(q)
  \/ EndCall
  \/ NextBlock

Spec == Init /\ [][Next]_vars

-----------------------------------------------------------------------------
(***************************************************************************)
(* Types of the tables; the instructions are what InstructionsOK says.     *)
(***************************************************************************)
IdsOrNone == Ids \cup {None}

RoutineTypeOK ==
  /\ qubits \in [Ids -> BOOLEAN]
  /\ held \in [Qubits -> IdsOrNone]
  /\ ids \in [Qubits -> IdsOrNone]
  /\ freed \subseteq Qubits
  /\ kind \in {"none", "local", "request"}
  /\ uses \subseteq Ids /\ keeps \subseteq Ids /\ consumed \subseteq Ids
  /\ pairs \subseteq Qubits
  /\ arm \in Arms
  /\ born \in [Qubits -> SUBSET Arms]
  /\ dead \in [Qubits -> SUBSET Arms]
  /\ outcome \in {"translating", "refused", "exhausted"}

\* The physical qubit of a value: the routine's table goes before the caller's.
Given == [q \in Qubits |->
  IF ids[q] # None THEN ids[q]
  ELSE IF kind # "none" /\ q \in Passed THEN None
  ELSE held[q]]

(***************************************************************************)
(* The context and the two tables agree: the physical qubit of a value is  *)
(* not free, and it is that of no other value.  Nothing in the code checks *)
(* it; allocateQubit looks at the context only, and everything that is     *)
(* looked up by id (placeholders, uses, keeps, the ids to unmap) relies on *)
(* it.                                                                     *)
(***************************************************************************)
IdsReserved == \A q \in Qubits : Given[q] # None => qubits[Given[q]]

IdsDistinct == \A q, r \in Qubits : Given[q] # None /\ Given[q] = Given[r] => q = r

(***************************************************************************)
(* What the context promises, whatever the program does: ids are taken one *)
(* at a time, by a qubit that has none, among those nobody has.            *)
(***************************************************************************)
Pool == INSTANCE QubitPool WITH given <- Given

PoolSpec == Pool!Spec

(***************************************************************************)
(* The two sides of the call convention are computed apart: "Dense index   *)
(* among *classical* operands only. Must match convertLocalRoutines()      *)
(* convention".  Every operand is mapped to the register of the            *)
(* instruction that was emitted for it, and the n-th value the host passes *)
(* is the one the routine loads from input n.                              *)
(***************************************************************************)
InputsMatch ==
  LET loads == AtPlaces(call.code, {k \in DOMAIN call.code : call.code[k].op = "load"}) IN
  /\ \A k \in DOMAIN regs : regs[k] \in DOMAIN code /\ code[regs[k]].arg = args[k]
  /\ Len(call.operands) = Len(loads)
  /\ \A k \in DOMAIN loads : loads[k].val = k - 1 /\ loads[k].arg = call.operands[k]

(***************************************************************************)
(* The header of a local routine: keeps lists the physical qubits of the   *)
(* values the routine has not measured or freed, and no others ("only if   *)
(* we qfree or measure it we delete it from the keeps").                   *)
(***************************************************************************)
KeepsAreLive ==
  kind = "local" => keeps = {ids[q] : q \in {r \in Qubits : ids[r] # None}} /\ keeps \subseteq uses

(***************************************************************************)
(* A call that is accepted uses no qubit that an earlier call measured or  *)
(* freed on a way to it.                                                   *)
(***************************************************************************)
NoUseAfterRelease ==
  [][\A q \in Qubits : kind = "none" /\ q \in Passed' /\ kind' # "none" => ~Dead(q)]_vars

(***************************************************************************)
(* "makes use of an already freed or measured qubit": a call is refused    *)
(* only for such a qubit.                                                  *)
(***************************************************************************)
RefusedOnlyIfReleased ==
  outcome = "refused" => \E q \in Passed : Dead(q)

(***************************************************************************)
(* "In these two cases, the lifetime of a qubit is "local" to the routine  *)
(* (either local or request)" (iQoala-call-routines-use-qubit-scope.mlir): *)
(* between calls, as many physical qubits are taken as qubits are alive.   *)
(***************************************************************************)
Alive == {q \in Qubits : born[q] # {} /\ dead[q] = {}}

IdsFollowLifetimes == Idle => Cardinality({i \in Ids : qubits[i]}) = Cardinality(Alive)

(***************************************************************************)
(* "We resolve the virtual IDs method depending on how thw qubit IDs were  *)
(* assigned": the ids that the header of a request stands for are those of *)
(* its qubits.  The type CUSTOM, set when they are not consecutive, is     *)
(* always overwritten with INCREMENT.                                      *)
(***************************************************************************)
Smallest(S) == CHOOSE i \in S : \A j \in S : i <= j

VirtualIDs(vs) ==
  [k \in DOMAIN vs |-> IF Len(vs) = 1 THEN vs[1] ELSE Smallest(ToSet(vs)) + k - 1]

VirtualIDsMatch == VirtualIDs(call.virtual) = call.virtual
=============================================================================
