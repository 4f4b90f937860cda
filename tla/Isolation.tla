----------------------------- MODULE Isolation -----------------------------
(***************************************************************************)
(* LowerQMemToLowerDialects up to addPrecedences.  FuncOpLowering cuts the *)
(* blocks of the functionized main function so that every receive, then    *)
(* every call of a routine, stands alone in its block, and adds the first  *)
(* block for the remote ids; this block goes if it stays empty; grouped    *)
(* requests move to the front.  What is left is the list of blocks that    *)
(* addPrecedences starts from.                                             *)
(***************************************************************************)
EXTENDS Functionize

VARIABLES
  step,       \* the step of the lowering
  list,       \* the blocks, see BodyBlocks
  marked      \* opsToIsolate, in order

vars == <<source, option, stage, declared, pending, cursor, current, grouper, calls, step, list, marked>>

LoweringInit ==
  /\ Init
  /\ step = "wait"
  /\ list = <<>>
  /\ marked = <<>>

InOrder(S) == SelectSeq([i \in Ops |-> i], LAMBDA i : i \in S)

\* What is left in the body; a call is named by its place.
Body == {i \in Ops : Place(i) = i}

IsCall(i) == CallsWith(i) # {}

Receives == {i \in Body : Kind(i) = "recv"}

(***************************************************************************)
(* A block: the source block it was cut from, whether jumps to this block  *)
(* lead to it, its operations, and whether it ends with the terminator of  *)
(* this block or with a nop_term.                                          *)
(***************************************************************************)
BodyBlocks ==
  [k \in 1 .. LastBlock(source) + 1 |->
     [from |-> k - 1, head |-> TRUE, items |-> InOrder({i \in Body : BlockOf(i) = k - 1}), end |-> "exit"]]

BeginIsolation ==
  /\ stage = "done"
  /\ step = "wait"
  /\ list' = BodyBlocks
  /\ marked' = InOrder(Receives)
  /\ step' = "receives"
  /\ UNCHANGED fvars

Cut(block, head, items, end) == [from |-> block.from, head |-> head, items |-> items, end |-> end]

\* What stands in front of the k-th operation stays in the old block; if nothing does, nothing is cut off.
Above(block, k) ==
  IF k = 1 THEN <<>> ELSE <<Cut(block, block.head, SubSeq(block.items, 1, k - 1), "nop")>>

\* Fault: the terminator stays with the isolated operation.
CutOff(block, k) ==
  Above(block, k)
  \o <<Cut(block, k = 1 /\ block.head, <<block.items[k]>>, block.end),
       Cut(block, FALSE, SubSeq(block.items, k + 1, Len(block.items)), "nop")>>

\* The k-th operation of the block is to be alone.
CutAround(block, k) ==
  Above(block, k)
  \o <<Cut(block, k = 1 /\ block.head, <<block.items[k]>>, "nop"),
       Cut(block, FALSE, SubSeq(block.items, k + 1, Len(block.items)), block.end)>>

IsolateOp ==
  /\ marked # <<>>
  /\ \E n \in DOMAIN list : \E k \in DOMAIN list[n].items :
       /\ list[n].items[k] = Head(marked)
       /\ list' = SubSeq(list, 1, n - 1) \o CutAround(list[n], k) \o SubSeq(list, n + 1, Len(list))
  /\ marked' = Tail(marked)
  /\ UNCHANGED <<fvars, step>>

MarkCalls ==
  /\ step = "receives"
  /\ marked = <<>>
  /\ marked' = InOrder({i \in Body : IsCall(i)})
  /\ step' = "calls"
  /\ UNCHANGED <<fvars, list>>

RemoteUsed == \E i \in Ops : Kind(i) \in {"recv", "send"} \cup Requests

EmptyBlock == [from |-> NoBlock, head |-> FALSE, items |-> <<>>, end |-> "nop"]

CreateNewEmptyFirstBlock ==
  /\ step = "calls"
  /\ marked = <<>>
  /\ list' = (IF RemoteUsed THEN <<EmptyBlock>> ELSE <<>>) \o list
  /\ step' = "ids"
  /\ UNCHANGED <<fvars, marked>>

\* Remotes only asked for entanglement get no id.
IdsNeeded == \E i \in Ops : Kind(i) \in {"recv", "send"}

AddRemoteIDs ==
  /\ step = "ids"
  /\ list' = IF Head(list).items = <<>> /\ Head(list).end = "nop" /\ ~IdsNeeded THEN Tail(list) ELSE list
  /\ step' = "entanglement"
  /\ UNCHANGED <<fvars, marked>>

\* A block that calls a request routine; a call is alone in its block.
Entangles(block) == \E i \in ToSet(block.items) : \E c \in CallsWith(i) : calls[c].entangle

GroupEntanglementBlocksFirst ==
  /\ step = "entanglement"
  /\ list' = IF option.groupReqs
             THEN SelectSeq(list, Entangles) \o SelectSeq(list, LAMBDA block : ~Entangles(block))
             ELSE list
  /\ step' = "ready"
  /\ UNCHANGED <<fvars, marked>>

LoweringNext ==
  \/ Next /\ UNCHANGED <<step, list, marked>>
  \/ BeginIsolation \/ IsolateOp \/ MarkCalls \/ CreateNewEmptyFirstBlock
  \/ AddRemoteIDs \/ GroupEntanglementBlocksFirst

LoweringSpec == LoweringInit /\ [][LoweringNext]_vars /\ WF_vars(LoweringNext)

-----------------------------------------------------------------------------
(***************************************************************************)
(* The lowered main function, as the ordering passes see it.               *)
(***************************************************************************)
Segment(b) == list[b + 1]

Places == 0 .. Len(list) - 1

Holding(v) == {b \in Places : Place(v) \in ToSet(Segment(b).items)}

CallAt(i) == CHOOSE c \in CallsWith(i) : TRUE

ReadBy(b) ==
  (UNION {IF IsCall(i) THEN calls[CallAt(i)].args ELSE Operands(source, i) : i \in ToSet(Segment(b).items)})
  \cup (IF Segment(b).end = "exit" THEN Exit(source, Segment(b).from).reads ELSE {})

CalleeOf(b) == UNION {CallsWith(i) : i \in ToSet(Segment(b).items)}

TypeOf(b) ==
  IF Segment(b).items = <<>> THEN "CL"
  ELSE LET first == Head(Segment(b).items) IN
       IF IsCall(first) THEN IF calls[CallAt(first)].entangle THEN "QC" ELSE "QL"
       ELSE IF Kind(first) \in {"recv", "send"} THEN "CC" ELSE "CL"

TerminatorOf(b) == IF Segment(b).end = "nop" THEN "nop" ELSE Exit(source, Segment(b).from).term

TargetsOf(b) ==
  IF Segment(b).end = "nop" THEN {}
  ELSE {a \in Places : Segment(a).head /\ Segment(a).from \in Exit(source, Segment(b).from).to}

Lowered ==
  [last   |-> Len(list) - 1,
   type   |-> [b \in Places |-> TypeOf(b)],
   term   |-> [b \in Places |-> TerminatorOf(b)],
   succ   |-> [b \in Places |-> TargetsOf(b)],
   uses   |-> [b \in Places |-> (UNION {Holding(v) : v \in ReadBy(b)}) \ {b}],
   comm   |-> {b \in Places : \E i \in ToSet(Segment(b).items) : Kind(i) \in {"recv", "send"}},
   glue   |-> {b \in Places : Segment(b).items = <<>> /\ TerminatorOf(b) \in {"br", "cond"}},
   callee |-> [b \in Places |-> IF CalleeOf(b) = {} THEN 0 ELSE Smallest(CalleeOf(b))],
   writes |-> [b \in Places |-> UNION {Holding(v) : v \in ReadBy(b) \cap Allocations}]]

-----------------------------------------------------------------------------
(***************************************************************************)
(* Properties.                                                             *)
(***************************************************************************)
(***************************************************************************)
(* No cut loses, repeats or reorders an operation or a terminator, and     *)
(* what a jump reaches is still the head of the block it was written for:  *)
(* the pieces of a block stand together, the first is its head and only    *)
(* the last has its exit.  Requests moved to the front keep their order    *)
(* and leave that of the others alone.                                     *)
(***************************************************************************)
NothingLost ==
  step # "wait" =>
    LET moved == IF step = "ready" /\ option.groupReqs THEN {n \in DOMAIN list : Entangles(list[n])} ELSE {}
        first == UNION {ToSet(list[n].items) : n \in moved}
    IN
    /\ FlattenSeq([n \in DOMAIN list |-> list[n].items])
         = InOrder(Body \cap first) \o InOrder(Body \ first)
    /\ \A b \in 0 .. LastBlock(source) :
         LET pieces == {n \in DOMAIN list \ moved : list[n].from = b} IN
         /\ pieces = Smallest(pieces) .. Smallest(pieces) + Cardinality(pieces) - 1
         /\ \A n \in pieces : list[n].end = "exit" <=> n + 1 \notin pieces
         /\ Cardinality({n \in DOMAIN list : list[n].from = b /\ list[n].head}) = 1
         /\ \A n \in pieces : list[n].head => n = Smallest(pieces)

(***************************************************************************)
(* computeDataAndMemoryDeps takes the front block for the one with the     *)
(* remote ids as soon as a message is handled anywhere:                    *)
(* "assert(!producerBlock->getOps<RemoteIDRefOp>().empty())"               *)
(* (Precedences.cpp:320).                                                  *)
(***************************************************************************)
RemoteIDsInFront ==
  step = "ready" /\ IdsNeeded => Head(list) = EmptyBlock

(***************************************************************************)
(* What addPrecedences relies on, and Precedences assumes of its programs: *)
(* operands come from earlier blocks, jumps lead forward, the remote ids   *)
(* are in front, no message is handled there, and the routines of          *)
(* conflicting calls stand in the module in the order of these calls.      *)
(* Requests moved to the front can break two of these: jumps if they come  *)
(* from another block, the place of the ids if messages are exchanged too. *)
(* Every receive and every call is alone in its block, also if it was      *)
(* isolated in a block already cut: the type read off the first operation  *)
(* is that of the whole block.                                             *)
(***************************************************************************)
Isolated ==
  \A n \in DOMAIN list : \A i \in ToSet(list[n].items) :
    IsCall(i) \/ Kind(i) = "recv" => list[n].items = <<i>> /\ list[n].end = "nop"

HandsOverWellFormed ==
  step = "ready" /\ Placeable /\ (option.groupReqs => \A i \in RequestOps(source) : BlockOf(i) = 0) =>
    /\ WellFormed(Lowered)
    /\ CalleesInCallOrder(Lowered)
    /\ ~option.groupReqs => RemoteIDsInFront

HandsOver == HandsOverWellFormed /\ (step = "ready" => Isolated)

\* Every main function is outlined and cut to the end; the pass waits for nothing.
LoweringEnds == <>(step = "ready")
=============================================================================
