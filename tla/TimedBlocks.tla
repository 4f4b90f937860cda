---------------------------- MODULE TimedBlocks ------------------------------
(***************************************************************************)
(* The blocks of a main function with the time their operations take, and  *)
(* the two integer programs qoalahost-reorder-blocks gives to its solver.  *)
(*                                                                         *)
(* Inside a block every operation starts when the one before it ends: the  *)
(* solver's equations within tasks and between the tasks of a block leave  *)
(* one unknown per block, its start.                                       *)
(*                                                                         *)
(* A program has                                                           *)
(*   routines  the operations of each routine: what they do (alloc, meas   *)
(*             or other), how long they take, and to which qubit: 0 for    *)
(*             the one the routine allocates, k for its k-th argument      *)
(*   blocks    in list order.  type is CL, CC, QL, QC, or end for a block  *)
(*             that returns; size counts the operations of a CL block;     *)
(*             callee is the routine that a QL or QC block calls, and args *)
(*             the blocks whose calls returned the qubits it passes; after *)
(*             holds the blocks its blk_meta refers to                     *)
(*   options   group, unoptimize, deadlines; lifetime, the longest that a  *)
(*             qubit may live; horizon, or 0                               *)
(*                                                                         *)
(* A definition marked Fault is the one below it as a plausible mistake    *)
(* would have it; it is not part of the specification.                     *)
(***************************************************************************)
EXTENDS Integers, Sequences, FiniteSets, SequencesExt

CONSTANTS
  HostTime,  \* of an operation of the host, a call included
  PeerTime,  \* of receiving a message
  HalfWord   \* the solver's bounds are computed in words of 2 * HalfWord values

ASSUME TimesAssumption == {HostTime, PeerTime, HalfWord} \subseteq Nat \ {0}

Unsigned(x) == x % (2 * HalfWord)
Signed(x) == Unsigned(x + HalfWord) - HalfWord

Total(s) == FoldLeft(LAMBDA x, y : x + y, 0, s)

Blocks(p) == DOMAIN p.blocks
Quantum(p, b) == p.blocks[b].type \in {"QL", "QC"}
Routine(p, b) == p.routines[p.blocks[b].callee]

\* How long the operations of b take: of a call, the routine's follow, then the synthetic nop.
Times(p, b) ==
  CASE Quantum(p, b) ->
         <<HostTime>> \o [i \in DOMAIN Routine(p, b) |-> Routine(p, b)[i].time] \o <<HostTime>>
    [] p.blocks[b].type = "CC" -> <<PeerTime>>
    [] OTHER -> [i \in 1 .. p.blocks[b].size |-> HostTime]

Length(p, b) == Total(Times(p, b))

\* When operation i of b starts, counted from the start of b.
Offset(p, b, i) == Total(SubSeq(Times(p, b), 1, i - 1))

LastOffset(p, b) == Offset(p, b, Len(Times(p, b)))

(***************************************************************************)
(* createTasksForBlock.  A task is [at, time]; the first task of a block   *)
(* is always one of the classical processor.                               *)
(***************************************************************************)
Tasks(p, b) ==
  CASE Quantum(p, b) ->
         << [at |-> 0, time |-> HostTime],
            [at |-> HostTime, time |-> Length(p, b) - 2 * HostTime],
            [at |-> Length(p, b) - HostTime, time |-> HostTime] >>
    [] p.blocks[b].type = "CC" -> <<>>
    [] OTHER -> <<[at |-> 0, time |-> Length(p, b)]>>

(***************************************************************************)
(* The tasks of two blocks that come first by first: all three of two      *)
(* quantum blocks, else the first of each.                                 *)
(***************************************************************************)
Slots(p, a, b) ==
  IF Quantum(p, a) /\ Quantum(p, b) THEN 1 .. 3
  ELSE {1} \cap DOMAIN Tasks(p, a) \cap DOMAIN Tasks(p, b)

-----------------------------------------------------------------------------
(***************************************************************************)
(* Qubits, as collectQubitUsage tells them apart: by the operation that    *)
(* allocates them, so one for each routine that allocates.  An operation   *)
(* is <<block, index>>.  The table from operations to those of the model   *)
(* has one entry for the body of a routine: the last call that was inlined *)
(* overwrites the others.                                                  *)
(***************************************************************************)
NoOp == <<0, 0>>

Qubits(p) == {r \in DOMAIN p.routines : \E i \in DOMAIN p.routines[r] : p.routines[r][i].qubit = 0
                                                            /\ p.routines[r][i].does = "alloc"}

\* The block whose call made the qubit that operation i of the routine b calls works on.
Origin(p, b, i) ==
  LET q == Routine(p, b)[i].qubit IN IF q = 0 THEN b ELSE p.blocks[b].args[q]

Touches(p, q, what) ==
  {u \in {b \in Blocks(p) : Quantum(p, b)} \X (1 .. 4) :
     /\ u[2] \in DOMAIN Routine(p, u[1])
     /\ Routine(p, u[1])[u[2]].does = what
     /\ p.blocks[Origin(p, u[1], u[2])].callee = q}

LaterOf(u, v) == v[1] < u[1] \/ (v[1] = u[1] /\ v[2] <= u[2])

\* opToMilpOp, with the given blocks inlined
ModelOp(p, given, u) ==
  LET same == {b \in given : Quantum(p, b) /\ p.blocks[b].callee = p.blocks[u[1]].callee} IN
  IF same = {} THEN NoOp ELSE <<Max(same), u[2] + 1>>

\* buildMilpQubits: of the operations met on the way, the last one counts.
LastTouch(p, given, q, what) ==
  LET met == Touches(p, q, what) IN
  IF met = {} THEN NoOp ELSE ModelOp(p, given, CHOOSE u \in met : \A v \in met : LaterOf(u, v))

Alloc(p, given, q) == LastTouch(p, given, q, "alloc")
Meas(p, given, q) == LastTouch(p, given, q, "meas")

\* The qubits with a life that can be measured.
Timed(p, given) == {q \in Qubits(p) : NoOp \notin {Alloc(p, given, q), Meas(p, given, q)}}

TimeOf(p, u) == Times(p, u[1])[u[2]]
StartOf(p, s, u) == s[u[1]] + Offset(p, u[1], u[2])

-----------------------------------------------------------------------------
(***************************************************************************)
(* The first integer program, MILPBlockOrderModel.  given: the blocks it   *)
(* knows; edges: the pairs of them with a precedence; s: their starts.     *)
(***************************************************************************)
SumOver(S, f(_)) == MapThenSumSet(f, S)

AllTime(p, given) == SumOver(given, LAMBDA b : Length(p, b))

BigM(p, given) == Unsigned(2 * AllTime(p, given))

\* Every operation starts within 0 .. M.
Starts(p, given, M) ==
  LET latest == {<<b, M - LastOffset(p, b)>> : b \in given} IN
  {s \in [given -> 0 .. M] : \A l \in latest : s[l[1]] <= l[2]}

\* The pairs connected by edges.
Ordered(given, edges) ==
  LET upTo[n \in Nat] ==
        IF n = 0 THEN edges
        ELSE upTo[n - 1] \cup {<<x[1][1], x[2][2]>> : x \in {y \in upTo[n - 1] \X edges : y[1][2] = y[2][1]}}
  IN upTo[Cardinality(given)]

Unordered(p, given, edges) ==
  LET known == Ordered(given, edges) IN
  {x \in given \X given : x[1] < x[2] /\ {x, <<x[2], x[1]>>} \cap known = {}}

(***************************************************************************)
(* Of two tasks that share a slot: how much later the second starts in its *)
(* block than the first does, and how long each takes.                     *)
(***************************************************************************)
SharedSlots(p, a, b) ==
  {LET t == Tasks(p, a)[k]  u == Tasks(p, b)[k]
   IN [shift |-> u.at - t.at, first |-> t.time, second |-> u.time] : k \in Slots(p, a, b)}

(***************************************************************************)
(* addFCFSTaskConstraints: the two inequalities with the selector z, for   *)
(* tasks whose starts are d apart.                                         *)
(***************************************************************************)
Epsilon == 1

\* Fault: the bound stays unsigned
ApartUnsigned(c, d, z, M) ==
  /\ d - M * z >= Unsigned(c.first + Epsilon - M)
  /\ M * z - d >= c.second + Epsilon

Apart(c, d, z, M) ==
  /\ d - M * z >= Signed(c.first + Epsilon - M)
  /\ M * z - d >= c.second + Epsilon

\* Fault: the one listed first is served first
FirstListedServed(slots, d, M) == \A c \in slots : Apart(c, d + c.shift, 1, M)

\* d: how much later the second block starts
FirstComeFirstServed(slots, d, M) == \E z \in {0, 1} : \A c \in slots : Apart(c, d + c.shift, z, M)

OrderSolutions(p, given, edges) ==
  LET M == BigM(p, given)
      follow == {<<e[1], e[2], Length(p, e[1])>> : e \in edges}
      served == {<<x[1], x[2], SharedSlots(p, x[1], x[2])>> : x \in Unordered(p, given, edges)}
  IN {s \in Starts(p, given, M) :
        /\ \A e \in follow : s[e[2]] - s[e[1]] >= e[3]
        /\ \A x \in served : FirstComeFirstServed(x[3], s[x[2]] - s[x[1]], M)}

(***************************************************************************)
(* An objective gives blocks a weight: it is a set of terms <<block,       *)
(* weight>>.  The operations of a block start at fixed times after it.     *)
(***************************************************************************)
Objective(given, weight(_)) == {t \in {<<b, weight(b)>> : b \in given} : t[2] # 0}

Cost(terms, s) == SumOver(terms, LAMBDA t : t[2] * s[t[1]])

Best(S, terms) == LET least == Min({Cost(terms, s) : s \in S}) IN {s \in S : Cost(terms, s) = least}

\* The sum of the lifetimes, but for a constant.
LifetimeWeight(p, given) ==
  LET count(f(_, _, _), b) == Cardinality({q \in Timed(p, given) : f(p, given, q)[1] = b})
  IN Objective(given, LAMBDA b : count(Meas, b) - count(Alloc, b))

\* setPrimaryObjective sets a coefficient, however many qubits an operation measures.
PrimaryWeight(p, given) ==
  LET count(f(_, _, _), b) == Cardinality({u \in {f(p, given, q) : q \in Timed(p, given)} : u[1] = b})
      sign == IF p.unoptimize THEN -1 ELSE 1
  IN Objective(given, LAMBDA b : sign * (count(Meas, b) - count(Alloc, b)))

PrimaryOptima(p, given, edges) == Best(OrderSolutions(p, given, edges), PrimaryWeight(p, given))

(***************************************************************************)
(* computeAllocationOrderFromSolution: by start, then as listed.  The rank *)
(* of a qubit is the number of those allocated before it.                  *)
(***************************************************************************)
Ranks(p, given, s) ==
  LET allocated == {q \in Qubits(p) : Alloc(p, given, q) # NoOp}
      sooner(q, r) ==
        LET u == Alloc(p, given, q)  v == Alloc(p, given, r) IN
        \/ StartOf(p, s, u) < StartOf(p, s, v)
        \/ StartOf(p, s, u) = StartOf(p, s, v) /\ u # v /\ LaterOf(v, u)
  IN [q \in allocated |-> Cardinality({r \in allocated : sooner(r, q)})]

\* setSecondaryObjectiveDeterministic: the sooner allocated, the more weight for an early measurement.
SecondaryWeight(p, given, rank) ==
  LET timed == Timed(p, given)
      weight(q) == Cardinality({r \in timed : rank[r] >= rank[q]})
  IN Objective(given, LAMBDA b : SumOver({q \in timed : Meas(p, given, q)[1] = b}, weight))

SecondaryOptima(p, given, edges, total, rank) ==
  LET lifetime == LifetimeWeight(p, given) IN
  Best({s \in OrderSolutions(p, given, edges) : Cost(lifetime, s) = total}, SecondaryWeight(p, given, rank))

-----------------------------------------------------------------------------
(***************************************************************************)
(* The second integer program, MILPBlockDeadlineModel.  chain: the blocks  *)
(* in the order they were given; every one starts after the one before it. *)
(***************************************************************************)
Given(chain) == {chain[i] : i \in DOMAIN chain}
Links(chain) == {<<chain[i], chain[i + 1]>> : i \in 1 .. Len(chain) - 1}

Horizon(p, chain) ==
  LET least == AllTime(p, Given(chain)) IN
  IF p.horizon = 0 \/ p.horizon < least THEN 2 * least ELSE p.horizon

Gap(p, s, e) == s[e[2]] - s[e[1]] - Length(p, e[1])

(***************************************************************************)
(* addBlockPrecedenceConstraints and addFCFSConsistencyConstraints: how    *)
(* much later than the first block of each link the second must start.     *)
(***************************************************************************)
LinkDistances(p, chain) ==
  {<<e, Length(p, e[1])>> : e \in Links(chain)}
    \cup UNION {{<<e, c.first - c.shift>> : c \in SharedSlots(p, e[1], e[2])} : e \in Links(chain)}

\* Fault: the time of the measurement itself is forgotten
LifeDistanceToStart(p, u, v) ==
  p.lifetime + TimeOf(p, u) + Offset(p, u[1], u[2]) - Offset(p, v[1], v[2])

(***************************************************************************)
(* addQubitLifetimeConstraints: how much later than the block of the       *)
(* allocation the block of the measurement may start.                      *)
(***************************************************************************)
LifeDistance(p, u, v) ==
  p.lifetime - TimeOf(p, v) + TimeOf(p, u) + Offset(p, u[1], u[2]) - Offset(p, v[1], v[2])

LifeDistances(p, given) ==
  {LET u == Alloc(p, given, q)  v == Meas(p, given, q) IN <<<<u[1], v[1]>>, LifeDistance(p, u, v)>> :
     q \in {r \in Qubits(p) : Meas(p, given, r) # NoOp}}

\* A qubit that is measured and whose allocation is in a block that was not given.
AllocMissing(p, given) ==
  \E q \in Qubits(p) : Meas(p, given, q) # NoOp /\ Alloc(p, given, q) = NoOp

\* All constraints, with every gap at least g.
DeadlineSolutions(p, chain, g) ==
  LET H == Horizon(p, chain)
      last == chain[Len(chain)]
      least == LinkDistances(p, chain) \cup {<<e, Length(p, e[1]) + g>> : e \in Links(chain)}
      most == LifeDistances(p, Given(chain))
      end == H - Length(p, last)
  IN {s \in [Given(chain) -> 0 .. H] :
        /\ s[last] <= end
        /\ \A d \in least : s[d[1][2]] - s[d[1][1]] >= d[2]
        /\ \A d \in most : s[d[1][2]] - s[d[1][1]] <= d[2]}

LeastGap(p, chain, s) == Min({Gap(p, s, e) : e \in Links(chain)})

(***************************************************************************)
(* The weight of an operation is its index in the program, so every block  *)
(* has the sum of consecutive indices, and starts as soon as it can.       *)
(***************************************************************************)
SpreadWeight(p, given) ==
  LET n(c) == Len(Times(p, c)) IN
  Objective(given, LAMBDA b : n(b) * SumOver({c \in given : c < b}, n) + SumOver(1 .. n(b), LAMBDA i : i))

SpreadOptima(p, chain, g) == Best(DeadlineSolutions(p, chain, g), SpreadWeight(p, Given(chain)))
=============================================================================
