------------------------- MODULE Functionize_proofs --------------------------
(***************************************************************************)
(* Theorems about the grouping of quantum operations into routines, for    *)
(* every source program, any size limit and both classifiers, where        *)
(* requests are not grouped (Ungrouped).  Functionize and the passes that  *)
(* follow it are taken together (LoweringSpec): the latter change nothing  *)
(* of what is said here.                                                   *)
(***************************************************************************)
EXTENDS Isolation, FunctionTheorems, FiniteSetTheorems, SequenceTheorems, TLAPS

Ungrouped == option.simple \/ ~option.groupReqs

-----------------------------------------------------------------------------
(***************************************************************************)
(* A group as it will be outlined: its operations in source order, the     *)
(* allocation of a qubit right in front of its definition at the start,    *)
(* all others on the same qubits, in the same block, with nothing but      *)
(* operations that stay in the body between them.                          *)
(***************************************************************************)
StayKinds == {"send", "classical", "qalloc"}

IsWork(i) == Kind(i) \in QuantumKinds \ {"qalloc"}

InSourceOrder(g) == \A k, l \in DOMAIN g : k < l => g[k] < g[l]

AllocationFirst(g) ==
  \A k \in DOMAIN g :
    /\ Kind(g[k]) = "qalloc" =>
         k = 1 /\ Len(g) > 1 /\ Kind(g[2]) \in Definitions /\ g[1] \in QubitsOf(source, g[2])
    /\ Kind(g[k]) \in Definitions => k = 2 /\ Qubits(g[2]) = <<g[1]>>

OneKind(g) ==
  \A k, l \in DOMAIN g :
    IsWork(g[k]) /\ IsWork(g[l]) =>
      /\ Qubits(g[k]) = Qubits(g[l]) /\ BlockOf(g[k]) = BlockOf(g[l])
      /\ Kind(g[k]) \in Requests => k = l

Unbroken(g) ==
  \A k \in DOMAIN g, j \in Ops :
    IsWork(g[k]) /\ g[k] < j /\ j < Last(g) /\ j \notin ToSet(g) => Kind(j) \in StayKinds

Limit == IF option.maxOps < 2 THEN 2 ELSE option.maxOps

Formed(g) ==
  /\ g \in Seq(Ops) /\ g # <<>>
  /\ \A k \in DOMAIN g : Kind(g[k]) \in QuantumKinds
  /\ IsWork(Last(g))
  /\ InSourceOrder(g)
  /\ AllocationFirst(g)
  /\ OneKind(g)
  /\ Unbroken(g)
  /\ option.maxOps > 0 => Len(g) <= Limit

\* The groups, the active one as the last.
All == Commit(grouper).groups

\* The groups G after the operations before c were classified: one after the other, each
\* operation in one of them.
Groups(G, c) ==
  /\ G \in Seq(Seq(Ops))
  /\ \A n \in DOMAIN G : Formed(G[n]) /\ Last(G[n]) < c
  /\ \A m, n \in DOMAIN G : m < n =>
       \A x \in ToSet(G[m]), y \in ToSet(G[n]) : IsWork(x) /\ IsWork(y) => x < y
  /\ \A i \in Ops : i < c /\ IsWork(i) => \E n \in DOMAIN G : i \in ToSet(G[n])

(***************************************************************************)
(* What the active group of g may still be given, in block b, when c is    *)
(* classified next.                                                        *)
(***************************************************************************)
Open(g, b, c) ==
  g.active # <<>> =>
    /\ BlockOf(Last(g.active)) = b
    /\ Qubits(Last(g.active)) = g.id
    /\ Kind(Last(g.active)) \notin Requests
    /\ \A j \in Ops : Last(g.active) < j /\ j < c => Kind(j) \in StayKinds

Grouping == Groups(All, cursor) /\ Open(grouper, current, cursor)

Groupers == [groups : Seq(Seq(Ops)), active : Seq(Ops), id : Seq(Ops)]

Typing == source \in Sources /\ option \in Options

Stages ==
  /\ stage \in {"simple", "register", "requests", "classify", "outline", "done"}
  /\ cursor \in Nat \ {0}
  /\ grouper \in Groupers
  /\ pending = {}
  /\ stage = "simple" => option.simple
  /\ stage \in {"register", "requests", "classify"} => ~option.simple
  /\ stage \in {"register", "requests"} => cursor = 1 /\ current = NoBlock
  /\ stage # "classify" => grouper.active = <<>>
  /\ stage \in {"outline", "done"} => cursor \notin Ops

Outlined ==
  /\ calls \in Seq({CallOf(g) : g \in Seq(Ops)})
  /\ Len(calls) <= Len(grouper.groups)
  /\ \A c \in DOMAIN calls : calls[c] = CallOf(grouper.groups[c])
  /\ stage \notin {"outline", "done"} => calls = <<>>
  /\ stage = "done" => Len(calls) = Len(grouper.groups)

Inner == Stages /\ Grouping /\ Outlined

IInv == Typing /\ (Ungrouped => Inner)

-----------------------------------------------------------------------------
(***************************************************************************)
(* What is known of the operations of a source program.                    *)
(***************************************************************************)
LEMMA OpFacts ==
  ASSUME source \in Sources, NEW i \in Ops
  PROVE  /\ Ops = 1 .. Len(source.ops) /\ Len(source.ops) \in Nat /\ i \in Nat
         /\ Kind(i) \in Kinds /\ BlockOf(i) \in Nat
         /\ Qubits(i) \in Seq(Ops) /\ QubitsOf(source, i) = ToSet(Qubits(i))
         /\ \A q \in QubitsOf(source, i) : q \in Ops /\ Kind(q) = "qalloc"
         /\ Kind(i) = "qalloc" => Qubits(i) = <<i>> /\ source.ops[i].reads = {}
         /\ Kind(i) \in Definitions \cup {"measure"} => Len(Qubits(i)) = 1
         /\ Kind(i) \notin QuantumKinds => Qubits(i) = <<>>
         /\ \A v \in source.ops[i].reads : v \in Ops /\ Kind(v) \in Valued
<1>1. IsSource(source)
  BY SourcesAssumption
<1>2. TakesItsOperands(source, i) /\ Ops = 1 .. Len(source.ops) /\ Len(source.ops) \in Nat
      /\ Len(source.exits) \in Nat \ {0}
  BY <1>1 DEF IsSource, Ops
<1>3. Qubits(i) \in Seq(Ops) /\ QubitsOf(source, i) = ToSet(Qubits(i))
  BY <1>2 DEF TakesItsOperands, Qubits, QubitsOf, Ops
<1>4. \A q \in QubitsOf(source, i) : q \in Ops
  BY <1>3 DEF ToSet
<1> QED
  BY <1>2, <1>3, <1>4 DEF TakesItsOperands, Kind, BlockOf, Qubits, LastBlock, Ops

LEMMA OperandFacts ==
  ASSUME source \in Sources, NEW i \in Ops
  PROVE  /\ \A v \in Operands(source, i) : v \in Ops /\ v < i /\ Dominates(source, BlockOf(v), BlockOf(i))
         /\ \A q \in QubitsOf(source, i) :
              /\ Cardinality(DefiningOps(source, q)) = 1
              /\ Kind(i) \notin Definitions \cup {"qalloc"} =>
                   \A d \in DefiningOps(source, q) : d < i /\ Dominates(source, BlockOf(d), BlockOf(i))
              /\ Kind(i) \in {"measure", "eprs_measure"} =>
                   \A j \in Ops : j > i => q \notin QubitsOf(source, j)
<1>1. IsSource(source)
  BY SourcesAssumption
<1>2. \A v \in Operands(source, i) : v \in Ops
  BY OpFacts DEF Operands
<1> QED
  BY <1>1, <1>2 DEF IsSource, Available, Ops, Kind, BlockOf

\* A qubit has one definition.
LEMMA OneDefinition ==
  ASSUME source \in Sources, NEW i \in Ops, NEW q \in QubitsOf(source, i),
         NEW d \in DefiningOps(source, q), NEW e \in DefiningOps(source, q)
  PROVE  d = e
<1>1. Cardinality(DefiningOps(source, q)) = 1
  BY OperandFacts
<1>2. DefiningOps(source, q) \subseteq 1 .. Len(source.ops)
  BY OpFacts DEF DefiningOps, Ops
<1>3. IsFiniteSet(DefiningOps(source, q))
  <2>1. 1 \in Int /\ Len(source.ops) \in Int
    BY OpFacts
  <2>2. IsFiniteSet(1 .. Len(source.ops))
    BY <2>1, FS_Interval
  <2> QED
    BY <1>2, <2>2, FS_Subset
<1>4. PICK x : DefiningOps(source, q) = {x}
  BY <1>1, <1>3, FS_Singleton
<1> QED
  BY <1>4

-----------------------------------------------------------------------------
(***************************************************************************)
(* What follows from the form of a group.                                  *)
(***************************************************************************)
LEMMA LastIsGreatest ==
  ASSUME source \in Sources, NEW g, Formed(g)
  PROVE  /\ Last(g) \in ToSet(g) /\ IsWork(Last(g)) /\ ToSet(g) \subseteq Ops /\ Len(g) \in Nat \ {0}
         /\ DOMAIN g = 1 .. Len(g) /\ g[Len(g)] = Last(g)
         /\ \A i \in ToSet(g) : i <= Last(g)
<1>1. g \in Seq(Ops) /\ Len(g) \in Nat \ {0} /\ DOMAIN g = 1 .. Len(g) /\ g[Len(g)] = Last(g)
  BY DEF Formed, Last
<1>2. \A k \in DOMAIN g : g[k] \in Ops
  BY <1>1
<1>3. \A k \in DOMAIN g : g[k] <= g[Len(g)]
  <2> TAKE k \in DOMAIN g
  <2>1. CASE k = Len(g)
    BY <1>1, <1>2, <2>1, OpFacts
  <2>2. CASE k < Len(g)
    <3>1. g[k] < g[Len(g)]
      BY <1>1, <2>2 DEF Formed, InSourceOrder
    <3>2. g[k] \in Nat /\ g[Len(g)] \in Nat
      BY <1>1, <1>2, OpFacts
    <3> QED
      BY <3>1, <3>2
  <2> QED
    BY <1>1, <2>1, <2>2
<1> QED
  BY <1>1, <1>2, <1>3 DEF Formed, ToSet

LEMMA SameGroupSameOrder ==
  ASSUME source \in Sources, NEW g, Formed(g), NEW k \in DOMAIN g, NEW l \in DOMAIN g, g[k] < g[l]
  PROVE  k < l
<1>1. k \in Nat /\ l \in Nat /\ g[k] \in Ops /\ g[l] \in Ops
  BY LastIsGreatest DEF ToSet
<1>2. g[k] \in Nat /\ g[l] \in Nat
  BY <1>1, OpFacts
<1>3. ~(l < k) /\ k # l
  BY <1>2 DEF Formed, InSourceOrder
<1> QED
  BY <1>1, <1>3

\* Two operations on a common qubit, or one that reads what the other makes.
Related(i, j) == QubitsOf(source, i) \cap QubitsOf(source, j) # {} \/ i \in source.ops[j].reads

(***************************************************************************)
(* An operation that must follow one of a group, and is not in the group,  *)
(* comes after all of it.                                                  *)
(***************************************************************************)
LEMMA FollowsGroup ==
  ASSUME source \in Sources, NEW g, Formed(g), NEW i \in ToSet(g), NEW j \in Ops \ ToSet(g),
         i < j, Related(i, j)
  PROVE  Last(g) < j
<1> DEFINE m == Last(g)
<1>1. /\ m \in ToSet(g) /\ IsWork(m) /\ i \in Ops /\ m \in Ops /\ i \in Nat /\ j \in Nat /\ m \in Nat
      /\ DOMAIN g = 1 .. Len(g) /\ Len(g) \in Nat \ {0} /\ g[Len(g)] = m
  BY LastIsGreatest, OpFacts
<1> HIDE DEF m
<1> SUFFICES ASSUME j < m PROVE FALSE
  BY <1>1 DEF m
<1>2. PICK k \in DOMAIN g : i = g[k]
  BY DEF ToSet
<1>3. Kind(i) \in QuantumKinds
  BY <1>2 DEF Formed
<1>4. CASE Kind(i) = "qalloc"
  <2>1. k = 1 /\ Len(g) > 1 /\ Kind(g[2]) \in Definitions /\ i \in QubitsOf(source, g[2])
    BY <1>2, <1>4 DEF Formed, AllocationFirst
  <2> DEFINE d == g[2]
  <2>2. d \in ToSet(g) /\ d \in Ops /\ 2 \in DOMAIN g
    BY <1>1, <2>1, LastIsGreatest DEF ToSet
  <2>3. i \in QubitsOf(source, j)
    <3>1. i \notin source.ops[j].reads
      BY <1>4, OpFacts DEF Valued
    <3>2. QubitsOf(source, i) = {i}
      BY <1>1, <1>4, OpFacts DEF ToSet
    <3> QED
      BY <3>1, <3>2 DEF Related
  <2>4. Kind(j) \notin Definitions
    <3> SUFFICES ASSUME Kind(j) \in Definitions PROVE FALSE
      OBVIOUS
    <3>1. j \in DefiningOps(source, i) /\ d \in DefiningOps(source, i)
      BY <2>1, <2>2, <2>3 DEF DefiningOps, Kind, Ops
    <3> QED
      BY <2>2, <2>3, <3>1, OneDefinition
  <2>5. Kind(j) # "qalloc"
    <3> SUFFICES ASSUME Kind(j) = "qalloc" PROVE FALSE
      OBVIOUS
    <3>1. QubitsOf(source, j) = {j}
      BY OpFacts DEF ToSet
    <3> QED
      BY <1>1, <2>3, <3>1
  <2>6. d < j
    <3>1. d \in DefiningOps(source, i)
      BY <2>1, <2>2 DEF DefiningOps, Kind, Ops
    <3> QED
      BY <2>3, <2>4, <2>5, <3>1, OperandFacts
  <2>7. IsWork(d)
    BY <2>1 DEF IsWork, QuantumKinds, Definitions, Requests
  <2>8. Kind(j) \in StayKinds
    BY <2>2, <2>6, <2>7 DEF Formed, Unbroken, m
  <2>9. Qubits(j) = <<>>
    BY <2>5, <2>8, OpFacts DEF StayKinds, QuantumKinds, Definitions, Requests
  <2> QED
    BY <2>3, <2>9, OpFacts DEF ToSet
<1>5. CASE Kind(i) # "qalloc"
  <2>1. IsWork(i)
    BY <1>3, <1>5 DEF IsWork
  <2>2. Kind(j) \in StayKinds
    BY <1>2, <2>1 DEF Formed, Unbroken, m
  <2>3. CASE QubitsOf(source, i) \cap QubitsOf(source, j) # {}
    <3>1. PICK q : q \in QubitsOf(source, i) /\ q \in QubitsOf(source, j)
      BY <2>3
    <3>2. Kind(j) = "qalloc"
      <4> SUFFICES ASSUME Kind(j) # "qalloc" PROVE FALSE
        OBVIOUS
      <4>1. Qubits(j) = <<>>
        BY <2>2, OpFacts DEF StayKinds, QuantumKinds, Definitions, Requests
      <4> QED
        BY <3>1, <4>1, OpFacts DEF ToSet
    <3>3. q = j
      BY <3>1, <3>2, OpFacts DEF ToSet
    <3>4. j \in Operands(source, i)
      BY <1>5, <3>1, <3>3 DEF Operands, Kind
    <3>5. j < i
      BY <1>1, <3>4, OperandFacts
    <3> QED
      BY <1>1, <3>5
  <2>4. CASE i \in source.ops[j].reads
    <3>1. Kind(i) \in {"measure", "eprs_measure"}
      BY <2>4, <1>3, OpFacts DEF Valued, QuantumKinds, Definitions, Requests
    <3>2. Qubits(i) = Qubits(m) /\ Kind(i) \notin Requests
      <4>1. Len(g) \in DOMAIN g /\ k # Len(g)
        BY <1>1, <1>2
      <4> QED
        BY <1>1, <1>2, <2>1, <4>1 DEF Formed, OneKind
    <3>3. Len(Qubits(i)) = 1 /\ Qubits(i) \in Seq(Ops)
      BY <1>1, <3>1, OpFacts DEF Definitions, Requests
    <3>4. Qubits(i)[1] \in QubitsOf(source, i) /\ Qubits(i)[1] \in QubitsOf(source, m)
      BY <1>1, <3>2, <3>3, OpFacts DEF ToSet
    <3> QED
      BY <1>1, <3>1, <3>4, OperandFacts
  <2> QED
    BY <2>3, <2>4 DEF Related
<1> QED
  BY <1>4, <1>5

-----------------------------------------------------------------------------
(***************************************************************************)
(* The groups when one more operation, c, is classified: it opens a group, *)
(* it extends the last one, or it stays in the body.                       *)
(***************************************************************************)
LEMMA AlmostAll ==
  ASSUME NEW S, NEW G \in Seq(S), NEW h \in S
  PROVE  /\ Append(G, h) \in Seq(S) /\ Len(G) \in Nat
         /\ DOMAIN Append(G, h) = DOMAIN G \cup {Len(G) + 1} /\ DOMAIN G = 1 .. Len(G)
         /\ Append(G, h)[Len(G) + 1] = h
         /\ \A n \in DOMAIN G : Append(G, h)[n] = G[n]
         /\ \A n \in DOMAIN Append(G, h) : n \in Nat /\ (n \in DOMAIN G \/ n = Len(G) + 1)
         /\ \A n \in DOMAIN G : n < Len(G) + 1
OBVIOUS

LEMMA NewGroupIsInTurn ==
  ASSUME source \in Sources, NEW G, NEW c \in Ops, Groups(G, c),
         NEW h, Formed(h), Last(h) = c, \A x \in ToSet(h) : IsWork(x) => x = c
  PROVE  Groups(Append(G, h), c + 1)
<1>1. h \in Seq(Ops) /\ G \in Seq(Seq(Ops)) /\ c \in Nat
  BY OpFacts DEF Formed, Groups
<1> DEFINE H == Append(G, h)
           z == Len(G) + 1
<1>2. /\ H \in Seq(Seq(Ops)) /\ DOMAIN H = DOMAIN G \cup {z} /\ H[z] = h
      /\ \A n \in DOMAIN G : H[n] = G[n] /\ n < z /\ n \in Nat
      /\ z \in Nat /\ z \notin DOMAIN G
  BY <1>1, AlmostAll
<1> HIDE DEF H, z
<1>3. \A n \in DOMAIN G : Last(G[n]) \in Nat /\ Last(G[n]) < c
  <2> TAKE n \in DOMAIN G
  <2>1. Formed(G[n]) /\ Last(G[n]) < c
    BY DEF Groups
  <2>2. Last(G[n]) \in Ops
    BY <2>1, LastIsGreatest
  <2> QED
    BY <2>1, <2>2, OpFacts
<1>4. \A n \in DOMAIN H : Formed(H[n]) /\ Last(H[n]) < c + 1
  BY <1>1, <1>2, <1>3 DEF Groups
<1>5. ASSUME NEW m \in DOMAIN H, NEW n \in DOMAIN H, m < n,
             NEW x \in ToSet(H[m]), NEW y \in ToSet(H[n]), IsWork(x), IsWork(y)
      PROVE  x < y
  <2>1. m \in DOMAIN G
    BY <1>2, <1>5
  <2>2. CASE n \in DOMAIN G
    BY <1>2, <1>5, <2>1, <2>2 DEF Groups
  <2>3. CASE n = z
    <3>1. y = c
      BY <1>2, <1>5, <2>3
    <3>2. Formed(G[m]) /\ x \in ToSet(G[m])
      BY <1>2, <1>5, <2>1 DEF Groups
    <3>3. x <= Last(G[m]) /\ x \in Ops
      BY <3>2, LastIsGreatest
    <3> QED
      BY <1>1, <1>3, <2>1, <3>1, <3>3, OpFacts
  <2> QED
    BY <1>2, <2>2, <2>3
<1>6. ASSUME NEW i \in Ops, i < c + 1, IsWork(i)
      PROVE  \E n \in DOMAIN H : i \in ToSet(H[n])
  <2>1. CASE i = c
    <3>1. c \in ToSet(h)
      BY LastIsGreatest
    <3> QED
      BY <1>2, <2>1, <3>1
  <2>2. CASE i < c
    <3>1. PICK n \in DOMAIN G : i \in ToSet(G[n])
      BY <1>6, <2>2 DEF Groups
    <3> QED
      BY <1>2, <3>1
  <2>3. i \in Nat
    BY OpFacts
  <2> QED
    BY <1>1, <1>6, <2>1, <2>2, <2>3
<1>7. Groups(H, c + 1)
  BY <1>2, <1>4, <1>5, <1>6 DEF Groups
<1> QED
  BY <1>7 DEF H

LEMMA StayingKeepsGroups ==
  ASSUME source \in Sources, NEW G, NEW c \in Nat, Groups(G, c), c \in Ops => ~IsWork(c)
  PROVE  Groups(G, c + 1)
<1>1. \A n \in DOMAIN G : Last(G[n]) < c + 1
  <2> TAKE n \in DOMAIN G
  <2>1. Formed(G[n]) /\ Last(G[n]) < c
    BY DEF Groups
  <2>2. Last(G[n]) \in Ops
    BY <2>1, LastIsGreatest
  <2> QED
    BY <2>1, <2>2, OpFacts
<1>2. \A i \in Ops : i < c + 1 /\ IsWork(i) => i < c
  BY OpFacts
<1> QED
  BY <1>1, <1>2 DEF Groups

\* The last group goes on with an operation on the same qubits.
LEMMA ExtendedIsFormed ==
  ASSUME source \in Sources, NEW g, Formed(g), NEW c \in Ops,
         Kind(c) \in {"gate", "measure"}, Last(g) < c,
         Qubits(c) = Qubits(Last(g)), BlockOf(c) = BlockOf(Last(g)), Kind(Last(g)) \notin Requests,
         \A j \in Ops : Last(g) < j /\ j < c => Kind(j) \in StayKinds,
         option.maxOps > 0 => Len(g) + 1 <= Limit
  PROVE  Formed(Append(g, c)) /\ Last(Append(g, c)) = c /\ ToSet(Append(g, c)) = ToSet(g) \cup {c}
<1> DEFINE h == Append(g, c)
           z == Len(g) + 1
<1>1. /\ g \in Seq(Ops) /\ Len(g) \in Nat \ {0} /\ DOMAIN g = 1 .. Len(g) /\ g[Len(g)] = Last(g)
      /\ ToSet(g) \subseteq Ops /\ IsWork(Last(g)) /\ Last(g) \in ToSet(g) /\ c \in Nat
      /\ \A k \in DOMAIN g : g[k] \in Ops /\ g[k] \in Nat /\ g[k] <= Last(g)
  <2>1. \A i \in ToSet(g) : i <= Last(g)
    BY LastIsGreatest
  <2>2. \A k \in DOMAIN g : g[k] \in ToSet(g)
    BY DEF ToSet
  <2>3. g \in Seq(Ops) /\ ToSet(g) \subseteq Ops
    BY LastIsGreatest DEF Formed
  <2> QED
    BY <2>1, <2>2, <2>3, LastIsGreatest, OpFacts
<1>2. /\ h \in Seq(Ops) /\ DOMAIN h = DOMAIN g \cup {z} /\ h[z] = c /\ Len(h) = z /\ h # <<>>
      /\ \A k \in DOMAIN g : h[k] = g[k] /\ k < z /\ k \in Nat
      /\ z \in Nat /\ z \notin DOMAIN g /\ z > 1
  BY <1>1
<1> HIDE DEF h, z
<1>3. Last(h) = c
  BY <1>2 DEF Last
<1>4. ToSet(h) = ToSet(g) \cup {c}
  BY <1>2 DEF ToSet
<1>5. IsWork(c) /\ Kind(c) \notin Definitions /\ Kind(c) \notin Requests /\ Kind(c) # "qalloc" /\ Kind(c) \in QuantumKinds
  BY DEF IsWork, QuantumKinds, Definitions, Requests
<1>6. \A k \in DOMAIN h : Kind(h[k]) \in QuantumKinds
  BY <1>2, <1>5 DEF Formed
<1>7. InSourceOrder(h)
  <2> SUFFICES ASSUME NEW k \in DOMAIN h, NEW l \in DOMAIN h, k < l PROVE h[k] < h[l]
    BY DEF InSourceOrder
  <2>1. k \in DOMAIN g
    BY <1>2
  <2>2. CASE l \in DOMAIN g
    BY <1>2, <2>1, <2>2 DEF Formed, InSourceOrder
  <2>3. CASE l = z
    <3>1. Last(g) \in Nat
      BY <1>1
    <3> QED
      BY <1>1, <1>2, <2>1, <2>3, <3>1
  <2> QED
    BY <1>2, <2>2, <2>3
<1>8. AllocationFirst(h)
  <2> SUFFICES ASSUME NEW k \in DOMAIN h
               PROVE  /\ Kind(h[k]) = "qalloc" =>
                           k = 1 /\ Len(h) > 1 /\ Kind(h[2]) \in Definitions /\ h[1] \in QubitsOf(source, h[2])
                      /\ Kind(h[k]) \in Definitions => k = 2 /\ Qubits(h[2]) = <<h[1]>>
    BY DEF AllocationFirst
  <2>1. CASE k = z
    BY <1>2, <1>5, <2>1
  <2>2. CASE k \in DOMAIN g
    <3>1. /\ Kind(g[k]) = "qalloc" =>
                k = 1 /\ Len(g) > 1 /\ Kind(g[2]) \in Definitions /\ g[1] \in QubitsOf(source, g[2])
          /\ Kind(g[k]) \in Definitions => k = 2 /\ Qubits(g[2]) = <<g[1]>>
      BY <2>2 DEF Formed, AllocationFirst
    <3>2. h[k] = g[k] /\ h[1] = g[1] /\ Len(h) > 1 /\ (Len(g) > 1 => h[2] = g[2])
      BY <1>1, <1>2, <2>2
    <3>3. k = 2 => Len(g) > 1
      BY <1>1, <2>2
    <3> QED
      BY <3>1, <3>2, <3>3
  <2> QED
    BY <1>2, <2>1, <2>2
<1>9. OneKind(h)
  <2>1. ASSUME NEW k \in DOMAIN g, IsWork(g[k])
        PROVE  Qubits(g[k]) = Qubits(c) /\ BlockOf(g[k]) = BlockOf(c) /\ Kind(g[k]) \notin Requests
    <3>1. Len(g) \in DOMAIN g
      BY <1>1
    <3>2. /\ Qubits(g[k]) = Qubits(g[Len(g)]) /\ BlockOf(g[k]) = BlockOf(g[Len(g)])
          /\ Kind(g[k]) \in Requests => k = Len(g)
      BY <1>1, <2>1, <3>1 DEF Formed, OneKind
    <3> QED
      BY <1>1, <3>2
  <2> SUFFICES ASSUME NEW k \in DOMAIN h, NEW l \in DOMAIN h, IsWork(h[k]), IsWork(h[l])
               PROVE  /\ Qubits(h[k]) = Qubits(h[l]) /\ BlockOf(h[k]) = BlockOf(h[l])
                      /\ Kind(h[k]) \in Requests => k = l
    BY DEF OneKind
  <2>2. \A n \in DOMAIN h : IsWork(h[n]) => Qubits(h[n]) = Qubits(c) /\ BlockOf(h[n]) = BlockOf(c) /\ Kind(h[n]) \notin Requests
    BY <1>2, <1>5, <2>1
  <2> QED
    BY <2>2
<1>10. Unbroken(h)
  <2> SUFFICES ASSUME NEW k \in DOMAIN h, NEW j \in Ops, IsWork(h[k]), h[k] < j, j < c, j \notin ToSet(h)
               PROVE  Kind(j) \in StayKinds
    BY <1>3 DEF Unbroken
  <2>1. k \in DOMAIN g /\ h[k] = g[k] /\ j \in Nat /\ j \notin ToSet(g) /\ j # Last(g) /\ Last(g) \in Nat
    <3>1. j \in Nat
      BY OpFacts
    <3>2. k # z
      BY <1>1, <1>2, <3>1
    <3> QED
      BY <1>1, <1>2, <1>4, <3>1, <3>2
  <2>2. CASE j < Last(g)
    BY <2>1, <2>2 DEF Formed, Unbroken
  <2>3. CASE Last(g) < j
    BY <2>3
  <2> QED
    BY <2>1, <2>2, <2>3
<1>11. option.maxOps > 0 => Len(h) <= Limit
  BY <1>2 DEF z
<1> QED
  BY <1>2, <1>3, <1>4, <1>5, <1>6, <1>7, <1>8, <1>9, <1>10, <1>11 DEF Formed, h

LEMMA ExtendingKeepsGroups ==
  ASSUME source \in Sources, NEW G \in Seq(Seq(Ops)), NEW g \in Seq(Ops), NEW c \in Ops,
         Groups(Append(G, g), c), Formed(Append(g, c)), Last(Append(g, c)) = c,
         ToSet(Append(g, c)) = ToSet(g) \cup {c}
  PROVE  Groups(Append(G, Append(g, c)), c + 1)
<1> DEFINE h == Append(g, c)
           A == Append(G, g)
           B == Append(G, h)
           z == Len(G) + 1
<1>1. /\ DOMAIN A = DOMAIN G \cup {z} /\ A[z] = g /\ \A n \in DOMAIN G : A[n] = G[n]
      /\ \A n \in DOMAIN G : n < z /\ n \in Nat
      /\ z \in Nat
  BY AlmostAll
<1>2. /\ B \in Seq(Seq(Ops)) /\ DOMAIN B = DOMAIN A /\ B[z] = h /\ \A n \in DOMAIN G : B[n] = A[n]
  <2>1. h \in Seq(Ops)
    BY DEF Formed
  <2> HIDE DEF h
  <2> QED
    BY <2>1, <1>1, AlmostAll
<1>3. Groups(A, c) /\ Formed(h) /\ Last(h) = c /\ ToSet(h) = ToSet(g) \cup {c} /\ c \in Nat
  BY OpFacts
<1> HIDE DEF A, B, h, z
<1>4. \A n \in DOMAIN A : Formed(A[n]) /\ Last(A[n]) < c /\ Last(A[n]) \in Nat
  <2> TAKE n \in DOMAIN A
  <2>1. Formed(A[n]) /\ Last(A[n]) < c
    BY <1>3 DEF Groups
  <2>2. Last(A[n]) \in Ops
    BY <2>1, LastIsGreatest
  <2> QED
    BY <2>1, <2>2, OpFacts
<1>5. \A n \in DOMAIN B : Formed(B[n]) /\ Last(B[n]) < c + 1
  BY <1>1, <1>2, <1>3, <1>4
<1>6. ASSUME NEW m \in DOMAIN B, NEW n \in DOMAIN B, m < n,
             NEW x \in ToSet(B[m]), NEW y \in ToSet(B[n]), IsWork(x), IsWork(y)
      PROVE  x < y
  <2>1. m \in DOMAIN G /\ m \in DOMAIN A /\ n \in DOMAIN A /\ x \in ToSet(A[m])
    BY <1>1, <1>2, <1>6
  <2>2. CASE n = z /\ y = c
    <3>1. x <= Last(A[m]) /\ x \in Ops
      BY <1>4, <2>1, LastIsGreatest
    <3> QED
      BY <1>3, <1>4, <2>1, <2>2, <3>1, OpFacts
  <2>3. CASE y \in ToSet(A[n])
    BY <1>3, <1>6, <2>1, <2>3 DEF Groups
  <2> QED
    BY <1>1, <1>2, <1>3, <1>6, <2>1, <2>2, <2>3
<1>7. ASSUME NEW i \in Ops, i < c + 1, IsWork(i)
      PROVE  \E n \in DOMAIN B : i \in ToSet(B[n])
  <2>1. CASE i = c
    BY <1>1, <1>2, <1>3, <2>1
  <2>2. CASE i < c
    <3>1. PICK n \in DOMAIN A : i \in ToSet(A[n])
      BY <1>3, <1>7, <2>2 DEF Groups
    <3> QED
      BY <1>1, <1>2, <1>3, <3>1
  <2>3. i \in Nat
    BY OpFacts
  <2> QED
    BY <1>3, <1>7, <2>1, <2>2, <2>3
<1>8. Groups(B, c + 1)
  BY <1>2, <1>5, <1>6, <1>7 DEF Groups
<1> QED
  BY <1>8 DEF B, h

-----------------------------------------------------------------------------
(***************************************************************************)
(* The grouper.                                                            *)
(***************************************************************************)
LEMMA CommitEffect ==
  ASSUME NEW g \in Groupers
  PROVE  /\ Commit(g) \in Groupers /\ Commit(g).active = <<>>
         /\ Commit(Commit(g)).groups = Commit(g).groups
         /\ g.active = <<>> => Commit(g) = g
         /\ g.active # <<>> => Commit(g).groups = Append(g.groups, g.active) /\ Commit(g).id = <<>>
<1>1. CASE g.active = <<>>
  BY <1>1 DEF Commit, Groupers
<1>2. CASE g.active # <<>>
  <2>1. g.groups \in Seq(Seq(Ops)) /\ g.active \in Seq(Ops)
    BY DEF Groupers
  <2>2. Append(g.groups, g.active) \in Seq(Seq(Ops)) /\ <<>> \in Seq(Ops)
    BY <2>1
  <2>3. Commit(g) = [groups |-> Append(g.groups, g.active), active |-> <<>>, id |-> <<>>]
    BY <1>2 DEF Commit
  <2>4. Commit(g) \in Groupers /\ Commit(g).active = <<>>
    BY <2>2, <2>3 DEF Groupers
  <2>5. Commit(Commit(g)) = Commit(g)
    BY <2>4 DEF Commit
  <2>6. Commit(g).groups = Append(g.groups, g.active) /\ Commit(g).id = <<>>
    BY <2>3
  <2> HIDE DEF Commit
  <2> QED
    BY <1>2, <2>4, <2>5, <2>6
<1> QED
  BY <1>1, <1>2

LEMMA NewGroupEffect ==
  ASSUME NEW g \in Groupers, NEW q \in Seq(Ops), NEW h \in Seq(Ops)
  PROVE  /\ NewGroup(g, q, h) \in Groupers
         /\ NewGroup(g, q, h).groups = Commit(g).groups
         /\ NewGroup(g, q, h).active = h /\ NewGroup(g, q, h).id = q
<1>1. Commit(g).groups \in Seq(Seq(Ops))
  BY CommitEffect DEF Groupers
<1> QED
  BY <1>1 DEF NewGroup, Groupers

\* AddOperation opens a new group or extends the active one.
LEMMA AddEffect ==
  ASSUME NEW g \in Groupers, NEW i \in Ops, Qubits(i) \in Seq(Ops), option.maxOps \in Nat
  PROVE  LET t == AddOperation(g, i) IN
         /\ t \in Groupers /\ t.id = Qubits(i)
         /\ \/ t.groups = Commit(g).groups /\ t.active = <<i>>
            \/ /\ t.groups = g.groups /\ t.active = Append(g.active, i)
               /\ g.active # <<>> /\ g.id = Qubits(i)
               /\ option.maxOps > 0 => Len(g.active) + 1 <= option.maxOps
<1> DEFINE q == Qubits(i)
           own == GroupForQubits(g, q)
           target == IF Full(own) THEN GroupForQubits(Commit(own), q) ELSE own
           t == AddOperation(g, i)
<1>1. q \in Seq(Ops) /\ <<>> \in Seq(Ops)
  OBVIOUS
<1> HIDE DEF q
<1>2. /\ own \in Groupers /\ own.id = q
      /\ \/ own.groups = Commit(g).groups /\ own.active = <<>>
         \/ own = g
  BY <1>1, NewGroupEffect DEF GroupForQubits
<1> HIDE DEF own
<1>3. Full(own) => own.active # <<>>
  BY DEF Full
<1>4. Full(own) => own = g
  BY <1>2, <1>3
<1>5. /\ target \in Groupers /\ target.id = q
      /\ \/ target.groups = Commit(g).groups /\ target.active = <<>>
         \/ target = g /\ ~Full(g)
  <2>1. CASE Full(own)
    <3>1. own = g /\ g.active # <<>> /\ Commit(g) \in Groupers /\ Commit(g).active = <<>>
      BY <1>2, <1>3, <1>4, <2>1, CommitEffect
    <3>2. target = GroupForQubits(Commit(g), q)
      BY <2>1, <3>1
    <3>3. CASE Commit(g).id = q
      BY <3>1, <3>2, <3>3 DEF GroupForQubits
    <3>4. CASE Commit(g).id # q
      <4>1. target = NewGroup(Commit(g), q, <<>>)
        BY <3>2, <3>4 DEF GroupForQubits
      <4>2. Commit(Commit(g)).groups = Commit(g).groups
        BY CommitEffect
      <4>3. /\ NewGroup(Commit(g), q, <<>>) \in Groupers
            /\ NewGroup(Commit(g), q, <<>>).groups = Commit(Commit(g)).groups
            /\ NewGroup(Commit(g), q, <<>>).active = <<>> /\ NewGroup(Commit(g), q, <<>>).id = q
        BY <1>1, <3>1, NewGroupEffect
      <4> HIDE DEF target
      <4> QED
        BY <4>1, <4>2, <4>3
    <3> QED
      BY <3>3, <3>4
  <2>2. CASE ~Full(own)
    BY <1>2, <2>2
  <2> QED
    BY <2>1, <2>2
<1>6. t = [target EXCEPT !.active = Append(@, i)]
  BY DEF AddOperation, own, q
<1> HIDE DEF target, t
<1>7. target.active \in Seq(Ops) /\ Append(target.active, i) \in Seq(Ops)
  BY <1>5 DEF Groupers
<1>8. t \in Groupers /\ t.groups = target.groups /\ t.id = q /\ t.active = Append(target.active, i)
  BY <1>5, <1>6, <1>7 DEF Groupers
<1>9. CASE target.active = <<>>
  <2>1. t.active = <<i>>
    BY <1>8, <1>9
  <2>2. target.groups = Commit(g).groups
    BY <1>5, <1>9, CommitEffect
  <2> QED
    BY <1>8, <2>1, <2>2 DEF t, q
<1>10. CASE target.active # <<>>
  <2>1. target = g /\ ~Full(g) /\ g.id = q
    BY <1>5, <1>10
  <2>2. option.maxOps > 0 => Len(g.active) + 1 <= option.maxOps
    BY <2>1, <1>7 DEF Full
  <2> QED
    BY <1>8, <1>10, <2>1, <2>2 DEF t, q
<1> QED
  BY <1>9, <1>10

LEMMA MaxOpsIsNat == option \in Options => option.maxOps \in Nat /\ Limit \in Nat /\ 2 <= Limit /\ option.maxOps <= Limit
  BY OptionsAssumption DEF Limit

\* The groups an operation may open.
LEMMA SingleIsFormed ==
  ASSUME Typing, NEW i \in Ops, Kind(i) \in {"gate", "measure"}
  PROVE  /\ <<i>> \in Seq(Ops) /\ Formed(<<i>>) /\ Last(<<i>>) = i
         /\ \A x \in ToSet(<<i>>) : x = i
<1> DEFINE h == <<i>>
<1>1. h \in Seq(Ops) /\ h # <<>> /\ Last(h) = i /\ Len(h) = 1 /\ \A k \in DOMAIN h : h[k] = i /\ k = 1
  BY DEF Last
<1>2. IsWork(i) /\ Kind(i) \notin Definitions /\ Kind(i) # "qalloc" /\ Kind(i) \in QuantumKinds
  BY DEF IsWork, QuantumKinds, Definitions, Requests
<1> HIDE DEF h
<1>3. InSourceOrder(h) /\ AllocationFirst(h) /\ OneKind(h)
  BY <1>1, <1>2 DEF InSourceOrder, AllocationFirst, OneKind
<1>4. Unbroken(h)
  BY <1>1, OpFacts DEF Unbroken, Typing
<1>5. option.maxOps > 0 => Len(h) <= Limit
  BY <1>1, MaxOpsIsNat DEF Typing
<1>6. \A x \in ToSet(h) : x = i
  BY <1>1 DEF ToSet
<1>7. Formed(h)
  BY <1>1, <1>2, <1>3, <1>4, <1>5 DEF Formed
<1> QED
  BY <1>1, <1>6, <1>7 DEF h

LEMMA PairOf ==
  ASSUME NEW S, NEW s \in Seq(S), NEW t \in Seq(S), Len(s) = 1, Len(t) = 1
  PROVE  s \o t \in Seq(S) /\ Len(s \o t) = 2 /\ (s \o t)[1] = s[1] /\ (s \o t)[2] = t[1]
<1>1. /\ s \o t \in Seq(S) /\ Len(s \o t) = Len(s) + Len(t)
      /\ \A k \in 1 .. Len(s) + Len(t) : (s \o t)[k] = IF k <= Len(s) THEN s[k] ELSE t[k - Len(s)]
  BY ConcatProperties
<1>2. 1 \in 1 .. Len(s) + Len(t) /\ 2 \in 1 .. Len(s) + Len(t) /\ 2 - Len(s) = 1 /\ Len(s) + Len(t) = 2
  OBVIOUS
<1> QED
  BY <1>1, <1>2

LEMMA DefinitionIsFormed ==
  ASSUME Typing, NEW i \in Ops, Kind(i) \in Definitions
  PROVE  LET h == WithAllocation(i) IN
         /\ h \in Seq(Ops) /\ h # <<>> /\ Formed(h) /\ Last(h) = i
         /\ \A x \in ToSet(h) : IsWork(x) => x = i
<1>1. Qubits(i) \in Seq(Ops) /\ Len(Qubits(i)) = 1 /\ QubitsOf(source, i) = ToSet(Qubits(i))
  BY OpFacts DEF Typing
<1>2. PICK q : q = Qubits(i)[1]
  OBVIOUS
<1>3. Qubits(i) = <<q>> /\ q \in QubitsOf(source, i)
  BY <1>1, <1>2 DEF ToSet
<1>4. q \in Ops /\ Kind(q) = "qalloc"
  BY <1>3, OpFacts DEF Typing
<1>5. q < i /\ q \in Nat /\ i \in Nat
  <2>1. q \in Operands(source, i)
    BY <1>3 DEF Operands, Kind, Definitions, Requests
  <2> QED
    BY <1>4, <2>1, OperandFacts, OpFacts DEF Typing
<1> DEFINE h == WithAllocation(i)
<1>6. h \in Seq(Ops) /\ Len(h) = 2 /\ h[1] = q /\ h[2] = i
  <2> DEFINE s == Qubits(i)
             t == <<i>>
  <2>1. s \in Seq(Ops) /\ Len(s) = 1 /\ s[1] = q /\ t \in Seq(Ops) /\ Len(t) = 1 /\ t[1] = i
    BY <1>1, <1>2
  <2> HIDE DEF s, t
  <2>2. s \o t \in Seq(Ops) /\ Len(s \o t) = 2 /\ (s \o t)[1] = s[1] /\ (s \o t)[2] = t[1]
    BY <2>1, PairOf
  <2> QED
    BY <2>1, <2>2 DEF WithAllocation, s, t
<1> HIDE DEF h
<1>7. h # <<>> /\ Last(h) = i /\ \A k \in DOMAIN h : k = 1 \/ k = 2
  BY <1>6 DEF Last
<1>8. IsWork(i) /\ ~IsWork(q) /\ Kind(i) # "qalloc" /\ Kind(i) \in QuantumKinds /\ Kind(q) \in QuantumKinds /\ Kind(q) \notin Definitions
  BY <1>4 DEF IsWork, QuantumKinds, Definitions, Requests
<1>9. InSourceOrder(h) /\ OneKind(h)
  BY <1>5, <1>6, <1>7, <1>8 DEF InSourceOrder, OneKind
<1>10. AllocationFirst(h)
  BY <1>3, <1>6, <1>7, <1>8 DEF AllocationFirst
<1>11. Unbroken(h)
  <2> SUFFICES ASSUME NEW k \in DOMAIN h, NEW j \in Ops, IsWork(h[k]), h[k] < j, j < i PROVE FALSE
    BY <1>7 DEF Unbroken
  <2>1. h[k] = i /\ j \in Nat
    BY <1>6, <1>7, <1>8, OpFacts DEF Typing
  <2> QED
    BY <1>5, <2>1
<1>12. option.maxOps > 0 => Len(h) <= Limit
  BY <1>6, MaxOpsIsNat DEF Typing
<1>13. \A x \in ToSet(h) : IsWork(x) => x = i
  BY <1>6, <1>7, <1>8 DEF ToSet
<1>14. Formed(h)
  BY <1>6, <1>7, <1>8, <1>9, <1>10, <1>11, <1>12 DEF Formed
<1> QED
  BY <1>6, <1>7, <1>13, <1>14 DEF h

-----------------------------------------------------------------------------
(***************************************************************************)
(* The steps.                                                              *)
(***************************************************************************)
LEMMA SameForm ==
  ASSUME UNCHANGED <<source, option>>
  PROVE  /\ Typing' <=> Typing
         /\ Ungrouped' <=> Ungrouped
         /\ Ops' = Ops
         /\ Groupers' = Groupers
         /\ \A G, c : Groups(G, c)' <=> Groups(G, c)
         /\ \A g, b, c : Open(g, b, c)' <=> Open(g, b, c)
         /\ \A g : CallOf(g)' = CallOf(g)
         /\ \A g : Commit(g)' = Commit(g)
<1>1. /\ Ops' = Ops /\ \A i : Kind(i)' = Kind(i) /\ Qubits(i)' = Qubits(i) /\ BlockOf(i)' = BlockOf(i)
  BY DEF Ops, Kind, Qubits, BlockOf
<1>2. \A g : Formed(g)' <=> Formed(g)
  BY <1>1 DEF Formed, IsWork, InSourceOrder, AllocationFirst, OneKind, Unbroken, Limit
<1>3. \A G, c : Groups(G, c)' <=> Groups(G, c)
  BY <1>1, <1>2 DEF Groups, IsWork
<1>4. \A g, b, c : Open(g, b, c)' <=> Open(g, b, c)
  BY <1>1 DEF Open
<1>5. \A S : Arguments(S)' = Arguments(S) /\ Results(S)' = Results(S)
  BY <1>1 DEF Arguments, Results, HasResult, Users, UsedByExit
<1>6. \A g : CallOf(g)' = CallOf(g)
  BY <1>1, <1>5 DEF CallOf
<1> QED
  BY <1>1, <1>3, <1>4, <1>6 DEF Typing, Ungrouped, Groupers, Commit

\* The grouper when block b of operation i is entered.
LEMMA EnteredEffect ==
  ASSUME Typing, Ungrouped, Inner, NEW i \in Ops, Classifying(i)
  PROVE  /\ Entered(i) \in Groupers /\ Commit(Entered(i)).groups = All
         /\ Open(Entered(i), BlockOf(i), i)
<1>1. grouper \in Groupers /\ i = cursor
  BY DEF Inner, Stages, Classifying
<1>2. CASE Entered(i) = Commit(grouper)
  BY <1>1, <1>2, CommitEffect DEF All, Open
<1>3. CASE Entered(i) = grouper /\ current \in {NoBlock, BlockOf(i)}
  <2>1. Open(grouper, current, i)
    BY <1>1 DEF Inner, Grouping
  <2>2. CASE grouper.active = <<>>
    BY <1>1, <1>3, <2>2 DEF All, Open
  <2>3. CASE grouper.active # <<>>
    <3>1. Last(grouper.active) \in Ops
      BY <1>1, <2>3 DEF Groupers, Last
    <3>2. current # NoBlock
      BY <2>1, <2>3, <3>1, OpFacts DEF Open, Typing, NoBlock
    <3> QED
      BY <1>1, <1>3, <2>1, <3>2 DEF All
  <2> QED
    BY <2>2, <2>3
<1> QED
  BY <1>2, <1>3 DEF Entered, BlockOf

(***************************************************************************)
(* What a step of the classifier has to establish for the next operation.  *)
(***************************************************************************)
LEMMA ClassifiedKeepsInner ==
  ASSUME Typing, Ungrouped, Inner, NEW i \in Ops, i = cursor, stage \in {"simple", "classify"},
         UNCHANGED <<source, option, stage, pending, calls>>, cursor' = i + 1,
         NEW g \in Groupers, grouper' = g, NEW b, current' = b,
         Groups(Commit(g).groups, i + 1), Open(g, b, i + 1), stage = "simple" => g.active = <<>>
  PROVE  Inner'
<1>1. /\ Groups(Commit(g).groups, i + 1)' /\ Open(g, b, i + 1)' /\ Groupers' = Groupers
      /\ Commit(g)' = Commit(g)
  BY SameForm
<1>2. Grouping'
  BY <1>1 DEF Grouping, All
<1>3. cursor' \in Nat \ {0}
  BY DEF Inner, Stages
<1>4. Stages'
  BY <1>1, <1>3 DEF Inner, Stages
<1>5. Outlined'
  BY SameForm DEF Inner, Stages, Outlined
<1> QED
  BY <1>2, <1>4, <1>5 DEF Inner

LEMMA LeaveInBodyKeeps ==
  ASSUME Typing, Ungrouped, Inner, NEW i \in Ops, LeaveInBody(i)
  PROVE  Inner'
<1> DEFINE g == Entered(i)
<1>1. /\ g \in Groupers /\ Commit(g).groups = All /\ Open(g, BlockOf(i), i)
      /\ i = cursor /\ i \in Nat /\ stage = "classify" /\ ~option.simple
  BY EnteredEffect, OpFacts DEF LeaveInBody, Classifying, Inner, Stages, Typing
<1>2. grouper' = g /\ cursor' = i + 1 /\ current' = BlockOf(i)
      /\ UNCHANGED <<source, option, stage, pending, calls>>
  BY DEF LeaveInBody, Classified, BlockOf
<1>3. Kind(i) \in StayKinds /\ ~IsWork(i)
  BY <1>1 DEF LeaveInBody, Stays, Ungrouped, StayKinds, IsWork, QuantumKinds, Definitions, Requests
<1> HIDE DEF g
<1>4. Groups(Commit(g).groups, i + 1)
  BY <1>1, <1>3, StayingKeepsGroups DEF Inner, Grouping, Typing
<1>5. Open(g, BlockOf(i), i + 1)
  <2>1. \A j \in Ops : j < i + 1 => j < i \/ j = i
    BY <1>1, OpFacts DEF Typing
  <2> QED
    BY <1>1, <1>3, <2>1 DEF Open
<1> QED
  BY <1>1, <1>2, <1>4, <1>5, ClassifiedKeepsInner

LEMMA BarrierKeeps ==
  ASSUME Typing, Ungrouped, Inner, NEW i \in Ops, Barrier(i)
  PROVE  Inner'
<1> DEFINE g == Commit(Entered(i))
<1>1. Entered(i) \in Groupers /\ Commit(Entered(i)).groups = All
      /\ i = cursor /\ i \in Nat /\ stage = "classify"
  BY EnteredEffect, OpFacts DEF Barrier, Classifying, Typing
<1>2. grouper' = g /\ cursor' = i + 1 /\ current' = BlockOf(i)
      /\ UNCHANGED <<source, option, stage, pending, calls>>
  BY DEF Barrier, Classified, BlockOf
<1>3. g \in Groupers /\ g.active = <<>> /\ Commit(g).groups = All
  BY <1>1, CommitEffect
<1>4. ~IsWork(i)
  BY DEF Barrier, IsWork, QuantumKinds, Definitions, Requests
<1> HIDE DEF g
<1>5. Groups(Commit(g).groups, i + 1)
  BY <1>1, <1>3, <1>4, StayingKeepsGroups DEF Inner, Grouping, Typing
<1>6. Open(g, BlockOf(i), i + 1)
  BY <1>3 DEF Open
<1> QED
  BY <1>1, <1>2, <1>3, <1>5, <1>6, ClassifiedKeepsInner

LEMMA DefineQubitKeeps ==
  ASSUME Typing, Ungrouped, Inner, NEW i \in Ops, DefineQubit(i)
  PROVE  Inner'
<1> DEFINE h == WithAllocation(i)
           d == NewGroup(Entered(i), Qubits(i), h)
           g == IF Kind(i) \in Requests THEN Commit(d) ELSE d
<1>1. Entered(i) \in Groupers /\ Commit(Entered(i)).groups = All
      /\ i = cursor /\ i \in Nat /\ stage = "classify" /\ Qubits(i) \in Seq(Ops)
  BY EnteredEffect, OpFacts DEF DefineQubit, Classifying, Typing
<1>2. grouper' = g /\ cursor' = i + 1 /\ current' = BlockOf(i)
      /\ UNCHANGED <<source, option, stage, pending, calls>>
  BY DEF DefineQubit, Classified, BlockOf
<1>3. h \in Seq(Ops) /\ h # <<>> /\ Formed(h) /\ Last(h) = i /\ \A x \in ToSet(h) : IsWork(x) => x = i
  BY DefinitionIsFormed DEF DefineQubit
<1> HIDE DEF h
<1>4. d \in Groupers /\ d.groups = All /\ d.active = h /\ d.id = Qubits(i)
  BY <1>1, <1>3, NewGroupEffect
<1> HIDE DEF d
<1>5. /\ g \in Groupers /\ Commit(g).groups = Append(All, h)
      /\ g.active = <<>> \/ (g = d /\ Kind(i) \notin Requests)
  BY <1>3, <1>4, CommitEffect
<1> HIDE DEF g
<1>6. Groups(All, i)
  BY <1>1 DEF Inner, Grouping
<1>7. Groups(Commit(g).groups, i + 1)
  BY <1>3, <1>5, <1>6, NewGroupIsInTurn DEF Typing
<1>8. Open(g, BlockOf(i), i + 1)
  <2>1. \A j \in Ops : ~(i < j /\ j < i + 1)
    BY <1>1, OpFacts DEF Typing
  <2> QED
    BY <1>3, <1>4, <1>5, <2>1 DEF Open
<1> QED
  BY <1>1, <1>2, <1>5, <1>7, <1>8, ClassifiedKeepsInner

LEMMA OperateKeeps ==
  ASSUME Typing, Ungrouped, Inner, NEW i \in Ops, Operate(i)
  PROVE  Inner'
<1> DEFINE e == Entered(i)
           g == AddOperation(e, i)
<1>1. e \in Groupers /\ Commit(e).groups = All /\ Open(e, BlockOf(i), i)
      /\ i = cursor /\ i \in Nat /\ stage = "classify" /\ Qubits(i) \in Seq(Ops)
  BY EnteredEffect, OpFacts DEF Operate, Classifying, Typing
<1>2. grouper' = g /\ cursor' = i + 1 /\ current' = BlockOf(i)
      /\ UNCHANGED <<source, option, stage, pending, calls>>
  BY DEF Operate, Classified, BlockOf
<1>3. Kind(i) \in {"gate", "measure"} /\ Kind(i) \notin Requests
  BY DEF Operate, Requests
<1> HIDE DEF e
<1>4. /\ g \in Groupers /\ g.id = Qubits(i)
      /\ \/ g.groups = Commit(e).groups /\ g.active = <<i>>
         \/ /\ g.groups = e.groups /\ g.active = Append(e.active, i)
            /\ e.active # <<>> /\ e.id = Qubits(i)
            /\ option.maxOps > 0 => Len(e.active) + 1 <= option.maxOps
  BY <1>1, AddEffect, MaxOpsIsNat DEF Typing
<1> HIDE DEF g
<1>5. Groups(All, i)
  BY <1>1 DEF Inner, Grouping
<1>6. \A j \in Ops : ~(i < j /\ j < i + 1)
  BY <1>1, OpFacts DEF Typing
<1>7. CASE g.groups = Commit(e).groups /\ g.active = <<i>>
  <2> DEFINE h == <<i>>
  <2>1. h \in Seq(Ops) /\ Formed(h) /\ Last(h) = i /\ h # <<>> /\ \A x \in ToSet(h) : x = i
    BY <1>3, SingleIsFormed DEF Formed
  <2>2. g.active = h
    BY <1>7
  <2> HIDE DEF h
  <2>3. Commit(g).groups = Append(All, h)
    BY <1>1, <1>4, <1>7, <2>1, <2>2, CommitEffect
  <2>4. Groups(Commit(g).groups, i + 1)
    BY <1>5, <2>1, <2>3, NewGroupIsInTurn DEF Typing
  <2>5. Open(g, BlockOf(i), i + 1)
    BY <1>3, <1>4, <1>6, <2>1, <2>2 DEF Open
  <2> QED
    BY <1>1, <1>2, <1>4, <2>4, <2>5, ClassifiedKeepsInner
<1>8. CASE /\ g.groups = e.groups /\ g.active = Append(e.active, i)
           /\ e.active # <<>> /\ e.id = Qubits(i)
           /\ option.maxOps > 0 => Len(e.active) + 1 <= option.maxOps
  <2> DEFINE a == e.active
             h == Append(a, i)
  <2>1. a \in Seq(Ops) /\ e.groups \in Seq(Seq(Ops)) /\ a # <<>> /\ All = Append(e.groups, a)
    BY <1>1, <1>8, CommitEffect DEF Groupers
  <2>2. g.active = h
    BY <1>8
  <2> HIDE DEF a
  <2>3. Formed(a) /\ Last(a) < i
    <3>1. All[Len(e.groups) + 1] = a /\ Len(e.groups) + 1 \in DOMAIN All
      BY <2>1, AlmostAll
    <3> QED
      BY <1>5, <3>1 DEF Groups
  <2>4. option.maxOps > 0 => Len(a) + 1 <= Limit
    <3>1. Len(a) \in Nat
      BY <2>1
    <3> QED
      BY <1>8, <3>1, MaxOpsIsNat DEF Typing, a
  <2>5. /\ Qubits(i) = Qubits(Last(a)) /\ BlockOf(i) = BlockOf(Last(a)) /\ Kind(Last(a)) \notin Requests
        /\ \A j \in Ops : Last(a) < j /\ j < i => Kind(j) \in StayKinds
    BY <1>1, <1>8 DEF Open, a
  <2>6. Formed(h) /\ Last(h) = i /\ ToSet(h) = ToSet(a) \cup {i}
    BY <1>3, <2>3, <2>4, <2>5, ExtendedIsFormed DEF Typing
  <2>7. Groups(Append(e.groups, h), i + 1)
    BY <1>5, <2>1, <2>6, ExtendingKeepsGroups DEF Typing
  <2>8. h # <<>>
    BY <2>6 DEF Formed
  <2> HIDE DEF h
  <2>9. Commit(g).groups = Append(e.groups, h)
    BY <1>4, <1>8, <2>2, <2>8, CommitEffect
  <2>10. Open(g, BlockOf(i), i + 1)
    BY <1>3, <1>4, <1>6, <2>2, <2>6 DEF Open
  <2> QED
    BY <1>1, <1>2, <1>4, <2>7, <2>9, <2>10, ClassifiedKeepsInner
<1> QED
  BY <1>4, <1>7, <1>8

LEMMA ClassifyAloneKeeps ==
  ASSUME Typing, Ungrouped, Inner, NEW i \in Ops, ClassifyAlone(i)
  PROVE  Inner'
<1>1. /\ grouper \in Groupers /\ grouper.active = <<>> /\ Commit(grouper) = grouper /\ All = grouper.groups
      /\ i = cursor /\ i \in Nat /\ stage = "simple" /\ Groups(grouper.groups, i)
      /\ grouper.groups \in Seq(Seq(Ops))
  BY CommitEffect, OpFacts DEF ClassifyAlone, Inner, Stages, Grouping, All, Typing, Groupers
<1>2. cursor' = i + 1 /\ current' = current /\ UNCHANGED <<source, option, stage, pending, calls>>
  BY DEF ClassifyAlone
<1>3. ASSUME NEW h \in Seq(Ops), Formed(h), Last(h) = i, \A x \in ToSet(h) : IsWork(x) => x = i,
             grouper' = [grouper EXCEPT !.groups = Append(@, h)]
      PROVE  Inner'
  <2> DEFINE g == [grouper EXCEPT !.groups = Append(@, h)]
  <2>1. Append(grouper.groups, h) \in Seq(Seq(Ops))
    BY <1>1, AlmostAll
  <2>2. g \in Groupers /\ g.active = <<>> /\ g.groups = Append(grouper.groups, h)
    BY <1>1, <2>1 DEF Groupers
  <2>3. grouper' = g
    BY <1>3
  <2> HIDE DEF g
  <2>4. Commit(g).groups = Append(grouper.groups, h)
    BY <2>2, CommitEffect
  <2>5. Groups(Commit(g).groups, i + 1)
    BY <1>1, <1>3, <2>4, NewGroupIsInTurn DEF Typing
  <2>6. Open(g, current, i + 1)
    BY <2>2 DEF Open
  <2> QED
    BY <1>1, <1>2, <2>2, <2>3, <2>5, <2>6, ClassifiedKeepsInner
<1>4. ASSUME ~IsWork(i), grouper' = grouper
      PROVE  Inner'
  <2>1. Groups(Commit(grouper).groups, i + 1)
    BY <1>1, <1>4, StayingKeepsGroups DEF Typing
  <2>2. Open(grouper, current, i + 1)
    BY <1>1 DEF Open
  <2> QED
    BY <1>1, <1>2, <1>4, <2>1, <2>2, ClassifiedKeepsInner
<1>5. CASE DeclareAlone(i)
  BY <1>4, <1>5 DEF DeclareAlone, IsWork
<1>6. CASE DefineAlone(i)
  BY <1>3, <1>6, DefinitionIsFormed DEF DefineAlone
<1>7. CASE OperateAlone(i)
  BY <1>3, <1>7, SingleIsFormed DEF OperateAlone
<1>8. CASE StayAlone(i)
  BY <1>4, <1>8 DEF StayAlone, IsWork
<1> QED
  BY <1>5, <1>6, <1>7, <1>8 DEF ClassifyAlone

LEMMA StagesKeep ==
  ASSUME Typing, Ungrouped, Inner, RegisterQubits \/ GroupRequests \/ BeginClassify \/ EndClassify
  PROVE  Inner'
<1>1. UNCHANGED <<source, option>>
  BY DEF RegisterQubits, GroupRequests, BeginClassify, EndClassify
<1>2. \A G, c : Groups(G, c)' <=> Groups(G, c)
  BY <1>1, SameForm
<1>3. \A g, b, c : Open(g, b, c)' <=> Open(g, b, c)
  BY <1>1, SameForm
<1>4. Ops' = Ops /\ Groupers' = Groupers /\ (\A g : CallOf(g)' = CallOf(g)) /\ \A g : Commit(g)' = Commit(g)
  BY <1>1, SameForm
<1>5. ~GroupRequests
  BY DEF GroupRequests, Inner, Stages
<1>6. CASE RegisterQubits \/ BeginClassify
  <2>1. UNCHANGED <<cursor, current, grouper, calls>>
    BY <1>6 DEF RegisterQubits, BeginClassify
  <2>2. Grouping'
    BY <1>2, <1>3, <1>4, <2>1 DEF Inner, Grouping, All
  <2>3. /\ pending' = {} /\ stage \in {"register", "requests"} /\ stage' \in {"requests", "classify"}
        /\ stage' = "requests" => stage = "register"
    BY <1>6 DEF RegisterQubits, BeginClassify, Inner, Stages, Ungrouped
  <2>4. Stages'
    BY <1>1, <1>4, <2>1, <2>3 DEF Inner, Stages
  <2>5. Outlined'
    BY <1>4, <2>1, <2>3 DEF Inner, Outlined
  <2> QED
    BY <2>2, <2>4, <2>5 DEF Inner
<1>7. CASE EndClassify
  <2>1. /\ UNCHANGED <<pending, cursor, current, calls>> /\ grouper' = Commit(grouper)
        /\ stage \in {"classify", "simple"} /\ stage' = "outline" /\ cursor \notin Ops /\ grouper \in Groupers
    BY <1>7 DEF EndClassify, Inner, Stages
  <2>2. /\ Commit(grouper) \in Groupers /\ Commit(grouper).active = <<>>
        /\ Commit(Commit(grouper)).groups = Commit(grouper).groups
    BY <2>1, CommitEffect
  <2>3. All' = All
    BY <1>4, <2>1, <2>2 DEF All
  <2>4. Groups(All, cursor)
    BY DEF Inner, Grouping
  <2>5. Open(grouper, current, cursor)'
    BY <2>1, <2>2 DEF Open
  <2>6. Grouping'
    BY <1>2, <2>1, <2>3, <2>4, <2>5 DEF Grouping
  <2>7. Stages'
    BY <1>1, <1>4, <2>1, <2>2 DEF Inner, Stages
  <2>8. calls = <<>> /\ calls \in Seq({CallOf(g) : g \in Seq(Ops)}) /\ DOMAIN <<>> = {} /\ Len(<<>>) = 0
    BY <2>1 DEF Inner, Outlined
  <2>9. Len(grouper'.groups) \in Nat
    BY <2>1, <2>2 DEF Groupers
  <2>10. Outlined'
    BY <1>4, <2>1, <2>8, <2>9 DEF Outlined
  <2> QED
    BY <2>6, <2>7, <2>10 DEF Inner
<1> QED
  BY <1>5, <1>6, <1>7

LEMMA OutliningKeeps ==
  ASSUME Typing, Ungrouped, Inner, Outline \/ EndOutline
  PROVE  Inner'
<1>1. UNCHANGED <<source, option, declared, pending, cursor, current, grouper>>
  BY DEF Outline, EndOutline
<1>2. /\ Ops' = Ops /\ Groupers' = Groupers /\ (\A g : CallOf(g)' = CallOf(g)) /\ (\A g : Commit(g)' = Commit(g))
  BY <1>1, SameForm
<1>3. Grouping'
  <2>1. \A G, c : Groups(G, c)' <=> Groups(G, c)
    BY <1>1, SameForm
  <2>2. \A g, b, c : Open(g, b, c)' <=> Open(g, b, c)
    BY <1>1, SameForm
  <2> QED
    BY <1>1, <1>2, <2>1, <2>2 DEF Inner, Grouping, All
<1>4. stage = "outline" /\ stage' \in {"outline", "done"}
  BY DEF Outline, EndOutline
<1>5. Stages'
  BY <1>1, <1>2, <1>4 DEF Inner, Stages
<1>6. /\ grouper.groups \in Seq(Seq(Ops)) /\ Len(grouper.groups) \in Nat
      /\ DOMAIN grouper.groups = 1 .. Len(grouper.groups)
      /\ \A n \in DOMAIN grouper.groups : grouper.groups[n] \in Seq(Ops)
  BY DEF Inner, Stages, Groupers
<1> DEFINE S == {CallOf(g) : g \in Seq(Ops)}
<1>7. S' = S
  BY <1>2
<1>8. ASSUME EndOutline PROVE Outlined'
  BY <1>1, <1>2, <1>4, <1>8 DEF EndOutline, Inner, Outlined
<1>9. ASSUME Outline PROVE Outlined'
  <2> DEFINE z == Len(calls) + 1
             new == CallOf(grouper.groups[z])
  <2>1. calls \in Seq(S) /\ Len(calls) \in Nat /\ Len(calls) < Len(grouper.groups)
        /\ \A c \in DOMAIN calls : calls[c] = CallOf(grouper.groups[c])
    BY <1>9 DEF Outline, Inner, Outlined
  <2>2. z \in DOMAIN grouper.groups
    BY <1>6, <2>1
  <2>3. new \in S
    BY <1>6, <2>2
  <2>4. calls' = Append(calls, new) /\ stage' = "outline"
    BY <1>9 DEF Outline
  <2> HIDE DEF S, new
  <2>5. /\ Append(calls, new) \in Seq(S) /\ DOMAIN Append(calls, new) = DOMAIN calls \cup {z}
        /\ Append(calls, new)[z] = new /\ \A c \in DOMAIN calls : Append(calls, new)[c] = calls[c]
    BY <2>1, <2>3, AlmostAll
  <2>6. Len(Append(calls, new)) = z
    BY <2>1, <2>3
  <2>7. \A c \in DOMAIN calls' : calls'[c] = CallOf(grouper.groups[c])
    BY <2>1, <2>4, <2>5 DEF new
  <2>8. Len(calls') <= Len(grouper.groups)
    BY <1>6, <2>1, <2>4, <2>6
  <2>9. calls' \in Seq(S)'
    BY <1>7, <2>4, <2>5
  <2> QED
    BY <1>1, <1>2, <2>4, <2>7, <2>8, <2>9 DEF Outlined, S
<1>10. Outlined'
  BY <1>8, <1>9
<1> QED
  BY <1>3, <1>5, <1>10 DEF Inner

(***************************************************************************)
(* The inductive invariant: the groups are well formed at every moment of  *)
(* the pass, and the calls are those of the first groups.                  *)
(***************************************************************************)
LEMMA InitInner == LoweringInit => IInv
<1> SUFFICES ASSUME LoweringInit PROVE Typing /\ (Ungrouped => Inner)
  BY DEF IInv
<1>1. Typing
  BY DEF LoweringInit, Init, Typing
<1>2. grouper = NoGroup /\ calls = <<>> /\ cursor = 1 /\ current = NoBlock /\ pending = {}
      /\ stage = IF option.simple THEN "simple" ELSE "register"
  BY DEF LoweringInit, Init
<1>3. /\ grouper \in Groupers /\ grouper.active = <<>> /\ All = <<>>
      /\ DOMAIN <<>> = {} /\ Len(<<>>) = 0 /\ <<>> \in Seq(Seq(Ops)) /\ grouper.groups = <<>>
  BY <1>2 DEF NoGroup, Groupers, All, Commit
<1>4. option.simple \in BOOLEAN
  BY <1>1, OptionsAssumption DEF Typing
<1>5. Stages
  BY <1>2, <1>3, <1>4 DEF Stages
<1>6. Groups(All, cursor)
  <2>1. \A i \in Ops : ~(i < 1)
    BY <1>1, OpFacts DEF Typing
  <2> QED
    BY <1>2, <1>3, <2>1 DEF Groups
<1>7. Open(grouper, current, cursor)
  BY <1>3 DEF Open
<1>8. Outlined
  BY <1>2, <1>3 DEF Outlined
<1> QED
  BY <1>1, <1>5, <1>6, <1>7, <1>8 DEF Inner, Grouping

LEMMA InnerKept == IInv /\ [LoweringNext]_vars => IInv'
<1> SUFFICES ASSUME IInv, [LoweringNext]_vars PROVE IInv'
  OBVIOUS
<1>1. CASE UNCHANGED fvars
  <2>1. UNCHANGED <<source, option>>
    BY <1>1 DEF fvars
  <2>2. /\ (Typing' <=> Typing) /\ (Ungrouped' <=> Ungrouped) /\ Ops' = Ops /\ Groupers' = Groupers
        /\ (\A g : CallOf(g)' = CallOf(g)) /\ (\A g : Commit(g)' = Commit(g))
    BY <2>1, SameForm
  <2>3. \A G, c : Groups(G, c)' <=> Groups(G, c)
    BY <2>1, SameForm
  <2>4. \A g, b, c : Open(g, b, c)' <=> Open(g, b, c)
    BY <2>1, SameForm
  <2>5. Grouping' <=> Grouping
    BY <1>1, <2>2, <2>3, <2>4 DEF Grouping, All, fvars
  <2>6. Stages' <=> Stages
    BY <1>1, <2>2 DEF Stages, fvars
  <2>7. Outlined' <=> Outlined
    BY <1>1, <2>2 DEF Outlined, fvars
  <2> QED
    BY <2>2, <2>5, <2>6, <2>7 DEF IInv, Inner
<1>2. CASE Next
  <2>1. UNCHANGED <<source, option>>
    BY <1>2 DEF Next, RegisterQubits, GroupRequests, BeginClassify, Classify, EndClassify, Outline, EndOutline,
                LeaveInBody, Barrier, DefineQubit, Operate, ClassifyAlone, Classified
  <2>2. (Typing' <=> Typing) /\ (Ungrouped' <=> Ungrouped)
    BY <2>1, SameForm
  <2> SUFFICES ASSUME Typing, Ungrouped, Inner PROVE Inner'
    BY <2>2 DEF IInv
  <2>3. CASE Classify
    BY <2>3, LeaveInBodyKeeps, BarrierKeeps, DefineQubitKeeps, OperateKeeps, ClassifyAloneKeeps DEF Classify
  <2> QED
    BY <1>2, <2>3, StagesKeep, OutliningKeeps DEF Next
<1>3. CASE BeginIsolation \/ IsolateOp \/ MarkCalls \/ CreateNewEmptyFirstBlock
           \/ AddRemoteIDs \/ GroupEntanglementBlocksFirst
  BY <1>1, <1>3 DEF BeginIsolation, IsolateOp, MarkCalls, CreateNewEmptyFirstBlock, AddRemoteIDs,
                    GroupEntanglementBlocksFirst
<1>4. CASE UNCHANGED vars
  BY <1>1, <1>4 DEF vars, fvars
<1> QED
  BY <1>2, <1>3, <1>4 DEF LoweringNext

LEMMA AlwaysInner == LoweringSpec => []IInv
  BY InitInner, InnerKept, PTL DEF LoweringSpec

-----------------------------------------------------------------------------
(***************************************************************************)
(* What the invariant says of the calls.                                   *)
(***************************************************************************)
\* No operation is in two groups.
LEMMA GroupsAreDisjoint ==
  ASSUME source \in Sources, NEW G, NEW c, Groups(G, c), NEW m \in DOMAIN G, NEW n \in DOMAIN G, m < n,
         NEW i \in ToSet(G[m]), i \in ToSet(G[n])
  PROVE  FALSE
<1>1. Formed(G[m]) /\ Formed(G[n])
      /\ \A x \in ToSet(G[m]), y \in ToSet(G[n]) : IsWork(x) /\ IsWork(y) => x < y
  BY DEF Groups
<1>2. ASSUME NEW x \in ToSet(G[m]), x \in ToSet(G[n]), IsWork(x) PROVE FALSE
  <2>1. x \in Nat
    BY <1>1, LastIsGreatest, OpFacts
  <2> QED
    BY <1>1, <1>2, <2>1
<1>3. i \in Ops /\ Kind(i) \in QuantumKinds
  BY <1>1, LastIsGreatest DEF Formed, ToSet
<1>4. CASE IsWork(i)
  BY <1>2, <1>4
<1>5. CASE Kind(i) = "qalloc"
  <2>1. ASSUME NEW g, Formed(g), i \in ToSet(g)
        PROVE  g[2] \in ToSet(g) /\ IsWork(g[2]) /\ g[2] \in DefiningOps(source, i)
    <3>1. Len(g) > 1 /\ Kind(g[2]) \in Definitions /\ i \in QubitsOf(source, g[2])
      BY <1>5, <2>1 DEF Formed, AllocationFirst, ToSet
    <3>2. g[2] \in ToSet(g) /\ g[2] \in Ops
      BY <2>1, <3>1, LastIsGreatest DEF ToSet
    <3> QED
      BY <3>1, <3>2 DEF IsWork, QuantumKinds, Definitions, Requests, DefiningOps, Ops, Kind
  <2>2. G[m][2] \in DefiningOps(source, i) /\ G[n][2] \in DefiningOps(source, i)
    BY <1>1, <2>1
  <2>3. i \in QubitsOf(source, i)
    BY <1>3, <1>5, OpFacts DEF ToSet
  <2>4. G[m][2] = G[n][2]
    BY <1>3, <2>2, <2>3, OneDefinition
  <2> QED
    BY <1>1, <1>2, <2>1, <2>4
<1> QED
  BY <1>3, <1>4, <1>5 DEF IsWork

LEMMA CallFacts ==
  ASSUME Typing, Inner, NEW c \in DOMAIN calls
  PROVE  /\ stage \in {"outline", "done"} /\ All = grouper.groups /\ c \in DOMAIN All /\ c \in Nat
         /\ calls[c].ops = All[c] /\ calls[c] = CallOf(All[c]) /\ Formed(calls[c].ops)
         /\ calls[c].args = Arguments(ToSet(calls[c].ops))
         /\ calls[c].results = Results(ToSet(calls[c].ops))
         /\ calls[c].entangle <=> \E i \in ToSet(calls[c].ops) : Kind(i) \in Requests
         /\ PlaceOf(calls[c]) = Last(calls[c].ops)
<1>1. calls \in Seq({CallOf(g) : g \in Seq(Ops)}) /\ Len(calls) <= Len(grouper.groups)
      /\ grouper.groups \in Seq(Seq(Ops)) /\ calls[c] = CallOf(grouper.groups[c])
  BY DEF Inner, Outlined, Stages, Groupers
<1>2. c \in DOMAIN grouper.groups /\ c \in Nat /\ calls # <<>>
  BY <1>1
<1>3. stage \in {"outline", "done"}
  BY <1>2 DEF Inner, Outlined
<1>4. All = grouper.groups
  BY <1>3 DEF Inner, Stages, All, Commit
<1>5. Formed(All[c])
  BY <1>2, <1>4 DEF Inner, Grouping, Groups
<1> QED
  BY <1>1, <1>2, <1>3, <1>4, <1>5 DEF CallOf, PlaceOf

LEMMA PlaceFacts ==
  ASSUME Typing, Inner, NEW i \in Ops
  PROVE  /\ Place(i) \in Ops /\ i <= Place(i) /\ i \in Nat /\ Place(i) \in Nat
         /\ CallsWith(i) = {} => Place(i) = i
         /\ \A c \in CallsWith(i) :
              CallsWith(i) = {c} /\ c \in DOMAIN calls /\ i \in ToSet(calls[c].ops) /\ Place(i) = Last(calls[c].ops)
<1>1. i \in Nat
  BY OpFacts DEF Typing
<1>2. CASE CallsWith(i) = {}
  BY <1>1, <1>2 DEF Place
<1>3. ASSUME NEW c \in CallsWith(i)
      PROVE  /\ CallsWith(i) = {c} /\ c \in DOMAIN calls /\ i \in ToSet(calls[c].ops) /\ Place(i) = Last(calls[c].ops)
             /\ Place(i) \in Ops /\ i <= Place(i)
  <2>1. c \in DOMAIN calls /\ i \in ToSet(calls[c].ops)
    BY <1>3 DEF CallsWith
  <2>2. ASSUME NEW d \in CallsWith(i) PROVE d = c
    <3>1. d \in DOMAIN calls /\ i \in ToSet(calls[d].ops)
      BY <2>2 DEF CallsWith
    <3>2. c \in DOMAIN All /\ d \in DOMAIN All /\ i \in ToSet(All[c]) /\ i \in ToSet(All[d]) /\ c \in Nat /\ d \in Nat
      BY <2>1, <3>1, CallFacts
    <3>3. Groups(All, cursor) /\ source \in Sources
      BY DEF Inner, Grouping, Typing
    <3>4. ~(c < d) /\ ~(d < c)
      BY <3>2, <3>3, GroupsAreDisjoint
    <3> QED
      BY <3>2, <3>4
  <2>3. CallsWith(i) = {c}
    BY <2>2, <1>3
  <2>4. Place(i) = Last(calls[c].ops)
    BY <2>1, <2>3, CallFacts DEF Place
  <2>5. Formed(calls[c].ops)
    BY <2>1, CallFacts
  <2> QED
    BY <2>1, <2>3, <2>4, <2>5, LastIsGreatest DEF Typing
<1>4. CASE CallsWith(i) # {}
  <2>1. PICK c : c \in CallsWith(i)
    BY <1>4
  <2>2. Place(i) \in Ops /\ i <= Place(i)
    BY <1>3, <2>1
  <2>3. Place(i) \in Nat
    BY <2>2, OpFacts DEF Typing
  <2> QED
    BY <1>1, <1>3, <1>4, <2>2, <2>3
<1> QED
  BY <1>2, <1>4

LEMMA WithinFacts ==
  ASSUME NEW c \in DOMAIN calls, NEW i \in ToSet(calls[c].ops)
  PROVE  Within(i, calls[c]) \in DOMAIN calls[c].ops /\ calls[c].ops[Within(i, calls[c])] = i
  BY DEF Within, ToSet

LEMMA SameCallSameOrder ==
  ASSUME Typing, Inner, NEW c \in DOMAIN calls,
         NEW i \in ToSet(calls[c].ops), NEW j \in ToSet(calls[c].ops), i < j
  PROVE  Within(i, calls[c]) < Within(j, calls[c])
<1>1. Formed(calls[c].ops)
  BY CallFacts
<1> QED
  BY <1>1, WithinFacts, SameGroupSameOrder DEF Typing

-----------------------------------------------------------------------------
(***************************************************************************)
(* Two operations on a common qubit, or one that reads what the other      *)
(* makes, keep their order, whatever was outlined already.                 *)
(***************************************************************************)
LEMMA InnerKeepsOrder ==
  ASSUME Typing, Inner, NEW i \in Ops, NEW j \in Ops, i < j, Related(i, j)
  PROVE  Precedes(i, j)
<1>1. Place(j) \in Nat /\ j <= Place(j) /\ i \in Nat /\ j \in Nat /\ Place(i) \in Nat
  BY PlaceFacts
<1>2. CASE CallsWith(i) = {}
  BY <1>1, <1>2, PlaceFacts DEF Precedes
<1>3. ASSUME NEW c \in CallsWith(i) PROVE Precedes(i, j)
  <2>1. c \in DOMAIN calls /\ i \in ToSet(calls[c].ops) /\ Place(i) = Last(calls[c].ops) /\ Formed(calls[c].ops)
    BY <1>3, PlaceFacts, CallFacts
  <2>2. CASE j \in ToSet(calls[c].ops)
    <3>1. c \in CallsWith(j)
      BY <2>1, <2>2 DEF CallsWith
    <3> QED
      BY <1>3, <2>1, <2>2, <3>1, SameCallSameOrder DEF Precedes
  <2>3. CASE j \notin ToSet(calls[c].ops)
    <3>1. Last(calls[c].ops) < j
      BY <2>1, <2>3, FollowsGroup DEF Typing
    <3> QED
      BY <1>1, <2>1, <3>1 DEF Precedes
  <2> QED
    BY <2>2, <2>3
<1> QED
  BY <1>2, <1>3

THEOREM OrderIsKept == LoweringSpec => [](Ungrouped => OrderKept)
<1>1. IInv => (Ungrouped => OrderKept)
  BY InnerKeepsOrder DEF IInv, OrderKept, Related
<1> QED
  BY <1>1, AlwaysInner, PTL

-----------------------------------------------------------------------------
(***************************************************************************)
(* An operation outside the routine that makes its operand comes after the *)
(* call, on every path, and the routine returns the operand.               *)
(***************************************************************************)
LEMMA SameBlock ==
  ASSUME Typing, Inner, NEW c \in DOMAIN calls, NEW i \in ToSet(calls[c].ops), IsWork(i)
  PROVE  BlockOf(i) = BlockOf(Last(calls[c].ops))
<1>1. Formed(calls[c].ops)
  BY CallFacts
<1>2. PICK k \in DOMAIN calls[c].ops : i = calls[c].ops[k]
  BY DEF ToSet
<1>3. Last(calls[c].ops) = calls[c].ops[Len(calls[c].ops)] /\ Len(calls[c].ops) \in DOMAIN calls[c].ops
  BY <1>1, LastIsGreatest DEF Typing
<1> QED
  BY <1>1, <1>2, <1>3 DEF Formed, OneKind

LEMMA OperandDominates ==
  ASSUME Typing, Inner, NEW i \in Ops, NEW v \in Operands(source, i),
         NEW c \in CallsWith(v), i \notin ToSet(calls[c].ops)
  PROVE  Place(v) < i /\ Dominates(source, BlockOf(Place(v)), BlockOf(i))
<1> DEFINE g == calls[c].ops
<1>1. v \in Ops /\ v < i /\ Dominates(source, BlockOf(v), BlockOf(i)) /\ source \in Sources
  BY OperandFacts DEF Typing
<1>2. c \in DOMAIN calls /\ v \in ToSet(g) /\ Place(v) = Last(g) /\ Formed(g)
  BY <1>1, PlaceFacts, CallFacts
<1>3. \/ v \in source.ops[i].reads /\ Kind(v) \in Valued
      \/ v \in QubitsOf(source, i) /\ Kind(v) = "qalloc" /\ QubitsOf(source, v) = {v} /\ Kind(i) # "qalloc"
  <2>1. CASE v \in source.ops[i].reads
    BY <1>1, <2>1, OpFacts
  <2>2. CASE v \notin source.ops[i].reads
    <3>1. v \in QubitsOf(source, i) /\ Kind(i) # "qalloc"
      BY <2>2 DEF Operands, Kind
    <3>2. Kind(v) = "qalloc"
      BY <1>1, <3>1, OpFacts
    <3>3. QubitsOf(source, v) = {v}
      BY <1>1, <3>2, OpFacts DEF ToSet
    <3> QED
      BY <3>1, <3>2, <3>3
  <2> QED
    BY <2>1, <2>2
<1>4. Related(v, i)
  BY <1>3 DEF Related
<1>5. Last(g) < i
  BY <1>1, <1>2, <1>4, FollowsGroup
<1>6. Kind(v) \in QuantumKinds
  BY <1>2 DEF Formed, ToSet
<1>7. CASE IsWork(v)
  BY <1>1, <1>2, <1>5, <1>7, SameBlock
<1>8. CASE Kind(v) = "qalloc"
  <2> DEFINE d == g[2]
  <2>1. Len(g) > 1 /\ Kind(d) \in Definitions /\ v \in QubitsOf(source, d)
    BY <1>2, <1>8 DEF Formed, AllocationFirst, ToSet
  <2>2. d \in ToSet(g) /\ d \in Ops /\ IsWork(d)
    BY <1>2, <2>1, LastIsGreatest DEF ToSet, IsWork, QuantumKinds, Definitions, Requests, Typing
  <2> HIDE DEF d
  <2>3. d \in DefiningOps(source, v)
    BY <2>1, <2>2 DEF DefiningOps, Ops, Kind
  <2>4. v \in QubitsOf(source, i) /\ Kind(i) # "qalloc"
    BY <1>3, <1>8 DEF Valued
  <2>5. Kind(i) \notin Definitions
    <3> SUFFICES ASSUME Kind(i) \in Definitions PROVE FALSE
      OBVIOUS
    <3>1. i \in DefiningOps(source, v)
      BY <2>4 DEF DefiningOps, Ops, Kind
    <3>2. i = d
      BY <1>1, <2>3, <2>4, <3>1, OneDefinition
    <3> QED
      BY <2>2, <3>2
  <2>6. Dominates(source, BlockOf(d), BlockOf(i))
    BY <1>1, <2>3, <2>4, <2>5, OperandFacts
  <2>7. BlockOf(d) = BlockOf(Last(g))
    BY <1>2, <2>2, SameBlock
  <2> QED
    BY <1>2, <1>5, <2>6, <2>7
<1> QED
  BY <1>6, <1>7, <1>8 DEF IsWork

LEMMA OperandReaches ==
  ASSUME Typing, Inner, NEW i \in Ops, NEW v \in Operands(source, i),
         \A c \in CallsWith(v) : i \notin ToSet(calls[c].ops)
  PROVE  Reaches(v, i, BlockOf(i))
<1>1. v \in Ops /\ v < i /\ Dominates(source, BlockOf(v), BlockOf(i))
  BY OperandFacts DEF Typing
<1>2. Place(v) < i /\ Dominates(source, BlockOf(Place(v)), BlockOf(i))
  <2>1. CASE CallsWith(v) = {}
    BY <1>1, <2>1, PlaceFacts
  <2>2. CASE CallsWith(v) # {}
    BY <2>2, OperandDominates
  <2> QED
    BY <2>1, <2>2
<1>3. ASSUME NEW c \in CallsWith(v) PROVE v \in calls[c].results
  <2>1. c \in DOMAIN calls /\ v \in ToSet(calls[c].ops)
    BY <1>3 DEF CallsWith
  <2>2. HasResult(v)
    BY <1>1, OpFacts DEF Operands, Valued, HasResult, Kind, Typing
  <2>3. i \in Users(v)
    BY DEF Users
  <2> QED
    BY <1>3, <2>1, <2>2, <2>3, CallFacts DEF Results
<1> QED
  BY <1>2, <1>3 DEF Reaches, BlockOf

LEMMA ArgumentReaches ==
  ASSUME Typing, Inner, NEW c \in DOMAIN calls, NEW v \in calls[c].args
  PROVE  Reaches(v, PlaceOf(calls[c]), BlockOf(PlaceOf(calls[c])))
<1> DEFINE g == calls[c].ops
<1>1. Formed(g) /\ PlaceOf(calls[c]) = Last(g) /\ calls[c].args = Arguments(ToSet(g)) /\ source \in Sources
  BY CallFacts DEF Typing
<1>2. PICK i \in ToSet(g) : v \in Operands(source, i)
  BY <1>1 DEF Arguments
<1>3. v \notin ToSet(g) /\ i \in Ops /\ i <= Last(g) /\ Last(g) \in Ops
  <2>1. v \notin ToSet(g)
    BY <1>1 DEF Arguments
  <2> HIDE DEF g
  <2> QED
    BY <1>1, <2>1, LastIsGreatest
<1>4. IsWork(i)
  <2>1. Kind(i) \in QuantumKinds
    BY <1>1 DEF Formed, ToSet
  <2>2. Kind(i) # "qalloc"
    BY <1>2, <1>3, OpFacts DEF Operands, Kind, Typing
  <2> QED
    BY <2>1, <2>2 DEF IsWork
<1>5. v \in Ops
  BY <1>1, <1>2, <1>3, OperandFacts
<1>6. ASSUME NEW d \in CallsWith(v) PROVE i \notin ToSet(calls[d].ops)
  <2> SUFFICES ASSUME i \in ToSet(calls[d].ops) PROVE FALSE
    OBVIOUS
  <2>1. d \in DOMAIN calls /\ v \in ToSet(calls[d].ops)
    BY <1>6 DEF CallsWith
  <2>2. c \in CallsWith(i) /\ d \in CallsWith(i)
    BY <2>1 DEF CallsWith
  <2>3. c = d
    BY <1>3, <2>2, PlaceFacts
  <2> QED
    BY <1>3, <2>1, <2>3
<1>7. Reaches(v, i, BlockOf(i))
  BY <1>2, <1>3, <1>6, OperandReaches
<1>8. BlockOf(i) = BlockOf(Last(g))
  BY <1>4, SameBlock
<1>9. i \in Nat /\ Last(g) \in Nat /\ Place(v) \in Nat
  BY <1>3, <1>5, PlaceFacts
<1>10. Place(v) < Last(g)
  <2>1. Place(v) < i
    BY <1>7 DEF Reaches
  <2> QED
    BY <1>3, <1>9, <2>1
<1> QED
  BY <1>1, <1>7, <1>8, <1>10 DEF Reaches

LEMMA OperandInside ==
  ASSUME Typing, Inner, NEW c \in DOMAIN calls, NEW i \in ToSet(calls[c].ops),
         NEW v \in Operands(source, i) \ calls[c].args
  PROVE  v \in ToSet(calls[c].ops) /\ Within(v, calls[c]) < Within(i, calls[c])
<1>1. Formed(calls[c].ops) /\ calls[c].args = Arguments(ToSet(calls[c].ops))
  BY CallFacts
<1>2. v \in ToSet(calls[c].ops)
  BY <1>1 DEF Arguments
<1>3. v < i
  BY <1>1, LastIsGreatest, OperandFacts DEF Typing
<1> QED
  BY <1>2, <1>3, SameCallSameOrder

LEMMA ExitReaches ==
  ASSUME Typing, Inner, NEW b \in 0 .. LastBlock(source), NEW v \in Exit(source, b).reads
  PROVE  Reaches(v, Len(source.ops) + 1, b)
<1>1. v \in Ops /\ Kind(v) \in Valued /\ Dominates(source, BlockOf(v), b)
  BY SourcesAssumption DEF IsSource, Typing, Ops, Kind, Available, BlockOf
<1>2. Place(v) < Len(source.ops) + 1
  <2>1. Place(v) \in Ops
    BY <1>1, PlaceFacts
  <2>2. Ops = 1 .. Len(source.ops) /\ Len(source.ops) \in Nat
    BY <1>1, OpFacts DEF Typing
  <2> QED
    BY <2>1, <2>2
<1>3. ASSUME NEW c \in CallsWith(v) PROVE BlockOf(Place(v)) = BlockOf(v) /\ v \in calls[c].results
  <2>1. c \in DOMAIN calls /\ v \in ToSet(calls[c].ops) /\ Place(v) = Last(calls[c].ops) /\ Formed(calls[c].ops)
    BY <1>1, <1>3, PlaceFacts, CallFacts
  <2>2. IsWork(v)
    BY <1>1, <2>1 DEF Formed, ToSet, IsWork, Valued
  <2>3. HasResult(v) /\ UsedByExit(v)
    BY <1>1 DEF HasResult, Valued, UsedByExit
  <2> QED
    BY <2>1, <2>2, <2>3, SameBlock, CallFacts DEF Results
<1>4. Dominates(source, BlockOf(Place(v)), b)
  <2>1. CASE CallsWith(v) = {}
    BY <1>1, <2>1, PlaceFacts
  <2>2. CASE CallsWith(v) # {}
    BY <1>1, <1>3, <2>2
  <2> QED
    BY <2>1, <2>2
<1> QED
  BY <1>2, <1>3, <1>4 DEF Reaches, BlockOf

(***************************************************************************)
(* Whatever was outlined, every operation, routine and terminator finds    *)
(* its operands on every path, and a routine returns what others read.     *)
(***************************************************************************)
THEOREM ValuesAreReached == LoweringSpec => [](Ungrouped => ValuesReach)
<1>1. ASSUME Typing, Inner PROVE OperandsReached
  <2>1. ASSUME NEW i \in Ops, CallsWith(i) = {}, NEW v \in Operands(source, i)
        PROVE  Reaches(v, i, BlockOf(i))
    <3>1. \A c \in CallsWith(v) : i \notin ToSet(calls[c].ops)
      BY <2>1 DEF CallsWith
    <3> QED
      BY <1>1, <3>1, OperandReaches
  <2>2. \A c \in DOMAIN calls : \A v \in calls[c].args :
          Reaches(v, PlaceOf(calls[c]), BlockOf(PlaceOf(calls[c])))
    BY <1>1, ArgumentReaches
  <2>3. \A c \in DOMAIN calls : \A i \in ToSet(calls[c].ops) : \A v \in Operands(source, i) \ calls[c].args :
          v \in ToSet(calls[c].ops) /\ Within(v, calls[c]) < Within(i, calls[c])
    BY <1>1, OperandInside
  <2>4. \A b \in 0 .. LastBlock(source) : \A v \in Exit(source, b).reads : Reaches(v, Len(source.ops) + 1, b)
    BY <1>1, ExitReaches
  <2> QED
    BY <2>1, <2>2, <2>3, <2>4 DEF OperandsReached
<1>2. IInv => (Ungrouped => ValuesReach)
  BY <1>1 DEF IInv, ValuesReach
<1> QED
  BY <1>2, AlwaysInner, PTL

-----------------------------------------------------------------------------
(***************************************************************************)
(* What bounds a routine.                                                  *)
(***************************************************************************)
LEMMA InnerHoldsBarriers ==
  ASSUME Typing, Inner, NEW r \in Ops, NEW i \in Ops, Kind(r) = "recv", IsWork(i)
  PROVE  i < r <=> Place(i) < r
<1>1. r \in Nat /\ i \in Nat /\ Place(i) \in Nat /\ i <= Place(i)
  BY PlaceFacts
<1>2. SUFFICES ASSUME i < r PROVE Place(i) < r
  BY <1>1
<1>3. CASE CallsWith(i) = {}
  BY <1>2, <1>3, PlaceFacts
<1>4. ASSUME NEW c \in CallsWith(i) PROVE Place(i) < r
  <2> DEFINE g == calls[c].ops
  <2>1. c \in DOMAIN calls /\ i \in ToSet(g) /\ Place(i) = Last(g) /\ Formed(g)
    BY <1>4, PlaceFacts, CallFacts
  <2> HIDE DEF g
  <2>2. r \notin ToSet(g)
    BY <2>1 DEF Formed, ToSet, QuantumKinds, Definitions, Requests
  <2>3. Last(g) \in ToSet(g)
    BY <2>1, LastIsGreatest DEF Typing
  <2>4. ~(r < Last(g))
    <3>1. Kind(r) \notin StayKinds
      BY DEF StayKinds
    <3>2. PICK k \in DOMAIN g : i = g[k]
      BY <2>1 DEF ToSet
    <3> QED
      BY <1>2, <2>1, <2>2, <3>1, <3>2 DEF Formed, Unbroken
  <2> QED
    BY <1>1, <2>1, <2>2, <2>3, <2>4
<1> QED
  BY <1>3, <1>4

\* Every quantum operation is in one of the groups, an allocation in that of its definition.
LEMMA EachInOneCall ==
  ASSUME Typing, Inner, stage = "done", NEW i \in Ops, Kind(i) \in QuantumKinds
  PROVE  Cardinality(CallsWith(i)) = 1
<1>1. Groups(All, cursor) /\ cursor \in Nat /\ cursor \notin Ops /\ cursor # 0
      /\ Len(calls) = Len(grouper.groups) /\ All = grouper.groups /\ grouper.groups \in Seq(Seq(Ops))
      /\ calls \in Seq({CallOf(g) : g \in Seq(Ops)})
  BY DEF Inner, Stages, Outlined, Grouping, All, Commit, Groupers
<1>2. DOMAIN calls = DOMAIN All
  BY <1>1
<1>3. ASSUME NEW j \in Ops, IsWork(j) PROVE \E c \in DOMAIN calls : j \in ToSet(calls[c].ops)
  <2>1. j < cursor
    <3>1. Ops = 1 .. Len(source.ops) /\ Len(source.ops) \in Nat
      BY OpFacts DEF Typing
    <3> QED
      BY <1>1, <3>1
  <2>2. PICK c \in DOMAIN All : j \in ToSet(All[c])
    BY <1>1, <1>3, <2>1 DEF Groups
  <2> QED
    BY <1>2, <2>2, CallFacts
<1>4. CallsWith(i) # {}
  <2>1. CASE IsWork(i)
    BY <1>3, <2>1 DEF CallsWith
  <2>2. CASE Kind(i) = "qalloc"
    <3>1. QubitsOf(source, i) = {i}
      BY <2>2, OpFacts DEF Typing, ToSet
    <3>2. Cardinality(DefiningOps(source, i)) = 1
      BY <3>1, OperandFacts DEF Typing
    <3>3. PICK d : d \in DefiningOps(source, i)
      BY <3>2, FS_EmptySet
    <3>4. d \in Ops /\ Kind(d) \in Definitions /\ i \in QubitsOf(source, d)
      BY <3>3 DEF DefiningOps, Ops, Kind
    <3>5. PICK c \in DOMAIN calls : d \in ToSet(calls[c].ops)
      BY <1>3, <3>4 DEF IsWork, QuantumKinds, Definitions, Requests
    <3> DEFINE g == calls[c].ops
    <3>6. Formed(g)
      BY CallFacts
    <3>7. PICK k \in DOMAIN g : d = g[k]
      BY <3>5 DEF ToSet
    <3>8. k = 2 /\ Qubits(d) = <<g[1]>>
      BY <3>4, <3>6, <3>7 DEF Formed, AllocationFirst
    <3> HIDE DEF g
    <3>9. i = g[1]
      BY <3>4, <3>8, OpFacts DEF Typing, ToSet
    <3>10. 1 \in DOMAIN g
      BY <3>6, <3>7, <3>8, LastIsGreatest DEF Typing
    <3>11. i \in ToSet(g)
      BY <3>9, <3>10 DEF ToSet
    <3> QED
      BY <3>11 DEF CallsWith, g
  <2> QED
    BY <2>1, <2>2 DEF IsWork
<1>5. PICK c : c \in CallsWith(i)
  BY <1>4
<1>6. CallsWith(i) = {c}
  BY <1>5, PlaceFacts
<1> QED
  BY <1>6, FS_Singleton

LEMMA NothingTwice ==
  ASSUME source \in Sources, NEW g, Formed(g)
  PROVE  Len(g) = Cardinality(ToSet(g))
<1>1. g \in Seq(Ops) /\ DOMAIN g = 1 .. Len(g) /\ Len(g) \in Nat
  BY LastIsGreatest DEF Formed
<1> DEFINE n == Len(g)
           S == ToSet(g)
<1>2. g \in [1 .. n -> S]
  BY <1>1 DEF ToSet
<1>3. \A x \in S : \E k \in 1 .. n : g[k] = x
  BY <1>1 DEF ToSet
<1>4. ASSUME NEW k \in 1 .. n, NEW l \in 1 .. n, g[k] = g[l] PROVE k = l
  <2>1. g[k] \in Nat /\ g[l] \in Nat /\ k \in Nat /\ l \in Nat /\ k \in DOMAIN g /\ l \in DOMAIN g
    BY <1>1, OpFacts
  <2>2. ~(k < l) /\ ~(l < k)
    BY <1>4, <2>1 DEF Formed, InSourceOrder
  <2> QED
    BY <2>1, <2>2
<1>5. n \in Nat
  BY <1>1
<1> HIDE DEF n, S
<1>6. ExistsBijection(1 .. n, S)
  <2>1. g \in Bijection(1 .. n, S)
    BY <1>2, <1>3, <1>4, Fun_IsBij
  <2> QED
    BY <2>1 DEF ExistsBijection
<1>7. Cardinality(S) = n
  BY <1>5, <1>6, FS_CountingElements
<1> QED
  BY <1>7 DEF n, S

LEMMA ShapeOfCall ==
  ASSUME Typing, Inner, NEW c \in DOMAIN calls
  PROVE  LET worked == ToSet(calls[c].ops) \ Allocations
             keys   == {KeyOf(source, i) : i \in worked}
         IN  /\ Cardinality({BlockOf(i) : i \in worked}) = 1
             /\ Len(calls[c].ops) = Cardinality(ToSet(calls[c].ops))
             /\ IF calls[c].entangle
                THEN Cardinality(keys) = 1 /\ worked \subseteq RequestOps(source)
                ELSE option.maxOps > 0 => Len(calls[c].ops) <= (IF option.maxOps < 2 THEN 2 ELSE option.maxOps)
<1> DEFINE g == calls[c].ops
           worked == ToSet(g) \ Allocations
           keys == {KeyOf(source, i) : i \in worked}
<1>1. Formed(g) /\ (calls[c].entangle <=> \E i \in ToSet(g) : Kind(i) \in Requests) /\ source \in Sources
  BY CallFacts DEF Typing
<1>2. Len(g) = Cardinality(ToSet(g))
  BY <1>1, NothingTwice
<1>3. option.maxOps > 0 => Len(g) <= (IF option.maxOps < 2 THEN 2 ELSE option.maxOps)
  BY <1>1 DEF Formed, Limit
<1>4. \A i \in ToSet(g) : i \in Ops /\ Kind(i) \in QuantumKinds
  <2> HIDE DEF g
  <2>1. \A i \in ToSet(g) : i \in Ops
    BY <1>1, LastIsGreatest
  <2> QED
    BY <1>1, <2>1 DEF Formed, ToSet
<1>5. \A i \in worked : i \in ToSet(g) /\ IsWork(i)
  BY <1>4 DEF Allocations, IsWork
<1>6. Last(g) \in worked
  BY <1>1, LastIsGreatest DEF Allocations, IsWork
<1>7. Cardinality({BlockOf(i) : i \in worked}) = 1
  <2>1. \A i \in worked : BlockOf(i) = BlockOf(Last(g))
    BY <1>5, SameBlock
  <2> HIDE DEF worked, g
  <2>2. {BlockOf(i) : i \in worked} = {BlockOf(Last(g))}
    BY <1>6, <2>1
  <2> QED
    BY <2>2, FS_Singleton
<1>8. ASSUME calls[c].entangle PROVE Cardinality(keys) = 1 /\ worked \subseteq RequestOps(source)
  <2>1. PICK r \in ToSet(g) : Kind(r) \in Requests
    BY <1>1, <1>8
  <2>2. r \in worked /\ IsWork(r) /\ r \in Ops
    BY <1>4, <2>1 DEF Allocations, IsWork, Requests
  <2>3. ASSUME NEW x \in worked PROVE x = r
    <3>1. x \in ToSet(g) /\ IsWork(x)
      BY <1>5, <2>3
    <3>2. PICK k \in DOMAIN g : x = g[k]
      BY <3>1 DEF ToSet
    <3>3. PICK l \in DOMAIN g : r = g[l]
      BY <2>1 DEF ToSet
    <3> QED
      BY <1>1, <2>1, <2>2, <3>1, <3>2, <3>3 DEF Formed, OneKind
  <2> HIDE DEF worked, g
  <2>4. keys = {KeyOf(source, r)}
    BY <2>2, <2>3
  <2>5. worked \subseteq RequestOps(source)
    BY <2>1, <2>2, <2>3 DEF RequestOps, Ops, Kind
  <2> QED
    BY <2>4, <2>5, FS_Singleton
<1> QED
  BY <1>2, <1>3, <1>7, <1>8

(***************************************************************************)
(* No routine crosses a receive, merges blocks or exceeds the size limit;  *)
(* every quantum operation is in one; a request is alone in its routine.   *)
(***************************************************************************)
THEOREM RoutinesAreBounded == LoweringSpec => [](Ungrouped => RoutinesInBounds)
<1>1. ASSUME Typing, Inner PROVE BarriersHold
  BY <1>1, InnerHoldsBarriers DEF BarriersHold, IsWork
<1>2. ASSUME Typing, Inner PROVE RoutinesWellShaped
  BY <1>2, EachInOneCall, ShapeOfCall DEF RoutinesWellShaped
<1>3. IInv => (Ungrouped => RoutinesInBounds)
  BY <1>1, <1>2 DEF IInv, RoutinesInBounds
<1> QED
  BY <1>3, AlwaysInner, PTL
=============================================================================
