---------------------- MODULE LifetimeScheduler_proofs -----------------------
(***************************************************************************)
(* What the lifetime estimate promises as long as no task overtakes        *)
(* another, for every path and every word that holds the time of the path. *)
(* The invariant has three layers: what is scheduled (the same whatever    *)
(* was overtaken), the times of the two processors, and the lifetimes.     *)
(***************************************************************************)
EXTENDS LifetimeScheduler, FiniteSetTheorems, WellFoundedInduction, TLAPS

Done == Tasks \ waiting

Pending(x) == picked[x] \in waiting

Preceding(t) ==
  {u \in Tasks : u[1] \in Followed(path, t[1]) \/ (u[1] = t[1] /\ u[2] < t[2])}

MeasuredBy(t) == {q \in DOMAIN path.init : path.meas[q] = t}

\* The tasks of earlier blocks, of the block, and of the qubits t measures.
Needs(t) == Preceding(t) \cup {path.init[q] : q \in MeasuredBy(t)}

TypeOK ==
  /\ path \in Paths
  /\ waiting \subseteq Tasks
  /\ step \in {"advance", "qpu", "cpu"}
  /\ picked \in [Processors -> Tasks \cup {NoTask}]
  /\ globalTime \in 0 .. Word - 1
  /\ procTime \in [Processors -> 0 .. Word - 1]
  /\ lifetimes \in [DOMAIN path.init -> {NoTime} \cup 0 .. Word - 1]
  /\ ended \in [Tasks -> {NoTime} \cup 0 .. Word - 1]
  /\ overtaken \in BOOLEAN

-----------------------------------------------------------------------------
\* What is scheduled, and what is picked.
EndedWhenDone == \A t \in Tasks : ended[t] = NoTime <=> t \in waiting

PickedForProcessor == \A x \in Processors : picked[x] # NoTask => Processor(path, picked[x]) = x

PickedIsPending ==
  /\ step = "qpu" => \A x \in Processors : picked[x] # NoTask => Pending(x)
  /\ step = "cpu" => (picked["cpu"] # NoTask => Pending("cpu"))

\* Done and pending tasks have nothing to wait for.
DoneClosed == \A t \in Done : Needs(t) \subseteq Done

PendingClosed == \A x \in Processors : Pending(x) => Needs(picked[x]) \subseteq Done

StructInv == TypeOK /\ EndedWhenDone /\ PickedForProcessor /\ PickedIsPending /\ DoneClosed /\ PendingClosed

-----------------------------------------------------------------------------
\* The times, as long as nothing was overtaken.
Lag(x) == globalTime - procTime[x]

NothingInFuture ==
  /\ \A x \in Processors : procTime[x] <= globalTime
  /\ \A t \in Done : ended[t] <= globalTime

\* A processor lags by the time its pending task has run, an idle one not at all.
LagInTime == \A x \in Processors : Pending(x) => Lag(x) <= TimeOf(path, picked[x])

Settled(x) == Pending(x) \/ Lag(x) = 0

IdleSettled ==
  /\ step = "advance" => \A x \in Processors : Settled(x)
  /\ step = "cpu" => Settled("qpu")

PendingAfterNeeds ==
  \A x \in Processors : Pending(x) => \A u \in Needs(picked[x]) : ended[u] <= procTime[x]

DoneAfterNeeds ==
  \A t \in Done : \A u \in Needs(t) : ended[u] + TimeOf(path, t) <= ended[t]

\* A task whose time has come is about to be scheduled.
Due(x) == Pending(x) /\ Lag(x) = TimeOf(path, picked[x])

SomeDue ==
  \/ step = "qpu" /\ \E x \in Processors : Due(x)
  \/ step = "cpu" /\ Due("cpu")

Longest(m) == \A t \in Tasks : TimeOf(path, t) <= m

\* No more time has passed than all scheduled tasks would take in sequence, and one that is due.
TimeIsSpent ==
  \A m \in Nat : Longest(m) =>
    \/ globalTime <= Cardinality(Done) * m
    \/ SomeDue /\ globalTime <= (Cardinality(Done) + 1) * m

TimeInv ==
  /\ NothingInFuture
  /\ LagInTime
  /\ IdleSettled
  /\ PendingAfterNeeds
  /\ DoneAfterNeeds
  /\ TimeIsSpent

-----------------------------------------------------------------------------
\* A lifetime begins with the end of the initialisation.
LifetimeIs(q) ==
  IF path.init[q] \in waiting THEN NoTime
  ELSE IF path.meas[q] \in Done THEN ended[path.meas[q]] - ended[path.init[q]]
  ELSE ended[path.init[q]]

LifetimesExact == \A q \in DOMAIN path.init : lifetimes[q] = LifetimeIs(q)

IInv == StructInv /\ (~overtaken => TimeInv /\ LifetimesExact)

-----------------------------------------------------------------------------
(***************************************************************************)
(* Facts about words, tasks and their times.                               *)
(***************************************************************************)
LEMMA ModRange == ASSUME NEW n \in Int PROVE n % Word \in 0 .. Word - 1
  BY PathsAssumption

LEMMA ModSmall == ASSUME NEW n \in 0 .. Word - 1 PROVE n % Word = n
  BY PathsAssumption

\* Naturals are well founded; the library states it with an operator for a parameter.
LEMMA LessWellFounded == IsWellFoundedOn({r \in Nat \X Nat : r[1] < r[2]}, Nat)
<1>1. OpToRel(<, Nat) = {r \in Nat \X Nat : r[1] < r[2]}
  BY DEF OpToRel
<1> QED
  BY <1>1, NatLessThanWellFounded

LEMMA LeastNatural ==
  ASSUME NEW S, S \subseteq Nat, S # {}
  PROVE  \E n \in S : \A m \in S : n <= m
<1> DEFINE R == {r \in Nat \X Nat : r[1] < r[2]}
<1>1. IsWellFoundedOn(R, Nat)
  BY LessWellFounded
<1> HIDE DEF R
<1>2. PICK n \in S : \A m \in S : ~ (<<m, n>> \in R)
  BY <1>1, WFMin
<1>3. ASSUME NEW m \in S PROVE n <= m
  <2>1. m \in Nat /\ n \in Nat
    OBVIOUS
  <2>2. ~ (m < n)
    BY <1>2, <2>1 DEF R
  <2> QED
    BY <2>1, <2>2
<1> QED
  BY <1>3

LEMMA TaskIsPair ==
  ASSUME NEW p, NEW t \in TasksOf(p)
  PROVE  t = <<t[1], t[2]>> /\ t[1] \in 1 .. p.size /\ t[2] \in 1 .. LastTask(p, t[1])[2]
  BY DEF TasksOf

LEMMA LastTaskIsTask ==
  ASSUME NEW p \in Paths, NEW b \in 1 .. p.size
  PROVE  /\ LastTask(p, b) \in TasksOf(p)
         /\ LastTask(p, b)[1] = b
         /\ LastTask(p, b)[2] \in Nat \ {0}
         /\ p.parts[b] # <<>> => LastTask(p, b)[2] = Len(p.parts[b]) + 2
<1>1. p.parts[b] \in Seq(Nat)
  BY PathsAssumption DEF IsPath
<1>2. Len(p.parts[b]) \in Nat
  BY <1>1
<1> QED
  BY <1>2 DEF TasksOf, LastTask

LEMMA TasksFinite == ASSUME NEW p \in Paths PROVE IsFiniteSet(TasksOf(p))
<1> DEFINE of(b) == {b} \X (1 .. LastTask(p, b)[2])
           S == {of(b) : b \in 1 .. p.size}
<1>1. IsFiniteSet(1 .. p.size)
  BY PathsAssumption, FS_Interval DEF IsPath
<1>2. IsFiniteSet(S)
  <2> DEFINE f == [b \in 1 .. p.size |-> of(b)]
  <2> HIDE DEF of
  <2>1. f \in Surjection(1 .. p.size, S)
    BY DEF Surjection
  <2> QED
    BY <1>1, <2>1, FS_Surjection
<1>3. ASSUME NEW b \in 1 .. p.size PROVE IsFiniteSet(of(b))
  <2>1. IsFiniteSet({b})
    BY FS_Singleton
  <2>2. LastTask(p, b)[2] \in Nat
    BY LastTaskIsTask
  <2>3. IsFiniteSet(1 .. LastTask(p, b)[2])
    BY <2>2, FS_Interval
  <2> QED
    BY <2>1, <2>3, FS_Product
<1>4. \A T \in S : IsFiniteSet(T)
  BY <1>3
<1>5. IsFiniteSet(UNION S)
  BY <1>2, <1>4, FS_UNION
<1> QED
  BY <1>5 DEF TasksOf

LEMMA TimeIsNat == ASSUME NEW p \in Paths, NEW t \in TasksOf(p) PROVE TimeOf(p, t) \in Nat
<1>1. t = <<t[1], t[2]>> /\ t[1] \in 1 .. p.size /\ t[2] \in 1 .. LastTask(p, t[1])[2]
  BY TaskIsPair
<1>2. p.host[t[1]] \in Nat /\ p.parts[t[1]] \in Seq(Nat)
  BY <1>1, PathsAssumption DEF IsPath
<1>3. CASE Processor(p, t) = "cpu"
  BY <1>2, <1>3 DEF TimeOf
<1>4. CASE Processor(p, t) # "cpu"
  <2>1. t[2] # 1 /\ t # LastTask(p, t[1])
    BY <1>4 DEF Processor
  <2>2. t[2] # LastTask(p, t[1])[2]
    BY <1>1, <2>1 DEF LastTask
  <2>3. p.parts[t[1]] # <<>>
    BY <1>1, <2>1 DEF LastTask
  <2>4. Len(p.parts[t[1]]) \in Nat /\ LastTask(p, t[1])[2] = Len(p.parts[t[1]]) + 2
    BY <1>1, <1>2, <2>3, LastTaskIsTask
  <2>5. t[2] - 1 \in 1 .. Len(p.parts[t[1]])
    BY <1>1, <2>1, <2>2, <2>4
  <2>6. p.parts[t[1]][t[2] - 1] \in Nat
    BY <1>2, <2>5
  <2> QED
    BY <1>4, <2>6 DEF TimeOf
<1> QED
  BY <1>3, <1>4

\* Some time bounds that of every task, and all tasks in sequence take less than Word.
LEMMA LongestExists ==
  ASSUME NEW p \in Paths
  PROVE  \E m \in Nat : /\ \A t \in TasksOf(p) : TimeOf(p, t) <= m
                       /\ Cardinality(TasksOf(p)) * m < Word
<1> DEFINE n == Cardinality(TasksOf(p))
<1>1. n \in Nat
  BY TasksFinite, FS_CardinalityType
<1>2. CASE TasksOf(p) = {}
  <2>1. n = 0
    BY <1>2, FS_EmptySet
  <2> QED
    BY <1>2, <2>1, PathsAssumption
<1>3. CASE TasksOf(p) # {}
  <2>0. \A t \in TasksOf(p) : TimeOf(p, t) \in Nat /\ n * TimeOf(p, t) < Word
    BY TimeIsNat, PathsAssumption DEF NeverTooLong
  <2>1. n >= 1
    BY <1>1, <1>3, TasksFinite, FS_EmptySet
  <2>2. \A t \in TasksOf(p) : TimeOf(p, t) <= Word
    <3> TAKE t \in TasksOf(p)
    <3>1. TimeOf(p, t) \in Nat /\ n * TimeOf(p, t) < Word
      BY <2>0
    <3>2. ASSUME NEW a \in Nat PROVE n * a >= a
      <4> HIDE DEF n
      <4> QED BY <1>1, <2>1
    <3> HIDE DEF n
    <3> QED
      BY <3>1, <3>2, <1>1, PathsAssumption
  <2> DEFINE S == {Word - TimeOf(p, t) : t \in TasksOf(p)}
  <2>3. S \in SUBSET Nat /\ S # {}
    BY <1>3, <2>0, <2>2, PathsAssumption
  <2>4. PICK k \in S : \A l \in S : k <= l
    BY <2>3, LeastNatural
  <2>5. PICK t \in TasksOf(p) : k = Word - TimeOf(p, t)
    BY <2>4
  <2>6. \A u \in TasksOf(p) : TimeOf(p, u) <= TimeOf(p, t)
    <3> TAKE u \in TasksOf(p)
    <3>1. Word - TimeOf(p, u) \in S
      OBVIOUS
    <3>2. Word - TimeOf(p, t) <= Word - TimeOf(p, u)
      BY <2>4, <2>5, <3>1
    <3> QED
      BY <3>2, <2>0, PathsAssumption
  <2> QED
    BY <2>0, <2>6
<1> QED
  BY <1>2, <1>3

-----------------------------------------------------------------------------
(***************************************************************************)
(* What is picked.                                                         *)
(***************************************************************************)
LEMMA EarliestExists ==
  ASSUME NEW p \in Paths, NEW S, S \subseteq TasksOf(p), S # {}
  PROVE  \E t \in S : \A u \in S : u # t => Earlier(t, u)
<1>0. \A t \in S : t = <<t[1], t[2]>> /\ t[1] \in Nat /\ t[2] \in Nat
  <2> TAKE t \in S
  <2>1. t = <<t[1], t[2]>> /\ t[1] \in 1 .. p.size /\ t[2] \in 1 .. LastTask(p, t[1])[2]
    BY TaskIsPair
  <2>2. p.size \in Nat /\ LastTask(p, t[1])[2] \in Nat
    BY <2>1, LastTaskIsTask, PathsAssumption DEF IsPath
  <2> QED
    BY <2>1, <2>2
<1> DEFINE blocks == {t[1] : t \in S}
<1>1. PICK b \in blocks : \A c \in blocks : b <= c
  BY <1>0, LeastNatural
<1> DEFINE places == {t[2] : t \in {u \in S : u[1] = b}}
<1>2. PICK i \in places : \A j \in places : i <= j
  <2>1. places \subseteq Nat /\ places # {}
    BY <1>0
  <2> QED
    BY <2>1, LeastNatural
<1>3. PICK t \in S : t[1] = b /\ t[2] = i
  BY <1>2
<1>4. ASSUME NEW u \in S, u # t PROVE Earlier(t, u)
  <2>1. b <= u[1]
    BY <1>1
  <2>2. CASE u[1] = b
    <3>1. u[2] \in places
      BY <2>2
    <3>2. i <= u[2]
      BY <1>2, <3>1
    <3>3. t[2] # u[2]
      BY <1>0, <1>3, <1>4, <2>2
    <3> QED
      BY <1>0, <1>3, <2>2, <3>2, <3>3 DEF Earlier
  <2>3. CASE u[1] # b
    BY <1>0, <1>3, <2>1, <2>3 DEF Earlier
  <2> QED
    BY <2>2, <2>3
<1> QED
  BY <1>4

LEMMA FirstIsAvailable ==
  ASSUME TypeOK, NEW x
  PROVE  \/ FirstAvailable(x) = NoTask /\ Available(x) = {}
         \/ FirstAvailable(x) \in Available(x)
<1> SUFFICES ASSUME Available(x) # {} PROVE FirstAvailable(x) \in Available(x)
  BY DEF FirstAvailable
<1>1. Available(x) \subseteq TasksOf(path) /\ path \in Paths
  BY DEF TypeOK, Available, Tasks
<1>2. \E t \in Available(x) : \A u \in Available(x) : u # t => Earlier(t, u)
  BY <1>1, EarliestExists
<1> QED
  BY <1>2 DEF FirstAvailable

LEMMA NoTaskIsNone == ASSUME NEW p PROVE NoTask \notin TasksOf(p)
<1> SUFFICES ASSUME NoTask \in TasksOf(p) PROVE FALSE
  OBVIOUS
<1>1. NoTask[1] \in 1 .. p.size
  BY TaskIsPair
<1> QED
  BY <1>1 DEF NoTask

-----------------------------------------------------------------------------
(***************************************************************************)
(* An available task has nothing left to wait for: the last task of a      *)
(* block waits for the whole block, and blocks wait for what they follow.  *)
(***************************************************************************)
LEMMA FollowedAreBlocks ==
  ASSUME NEW p \in Paths, NEW b \in 1 .. p.size
  PROVE  Followed(p, b) \subseteq 1 .. p.size
<1>1. IsPath(p)
  BY PathsAssumption
<1>2. b \in p.jumped => b - 1 \in 1 .. p.size
  BY <1>1 DEF IsPath
<1> QED
  BY <1>1, <1>2 DEF IsPath, Followed

\* When the last task of a block is done, so is the block.
LEMMA LastDoneBlockDone ==
  ASSUME TypeOK, DoneClosed, NEW b \in 1 .. path.size, LastTask(path, b) \in Done,
         NEW u \in Tasks, u[1] = b
  PROVE  u \in Done
<1>1. path \in Paths
  BY DEF TypeOK
<1>2. u = <<u[1], u[2]>> /\ u[2] \in 1 .. LastTask(path, b)[2]
  BY TaskIsPair DEF Tasks
<1>3. LastTask(path, b)[1] = b /\ LastTask(path, b)[2] \in Nat
  BY <1>1, LastTaskIsTask
<1>4. CASE u[2] = LastTask(path, b)[2]
  BY <1>2, <1>3, <1>4 DEF LastTask
<1>5. CASE u[2] < LastTask(path, b)[2]
  <2>1. u \in Preceding(LastTask(path, b))
    BY <1>3, <1>5 DEF Preceding
  <2> QED
    BY <2>1 DEF DoneClosed, Needs
<1> QED
  BY <1>2, <1>3, <1>4, <1>5

LEMMA AvailablePrecedingDone ==
  ASSUME TypeOK, DoneClosed, NEW x, NEW t \in Available(x)
  PROVE  Preceding(t) \subseteq Done
<1>1. path \in Paths /\ t \in Tasks /\ Dependences(path, t) \cap waiting = {}
  BY DEF TypeOK, Available
<1>2. t = <<t[1], t[2]>> /\ t[1] \in 1 .. path.size /\ t[2] \in 1 .. LastTask(path, t[1])[2]
  BY <1>1, TaskIsPair DEF Tasks
<1>3. LastTask(path, t[1])[2] \in Nat
  BY <1>1, <1>2, LastTaskIsTask
<1>4. CASE t[2] = 1
  <2> SUFFICES ASSUME NEW u \in Preceding(t) PROVE u \in Done
    OBVIOUS
  <2>1. u \in Tasks /\ u[1] \in 1 .. path.size /\ u[2] \in 1 .. LastTask(path, u[1])[2]
    BY TaskIsPair DEF Preceding, Tasks
  <2>2. u[1] \in Followed(path, t[1])
    <3>1. LastTask(path, u[1])[2] \in Nat
      BY <1>1, <2>1, LastTaskIsTask
    <3> QED
      BY <1>4, <2>1, <3>1 DEF Preceding
  <2>3. LastTask(path, u[1]) \in Dependences(path, t)
    BY <1>4, <2>2 DEF Dependences
  <2>4. LastTask(path, u[1]) \in Done
    BY <1>1, <2>1, <2>3, LastTaskIsTask DEF Done, Tasks
  <2> QED
    BY <2>1, <2>4, LastDoneBlockDone
<1>5. CASE t[2] > 1
  <2> DEFINE d == <<t[1], t[2] - 1>>
  <2>1. d \in Tasks
    BY <1>2, <1>3, <1>5 DEF Tasks, TasksOf
  <2>2. d \in Done
    BY <1>1, <1>5, <2>1 DEF Done, Dependences
  <2>3. Preceding(d) \subseteq Done
    BY <2>2 DEF DoneClosed, Needs
  <2>4. ASSUME NEW u \in Preceding(t) PROVE u = d \/ u \in Preceding(d)
    <3>1. u \in Tasks /\ u = <<u[1], u[2]>> /\ u[1] \in 1 .. path.size /\ u[2] \in 1 .. LastTask(path, u[1])[2]
      BY TaskIsPair DEF Preceding, Tasks
    <3>2. u[2] \in Nat
      BY <1>1, <3>1, LastTaskIsTask
    <3>3. CASE u[1] \in Followed(path, t[1])
      BY <3>1, <3>3 DEF Preceding
    <3>4. CASE u[1] = t[1] /\ u[2] < t[2]
      <4>1. CASE u[2] = t[2] - 1
        BY <3>1, <3>4, <4>1
      <4>2. CASE u[2] < t[2] - 1
        BY <3>1, <3>4, <4>2 DEF Preceding
      <4> QED
        BY <1>2, <1>3, <3>2, <3>4, <4>1, <4>2
    <3> QED
      BY <3>3, <3>4 DEF Preceding
  <2> QED
    BY <2>2, <2>3, <2>4
<1> QED
  BY <1>2, <1>3, <1>4, <1>5

\* The initialisation of a qubit is done when its measurement is available.
LEMMA AvailableNeedsDone ==
  ASSUME TypeOK, DoneClosed, NEW x, NEW t \in Available(x)
  PROVE  Needs(t) \subseteq Done
<1>1. Preceding(t) \subseteq Done
  BY AvailablePrecedingDone
<1>2. path \in Paths /\ t \in Tasks
  BY DEF TypeOK, Available
<1>3. t[1] \in 1 .. path.size
  BY <1>2, TaskIsPair DEF Tasks
<1>4. ASSUME NEW q \in MeasuredBy(t) PROVE path.init[q] \in Done
  <2> DEFINE i == path.init[q]
  <2>1. q \in DOMAIN path.init /\ path.meas[q] = t
    BY DEF MeasuredBy
  <2>2. t # Elsewhere
    BY <1>2, NoTaskIsNone DEF Elsewhere, Tasks
  <2>3. i \in Tasks /\ IF t[1] = i[1] THEN i[2] < t[2] ELSE ComesAfter(path, t[1], i[1])
    BY <1>2, <2>1, <2>2, PathsAssumption DEF QubitsFlow, Tasks
  <2>4. CASE t[1] = i[1]
    <3>1. i \in Preceding(t)
      BY <2>3, <2>4 DEF Preceding
    <3> QED
      BY <1>1, <3>1
  <2>5. CASE t[1] # i[1]
    <3> DEFINE B == {b \in 1 .. path.size : b = t[1] \/ \A u \in Tasks : u[1] = b => u \in Done}
    <3>1. ASSUME NEW b \in B, NEW a \in Followed(path, b) PROVE a \in B
      <4>1. a \in 1 .. path.size
        BY <1>2, FollowedAreBlocks
      <4>2. CASE b = t[1]
        <5>1. ASSUME NEW u \in Tasks, u[1] = a PROVE u \in Preceding(t)
          BY <4>2, <5>1 DEF Preceding
        <5> QED
          BY <1>1, <4>1, <5>1
      <4>3. CASE b # t[1]
        <5>1. LastTask(path, b) \in Done /\ LastTask(path, b)[1] = b
          BY <1>2, <4>3, LastTaskIsTask DEF Tasks
        <5>2. ASSUME NEW u \in Tasks, u[1] = a PROVE u \in Preceding(LastTask(path, b))
          BY <5>1, <5>2 DEF Preceding
        <5>3. Preceding(LastTask(path, b)) \subseteq Done
          BY <5>1 DEF DoneClosed, Needs
        <5> QED
          BY <4>1, <5>2, <5>3
      <4> QED
        BY <4>2, <4>3
    <3>2. B \in SUBSET (1 .. path.size) /\ t[1] \in B
      BY <1>3
    <3>3. Closed(path, B)
      BY <3>1 DEF Closed
    <3> HIDE DEF B
    <3>4. i[1] \in B
      BY <2>3, <2>5, <3>2, <3>3 DEF ComesAfter
    <3> QED
      BY <2>3, <2>5, <3>4 DEF B
  <2> QED
    BY <2>4, <2>5
<1> QED
  BY <1>1, <1>4 DEF Needs

-----------------------------------------------------------------------------
(***************************************************************************)
(* The steps, as the proofs see them.                                      *)
(***************************************************************************)
Turn(x) ==
  /\ step = x
  /\ ScheduleTaskIfReady(x)
  /\ step' = IF x = "qpu" THEN "cpu" ELSE "advance"

LEMMA NextIsTurn == Next => Advance \/ \E x \in Processors : Turn(x)
  BY DEF Next, Turn, Processors

LEMMA IncrementIsLeast ==
  ASSUME TypeOK, NEW ts, ts \subseteq Tasks
  PROVE  \/ ts = {} /\ TimeIncrement(ts) = 0
         \/ \E t \in ts : /\ TimeIncrement(ts) = StillNeeds(t)
                         /\ \A u \in ts : StillNeeds(t) <= StillNeeds(u)
                         /\ StillNeeds(t) \in 0 .. Word - 1
<1> SUFFICES ASSUME ts # {}
             PROVE  \E t \in ts : /\ TimeIncrement(ts) = StillNeeds(t)
                                 /\ \A u \in ts : StillNeeds(t) <= StillNeeds(u)
                                 /\ StillNeeds(t) \in 0 .. Word - 1
  BY DEF TimeIncrement
<1>1. \A t \in ts : StillNeeds(t) \in 0 .. Word - 1
  <2> TAKE t \in ts
  <2>1. Processor(path, t) \in Processors
    BY DEF Processor, Processors
  <2>2. TimeOf(path, t) \in Int /\ globalTime \in Int /\ procTime[Processor(path, t)] \in Int
    BY <2>1, TimeIsNat, PathsAssumption DEF TypeOK, Tasks
  <2> QED
    BY <2>2, ModRange DEF StillNeeds
<1> DEFINE S == {StillNeeds(t) : t \in ts}
<1>2. S \subseteq Nat /\ S # {}
  BY <1>1, PathsAssumption
<1>3. PICK d \in S : \A e \in S : d <= e
  BY <1>2, LeastNatural
<1>4. \E e \in S : \A t \in ts : e <= StillNeeds(t)
  BY <1>3
<1>5. TimeIncrement(ts) \in S /\ \A t \in ts : TimeIncrement(ts) <= StillNeeds(t)
  BY <1>4 DEF TimeIncrement
<1> QED
  BY <1>1, <1>5

\* What Advance does to the state, and to the increment.
LEMMA AdvanceEffect ==
  ASSUME TypeOK, Advance
  PROVE  /\ step = "advance" /\ step' = "qpu"
         /\ UNCHANGED <<path, waiting, procTime, lifetimes, ended>>
         /\ Tasks' = Tasks /\ Done' = Done
         /\ \A x \in Processors : \/ picked'[x] = NoTask /\ Available(x) = {}
                                 \/ picked'[x] \in Available(x)
         /\ DOMAIN picked' = Processors
         /\ \/ globalTime' = globalTime % Word /\ \A x \in Processors : picked'[x] = NoTask
            \/ \E y \in Processors :
                 /\ picked'[y] # NoTask
                 /\ StillNeeds(picked'[y]) \in 0 .. Word - 1
                 /\ globalTime' = (globalTime + StillNeeds(picked'[y])) % Word
                 /\ \A x \in Processors : picked'[x] # NoTask => StillNeeds(picked'[y]) <= StillNeeds(picked'[x])
<1> DEFINE next == [x \in Processors |-> FirstAvailable(x)]
           ts == {next[x] : x \in Processors} \ {NoTask}
<1>1. /\ step = "advance" /\ step' = "qpu" /\ picked' = next
      /\ globalTime' = (globalTime + TimeIncrement(ts)) % Word
      /\ UNCHANGED <<path, waiting, procTime, lifetimes, ended>>
  BY DEF Advance
<1>2. \A x \in Processors : \/ next[x] = NoTask /\ Available(x) = {}
                           \/ next[x] \in Available(x)
  BY FirstIsAvailable
<1>3. ts \subseteq Tasks
  BY <1>2 DEF Available, TypeOK
<1>4. \/ ts = {} /\ TimeIncrement(ts) = 0
      \/ \E t \in ts : /\ TimeIncrement(ts) = StillNeeds(t)
                      /\ \A u \in ts : StillNeeds(t) <= StillNeeds(u)
                      /\ StillNeeds(t) \in 0 .. Word - 1
  BY <1>3, IncrementIsLeast
<1>5. Tasks' = Tasks /\ Done' = Done
  BY <1>1 DEF Tasks, Done
<1>6. globalTime + 0 = globalTime
  BY PathsAssumption DEF TypeOK
<1>7. CASE ts = {} /\ TimeIncrement(ts) = 0
  <2>1. globalTime' = globalTime % Word
    BY <1>1, <1>6, <1>7
  <2>2. \A x \in Processors : next[x] = NoTask
    BY <1>7
  <2> QED
    BY <1>1, <1>2, <1>5, <2>1, <2>2
<1>8. CASE \E t \in ts : /\ TimeIncrement(ts) = StillNeeds(t)
                        /\ \A u \in ts : StillNeeds(t) <= StillNeeds(u)
                        /\ StillNeeds(t) \in 0 .. Word - 1
  <2>1. PICK t \in ts : /\ TimeIncrement(ts) = StillNeeds(t)
                       /\ \A u \in ts : StillNeeds(t) <= StillNeeds(u)
                       /\ StillNeeds(t) \in 0 .. Word - 1
    BY <1>8
  <2>2. PICK y \in Processors : picked'[y] = t
    BY <1>1
  <2>3. picked'[y] # NoTask
    BY <2>2
  <2>4. \A x \in Processors : picked'[x] # NoTask => picked'[x] \in ts
    BY <1>1
  <2>5. globalTime' = (globalTime + StillNeeds(t)) % Word
    BY <1>1, <2>1
  <2> HIDE DEF ts
  <2>6. \A x \in Processors : picked'[x] # NoTask => StillNeeds(t) <= StillNeeds(picked'[x])
    BY <2>1, <2>4
  <2>7. StillNeeds(t) \in 0 .. Word - 1
    BY <2>1
  <2>8. \E z \in Processors :
          /\ picked'[z] # NoTask
          /\ StillNeeds(picked'[z]) \in 0 .. Word - 1
          /\ globalTime' = (globalTime + StillNeeds(picked'[z])) % Word
          /\ \A x \in Processors : picked'[x] # NoTask => StillNeeds(picked'[z]) <= StillNeeds(picked'[x])
    BY <2>2, <2>3, <2>5, <2>6, <2>7, Zenon
  <2> QED
    BY <1>1, <1>2, <1>5, <2>8
<1> QED
  BY <1>4, <1>7, <1>8

LEMMA ScheduleEffect ==
  ASSUME TypeOK, NEW x \in Processors, Schedule(x), path' = path
  PROVE  /\ picked[x] \in Tasks
         /\ procTime' = [procTime EXCEPT ![x] = globalTime]
         /\ Tasks' = Tasks /\ Done' = Done \cup {picked[x]}
         /\ waiting' = waiting \ {picked[x]}
         /\ ended' = [ended EXCEPT ![picked[x]] = globalTime]
         /\ lifetimes' = [q \in DOMAIN path.init |-> Lifetime(q, picked[x])]
<1>1. picked[x] \in Tasks
  BY DEF TypeOK, Schedule, Ready
<1> QED
  BY <1>1 DEF Schedule, Tasks, Done, TypeOK

-----------------------------------------------------------------------------
(***************************************************************************)
(* Types.                                                                  *)
(***************************************************************************)
LEMMA TypeInit == Init => TypeOK
<1>1. 0 \in 0 .. Word - 1
  BY PathsAssumption
<1> QED
  BY <1>1 DEF Init, TypeOK, Tasks

LEMMA TypeStep == TypeOK /\ [Next]_vars => TypeOK'
<1> SUFFICES ASSUME TypeOK, [Next]_vars PROVE TypeOK'
  OBVIOUS
<1>1. CASE Advance
  <2>1. globalTime' \in 0 .. Word - 1
    BY <1>1, AdvanceEffect, ModRange, PathsAssumption DEF TypeOK
  <2>2. picked' \in [Processors -> Tasks \cup {NoTask}]
    <3>1. \A x \in Processors : picked'[x] \in Tasks \cup {NoTask}
      BY <1>1, AdvanceEffect DEF Available, TypeOK
    <3>2. picked' = [x \in Processors |-> picked'[x]]
      BY <1>1 DEF Advance
    <3> QED
      BY <3>1, <3>2
  <2>3. overtaken' \in BOOLEAN
    BY <1>1 DEF Advance, TypeOK
  <2> QED
    BY <1>1, <2>1, <2>2, <2>3, AdvanceEffect DEF TypeOK
<1>2. ASSUME NEW x \in Processors, Turn(x) PROVE TypeOK'
  <2>1. /\ UNCHANGED <<path, picked, globalTime, overtaken>> /\ Tasks' = Tasks
        /\ step' \in {"advance", "qpu", "cpu"}
    BY <1>2 DEF Turn, ScheduleTaskIfReady, Tasks
  <2>2. CASE Idle(x) \/ Wait(x)
    BY <2>1, <2>2 DEF TypeOK, Idle, Wait
  <2>3. CASE Schedule(x)
    <3>1. \A q \in DOMAIN path.init : Lifetime(q, picked[x]) \in {NoTime} \cup 0 .. Word - 1
      <4> TAKE q \in DOMAIN path.init
      <4> DEFINE begun == IF picked[x] = path.init[q] /\ lifetimes[q] = NoTime THEN globalTime ELSE lifetimes[q]
      <4>1. begun \in {NoTime} \cup 0 .. Word - 1
        BY DEF TypeOK
      <4>2. begun \in Int /\ globalTime \in Int
        BY <4>1, PathsAssumption DEF NoTime, TypeOK
      <4>3. (globalTime - begun) % Word \in 0 .. Word - 1
        BY <4>2, ModRange
      <4>4. Lifetime(q, picked[x]) = IF picked[x] = path.meas[q] /\ begun # NoTime
                                     THEN (globalTime - begun) % Word ELSE begun
        BY DEF Lifetime
      <4> QED
        BY <4>1, <4>3, <4>4
    <3> QED
      BY <2>1, <2>3, <3>1, ScheduleEffect DEF TypeOK
  <2> QED
    BY <1>2, <2>2, <2>3 DEF Turn, ScheduleTaskIfReady
<1>3. CASE UNCHANGED vars
  BY <1>3 DEF vars, TypeOK, Tasks
<1> QED
  BY <1>1, <1>2, <1>3, NextIsTurn

-----------------------------------------------------------------------------
(***************************************************************************)
(* What is scheduled: the first layer of the invariant.                    *)
(***************************************************************************)
LEMMA NeedsStay ==
  ASSUME path' = path
  PROVE  \A t : Needs(t)' = Needs(t)
  BY DEF Needs, Preceding, MeasuredBy, Tasks

LEMMA StructInit == Init => StructInv
<1> SUFFICES ASSUME Init PROVE StructInv
  OBVIOUS
<1>1. TypeOK
  BY TypeInit
<1>2. Done = {} /\ \A x \in Processors : picked[x] = NoTask /\ ~ Pending(x)
  BY NoTaskIsNone DEF Init, Done, Pending, Tasks
<1> QED
  BY <1>1, <1>2 DEF StructInv, Init, EndedWhenDone, PickedForProcessor, PickedIsPending, DoneClosed, PendingClosed, NoTask

LEMMA AdvanceKeepsStruct == StructInv /\ Advance => StructInv'
<1> SUFFICES ASSUME StructInv, Advance PROVE StructInv'
  OBVIOUS
<1> USE DEF StructInv
<1>0. TypeOK'
  BY TypeStep DEF Next
<1>1. /\ UNCHANGED <<path, waiting, ended>> /\ Tasks' = Tasks /\ Done' = Done /\ step' = "qpu"
      /\ \A x \in Processors : picked'[x] # NoTask => picked'[x] \in Available(x)
  BY AdvanceEffect
<1>2. \A t : Needs(t)' = Needs(t)
  BY <1>1, NeedsStay
<1>3. EndedWhenDone'
  BY <1>1 DEF EndedWhenDone
<1>4. PickedForProcessor'
  BY <1>1 DEF PickedForProcessor, Available
<1>5. PickedIsPending'
  BY <1>1 DEF PickedIsPending, Pending, Available
<1>6. DoneClosed'
  BY <1>1, <1>2 DEF DoneClosed
<1>7. PendingClosed'
  <2> SUFFICES ASSUME NEW x \in Processors, picked'[x] \in waiting
               PROVE  Needs(picked'[x]) \subseteq Done
    BY <1>1, <1>2 DEF PendingClosed, Pending, Needs, Preceding, MeasuredBy
  <2>1. picked'[x] # NoTask
    BY NoTaskIsNone DEF TypeOK, Tasks
  <2> QED
    BY <1>1, <2>1, AvailableNeedsDone
<1> QED
  BY <1>0, <1>3, <1>4, <1>5, <1>6, <1>7

LEMMA PickedDiffer ==
  ASSUME StructInv, NEW x \in Processors, NEW y \in Processors, x # y, picked[x] # NoTask
  PROVE  picked[x] # picked[y]
  BY DEF StructInv, PickedForProcessor

LEMMA TurnIsPending ==
  ASSUME StructInv, NEW x \in Processors, step = x, picked[x] # NoTask
  PROVE  Pending(x)
  BY DEF StructInv, PickedIsPending, Processors

LEMMA TurnKeepsStruct ==
  ASSUME StructInv, NEW x \in Processors, Turn(x)
  PROVE  StructInv'
<1> USE DEF StructInv
<1>0. TypeOK'
  BY TypeStep, Zenon DEF Next, Turn, Processors
<1>1. /\ step = x /\ UNCHANGED <<path, picked>> /\ Tasks' = Tasks
      /\ step' = "cpu" => x = "qpu"
      /\ step' \in {"cpu", "advance"}
  BY DEF Turn, ScheduleTaskIfReady, Tasks
<1>2. \A t : Needs(t)' = Needs(t)
  BY <1>1, NeedsStay
<1>3. CASE Idle(x) \/ Wait(x)
  <2>1. waiting' = waiting /\ ended' = ended /\ Done' = Done
    BY <1>1, <1>3 DEF Idle, Wait, Done
  <2>2. PickedIsPending'
    BY <1>1, <2>1 DEF PickedIsPending, Pending, Processors
  <2>3. DoneClosed' /\ EndedWhenDone' /\ PickedForProcessor'
    BY <1>1, <1>2, <2>1 DEF DoneClosed, EndedWhenDone, PickedForProcessor
  <2>4. PendingClosed'
    BY <1>1, <2>1 DEF PendingClosed, Pending, Needs, Preceding, MeasuredBy
  <2> QED
    BY <1>0, <2>2, <2>3, <2>4
<1>4. CASE Schedule(x)
  <2> DEFINE t == picked[x]
  <2>1. /\ t \in Tasks /\ Done' = Done \cup {t} /\ waiting' = waiting \ {t}
        /\ ended' = [ended EXCEPT ![t] = globalTime] /\ t # NoTask /\ Pending(x)
    BY <1>1, <1>4, ScheduleEffect, TurnIsPending, NoTaskIsNone DEF Tasks
  <2>2. EndedWhenDone'
    <3>1. globalTime # NoTime
      BY PathsAssumption DEF TypeOK, NoTime
    <3> QED
      BY <1>1, <2>1, <3>1 DEF EndedWhenDone, TypeOK
  <2>3. PickedForProcessor'
    BY <1>1 DEF PickedForProcessor
  <2>4. PickedIsPending'
    <3> SUFFICES ASSUME step' = "cpu", picked["cpu"] # NoTask PROVE picked["cpu"] \in waiting'
      BY <1>1 DEF PickedIsPending, Pending
    <3>1. x = "qpu" /\ "cpu" \in Processors /\ Pending("cpu")
      BY <1>1 DEF PickedIsPending, Processors
    <3>2. picked["cpu"] # t
      BY <2>1, <3>1, PickedDiffer
    <3> QED
      BY <2>1, <3>1, <3>2 DEF Pending
  <2>5. DoneClosed'
    <3>1. Needs(t) \subseteq Done
      BY <2>1 DEF PendingClosed
    <3>2. \A u \in Done' : Needs(u) \subseteq Done'
      BY <2>1, <3>1 DEF DoneClosed
    <3> QED
      BY <1>2, <3>2 DEF DoneClosed
  <2>6. PendingClosed'
    <3> SUFFICES ASSUME NEW y \in Processors, picked[y] \in waiting'
                 PROVE  Needs(picked[y]) \subseteq Done'
      BY <1>1 DEF PendingClosed, Pending, Needs, Preceding, MeasuredBy
    <3> QED
      BY <2>1 DEF PendingClosed, Pending
  <2> QED
    BY <1>0, <2>2, <2>3, <2>4, <2>5, <2>6
<1> QED
  BY <1>3, <1>4 DEF Turn, ScheduleTaskIfReady

LEMMA StructStep == StructInv /\ [Next]_vars => StructInv'
<1> SUFFICES ASSUME StructInv, [Next]_vars PROVE StructInv'
  OBVIOUS
<1>1. CASE UNCHANGED vars
  <2>1. TypeOK'
    BY <1>1, TypeStep DEF StructInv
  <2>2. /\ EndedWhenDone' /\ PickedForProcessor' /\ PickedIsPending' /\ DoneClosed' /\ PendingClosed'
    BY <1>1 DEF StructInv, vars, EndedWhenDone, PickedForProcessor, PickedIsPending, DoneClosed,
         PendingClosed, Pending, Done, Needs, Preceding, MeasuredBy, Tasks
  <2> QED
    BY <2>1, <2>2 DEF StructInv
<1> QED
  BY <1>1, AdvanceKeepsStruct, TurnKeepsStruct, NextIsTurn

-----------------------------------------------------------------------------
(***************************************************************************)
(* The times: the second layer.                                            *)
(***************************************************************************)
LEMMA TimesAreNumbers ==
  ASSUME TypeOK
  PROVE  /\ globalTime \in 0 .. Word - 1 /\ globalTime \in Nat
         /\ \A x \in Processors : procTime[x] \in Nat /\ Lag(x) \in Int
         /\ \A t \in Tasks : TimeOf(path, t) \in Nat /\ ended[t] \in Int
<1>1. globalTime \in 0 .. Word - 1 /\ globalTime \in Nat
  BY PathsAssumption DEF TypeOK
<1>2. ASSUME NEW x \in Processors PROVE procTime[x] \in Nat /\ Lag(x) \in Int
  <2>1. procTime[x] \in 0 .. Word - 1
    BY DEF TypeOK
  <2> QED
    BY <1>1, <2>1, PathsAssumption DEF Lag
<1>3. ASSUME NEW t \in Tasks PROVE TimeOf(path, t) \in Nat /\ ended[t] \in Int
  <2>1. ended[t] \in {NoTime} \cup 0 .. Word - 1
    BY DEF TypeOK
  <2> QED
    BY <2>1, TimeIsNat, PathsAssumption DEF TypeOK, Tasks, NoTime
<1> QED
  BY <1>1, <1>2, <1>3

LEMMA DoneIsFinite ==
  ASSUME TypeOK
  PROVE  /\ IsFiniteSet(Done) /\ Cardinality(Done) \in Nat
         /\ IsFiniteSet(Tasks) /\ Cardinality(Tasks) \in Nat
         /\ \A t \in waiting : /\ Cardinality(Done \cup {t}) = Cardinality(Done) + 1
                             /\ Cardinality(Done) + 1 <= Cardinality(Tasks)
<1>1. IsFiniteSet(Tasks)
  BY TasksFinite DEF TypeOK, Tasks
<1>2. IsFiniteSet(Done)
  BY <1>1, FS_Subset DEF Done
<1>3. Cardinality(Done) \in Nat /\ Cardinality(Tasks) \in Nat
  BY <1>1, <1>2, FS_CardinalityType
<1>4. ASSUME NEW t \in waiting
      PROVE  /\ Cardinality(Done \cup {t}) = Cardinality(Done) + 1
             /\ Cardinality(Done) + 1 <= Cardinality(Tasks)
  <2>1. t \notin Done /\ Done \cup {t} \in SUBSET Tasks
    BY DEF Done, TypeOK
  <2>2. Cardinality(Done \cup {t}) = Cardinality(Done) + 1
    BY <1>2, <2>1, FS_AddElement
  <2>3. Cardinality(Done \cup {t}) <= Cardinality(Tasks)
    BY <1>1, <2>1, FS_Subset
  <2> QED
    BY <2>2, <2>3
<1> QED
  BY <1>1, <1>2, <1>3, <1>4

LEMMA OneMore ==
  ASSUME NEW n \in Nat, NEW m \in Nat
  PROVE  (n + 1) * m = n * m + m /\ n * m \in Nat /\ n * m <= (n + 1) * m
  OBVIOUS

LEMMA Monotonic ==
  ASSUME NEW n \in Nat, NEW k \in Nat, n <= k, NEW m \in Nat
  PROVE  n * m <= k * m /\ n * m \in Nat /\ k * m \in Nat
  OBVIOUS

\* No task takes Word or longer.
LEMMA TimeBelowWord ==
  ASSUME TypeOK, NEW t \in Tasks
  PROVE  TimeOf(path, t) < Word
<1>1. PICK m \in Nat : /\ \A u \in Tasks : TimeOf(path, u) <= m
                     /\ Cardinality(Tasks) * m < Word
  BY LongestExists DEF TypeOK, Tasks
<1>2. Cardinality(Tasks) \in Nat \ {0}
  BY DoneIsFinite, FS_EmptySet
<1>3. 1 * m <= Cardinality(Tasks) * m /\ Cardinality(Tasks) * m \in Nat
  BY <1>2, Monotonic
<1> QED
  BY <1>1, <1>3, TimesAreNumbers, PathsAssumption

LEMMA TimeInit == Init => TimeInv
<1> SUFFICES ASSUME Init PROVE TimeInv
  OBVIOUS
<1>1. Done = {} /\ \A x \in Processors : procTime[x] = 0 /\ ~ Pending(x)
  BY NoTaskIsNone DEF Init, Done, Pending, Tasks
<1>2. globalTime = 0 /\ step = "advance"
  BY DEF Init
<1>3. NothingInFuture /\ LagInTime /\ IdleSettled /\ PendingAfterNeeds /\ DoneAfterNeeds
  BY <1>1, <1>2 DEF NothingInFuture, LagInTime, IdleSettled, Settled, Lag, PendingAfterNeeds, DoneAfterNeeds
<1>4. TimeIsSpent
  <2>1. Cardinality(Done) = 0
    BY <1>1, FS_EmptySet
  <2> QED
    BY <1>2, <2>1 DEF TimeIsSpent
<1> QED
  BY <1>3, <1>4 DEF TimeInv

\* As long as nothing is overtaken, a picked task needs what it has not run yet.
LEMMA NeedsTheRest ==
  ASSUME StructInv, TimeInv, Advance, ~overtaken', NEW x \in Processors, picked'[x] # NoTask
  PROVE  /\ picked'[x] \in waiting /\ picked'[x] \in Tasks
         /\ Pending(x) => picked'[x] = picked[x]
         /\ Lag(x) \in Nat /\ Lag(x) <= TimeOf(path, picked'[x])
         /\ StillNeeds(picked'[x]) = TimeOf(path, picked'[x]) - Lag(x)
<1> DEFINE t == picked'[x]
<1>0. TypeOK
  BY DEF StructInv
<1>1. t \in Available(x) /\ step = "advance"
  BY <1>0, AdvanceEffect
<1>2. t \in waiting /\ t \in Tasks /\ Processor(path, t) = x
  BY <1>0, <1>1 DEF Available, TypeOK
<1>3. Pending(x) => t = picked[x]
  BY DEF Advance, Pending
<1>4. Lag(x) >= 0
  BY <1>0, TimesAreNumbers DEF TimeInv, NothingInFuture, Lag
<1>5. Pending(x) \/ Lag(x) = 0
  BY <1>1 DEF TimeInv, IdleSettled, Settled
<1>6. TimeOf(path, t) \in Nat /\ TimeOf(path, t) < Word
  BY <1>0, <1>2, TimesAreNumbers, TimeBelowWord
<1>7. Lag(x) <= TimeOf(path, t)
  BY <1>3, <1>5, <1>6 DEF TimeInv, LagInTime
<1>8. Lag(x) \in Int /\ Lag(x) = globalTime - procTime[x]
  BY <1>0, TimesAreNumbers DEF Lag
<1> HIDE DEF t
<1>9. TimeOf(path, t) - Lag(x) \in 0 .. Word - 1
  BY <1>4, <1>6, <1>7, <1>8, PathsAssumption
<1>10. StillNeeds(t) = (TimeOf(path, t) - Lag(x)) % Word
  BY <1>2, <1>8 DEF StillNeeds
<1>11. StillNeeds(t) = TimeOf(path, t) - Lag(x)
  BY <1>9, <1>10, ModSmall
<1> QED
  BY <1>2, <1>3, <1>4, <1>7, <1>8, <1>11 DEF t

\* The global time is advanced until some picked task is over, and does not wrap.
LEMMA AdvanceTime ==
  ASSUME StructInv, TimeInv, Advance, ~overtaken'
  PROVE  \/ globalTime' = globalTime /\ \A x \in Processors : picked'[x] = NoTask
         \/ \E y \in Processors :
              /\ picked'[y] # NoTask
              /\ globalTime' - procTime[y] = TimeOf(path, picked'[y])
              /\ globalTime <= globalTime'
              /\ globalTime' <= globalTime + TimeOf(path, picked'[y])
              /\ \A x \in Processors : picked'[x] # NoTask =>
                   globalTime' - procTime[x] <= TimeOf(path, picked'[x])
<1>0. TypeOK
  BY DEF StructInv
<1>1. CASE globalTime' = globalTime % Word /\ \A x \in Processors : picked'[x] = NoTask
  BY <1>0, <1>1, ModSmall, TimesAreNumbers
<1>2. CASE \E y \in Processors :
             /\ picked'[y] # NoTask
             /\ StillNeeds(picked'[y]) \in 0 .. Word - 1
             /\ globalTime' = (globalTime + StillNeeds(picked'[y])) % Word
             /\ \A x \in Processors : picked'[x] # NoTask => StillNeeds(picked'[y]) <= StillNeeds(picked'[x])
  <2>1. PICK y \in Processors :
             /\ picked'[y] # NoTask
             /\ globalTime' = (globalTime + StillNeeds(picked'[y])) % Word
             /\ \A x \in Processors : picked'[x] # NoTask => StillNeeds(picked'[y]) <= StillNeeds(picked'[x])
    BY <1>2
  <2>2. PICK t \in Tasks : t = picked'[y]
    BY <2>1, NeedsTheRest
  <2>3. PICK d \in Int : d = StillNeeds(t) /\ d = TimeOf(path, t) - Lag(y) /\ Lag(y) \in Nat /\ 0 <= d
    BY <1>0, <2>1, <2>2, NeedsTheRest, TimesAreNumbers
  <2>4. t \in waiting
    BY <2>1, <2>2, NeedsTheRest
  <2>5. globalTime' = (globalTime + d) % Word
    BY <2>1, <2>2, <2>3
  <2>6. PICK m \in Nat : Longest(m) /\ Cardinality(Tasks) * m < Word
    BY <1>0, LongestExists DEF TypeOK, Tasks, Longest
  <2>7. step = "advance"
    BY DEF Advance
  <2>8. globalTime <= Cardinality(Done) * m
    BY <2>6, <2>7 DEF TimeInv, TimeIsSpent, SomeDue
  <2>9. TimeOf(path, t) \in Nat /\ TimeOf(path, t) <= m
    BY <1>0, <2>6, TimesAreNumbers DEF Longest
  <2>10. (Cardinality(Done) + 1) * m < Word
    <3>1. Cardinality(Done) \in Nat /\ Cardinality(Tasks) \in Nat /\ Cardinality(Done) + 1 <= Cardinality(Tasks)
      BY <1>0, <2>4, DoneIsFinite
    <3>2. (Cardinality(Done) + 1) * m <= Cardinality(Tasks) * m
      BY <3>1, Monotonic
    <3> QED
      BY <3>1, <3>2, <2>6, Monotonic, PathsAssumption
  <2>11. Cardinality(Done) * m \in Nat /\ (Cardinality(Done) + 1) * m = Cardinality(Done) * m + m
    BY <1>0, DoneIsFinite, OneMore
  <2>12. globalTime + d \in 0 .. Word - 1
    BY <1>0, <2>3, <2>8, <2>9, <2>10, <2>11, TimesAreNumbers, PathsAssumption
  <2>13. globalTime' = globalTime + d
    BY <2>5, <2>12, ModSmall
  <2>14. \A x \in Processors : procTime[x] \in Nat /\ Lag(x) = globalTime - procTime[x]
    BY <1>0, TimesAreNumbers DEF Lag
  <2>15. globalTime' - procTime[y] = TimeOf(path, t)
    BY <1>0, <2>3, <2>9, <2>13, <2>14, TimesAreNumbers
  <2>16. globalTime <= globalTime' /\ globalTime' <= globalTime + TimeOf(path, t)
    BY <1>0, <2>3, <2>9, <2>13, TimesAreNumbers
  <2>17. ASSUME NEW x \in Processors, picked'[x] # NoTask
         PROVE  globalTime' - procTime[x] <= TimeOf(path, picked'[x])
    <3>1. PICK u \in Tasks : u = picked'[x]
      BY <2>17, NeedsTheRest
    <3>2. StillNeeds(u) = TimeOf(path, u) - Lag(x) /\ TimeOf(path, u) \in Nat
      BY <1>0, <2>17, <3>1, NeedsTheRest, TimesAreNumbers
    <3>3. d <= StillNeeds(u)
      BY <2>1, <2>2, <2>3, <2>17, <3>1
    <3>4. globalTime' - procTime[x] <= TimeOf(path, u)
      BY <1>0, <2>13, <2>14, <3>2, <3>3, TimesAreNumbers
    <3> QED
      BY <3>1, <3>4
  <2> QED
    BY <2>1, <2>2, <2>15, <2>16, <2>17
<1> QED
  BY <1>0, <1>1, <1>2, AdvanceEffect

LEMMA AdvanceKeepsTime == StructInv /\ TimeInv /\ Advance /\ ~overtaken' => TimeInv'
<1> SUFFICES ASSUME StructInv, TimeInv, Advance, ~overtaken' PROVE TimeInv'
  OBVIOUS
<1>0. TypeOK
  BY DEF StructInv
<1>1. /\ step = "advance" /\ step' = "qpu" /\ Done' = Done /\ Tasks' = Tasks
      /\ UNCHANGED <<path, waiting, procTime, ended>>
  BY <1>0, AdvanceEffect
<1>2. \A t : Needs(t)' = Needs(t)
  BY <1>1, NeedsStay
<1>3. globalTime' \in Nat /\ globalTime <= globalTime'
  <2>1. TypeOK'
    BY <1>0, TypeStep DEF Next
  <2>2. globalTime' \in Nat
    BY <2>1, PathsAssumption DEF TypeOK
  <2> QED
    BY <1>0, <2>2, AdvanceTime, TimesAreNumbers
<1>4. \A x \in Processors : picked'[x] \in waiting => picked'[x] # NoTask
  BY <1>0, NoTaskIsNone DEF TypeOK, Tasks
<1>5. NothingInFuture'
  BY <1>0, <1>1, <1>3, TimesAreNumbers DEF TimeInv, NothingInFuture, Done
<1>6. LagInTime'
  <2> SUFFICES ASSUME NEW x \in Processors, picked'[x] \in waiting
               PROVE  globalTime' - procTime[x] <= TimeOf(path, picked'[x])
    BY <1>1 DEF LagInTime, Pending, Lag
  <2> QED
    BY <1>4, AdvanceTime
<1>7. IdleSettled'
  BY <1>1 DEF IdleSettled
<1>8. PendingAfterNeeds'
  <2> SUFFICES ASSUME NEW x \in Processors, picked'[x] \in waiting, NEW u \in Needs(picked'[x])
               PROVE  ended[u] <= procTime[x]
    BY <1>1 DEF PendingAfterNeeds, Pending, Needs, Preceding, MeasuredBy, Tasks
  <2>1. CASE Pending(x)
    BY <1>4, <2>1, NeedsTheRest DEF TimeInv, PendingAfterNeeds
  <2>2. CASE ~ Pending(x)
    <3>1. u \in Done
      BY <1>0, <1>4, AdvanceEffect, AvailableNeedsDone DEF StructInv
    <3>2. ended[u] <= globalTime
      BY <3>1 DEF TimeInv, NothingInFuture
    <3>3. globalTime = procTime[x]
      BY <1>0, <1>1, <2>2, TimesAreNumbers DEF TimeInv, IdleSettled, Settled, Lag
    <3> QED
      BY <3>2, <3>3
  <2> QED
    BY <2>1, <2>2
<1>9. DoneAfterNeeds'
  BY <1>1, <1>2 DEF TimeInv, DoneAfterNeeds
<1>10. TimeIsSpent'
  <2> SUFFICES ASSUME NEW m \in Nat, \A t \in Tasks : TimeOf(path, t) <= m
               PROVE  \/ globalTime' <= Cardinality(Done) * m
                      \/ SomeDue' /\ globalTime' <= (Cardinality(Done) + 1) * m
    BY <1>1 DEF TimeIsSpent, Longest
  <2>1. globalTime <= Cardinality(Done) * m
    BY <1>1 DEF TimeInv, TimeIsSpent, SomeDue, Longest
  <2>2. CASE globalTime' = globalTime
    BY <2>1, <2>2
  <2>3. CASE \E y \in Processors :
               /\ picked'[y] # NoTask
               /\ globalTime' - procTime[y] = TimeOf(path, picked'[y])
               /\ globalTime' <= globalTime + TimeOf(path, picked'[y])
    <3>1. PICK y \in Processors :
               /\ picked'[y] # NoTask
               /\ globalTime' - procTime[y] = TimeOf(path, picked'[y])
               /\ globalTime' <= globalTime + TimeOf(path, picked'[y])
      BY <2>3
    <3>2. picked'[y] \in waiting /\ picked'[y] \in Tasks
      BY <3>1, NeedsTheRest
    <3>3. SomeDue'
      BY <1>1, <3>1, <3>2 DEF SomeDue, Due, Pending, Lag
    <3>4. TimeOf(path, picked'[y]) \in Nat /\ TimeOf(path, picked'[y]) <= m
      BY <1>0, <3>2, TimesAreNumbers
    <3>5. Cardinality(Done) * m \in Nat /\ (Cardinality(Done) + 1) * m = Cardinality(Done) * m + m
      BY <1>0, DoneIsFinite, OneMore
    <3>6. globalTime' <= (Cardinality(Done) + 1) * m
      BY <1>0, <1>3, <2>1, <3>1, <3>4, <3>5, TimesAreNumbers
    <3> QED
      BY <3>3, <3>6
  <2> QED
    BY <2>2, <2>3, AdvanceTime
<1> QED
  BY <1>5, <1>6, <1>7, <1>8, <1>9, <1>10 DEF TimeInv

\* A processor schedules its task exactly when the task's time is over.
LEMMA ReadyIsDue ==
  ASSUME StructInv, TimeInv, NEW x \in Processors, Pending(x)
  PROVE  Ready(x) <=> Due(x)
<1>1. picked[x] \in Tasks /\ picked[x] # NoTask
  BY NoTaskIsNone DEF StructInv, TypeOK, Pending, Tasks
<1>2. globalTime \in 0 .. Word - 1 /\ procTime[x] \in Nat /\ procTime[x] <= globalTime
  BY TimesAreNumbers DEF StructInv, TimeInv, NothingInFuture
<1>3. globalTime - procTime[x] \in 0 .. Word - 1
  BY <1>2, PathsAssumption
<1>4. (globalTime - procTime[x]) % Word = Lag(x)
  BY <1>3, ModSmall DEF Lag
<1>5. Lag(x) \in Int /\ TimeOf(path, picked[x]) \in Nat /\ Lag(x) <= TimeOf(path, picked[x])
  BY <1>1, TimesAreNumbers DEF StructInv, TimeInv, LagInTime
<1> QED
  BY <1>1, <1>4, <1>5 DEF Ready, Due

\* A due task stays due until its processor's turn.
LEMMA DueStays ==
  ASSUME StructInv, TimeInv, NEW x \in Processors, Turn(x), ~ Schedule(x), SomeDue
  PROVE  SomeDue'
<1>1. /\ step = x /\ UNCHANGED <<path, picked, globalTime>>
      /\ step' = IF x = "qpu" THEN "cpu" ELSE "advance"
      /\ Idle(x) \/ Wait(x)
  BY DEF Turn, ScheduleTaskIfReady
<1>2. ~ Due(x)
  <2> SUFFICES ASSUME Due(x) PROVE FALSE
    OBVIOUS
  <2>1. picked[x] # NoTask /\ Ready(x)
    BY ReadyIsDue, NoTaskIsNone DEF Due, Pending, StructInv, TypeOK, Tasks
  <2> QED
    BY <1>1, <2>1 DEF Idle, Wait
<1>3. x = "qpu" /\ Due("cpu") /\ step' = "cpu"
  BY <1>1, <1>2 DEF SomeDue, Processors
<1>4. waiting' = waiting /\ procTime'["cpu"] = procTime["cpu"]
  BY <1>1, <1>3 DEF Idle, Wait, StructInv, TypeOK, Processors
<1> QED
  BY <1>1, <1>3, <1>4 DEF SomeDue, Due, Pending, Lag

LEMMA WaitKeepsTime ==
  ASSUME StructInv, TimeInv, NEW x \in Processors, Turn(x), Idle(x) \/ Wait(x)
  PROVE  TimeInv'
<1>0. TypeOK
  BY DEF StructInv
<1>1. /\ step = x /\ UNCHANGED <<path, picked, globalTime, waiting, ended>>
      /\ step' = IF x = "qpu" THEN "cpu" ELSE "advance"
      /\ Done' = Done /\ Tasks' = Tasks
  BY DEF Turn, ScheduleTaskIfReady, Idle, Wait, Done, Tasks
<1>2. \A t : Needs(t)' = Needs(t)
  BY <1>1, NeedsStay
<1>3. \A y \in Processors : procTime'[y] = procTime[y] \/ (y = x /\ picked[x] = NoTask /\ procTime'[y] = globalTime)
  BY <1>0 DEF Idle, Wait, TypeOK
<1>4. \A y \in Processors : Pending(y) => procTime'[y] = procTime[y]
  BY <1>0, <1>3, NoTaskIsNone DEF Pending, TypeOK, Tasks
<1>5. NothingInFuture'
  BY <1>0, <1>1, <1>3, TimesAreNumbers DEF TimeInv, NothingInFuture
<1>6. LagInTime'
  BY <1>1, <1>4 DEF TimeInv, LagInTime, Pending, Lag
<1>7. IdleSettled'
  <2>1. Settled(x)'
    <3>1. CASE Idle(x)
      <4>1. procTime'[x] = globalTime
        BY <1>0, <3>1 DEF Idle, TypeOK
      <4> QED
        BY <1>0, <1>1, <4>1, TimesAreNumbers DEF Settled, Lag
    <3>2. CASE Wait(x)
      BY <1>1, <3>2, TurnIsPending DEF Settled, Pending, Wait
    <3> QED
      BY <3>1, <3>2
  <2>2. ASSUME x = "cpu" PROVE Settled("qpu")'
    <3>1. Settled("qpu") /\ procTime'["qpu"] = procTime["qpu"]
      BY <1>1, <1>3, <2>2 DEF TimeInv, IdleSettled, Processors
    <3> QED
      BY <1>1, <3>1 DEF Settled, Pending, Lag
  <2> QED
    BY <1>1, <2>1, <2>2 DEF IdleSettled, Processors
<1>8. PendingAfterNeeds'
  <2> SUFFICES ASSUME NEW y \in Processors, Pending(y), NEW u \in Needs(picked[y])
               PROVE  ended[u] <= procTime[y]
    BY <1>1, <1>4 DEF PendingAfterNeeds, Pending, Needs, Preceding, MeasuredBy, Tasks
  <2> QED
    BY DEF TimeInv, PendingAfterNeeds
<1>9. DoneAfterNeeds'
  BY <1>1, <1>2 DEF TimeInv, DoneAfterNeeds
<1>10. TimeIsSpent'
  <2>1. SomeDue => SomeDue'
    <3>1. ~ Schedule(x)
      <4>1. CASE Idle(x)
        BY <4>1 DEF Idle, Schedule, Ready
      <4>2. CASE Wait(x)
        BY <4>2 DEF Wait, Schedule
      <4> QED
        BY <4>1, <4>2
    <3> QED
      BY <3>1, DueStays
  <2> QED
    BY <1>1, <2>1 DEF TimeInv, TimeIsSpent, Longest
<1> QED
  BY <1>5, <1>6, <1>7, <1>8, <1>9, <1>10 DEF TimeInv

LEMMA ScheduleKeepsTime ==
  ASSUME StructInv, TimeInv, NEW x \in Processors, Turn(x), Schedule(x)
  PROVE  TimeInv'
<1> DEFINE t == picked[x]
<1>0. TypeOK
  BY DEF StructInv
<1>1. /\ step = x /\ UNCHANGED <<path, picked, globalTime>>
      /\ step' = IF x = "qpu" THEN "cpu" ELSE "advance"
  BY DEF Turn, ScheduleTaskIfReady
<1>2. /\ t \in Tasks /\ Tasks' = Tasks /\ Done' = Done \cup {t} /\ waiting' = waiting \ {t}
      /\ ended' = [ended EXCEPT ![t] = globalTime] /\ procTime' = [procTime EXCEPT ![x] = globalTime]
  BY <1>0, <1>1, ScheduleEffect
<1>3. Pending(x) /\ t \in waiting /\ t \notin Done
  BY <1>1, TurnIsPending DEF Schedule, Ready, Pending, Done
<1>4. Lag(x) = TimeOf(path, t)
  BY <1>3, ReadyIsDue DEF Schedule, Due
<1>5. \A u : Needs(u)' = Needs(u)
  BY <1>1, NeedsStay
<1>6. \A u \in Done : u # t /\ ended'[u] = ended[u]
  BY <1>0, <1>2, <1>3 DEF Done, TypeOK
<1>7. ended'[t] = globalTime
  BY <1>0, <1>2 DEF TypeOK
<1>8. procTime'[x] = globalTime /\ \A y \in Processors : y # x => procTime'[y] = procTime[y]
  BY <1>0, <1>2 DEF TypeOK
<1>9. \A y \in Processors : Pending(y)' => Pending(y) /\ y # x
  BY <1>1, <1>2 DEF Pending
<1>10. NothingInFuture'
  <2>1. \A y \in Processors : procTime'[y] <= globalTime
    BY <1>0, <1>8, TimesAreNumbers DEF TimeInv, NothingInFuture
  <2>2. \A u \in Done' : ended'[u] <= globalTime
    BY <1>0, <1>2, <1>6, <1>7, TimesAreNumbers DEF TimeInv, NothingInFuture
  <2> QED
    BY <1>1, <2>1, <2>2 DEF NothingInFuture
<1>11. LagInTime'
  BY <1>1, <1>8, <1>9 DEF TimeInv, LagInTime, Lag
<1>12. IdleSettled'
  <2>1. Settled(x)'
    BY <1>0, <1>1, <1>8, TimesAreNumbers DEF Settled, Lag
  <2>2. ASSUME x = "cpu" PROVE Settled("qpu")'
    <3>1. Settled("qpu") /\ procTime'["qpu"] = procTime["qpu"]
      BY <1>1, <1>8, <2>2 DEF TimeInv, IdleSettled, Processors
    <3>2. Pending("qpu") => Pending("qpu")'
      <4> SUFFICES ASSUME Pending("qpu") PROVE picked["qpu"] # t
        BY <1>1, <1>2 DEF Pending
      <4>1. picked["qpu"] # NoTask
        BY <1>0, NoTaskIsNone DEF Pending, TypeOK, Tasks
      <4> QED
        BY <2>2, <4>1, PickedDiffer DEF Processors
    <3> QED
      BY <1>1, <3>1, <3>2 DEF Settled, Lag
  <2> QED
    BY <1>1, <2>1, <2>2 DEF IdleSettled, Processors
<1>13. PendingAfterNeeds'
  <2> SUFFICES ASSUME NEW y \in Processors, Pending(y)', NEW u \in Needs(picked[y])
               PROVE  ended'[u] <= procTime'[y]
    BY <1>1 DEF PendingAfterNeeds, Needs, Preceding, MeasuredBy, Tasks
  <2>1. Pending(y) /\ procTime'[y] = procTime[y]
    BY <1>8, <1>9
  <2>2. u \in Done
    BY <2>1 DEF StructInv, PendingClosed
  <2>3. ended[u] <= procTime[y]
    BY <2>1 DEF TimeInv, PendingAfterNeeds
  <2> QED
    BY <1>6, <2>1, <2>2, <2>3
<1>14. DoneAfterNeeds'
  <2> SUFFICES ASSUME NEW v \in Done', NEW u \in Needs(v)
               PROVE  ended'[u] + TimeOf(path, v) <= ended'[v]
    BY <1>1, <1>5 DEF DoneAfterNeeds
  <2>1. CASE v \in Done
    <3>1. u \in Done
      BY <2>1 DEF StructInv, DoneClosed
    <3> QED
      BY <1>6, <2>1, <3>1 DEF TimeInv, DoneAfterNeeds
  <2>2. CASE v = t
    <3>1. u \in Done /\ u \in Tasks
      BY <1>3, <2>2 DEF StructInv, PendingClosed, Done
    <3>2. ended[u] <= procTime[x]
      BY <1>3, <2>2 DEF TimeInv, PendingAfterNeeds
    <3>3. globalTime = procTime[x] + TimeOf(path, t)
      BY <1>0, <1>2, <1>4, TimesAreNumbers DEF Lag
    <3>4. ended[u] + TimeOf(path, t) <= globalTime
      BY <1>0, <1>2, <3>1, <3>2, <3>3, TimesAreNumbers
    <3> QED
      BY <1>6, <1>7, <2>2, <3>1, <3>4
  <2> QED
    BY <1>2, <2>1, <2>2
<1>15. TimeIsSpent'
  <2> SUFFICES ASSUME NEW m \in Nat, Longest(m)
               PROVE  globalTime <= Cardinality(Done') * m
    BY <1>1, <1>2 DEF TimeIsSpent, Longest
  <2>1. Cardinality(Done') = Cardinality(Done) + 1 /\ Cardinality(Done) \in Nat
    BY <1>0, <1>2, <1>3, DoneIsFinite
  <2>2. /\ Cardinality(Done) * m <= (Cardinality(Done) + 1) * m
        /\ Cardinality(Done) * m \in Nat /\ (Cardinality(Done) + 1) * m \in Nat
    BY <2>1, OneMore
  <2>3. \/ globalTime <= Cardinality(Done) * m
        \/ globalTime <= (Cardinality(Done) + 1) * m
    BY DEF TimeInv, TimeIsSpent
  <2> QED
    BY <1>0, <2>1, <2>2, <2>3, TimesAreNumbers
<1> QED
  BY <1>10, <1>11, <1>12, <1>13, <1>14, <1>15 DEF TimeInv

LEMMA TimeStep == StructInv /\ (~overtaken => TimeInv) /\ [Next]_vars => (~overtaken' => TimeInv')
<1> SUFFICES ASSUME StructInv, ~overtaken => TimeInv, [Next]_vars, ~overtaken' PROVE TimeInv'
  OBVIOUS
<1>1. CASE Advance
  BY <1>1, AdvanceKeepsTime DEF Advance
<1>2. ASSUME NEW x \in Processors, Turn(x) PROVE TimeInv'
  BY <1>2, WaitKeepsTime, ScheduleKeepsTime DEF Turn, ScheduleTaskIfReady
<1>3. CASE UNCHANGED vars
  BY <1>3 DEF vars, TimeInv, NothingInFuture, LagInTime, IdleSettled, Settled, PendingAfterNeeds, DoneAfterNeeds,
       TimeIsSpent, SomeDue, Due, Longest, Lag, Pending, Done, Needs, Preceding, MeasuredBy, Tasks
<1> QED
  BY <1>1, <1>2, <1>3, NextIsTurn

-----------------------------------------------------------------------------
(***************************************************************************)
(* The lifetimes: the third layer.                                         *)
(***************************************************************************)
LEMMA QubitTasks ==
  ASSUME TypeOK, NEW q \in DOMAIN path.init
  PROVE  /\ path.init[q] \in Tasks
         /\ path.meas[q] \in Tasks => path.init[q] \in Needs(path.meas[q])
  BY PathsAssumption DEF TypeOK, QubitsFlow, Tasks, Needs, MeasuredBy

LEMMA LifetimesInit == Init => LifetimesExact
  BY PathsAssumption DEF Init, LifetimesExact, LifetimeIs, QubitsFlow, Tasks

LEMMA LifetimesSame ==
  ASSUME LifetimesExact, UNCHANGED <<path, waiting, ended, lifetimes>>
  PROVE  LifetimesExact'
  BY DEF LifetimesExact, LifetimeIs, Done, Tasks

LEMMA ScheduleKeepsLifetimes ==
  ASSUME StructInv, TimeInv, LifetimesExact, NEW x \in Processors, Turn(x), Schedule(x)
  PROVE  LifetimesExact'
<1> DEFINE t == picked[x]
<1>0. TypeOK
  BY DEF StructInv
<1>1. /\ step = x /\ path' = path
  BY DEF Turn, ScheduleTaskIfReady
<1>2. /\ t \in Tasks /\ Tasks' = Tasks /\ Done' = Done \cup {t} /\ waiting' = waiting \ {t}
      /\ ended' = [ended EXCEPT ![t] = globalTime]
      /\ lifetimes' = [q \in DOMAIN path.init |-> Lifetime(q, t)]
  BY <1>0, <1>1, ScheduleEffect
<1>3. Pending(x) /\ t \in waiting /\ t \notin Done
  BY <1>1, TurnIsPending DEF Schedule, Ready, Pending, Done
<1>4. Needs(t) \subseteq Done
  BY <1>3 DEF StructInv, PendingClosed
<1>5. ended'[t] = globalTime /\ \A u \in Tasks : u # t => ended'[u] = ended[u]
  BY <1>0, <1>2 DEF TypeOK
<1> SUFFICES ASSUME NEW q \in DOMAIN path.init
             PROVE  Lifetime(q, t) =
                      IF path.init[q] \in waiting' THEN NoTime
                      ELSE IF path.meas[q] \in Done' THEN ended'[path.meas[q]] - ended'[path.init[q]]
                      ELSE ended'[path.init[q]]
  BY <1>1, <1>2 DEF LifetimesExact, LifetimeIs
<1> DEFINE i == path.init[q]
           m == path.meas[q]
<1>6. i \in Tasks /\ (m \in Tasks => i \in Needs(m))
  BY <1>0, QubitTasks
<1>7. lifetimes[q] = IF i \in waiting THEN NoTime ELSE IF m \in Done THEN ended[m] - ended[i] ELSE ended[i]
  BY DEF LifetimesExact, LifetimeIs
<1>8. m \in Done => i \in Done
  BY <1>6 DEF StructInv, DoneClosed, Done
<1>9. CASE i \in waiting
  <2>1. m # t /\ m \notin Done /\ lifetimes[q] = NoTime
    BY <1>2, <1>4, <1>6, <1>7, <1>8, <1>9 DEF Done
  <2> QED
    BY <1>2, <1>3, <1>5, <1>9, <2>1 DEF Lifetime
<1>10. CASE i \notin waiting
  <2>1. i \in Done /\ i # t
    BY <1>3, <1>6, <1>10 DEF Done
  <2>2. CASE m = t
    <3>1. lifetimes[q] = ended[i] /\ ended[i] # NoTime
      BY <1>3, <1>6, <1>7, <1>10, <2>2 DEF StructInv, EndedWhenDone
    <3>2. ended[i] \in 0 .. Word - 1 /\ ended[i] <= globalTime
      BY <1>0, <1>6, <2>1, <3>1 DEF TypeOK, TimeInv, NothingInFuture
    <3>3. globalTime - ended[i] \in 0 .. Word - 1
      BY <1>0, <3>2, TimesAreNumbers, PathsAssumption
    <3>4. Lifetime(q, t) = globalTime - ended[i]
      BY <2>1, <2>2, <3>1, <3>3, ModSmall DEF Lifetime
    <3> QED
      BY <1>2, <1>5, <1>6, <1>10, <2>1, <2>2, <3>4
  <2>3. CASE m # t
    <3>1. Lifetime(q, t) = lifetimes[q]
      BY <2>1, <2>3 DEF Lifetime
    <3>2. m \in Done' <=> m \in Done
      BY <1>2, <2>3
    <3>3. m \in Done => ended'[m] = ended[m]
      BY <1>5, <2>3 DEF Done
    <3> QED
      BY <1>2, <1>5, <1>6, <1>7, <1>10, <2>1, <3>1, <3>2, <3>3
  <2> QED
    BY <2>2, <2>3
<1> QED
  BY <1>9, <1>10

LEMMA LifetimesStep ==
  StructInv /\ (~overtaken => TimeInv /\ LifetimesExact) /\ [Next]_vars => (~overtaken' => LifetimesExact')
<1> SUFFICES ASSUME StructInv, ~overtaken => TimeInv /\ LifetimesExact, [Next]_vars, ~overtaken'
             PROVE  LifetimesExact'
  OBVIOUS
<1>1. CASE Advance \/ UNCHANGED vars
  BY <1>1, LifetimesSame DEF Advance, vars
<1>2. ASSUME NEW x \in Processors, Turn(x) PROVE LifetimesExact'
  <2>1. ~overtaken /\ path' = path /\ (Idle(x) \/ Wait(x) \/ Schedule(x))
    BY <1>2 DEF Turn, ScheduleTaskIfReady
  <2>2. CASE Schedule(x)
    BY <1>2, <2>1, <2>2, ScheduleKeepsLifetimes
  <2>3. CASE Idle(x) \/ Wait(x)
    BY <2>1, <2>3, LifetimesSame DEF Idle, Wait
  <2> QED
    BY <2>1, <2>2, <2>3
<1> QED
  BY <1>1, <1>2, NextIsTurn

-----------------------------------------------------------------------------
(***************************************************************************)
(* The invariant, and what follows from it.                                *)
(***************************************************************************)
LEMMA IInvIsInductive == Spec => []IInv
<1>1. Init => IInv
  BY StructInit, TimeInit, LifetimesInit DEF IInv
<1>2. IInv /\ [Next]_vars => IInv'
  BY StructStep, TimeStep, LifetimesStep DEF IInv
<1> QED
  BY <1>1, <1>2, PTL DEF Spec

(***************************************************************************)
(* The variables have their types: in particular, times are words.         *)
(***************************************************************************)
THEOREM SchedulerTypeCorrect == Spec => []TypeOK
<1>1. IInv => TypeOK
  BY DEF IInv, StructInv
<1> QED
  BY <1>1, IInvIsInductive, PTL

(***************************************************************************)
(* Whatever overtakes what, a task is scheduled after every task of the    *)
(* blocks it must follow, of its block, and of the qubits it measures: a   *)
(* wrong time never changes the order of dependent tasks.                  *)
(***************************************************************************)
THEOREM ScheduledInOrder == Spec => [](\A t \in Scheduled : Needs(t) \subseteq Scheduled)
<1>1. IInv => \A t \in Scheduled : Needs(t) \subseteq Scheduled
  BY DEF IInv, StructInv, EndedWhenDone, DoneClosed, Scheduled, Done
<1> QED
  BY <1>1, IInvIsInductive, PTL

(***************************************************************************)
(* As long as nothing is overtaken, a task starts when everything it must  *)
(* follow has ended (runScheduler, scheduleTaskIfReady).                   *)
(***************************************************************************)
THEOREM StartsInTime == Spec => []StartsAfterDependences
<1>1. IInv => StartsAfterDependences
  <2> SUFFICES ASSUME IInv, ~overtaken, NEW t \in Scheduled, NEW u \in Tasks,
                      u[1] \in Followed(path, t[1]) \/ (u[1] = t[1] /\ u[2] < t[2])
               PROVE  u \in Scheduled /\ ended[u] + TimeOf(path, t) <= ended[t]
    BY DEF StartsAfterDependences
  <2>1. u \in Needs(t)
    BY DEF Needs, Preceding
  <2>2. t \in Done
    BY DEF IInv, StructInv, EndedWhenDone, Scheduled, Done
  <2>3. u \in Scheduled
    BY <2>1, <2>2 DEF IInv, StructInv, EndedWhenDone, DoneClosed, Scheduled, Done
  <2>4. ended[u] + TimeOf(path, t) <= ended[t]
    BY <2>1, <2>2 DEF IInv, TimeInv, DoneAfterNeeds
  <2> QED
    BY <2>3, <2>4
<1> QED
  BY <1>1, IInvIsInductive, PTL

(***************************************************************************)
(* As long as nothing is overtaken, the lifetime of a measured qubit is    *)
(* the time from its initialisation to its measurement, which does not     *)
(* wrap, and includes the measurement (updateQubitLifetime).               *)
(***************************************************************************)
THEOREM LifetimesReported == Spec => []LifetimesReachMeasurement
<1>1. IInv => LifetimesReachMeasurement
  <2> SUFFICES ASSUME IInv, NEW q \in DOMAIN path.init, ~overtaken, path.meas[q] \in Scheduled
               PROVE  /\ lifetimes[q] = ended[path.meas[q]] - ended[path.init[q]]
                      /\ lifetimes[q] >= TimeOf(path, path.meas[q])
    BY DEF LifetimesReachMeasurement
  <2> DEFINE i == path.init[q]
             m == path.meas[q]
  <2>1. TypeOK /\ m \in Done
    BY DEF IInv, StructInv, EndedWhenDone, Scheduled, Done
  <2>2. i \in Needs(m) /\ i \in Tasks /\ m \in Tasks
    BY <2>1, QubitTasks DEF Done
  <2>3. i \notin waiting
    BY <2>1, <2>2 DEF IInv, StructInv, DoneClosed, Done
  <2>4. lifetimes[q] = ended[m] - ended[i]
    BY <2>1, <2>3 DEF IInv, LifetimesExact, LifetimeIs
  <2>5. ended[i] + TimeOf(path, m) <= ended[m]
    BY <2>1, <2>2 DEF IInv, TimeInv, DoneAfterNeeds
  <2> QED
    BY <2>1, <2>2, <2>4, <2>5, TimesAreNumbers
<1> QED
  BY <1>1, IInvIsInductive, PTL

(***************************************************************************)
(* The global time never goes back, unless a task was overtaken: the       *)
(* unsigned increment of computeTimeIncrement wraps in no other case.      *)
(***************************************************************************)
THEOREM TimeGoesOn == Spec => [][~overtaken' => globalTime <= globalTime']_vars
<1>1. IInv /\ [Next]_vars => [~overtaken' => globalTime <= globalTime']_vars
  <2> SUFFICES ASSUME IInv, Next, ~overtaken' PROVE globalTime <= globalTime'
    BY DEF vars
  <2>1. ~overtaken
    BY DEF Next, Advance, ScheduleTaskIfReady
  <2>2. StructInv /\ TimeInv /\ globalTime \in Nat
    BY <2>1, TimesAreNumbers DEF IInv, StructInv
  <2>3. CASE Advance
    BY <2>2, <2>3, AdvanceTime
  <2>4. CASE \E x \in Processors : Turn(x)
    BY <2>2, <2>4 DEF Turn, ScheduleTaskIfReady
  <2> QED
    BY <2>3, <2>4, NextIsTurn
<1> QED
  BY <1>1, IInvIsInductive, PTL DEF Spec
=============================================================================
