-------------------------- MODULE LifetimeScheduler --------------------------
(***************************************************************************)
(* The estimate of qubit lifetimes: the blocks of one execution path are   *)
(* cut into tasks of the host processor (cpu) and of the quantum processor *)
(* (qpu), and a list scheduler plays both processors against one global    *)
(* time.  One iteration of its loop is three steps: advance the time, then *)
(* schedule a qpu task if it is ready, then a cpu task.                    *)
(* A definition marked "Fault" is the one below it as a plausible mistake  *)
(* would have it; it is not part of the specification.                     *)
(***************************************************************************)
EXTENDS Integers, Sequences, FiniteSets

CONSTANTS
  Paths,     \* the paths the scheduler is run on
  Word       \* times are unsigned numbers below Word (2^64 in the code)

(***************************************************************************)
(* A path lists the blocks in the order the traversal visits them:         *)
(*   size    the number of blocks                                          *)
(*   parts   the times of the qpu tasks of a block: its routine, cut after *)
(*           each initialisation and measurement; empty for a classical    *)
(*           block                                                         *)
(*   host    the time of a classical block, or of each of the two cpu      *)
(*           tasks before and after a routine; a receive is given the      *)
(*           placeholder of a block without tasks, of time 0               *)
(*   after   the visited blocks a block must follow; a block of the path   *)
(*           not taken has no tasks and is nothing to wait for             *)
(*   jumped  the blocks reached by a jump from the block before            *)
(*   init    the task that initialises each qubit                          *)
(*   meas    the task that measures it, or Elsewhere                       *)
(***************************************************************************)
NoTask == <<0, 0>>
Elsewhere == NoTask
NoTime == -1

VARIABLES
  path,        \* the path that is scheduled
  waiting,     \* taskDependences: the tasks not scheduled yet
  step,        \* the next step of the iteration
  picked,      \* the next available task of each processor
  globalTime,
  procTime,    \* cpuTime and qpuTime
  lifetimes,   \* qubitLifetimes
  ended,       \* when each task was scheduled (history)
  overtaken    \* whether a task was picked before a pending one (history)

vars == <<path, waiting, step, picked, globalTime, procTime, lifetimes, ended, overtaken>>

Processors == {"cpu", "qpu"}

-----------------------------------------------------------------------------
(***************************************************************************)
(* processBlock: the tasks of a block are chained; the first one waits for *)
(* the last one of each block to follow.                                   *)
(***************************************************************************)
LastTask(p, b) == <<b, IF p.parts[b] = <<>> THEN 1 ELSE Len(p.parts[b]) + 2>>

TasksOf(p) == UNION {{b} \X (1 .. LastTask(p, b)[2]) : b \in 1 .. p.size}

Processor(p, t) == IF t[2] = 1 \/ t = LastTask(p, t[1]) THEN "cpu" ELSE "qpu"

TimeOf(p, t) == IF Processor(p, t) = "cpu" THEN p.host[t[1]] ELSE p.parts[t[1]][t[2] - 1]

Followed(p, b) == p.after[b] \cup (IF b \in p.jumped THEN {b - 1} ELSE {})

\* Fault: the first task waits for the first ones of the blocks to follow.
FirstDependences(p, t) ==
  IF t[2] > 1 THEN {<<t[1], t[2] - 1>>} ELSE {<<b, 1>> : b \in Followed(p, t[1])}

Dependences(p, t) ==
  IF t[2] > 1 THEN {<<t[1], t[2] - 1>>} ELSE {LastTask(p, b) : b \in Followed(p, t[1])}

\* What the blocks of S follow is in S.
Closed(p, S) == \A b \in S : Followed(p, b) \subseteq S

\* Block b follows a, directly or by way of others.
ComesAfter(p, b, a) == \A S \in SUBSET (1 .. p.size) : b \in S /\ Closed(p, S) => a \in S

IsPath(p) ==
  /\ p.size \in Nat
  /\ p.parts \in [1 .. p.size -> Seq(Nat)]
  /\ p.host \in [1 .. p.size -> Nat]
  /\ p.jumped \subseteq 2 .. p.size
  /\ p.after \in [1 .. p.size -> SUBSET (1 .. p.size)]
  /\ \A b \in 1 .. p.size : \A a \in p.after[b] : a < b

\* A qubit is measured after it was initialised, by the same routine or a later one.
QubitsFlow(p) ==
  /\ DOMAIN p.meas = DOMAIN p.init
  /\ \A q \in DOMAIN p.init :
       LET i == p.init[q]
           m == p.meas[q]
       IN  /\ i \in TasksOf(p)
           /\ m # Elsewhere =>
                /\ m \in TasksOf(p)
                /\ IF m[1] = i[1] THEN i[2] < m[2] ELSE ComesAfter(p, m[1], i[1])

\* All tasks of a path in sequence take less than Word.
NeverTooLong(p) == \A t \in TasksOf(p) : Cardinality(TasksOf(p)) * TimeOf(p, t) < Word

ASSUME PathsAssumption ==
  /\ Word \in Nat \ {0}
  /\ \A p \in Paths : IsPath(p) /\ QubitsFlow(p) /\ NeverTooLong(p)

Tasks == TasksOf(path)

Init ==
  /\ path \in Paths
  /\ waiting = Tasks
  /\ step = "advance"
  /\ picked = [x \in Processors |-> NoTask]
  /\ globalTime = 0
  /\ procTime = [x \in Processors |-> 0]
  /\ lifetimes = [q \in DOMAIN path.init |-> NoTime]
  /\ ended = [t \in Tasks |-> NoTime]
  /\ overtaken = FALSE

-----------------------------------------------------------------------------
(***************************************************************************)
(* The increment of the global time is what the next task of a processor   *)
(* still needs, computed in unsigned arithmetic.                           *)
(***************************************************************************)
Earlier(t, u) == t[1] < u[1] \/ (t[1] = u[1] /\ t[2] < u[2])

Available(x) ==
  {t \in waiting : Processor(path, t) = x /\ Dependences(path, t) \cap waiting = {}}

FirstAvailable(x) ==
  IF Available(x) = {} THEN NoTask
  ELSE CHOOSE t \in Available(x) : \A u \in Available(x) : u # t => Earlier(t, u)

StillNeeds(t) ==
  LET x == Processor(path, t) IN (TimeOf(path, t) - (globalTime - procTime[x])) % Word

\* The shortest, so that tasks of both processors may overlap.
TimeIncrement(ts) ==
  IF ts = {} THEN 0 ELSE CHOOSE d \in {StillNeeds(t) : t \in ts} : \A t \in ts : d <= StillNeeds(t)

Advance ==
  LET next == [x \in Processors |-> FirstAvailable(x)] IN
  /\ step = "advance"
  /\ waiting # {}
  /\ picked' = next
  /\ globalTime' = (globalTime + TimeIncrement({next[x] : x \in Processors} \ {NoTask})) % Word
  /\ overtaken' = (overtaken \/ \E x \in Processors : picked[x] \in waiting /\ next[x] # picked[x])
  /\ step' = "qpu"
  /\ UNCHANGED <<path, waiting, procTime, lifetimes, ended>>

-----------------------------------------------------------------------------
\* Fault: the lifetime starts with the latest task before the measurement.
ProcessorLifetime(q, t) ==
  IF t = path.init[q] /\ lifetimes[q] = NoTime THEN globalTime
  ELSE IF t = path.meas[q] THEN (globalTime - procTime["qpu"]) % Word
  ELSE lifetimes[q]

\* updateQubitLifetime, of the qubit q when t is scheduled.
Lifetime(q, t) ==
  LET begun == IF t = path.init[q] /\ lifetimes[q] = NoTime THEN globalTime ELSE lifetimes[q] IN
  IF t = path.meas[q] /\ begun # NoTime THEN (globalTime - begun) % Word ELSE begun

\* Fault: the task must be over before the global time.
LateReady(x) ==
  picked[x] # NoTask /\ (globalTime - procTime[x]) % Word > TimeOf(path, picked[x])

Ready(x) ==
  picked[x] # NoTask /\ (globalTime - procTime[x]) % Word >= TimeOf(path, picked[x])

Idle(x) ==
  /\ picked[x] = NoTask
  /\ procTime' = [procTime EXCEPT ![x] = globalTime]
  /\ UNCHANGED <<waiting, lifetimes, ended>>

Wait(x) ==
  /\ picked[x] # NoTask
  /\ ~Ready(x)
  /\ UNCHANGED <<procTime, waiting, lifetimes, ended>>

Schedule(x) ==
  /\ Ready(x)
  /\ procTime' = [procTime EXCEPT ![x] = globalTime]
  /\ waiting' = waiting \ {picked[x]}
  /\ lifetimes' = [q \in DOMAIN path.init |-> Lifetime(q, picked[x])]
  /\ ended' = [ended EXCEPT ![picked[x]] = globalTime]

ScheduleTaskIfReady(x) ==
  /\ Idle(x) \/ Wait(x) \/ Schedule(x)
  /\ UNCHANGED <<path, picked, globalTime, overtaken>>

Next ==
  \/ Advance
  \/ step = "qpu" /\ ScheduleTaskIfReady("qpu") /\ step' = "cpu"
  \/ step = "cpu" /\ ScheduleTaskIfReady("cpu") /\ step' = "advance"

Spec == Init /\ [][Next]_vars /\ WF_vars(Next)

-----------------------------------------------------------------------------
(***************************************************************************)
(* Properties.                                                             *)
(***************************************************************************)
Scheduled == {t \in Tasks : ended[t] # NoTime}

(***************************************************************************)
(* As long as no task is picked before a pending one, a task starts when   *)
(* every task of the blocks to follow, and every earlier one of its block, *)
(* has ended: the idle time of a processor is never counted as time a task *)
(* has run.                                                                *)
(***************************************************************************)
StartsAfterDependences ==
  ~overtaken =>
    \A t \in Scheduled, u \in Tasks :
      u[1] \in Followed(path, t[1]) \/ (u[1] = t[1] /\ u[2] < t[2]) =>
        u \in Scheduled /\ ended[u] + TimeOf(path, t) <= ended[t]

(***************************************************************************)
(* The lifetime reported for a qubit measured on the path is the time      *)
(* between the end of its initialisation and the end of its measurement,   *)
(* and lasts at least as long as the measurement.                          *)
(***************************************************************************)
LifetimesReachMeasurement ==
  \A q \in DOMAIN path.init :
    ~overtaken /\ path.meas[q] \in Scheduled =>
      /\ lifetimes[q] = ended[path.meas[q]] - ended[path.init[q]]
      /\ lifetimes[q] >= TimeOf(path, path.meas[q])

(***************************************************************************)
(* The scheduler ends: no task waits for ever, whatever was picked first.  *)
(***************************************************************************)
AllScheduled == <>(waiting = {})

(***************************************************************************)
(* "A task is available if all its dependences have already been           *)
(* scheduled" (QubitLifetime.cpp:266): no task is scheduled at a time      *)
(* before one it depends on.                                               *)
(***************************************************************************)
NotScheduledBeforeDependences ==
  \A t \in Scheduled : \A d \in Dependences(path, t) : ended[d] <= ended[t]
=============================================================================
