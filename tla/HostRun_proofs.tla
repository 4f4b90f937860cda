--------------------------- MODULE HostRun_proofs ----------------------------
(***************************************************************************)
(* A run of the host blocks is a run of the main function as MLIR defines  *)
(* it, for every program, any number of registers and whatever is          *)
(* received.  What the translation leaves (TransInv) says which value a    *)
(* register holds and which instruction comes next; the invariant RunInv   *)
(* says what the part of a block that has run left in the registers and    *)
(* sent.                                                                   *)
(***************************************************************************)
EXTENDS HostTranslation_proofs

(***************************************************************************)
(* The run: an instance of HostMain says the same of a program.            *)
(***************************************************************************)
LEMMA SameRange == \A s : MLIR!Range(s) = Range(s)
  BY DEF MLIR!Range, Range

LEMMA SameTargets == \A p, b : MLIR!Targets(p, b) = Targets(p, b) /\ MLIR!Defines(p, b) = Defines(p, b)
  BY SameRange DEF MLIR!Defines, Defines, MLIR!Results, Results, MLIR!Targets, Targets

LEMMA SameDominates == \A p, d, b : MLIR!Dominates(p, d, b) = Dominates(p, d, b)
  BY Zenon DEF MLIR!Dominates, Dominates, MLIR!Blocks, Blocks, MLIR!Targets, Targets, MLIR!Range, Range

LEMMA SameVisible == \A p, b : MLIR!Visible(p, b) = Visible(p, b)
  BY SameRange, SameTargets, SameDominates DEF MLIR!Visible, Visible

LEMMA SameAfter == \A op, e, got : MLIR!After(op, e, got) = After(op, e, got)
  BY DEF MLIR!After, After, MLIR!Yields, Yields, MLIR!AsBit, AsBit, MLIR!Holds, Holds, MLIR!Calculate, Calculate,
         MLIR!Fetches, Fetches, MLIR!Range, Range

LEMMA SameEnter == \A p, d, passed, e : MLIR!Enter(p, d, passed, e) = Enter(p, d, passed, e)
  BY SameVisible DEF MLIR!Enter, Enter

LEMMA SameTaken == \A p, b, e : MLIR!Taken(p, b, e) = Taken(p, b, e)
  BY DEF MLIR!Taken, Taken

LEMMA SameValues == \A p : MLIR!Values(p) = Values(p)
  BY SameTargets DEF MLIR!Values, Values, MLIR!Blocks, Blocks

FetchedIn(p, b) == UNION {Range(p[b].ops[i].res) : i \in {j \in DOMAIN p[b].ops : Fetches(p[b].ops[j])}}

LEMMA SameFetched == \A b : MLIR!Fetched(b) = FetchedIn(main, b)
  BY SameRange DEF MLIR!Fetched, MLIR!Fetches, Fetches, FetchedIn

Sends(p, b) == {i \in DOMAIN p[b].ops : p[b].ops[i].k = "send"}
SentIn(p, b, e) == [n \in DOMAIN InOrder(Sends(p, b)) |-> e[p[b].ops[InOrder(Sends(p, b))[n]].args[2]]]

LEMMA SameSent == \A b, e : MLIR!Sent(b, e) = SentIn(main, b, e)
<1>1. \A S : MLIR!InOrder(S) = InOrder(S)
  BY DEF MLIR!InOrder, InOrder, MLIR!Cardinality, Cardinality
<1> QED
  BY <1>1 DEF MLIR!Sent, SentIn, Sends

-----------------------------------------------------------------------------
(***************************************************************************)
(* The values a block leaves are those after its operations, one by one.   *)
(***************************************************************************)
IsAfter(p, b, e, got, n, f) ==
  f = [i \in 0 .. n |-> IF i = 0 THEN e ELSE After(p[b].ops[i], f[i - 1], got)]

LEMMA AfterExists ==
  ASSUME NEW p, NEW b, NEW e, NEW got, NEW n \in Nat
  PROVE  \E f : IsAfter(p, b, e, got, n, f)
<1> DEFINE Bad == {k \in Nat : ~ \E f : IsAfter(p, b, e, got, k, f)}
<1> SUFFICES ASSUME Bad # {} PROVE FALSE
  OBVIOUS
<1>1. PICK k \in Bad : \A m \in Bad : k <= m
  BY LeastNatural
<1>2. CASE k = 0
  <2> DEFINE f == [i \in 0 .. 0 |-> e]
  <2>1. \A i \in 0 .. 0 : i = 0
    OBVIOUS
  <2>2. IsAfter(p, b, e, got, 0, f)
    BY <2>1 DEF IsAfter
  <2> QED
    BY <1>2, <2>2
<1>3. CASE k # 0
  <2>1. k - 1 \in Nat /\ k - 1 \notin Bad
    BY <1>1, <1>3
  <2>2. PICK f : IsAfter(p, b, e, got, k - 1, f)
    BY <2>1
  <2> DEFINE h == [i \in 0 .. k |-> IF i = k THEN After(p[b].ops[k], f[k - 1], got) ELSE f[i]]
  <2>3. \A i \in 0 .. k : i # 0 => i - 1 \in 0 .. k - 1 /\ h[i - 1] = f[i - 1]
    OBVIOUS
  <2>4. \A i \in 0 .. k - 1 : f[i] = (IF i = 0 THEN e ELSE After(p[b].ops[i], f[i - 1], got))
    BY <2>2 DEF IsAfter
  <2>5. \A i \in 0 .. k : h[i] = (IF i = 0 THEN e ELSE After(p[b].ops[i], h[i - 1], got))
    <3> TAKE i \in 0 .. k
    <3>1. CASE i = k
      <4>1. h[i] = After(p[b].ops[i], f[i - 1], got)
        BY <3>1
      <4> HIDE DEF h
      <4> QED
        BY <1>3, <2>3, <3>1, <4>1
    <3>2. CASE i # k
      <4>1. i \in 0 .. k - 1 /\ h[i] = f[i]
        BY <3>2
      <4> HIDE DEF h
      <4> QED
        BY <2>3, <2>4, <4>1
    <3> QED
      BY <3>1, <3>2
  <2>6. h = [i \in 0 .. k |-> h[i]]
    OBVIOUS
  <2> HIDE DEF h
  <2>7. IsAfter(p, b, e, got, k, h)
    BY <2>5, <2>6 DEF IsAfter
  <2> QED
    BY <2>7
<1> QED
  BY <1>2, <1>3

LEMMA AtEndUnfolds ==
  ASSUME NEW p, NEW b, Len(p[b].ops) \in Nat, NEW e, NEW got
  PROVE  \E f : /\ f[0] = e
                /\ \A i \in 1 .. Len(p[b].ops) : f[i] = After(p[b].ops[i], f[i - 1], got)
                /\ MLIR!AtEnd(p, b, e, got) = f[Len(p[b].ops)]
<1> DEFINE n == Len(p[b].ops)
           f == CHOOSE f : IsAfter(p, b, e, got, n, f)
<1>1. IsAfter(p, b, e, got, n, f)
  BY AfterExists
<1>2. MLIR!AtEnd(p, b, e, got) = f[n]
  BY SameAfter DEF MLIR!AtEnd, IsAfter
<1> HIDE DEF f
<1>3. f[0] = e /\ \A i \in 1 .. n : f[i] = After(p[b].ops[i], f[i - 1], got)
  BY <1>1 DEF IsAfter
<1> QED
  BY <1>2, <1>3

-----------------------------------------------------------------------------
(***************************************************************************)
(* What the translation has done when it is complete, without its state:   *)
(* the program p, the registers r and the code cd.                         *)
(***************************************************************************)
IsCmp(p, c, j) == j # 0 /\ p[c].ops[j].k = "cmp"
IsExt(p, c, j) == j # 0 /\ p[c].ops[j].k = "ext"

\* A register that is allocated was not used for anything that is made before.
OwnIn(p, r) ==
  \A c \in Blocks(p) : \A j \in Places(p, c) :
    ~IsCmp(p, c, j) /\ ~IsExt(p, c, j) =>
      /\ \A v \in Range(Made(p, c, j)), w \in Before(p, c, j) : r[w] # r[v]
      /\ \A m, n \in DOMAIN Made(p, c, j) : r[Made(p, c, j)[m]] = r[Made(p, c, j)[n]] => m = n

Mapping(p, r) ==
  /\ IsMain(p)
  /\ r \in [Values(p) -> 0 .. HostRegisters]
  /\ \A c \in Blocks(p) : \A j \in Places(p, c) : \A v \in Range(Made(p, c, j)) :
       r[v] = Unmapped <=> IsCmp(p, c, j)
  /\ OwnIn(p, r)
  /\ \A c \in Blocks(p) : \A j \in DOMAIN p[c].ops :
       /\ \A m \in DOMAIN p[c].ops[j].args : r[p[c].ops[j].args[m]] # Unmapped
       /\ p[c].ops[j].k = "ext" => r[p[c].ops[j].res[1]] = r[p[c].ops[j].args[1]]
  /\ \A c \in Blocks(p) : TermRight(p, r, c)

LastPlace(p, c) == Place(p, c, Len(p[c].ops))

Coded(p, r, cd) ==
  \A c \in Blocks(p) :
    /\ Len(cd[c]) = LastPlace(p, c) + Len(LastInstrs(p, r, c))
    /\ \A j \in Emits(p, c) : cd[c][Place(p, c, j)] = InstrFor(p, r, c, j)
    /\ \A t \in 1 .. Len(LastInstrs(p, r, c)) : cd[c][LastPlace(p, c) + t] = LastInstrs(p, r, c)[t]

LEMMA MappingRight ==
  ASSUME TransInv, Translated
  PROVE  Mapping(main, regOf) /\ Coded(main, regOf, code)
<1>1. /\ StandsRight /\ MappedWhenDone /\ OwnRegisters /\ OpsRight /\ CodeRight /\ IsMain(main)
      /\ nregs \in Nat /\ nregs <= HostRegisters /\ regOf \in [Values(main) -> 0 .. HostRegisters]
  BY HostAssumption DEF TransInv, Translated, StandsRight
<1>2. \A c, j : DoneAt(c, j) = TRUE
  BY DEF DoneAt, Translated
<1>3. ASSUME NEW c \in Blocks(main), NEW j \in Places(main, c), NEW v \in Range(Made(main, c, j))
      PROVE  regOf[v] = Unmapped <=> IsCmp(main, c, j)
  <2>1. IF ~Compares(c, j) THEN regOf[v] < nregs ELSE regOf[v] = Unmapped
    BY <1>1, <1>2 DEF MappedWhenDone
  <2>2. regOf[v] \in 0 .. HostRegisters
    BY <1>1, MadeIsValue
  <2> QED
    BY <1>1, <2>1, <2>2, HostAssumption DEF Unmapped, Compares, IsCmp
<1>4. OwnIn(main, regOf)
  BY <1>1, <1>2 DEF OwnIn, OwnRegisters, Compares, IsCmp, Renames, IsExt
<1>5. ASSUME NEW c \in Blocks(main), NEW j \in DOMAIN main[c].ops
      PROVE  /\ \A m \in DOMAIN main[c].ops[j].args : regOf[main[c].ops[j].args[m]] # Unmapped
             /\ main[c].ops[j].k = "ext" => regOf[main[c].ops[j].res[1]] = regOf[main[c].ops[j].args[1]]
             /\ j \in Emits(main, c) => code[c][Place(main, c, j)] = InstrFor(main, regOf, c, j)
  <2>1. j # 0
    BY <1>1, MainShape
  <2> QED
    BY <1>1, <1>2, <2>1 DEF OpsRight, Mapped, Renames
<1>6. ASSUME NEW c \in Blocks(main)
      PROVE  /\ TermRight(main, regOf, c)
             /\ Len(code[c]) = LastPlace(main, c) + Len(LastInstrs(main, regOf, c))
             /\ \A t \in 1 .. Len(LastInstrs(main, regOf, c)) : code[c][LastPlace(main, c) + t] = LastInstrs(main, regOf, c)[t]
  <2>1. TermDone(c)
    BY DEF TermDone
  <2> QED
    BY <1>1, <2>1 DEF CodeRight, LastPlace, OpsOfBlock
<1>7. \A c : \A j \in Emits(main, c) : j \in DOMAIN main[c].ops
  BY DEF Emits
<1>8. Mapping(main, regOf)
  BY <1>1, <1>3, <1>4, <1>5, <1>6 DEF Mapping
<1>9. Coded(main, regOf, code)
  BY <1>5, <1>6, <1>7 DEF Coded
<1> QED
  BY <1>8, <1>9

LEMMA PlaceShape ==
  ASSUME NEW p, IsMain(p), NEW c \in Blocks(p)
  PROVE  /\ Place(p, c, 0) = 0
         /\ \A j \in Nat : Place(p, c, j) \in Nat
         /\ \A i, j \in Nat : i <= j => Place(p, c, i) <= Place(p, c, j)
         /\ \A i, j \in Nat : i < j /\ j \in Emits(p, c) => Place(p, c, i) < Place(p, c, j)
         /\ \A k \in 1 .. LastPlace(p, c) : \E j \in Emits(p, c) : Place(p, c, j) = k
         /\ \A j \in Emits(p, c) : j \in DOMAIN p[c].ops /\ Place(p, c, j) \in 1 .. LastPlace(p, c)
         /\ LastPlace(p, c) \in Nat
<1> DEFINE n == Len(p[c].ops)
<1>1. n \in Nat /\ DOMAIN p[c].ops = 1 .. n
  BY MainShape
<1>2. Emits(p, c) \in SUBSET (1 .. n)
  BY <1>1 DEF Emits
<1>3. /\ Rank(Emits(p, c), 0) = 0
      /\ Rank(Emits(p, c), n) = Cardinality(Emits(p, c))
      /\ \A j \in Nat : Rank(Emits(p, c), j) \in Nat
  BY <1>1, <1>2, RankStep
<1>4. \A i, j \in Nat : i <= j => Rank(Emits(p, c), i) <= Rank(Emits(p, c), j)
  BY <1>1, <1>2, RankGrows
<1>5. \A i, j \in Nat : i < j /\ j \in Emits(p, c) => Rank(Emits(p, c), i) < Rank(Emits(p, c), j)
  <2> TAKE i, j \in Nat
  <2> HAVE i < j /\ j \in Emits(p, c)
  <2>1. i <= j
    OBVIOUS
  <2> QED
    BY <1>1, <1>2, <2>1, RankGrows
<1>6. ASSUME NEW k \in 1 .. Rank(Emits(p, c), n) PROVE \E j \in Emits(p, c) : Rank(Emits(p, c), j) = k
  <2>1. k \in DOMAIN InOrder(Emits(p, c))
    BY <1>1, <1>2, <1>3, InOrderLists
  <2> QED
    BY <1>1, <1>2, <2>1, InOrderLists
<1>7. ASSUME NEW j \in Emits(p, c) PROVE j \in DOMAIN p[c].ops /\ Rank(Emits(p, c), j) \in 1 .. Rank(Emits(p, c), n)
  <2>1. j \in 1 .. n /\ 0 < j /\ j <= n /\ j \in Nat
    BY <1>1, <1>2
  <2>2. Rank(Emits(p, c), 0) < Rank(Emits(p, c), j)
    BY <1>5, <2>1
  <2>3. Rank(Emits(p, c), j) <= Rank(Emits(p, c), n)
    BY <1>1, <1>4, <2>1
  <2> QED
    BY <1>1, <1>3, <2>1, <2>2, <2>3
<1> QED
  BY <1>1, <1>3, <1>4, <1>5, <1>6, <1>7, Zenon DEF Place, LastPlace

LEMMA OperandsIn ==
  ASSUME NEW p, IsMain(p), NEW c \in Blocks(p), NEW j \in DOMAIN p[c].ops
  PROVE  /\ j \in Places(p, c) /\ j \in Nat \ {0} /\ j \in 1 .. Len(p[c].ops) /\ Len(p[c].ops) \in Nat
         /\ Made(p, c, j) = p[c].ops[j].res
         /\ \A m \in DOMAIN p[c].ops[j].args :
              p[c].ops[j].args[m] \in Before(p, c, j) /\ p[c].ops[j].args[m] \in InSight(p, c, j)
         /\ IsOperation(p[c].ops[j])
<1>1. DOMAIN p[c].ops = 1 .. Len(p[c].ops) /\ Len(p[c].ops) \in Nat
  BY MainShape
<1>2. j \in Places(p, c) /\ j \in Nat \ {0} /\ j \in 1 .. Len(p[c].ops) + 1 /\ j <= Len(p[c].ops)
  BY <1>1 DEF Places
<1>3. Range(p[c].ops[j].args) \subseteq InSight(p, c, j) /\ IsOperation(p[c].ops[j])
  BY <1>1 DEF IsMain
<1>4. InSight(p, c, j) \subseteq Before(p, c, j)
  BY <1>1, <1>2, SightIsBefore
<1> QED
  BY <1>1, <1>2, <1>3, <1>4 DEF Made, Range

-----------------------------------------------------------------------------
(***************************************************************************)
(* The values the registers hold.                                          *)
(***************************************************************************)
ValueIn(p, r, g, v) ==
  IF r[v] # Unmapped THEN g[r[v]]
  ELSE LET test == DefiningOp(p, v)
       IN  AsBit(Holds(test.pred, g[r[test.args[1]]], g[r[test.args[2]]]))

\* Registers g and h hold the same of S.
Agree(r, g, h, S) == \A v \in S : r[v] # Unmapped => h[r[v]] = g[r[v]]

\* What is without register is a comparison of what was made before.
LEMMA ComparedBefore ==
  ASSUME NEW p, NEW r, Mapping(p, r), NEW b \in Blocks(p), NEW i \in Nat, NEW v \in Before(p, b, i), r[v] = Unmapped
  PROVE  \A m \in {1, 2} : DefiningOp(p, v).args[m] \in Before(p, b, i) /\ r[DefiningOp(p, v).args[m]] # Unmapped
<1>0. IsMain(p)
  BY DEF Mapping
<1>1. PICK c \in Blocks(p) : \E j \in Places(p, c) : Earlier(c, j, b, i) /\ v \in Range(Made(p, c, j))
  BY DEF Before
<1>2. PICK j \in Places(p, c) : Earlier(c, j, b, i) /\ v \in Range(Made(p, c, j))
  BY <1>1
<1>3. j # 0 /\ p[c].ops[j].k = "cmp"
  BY <1>2 DEF Mapping, IsCmp
<1>4. j \in DOMAIN p[c].ops /\ j \in Nat
  BY <1>0, <1>3, MainShape DEF Places
<1>5. v \in Range(p[c].ops[j].res)
  BY <1>2, <1>3 DEF Made
<1>6. DefiningOp(p, v) = p[c].ops[j]
  BY <1>0, <1>4, <1>5, DefinesIt
<1>7. Len(p[c].ops[j].args) = 2 /\ IsSeq(p[c].ops[j].args)
  BY <1>0, <1>3, <1>4, OperandsIn DEF IsOperation
<1>8. DOMAIN p[c].ops[j].args = {1, 2}
  BY <1>7 DEF IsSeq
<1>9. \A m \in {1, 2} : p[c].ops[j].args[m] \in Before(p, c, j) /\ r[p[c].ops[j].args[m]] # Unmapped
  BY <1>0, <1>4, <1>8, OperandsIn DEF Mapping
<1>10. Before(p, c, j) \subseteq Before(p, b, i)
  BY <1>0, <1>2, <1>4, BeforeGrows
<1> QED
  BY <1>6, <1>9, <1>10

LEMMA ValueAgrees ==
  ASSUME NEW p, NEW r, Mapping(p, r), NEW b \in Blocks(p), NEW i \in Nat, NEW g, NEW h,
         Agree(r, g, h, Before(p, b, i)), NEW v \in Before(p, b, i)
  PROVE  ValueIn(p, r, h, v) = ValueIn(p, r, g, v)
<1>1. CASE r[v] # Unmapped
  BY <1>1 DEF ValueIn, Agree
<1>2. CASE r[v] = Unmapped
  <2>1. \A m \in {1, 2} : h[r[DefiningOp(p, v).args[m]]] = g[r[DefiningOp(p, v).args[m]]]
    BY <1>2, ComparedBefore DEF Agree
  <2> QED
    BY <1>2, <2>1 DEF ValueIn
<1> QED
  BY <1>1, <1>2

\* A write to the registers of what is made at one place leaves what was made before.
LEMMA WriteAgrees ==
  ASSUME NEW p, NEW r, Mapping(p, r), NEW c \in Blocks(p), NEW j \in Places(p, c), ~IsCmp(p, c, j), ~IsExt(p, c, j),
         NEW g, NEW h, \A x \in 0 .. HostRegisters - 1 : x \notin {r[v] : v \in Range(Made(p, c, j))} => h[x] = g[x]
  PROVE  Agree(r, g, h, Before(p, c, j))
<1> SUFFICES ASSUME NEW w \in Before(p, c, j), r[w] # Unmapped PROVE h[r[w]] = g[r[w]]
  BY DEF Agree
<1>1. w \in Values(p)
  BY DEF Before
<1>2. r[w] \in 0 .. HostRegisters - 1
  BY <1>1, HostAssumption DEF Mapping, Unmapped
<1>3. \A v \in Range(Made(p, c, j)) : r[w] # r[v]
  BY DEF Mapping, OwnIn
<1> QED
  BY <1>2, <1>3

-----------------------------------------------------------------------------
(***************************************************************************)
(* A run of a block: what an instruction does, and what its operation asks.*)
(***************************************************************************)
\* Register x of g is written.
Written(g, h, x, y) == h = [g EXCEPT ![x] = y]

Delivered(ins, g, h) ==
  \E got \in [Range(ins.dst) -> Bits] : h = [x \in DOMAIN g |-> IF x \in DOMAIN got THEN got[x] ELSE g[x]]

Effect(ins, g, o, h, q) ==
  /\ ins.op = "assign" => Written(g, h, ins.dst[1], ins.val) /\ q = o
  /\ ins.op = "copy" => Written(g, h, ins.dst[1], g[ins.src[1]]) /\ q = o
  /\ ins.op \in {"add", "sub", "mul"} =>
       Written(g, h, ins.dst[1], Calculate(ins.op, g[ins.src[1]], g[ins.src[2]])) /\ q = o
  /\ ins.op = "mulc" => Written(g, h, ins.dst[1], Calculate("mul", g[ins.src[1]], ins.val)) /\ q = o
  /\ ins.op = "send" => q = Append(o, g[ins.src[2]]) /\ h = g
  /\ ins.op = "return" => q = Append(o, g[ins.src[1]]) /\ h = g
  /\ ins.op \in {"recv", "local", "request"} => Delivered(ins, g, h) /\ q = o

Executed == {"assign", "copy", "add", "sub", "mul", "mulc", "send", "return", "recv", "local", "request"}

LEMMA ExecuteEffect ==
  ASSUME Execute, NEW ins, ins = Current
  PROVE  /\ Effect(ins, regs, out, regs', out')
         /\ ins.op \in Executed
         /\ stage = "run" /\ pos[2] <= Len(code[pos[1]])
         /\ pos' = <<pos[1], pos[2] + 1>> /\ UNCHANGED <<main, stage, translation, settled>>
<1>1. /\ ins.op \in Executed
      /\ stage = "run" /\ pos[2] <= Len(code[pos[1]])
      /\ pos' = <<pos[1], pos[2] + 1>> /\ UNCHANGED <<main, stage, translation, settled>>
  BY DEF Execute, Running, Advance, Current, Executed
<1>2. CASE ins.op = "assign"
  <2>1. Writes(ins.val) /\ out' = out
    BY <1>2 DEF Execute
  <2>2. Written(regs, regs', ins.dst[1], ins.val)
    BY <1>2, <2>1 DEF Writes, Written
  <2> QED
    BY <1>1, <1>2, <2>1, <2>2 DEF Effect
<1>3. CASE ins.op = "copy"
  <2>1. Writes(regs[ins.src[1]]) /\ out' = out
    BY <1>3 DEF Execute, Src
  <2>2. Written(regs, regs', ins.dst[1], regs[ins.src[1]])
    BY <1>3, <2>1 DEF Writes, Written
  <2> QED
    BY <1>1, <1>3, <2>1, <2>2 DEF Effect
<1>4. CASE ins.op \in {"add", "sub", "mul"}
  <2>1. Writes(Calculate(ins.op, regs[ins.src[1]], regs[ins.src[2]])) /\ out' = out
    BY <1>4 DEF Execute, Src
  <2>2. Written(regs, regs', ins.dst[1], Calculate(ins.op, regs[ins.src[1]], regs[ins.src[2]]))
    BY <1>4, <2>1 DEF Writes, Written
  <2> QED
    BY <1>1, <1>4, <2>1, <2>2 DEF Effect
<1>5. CASE ins.op = "mulc"
  <2>1. Writes(Calculate("mul", regs[ins.src[1]], ins.val)) /\ out' = out
    BY <1>5 DEF Execute, Src
  <2>2. Written(regs, regs', ins.dst[1], Calculate("mul", regs[ins.src[1]], ins.val))
    BY <1>5, <2>1 DEF Writes, Written
  <2> QED
    BY <1>1, <1>5, <2>1, <2>2 DEF Effect
<1>6. CASE ins.op = "send"
  <2>1. out' = Append(out, regs[ins.src[2]]) /\ regs' = regs
    BY <1>6 DEF Execute, Src
  <2> QED
    BY <1>1, <1>6, <2>1 DEF Effect
<1>7. CASE ins.op = "return"
  <2>1. out' = Append(out, regs[ins.src[1]]) /\ regs' = regs
    BY <1>7 DEF Execute, Src
  <2> QED
    BY <1>1, <1>7, <2>1 DEF Effect
<1>8. CASE ins.op \in {"recv", "local", "request"}
  <2>1. /\ \E got \in [Range(ins.dst) -> Bits] : regs' = [x \in DOMAIN regs |-> IF x \in DOMAIN got THEN got[x] ELSE regs[x]]
        /\ out' = out
    BY <1>8 DEF Execute
  <2> QED
    BY <1>1, <1>8, <2>1 DEF Effect, Delivered
<1> QED
  BY <1>1, <1>2, <1>3, <1>4, <1>5, <1>6, <1>7, <1>8 DEF Executed

LEMMA CalculateInt ==
  ASSUME NEW x \in Int, NEW y \in Int
  PROVE  /\ \A k \in {"add", "sub", "mul"} : Calculate(k, x, y) \in Int
         /\ Calculate("mul", x, y) = Calculate("mul", y, x)
<1>1. \A z \in Int : z % Word \in Int
  BY HostAssumption
<1>2. x + y \in Int /\ x + Word - y \in Int /\ x * y \in Int /\ x * y = y * x
  BY HostAssumption
<1>3. (x + y) % Word \in Int /\ (x + Word - y) % Word \in Int /\ (x * y) % Word \in Int
  BY <1>1, <1>2
<1> QED
  BY <1>2, <1>3 DEF Calculate

\* Integers, and those of constants are theirs.
SightRight(p, r, g, S) ==
  \A v \in S : r[v] # Unmapped => g[r[v]] \in Int /\ (ConstantIn(p, v) => g[r[v]] = DefiningOp(p, v).val)

\* What operation j of block b makes is in its registers.
OpHolds(p, r, g, b, j) ==
  LET op == p[b].ops[j]
  IN  /\ \A m \in DOMAIN op.res : g[r[op.res[m]]] \in Int
      /\ op.k \in {"const", "flag", "sock"} => g[r[op.res[1]]] = op.val
      /\ op.k \in {"add", "sub", "mul"} => g[r[op.res[1]]] = Calculate(op.k, g[r[op.args[1]]], g[r[op.args[2]]])
      /\ Fetches(op) => \A m \in DOMAIN op.res : g[r[op.res[m]]] \in Bits

LEMMA ResultMapped ==
  ASSUME NEW p, NEW r, Mapping(p, r), NEW b \in Blocks(p), NEW j \in Emits(p, b), NEW m \in DOMAIN p[b].ops[j].res
  PROVE  r[p[b].ops[j].res[m]] \in 0 .. HostRegisters - 1 /\ p[b].ops[j].res[m] \in Range(Made(p, b, j))
<1>1. IsMain(p) /\ j \in DOMAIN p[b].ops /\ ~IsCmp(p, b, j)
  BY DEF Mapping, Emits, IsCmp
<1>2. p[b].ops[j].res[m] \in Range(Made(p, b, j)) /\ j \in Places(p, b)
  BY <1>1, OperandsIn DEF Range
<1>3. p[b].ops[j].res[m] \in Values(p)
  BY <1>1, <1>2, MadeIsValue
<1>4. r[p[b].ops[j].res[m]] # Unmapped /\ r[p[b].ops[j].res[m]] \in 0 .. HostRegisters
  BY <1>1, <1>2, <1>3 DEF Mapping
<1> QED
  BY <1>2, <1>4, HostAssumption DEF Unmapped

SingleDone(p, r, b, j, g, h, y) ==
  /\ DOMAIN h = DOMAIN g /\ h[r[p[b].ops[j].res[1]]] = y
  /\ Agree(r, g, h, Before(p, b, j))
  /\ DOMAIN p[b].ops[j].res = {1}

LEMMA SingleWrite ==
  ASSUME NEW p, NEW r, Mapping(p, r), NEW b \in Blocks(p), NEW j \in Emits(p, b), Len(p[b].ops[j].res) = 1,
         NEW g, NEW h, NEW y, DOMAIN g = 0 .. HostRegisters - 1, Written(g, h, r[p[b].ops[j].res[1]], y)
  PROVE  SingleDone(p, r, b, j, g, h, y)
<1>1. IsMain(p) /\ j \in DOMAIN p[b].ops /\ ~IsCmp(p, b, j) /\ ~IsExt(p, b, j)
  BY DEF Mapping, Emits, IsCmp, IsExt
<1>2. j \in Places(p, b) /\ IsSeq(p[b].ops[j].res)
  BY <1>1, OperandsIn DEF IsOperation
<1>3. DOMAIN p[b].ops[j].res = {1}
  BY <1>2 DEF IsSeq
<1>4. r[p[b].ops[j].res[1]] \in DOMAIN g /\ p[b].ops[j].res[1] \in Range(Made(p, b, j))
  BY <1>3, ResultMapped
<1>5. \A x \in 0 .. HostRegisters - 1 : x \notin {r[v] : v \in Range(Made(p, b, j))} => h[x] = g[x]
  BY <1>4 DEF Written
<1>7. DOMAIN h = DOMAIN g /\ h[r[p[b].ops[j].res[1]]] = y
  BY <1>4 DEF Written
<1>6. Agree(r, g, h, Before(p, b, j))
  BY <1>1, <1>2, <1>5, WriteAgrees
<1> QED
  BY <1>3, <1>6, <1>7 DEF SingleDone

SameOperands(p, r, b, j, g, h) ==
  \A m \in DOMAIN p[b].ops[j].args : h[r[p[b].ops[j].args[m]]] = g[r[p[b].ops[j].args[m]]]

LEMMA OperandsAgree ==
  ASSUME NEW p, NEW r, Mapping(p, r), NEW b \in Blocks(p), NEW j \in DOMAIN p[b].ops, NEW g, NEW h,
         Agree(r, g, h, Before(p, b, j))
  PROVE  SameOperands(p, r, b, j, g, h)
<1> SUFFICES ASSUME NEW m \in DOMAIN p[b].ops[j].args
             PROVE  h[r[p[b].ops[j].args[m]]] = g[r[p[b].ops[j].args[m]]]
  BY DEF SameOperands
<1>1. IsMain(p) /\ r[p[b].ops[j].args[m]] # Unmapped
  BY DEF Mapping
<1>2. p[b].ops[j].args[m] \in Before(p, b, j)
  BY <1>1, OperandsIn
<1> QED
  BY <1>1, <1>2 DEF Agree

OpDone(p, r, b, j, g, o, h, q) ==
  /\ DOMAIN h = DOMAIN g
  /\ OpHolds(p, r, h, b, j)
  /\ Agree(r, g, h, Before(p, b, j))
  /\ q = IF p[b].ops[j].k = "send" THEN Append(o, g[r[p[b].ops[j].args[2]]]) ELSE o

LEMMA OpRuns ==
  ASSUME NEW p, NEW r, Mapping(p, r), NEW b \in Blocks(p), NEW j \in Emits(p, b), NEW g, NEW h, NEW o, NEW q,
         DOMAIN g = 0 .. HostRegisters - 1, SightRight(p, r, g, InSight(p, b, j)), Effect(InstrFor(p, r, b, j), g, o, h, q)
  PROVE  OpDone(p, r, b, j, g, o, h, q)
<1> DEFINE op == p[b].ops[j]
<1> PICK ins : ins = InstrFor(p, r, b, j)
  OBVIOUS
<1>0. Effect(ins, g, o, h, q)
  OBVIOUS
<1>1. /\ IsMain(p) /\ j \in DOMAIN p[b].ops /\ ~IsCmp(p, b, j) /\ ~IsExt(p, b, j) /\ op.k \notin {"cmp", "ext"}
      /\ \A m \in DOMAIN op.args : r[op.args[m]] # Unmapped
  BY DEF Mapping, Emits, IsCmp, IsExt
<1>2. j \in Places(p, b) /\ IsOperation(op) /\ \A m \in DOMAIN op.args : op.args[m] \in InSight(p, b, j)
  BY <1>1, OperandsIn
<1>3. \A m \in DOMAIN op.args : /\ g[r[op.args[m]]] \in Int
                                /\ ConstantIn(p, op.args[m]) => g[r[op.args[m]]] = DefiningOp(p, op.args[m]).val
  BY <1>1, <1>2 DEF SightRight
<1>4. CASE op.k \in {"const", "flag", "sock"}
  <2>1. ins.op = "assign" /\ ins.dst = RegsIn(r, op.res) /\ ins.val = op.val
    BY <1>4 DEF InstrFor, Instr
  <2>2. Len(op.res) = 1 /\ IsSeq(op.res) /\ op.val \in Int
    BY <1>2, <1>4, HostAssumption DEF IsOperation
  <2>3. DOMAIN op.res = {1}
    BY <2>2 DEF IsSeq
  <2>4. ins.dst[1] = r[op.res[1]]
    BY <2>1, <2>3 DEF RegsIn
  <2>5. Written(g, h, r[op.res[1]], op.val) /\ q = o
    BY <1>0, <2>1, <2>4 DEF Effect
  <2>6. DOMAIN h = DOMAIN g /\ h[r[op.res[1]]] = op.val /\ Agree(r, g, h, Before(p, b, j))
    <3>1. SingleDone(p, r, b, j, g, h, op.val)
      BY <2>2, <2>5, SingleWrite
    <3> QED
      BY <3>1 DEF SingleDone
  <2>7. OpHolds(p, r, h, b, j)
    BY <1>4, <2>2, <2>3, <2>6 DEF OpHolds, Fetches
  <2> QED
    BY <1>4, <2>5, <2>6, <2>7 DEF OpDone
<1>5. CASE op.k \in {"add", "sub", "mul"}
  <2>1. Len(op.res) = 1 /\ IsSeq(op.res) /\ Len(op.args) = 2 /\ IsSeq(op.args)
    BY <1>2, <1>5 DEF IsOperation
  <2>2. DOMAIN op.res = {1} /\ DOMAIN op.args = {1, 2}
    BY <2>1 DEF IsSeq
  <2> DEFINE x == g[r[op.args[1]]]
             y == g[r[op.args[2]]]
  <2>3. x \in Int /\ y \in Int
    BY <1>3, <2>2
  <2>4. Written(g, h, r[op.res[1]], Calculate(op.k, x, y)) /\ q = o
    <3>1. CASE op.k = "mul" /\ ConstantIn(p, op.args[1])
      <4>1. ins = Instr("mulc", RegsIn(r, op.res), RegsIn(r, <<op.args[2]>>), DefiningOp(p, op.args[1]).val, 0)
        BY <3>1 DEF InstrFor
      <4>2. RegsIn(r, <<op.args[2]>>)[1] = r[op.args[2]] /\ RegsIn(r, op.res)[1] = r[op.res[1]]
        BY <2>2 DEF RegsIn
      <4>3. Written(g, h, r[op.res[1]], Calculate("mul", y, DefiningOp(p, op.args[1]).val)) /\ q = o
        <5>1. /\ ins.op = "mulc" /\ ins.dst[1] = r[op.res[1]] /\ ins.src[1] = r[op.args[2]]
              /\ ins.val = DefiningOp(p, op.args[1]).val
          <6>1. /\ ins.op = "mulc" /\ ins.dst = RegsIn(r, op.res) /\ ins.src = RegsIn(r, <<op.args[2]>>)
                /\ ins.val = DefiningOp(p, op.args[1]).val
            BY <4>1 DEF Instr
          <6> QED
            BY <4>2, <6>1, Zenon
        <5>2. Written(g, h, ins.dst[1], Calculate("mul", g[ins.src[1]], ins.val)) /\ q = o
          BY <1>0, <5>1, Zenon DEF Effect
        <5> QED
          BY <5>1, <5>2
      <4>4. DefiningOp(p, op.args[1]).val = x
        BY <1>3, <2>2, <3>1
      <4> QED
        BY <2>3, <3>1, <4>3, <4>4, CalculateInt
    <3>2. CASE op.k = "mul" /\ ~ConstantIn(p, op.args[1]) /\ ConstantIn(p, op.args[2])
      <4>1. ins = Instr("mulc", RegsIn(r, op.res), RegsIn(r, <<op.args[1]>>), DefiningOp(p, op.args[2]).val, 0)
        BY <3>2 DEF InstrFor
      <4>2. RegsIn(r, <<op.args[1]>>)[1] = r[op.args[1]] /\ RegsIn(r, op.res)[1] = r[op.res[1]]
        BY <2>2 DEF RegsIn
      <4>3. Written(g, h, r[op.res[1]], Calculate("mul", x, DefiningOp(p, op.args[2]).val)) /\ q = o
        <5>1. /\ ins.op = "mulc" /\ ins.dst[1] = r[op.res[1]] /\ ins.src[1] = r[op.args[1]]
              /\ ins.val = DefiningOp(p, op.args[2]).val
          <6>1. /\ ins.op = "mulc" /\ ins.dst = RegsIn(r, op.res) /\ ins.src = RegsIn(r, <<op.args[1]>>)
                /\ ins.val = DefiningOp(p, op.args[2]).val
            BY <4>1 DEF Instr
          <6> QED
            BY <4>2, <6>1, Zenon
        <5>2. Written(g, h, ins.dst[1], Calculate("mul", g[ins.src[1]], ins.val)) /\ q = o
          BY <1>0, <5>1, Zenon DEF Effect
        <5> QED
          BY <5>1, <5>2
      <4>4. DefiningOp(p, op.args[2]).val = y
        BY <1>3, <2>2, <3>2
      <4> QED
        BY <3>2, <4>3, <4>4
    <3>3. CASE ~(op.k = "mul" /\ ConstantIn(p, op.args[1])) /\ ~(op.k = "mul" /\ ConstantIn(p, op.args[2]))
      <4>1. ins = Instr(op.k, RegsIn(r, op.res), RegsIn(r, op.args), 0, 0)
        BY <1>5, <3>3 DEF InstrFor
      <4>2. RegsIn(r, op.args)[1] = r[op.args[1]] /\ RegsIn(r, op.args)[2] = r[op.args[2]] /\ RegsIn(r, op.res)[1] = r[op.res[1]]
        BY <2>2 DEF RegsIn
      <4>3. ins.op = op.k /\ ins.dst[1] = r[op.res[1]] /\ ins.src[1] = r[op.args[1]] /\ ins.src[2] = r[op.args[2]]
        BY <4>1, <4>2 DEF Instr
      <4> QED
        BY <1>0, <1>5, <4>3 DEF Effect
    <3> QED
      BY <3>1, <3>2, <3>3
  <2>5. DOMAIN h = DOMAIN g /\ h[r[op.res[1]]] = Calculate(op.k, x, y) /\ Agree(r, g, h, Before(p, b, j))
    <3>1. SingleDone(p, r, b, j, g, h, Calculate(op.k, x, y))
      BY <2>1, <2>4, SingleWrite
    <3> QED
      BY <3>1 DEF SingleDone
  <2>6. h[r[op.args[1]]] = x /\ h[r[op.args[2]]] = y
    <3>1. SameOperands(p, r, b, j, g, h)
      BY <1>1, <2>5, OperandsAgree
    <3> QED
      BY <2>2, <3>1 DEF SameOperands
  <2>7. Calculate(op.k, x, y) \in Int
    BY <1>5, <2>3, CalculateInt
  <2>8. OpHolds(p, r, h, b, j)
    BY <1>5, <2>2, <2>5, <2>6, <2>7 DEF OpHolds, Fetches
  <2> QED
    BY <1>5, <2>4, <2>5, <2>8 DEF OpDone
<1>6. CASE op.k = "send"
  <2>1. op.res = <<>> /\ Len(op.args) = 2 /\ IsSeq(op.args)
    BY <1>2, <1>6 DEF IsOperation
  <2>2. DOMAIN op.args = {1, 2} /\ DOMAIN op.res = {}
    BY <2>1 DEF IsSeq
  <2>3. ins = Instr("send", RegsIn(r, op.res), RegsIn(r, op.args), 0, 0)
    BY <1>6 DEF InstrFor
  <2>4. RegsIn(r, op.args)[2] = r[op.args[2]]
    BY <2>2 DEF RegsIn
  <2>5. h = g /\ q = Append(o, g[r[op.args[2]]])
    <3>1. ins.op = "send" /\ ins.src[2] = r[op.args[2]]
      BY <2>3, <2>4 DEF Instr
    <3> QED
      BY <1>0, <3>1 DEF Effect
  <2>6. OpHolds(p, r, h, b, j)
    BY <1>6, <2>2 DEF OpHolds, Fetches
  <2> QED
    BY <1>6, <2>5, <2>6 DEF OpDone, Agree
<1>7. CASE Fetches(op)
  <2>1. ins = Instr(op.k, RegsIn(r, op.res), RegsIn(r, op.args), 0, 0) /\ op.k \in {"recv", "local", "request"}
    BY <1>7 DEF InstrFor, Fetches
  <2>2. ins.op \in {"recv", "local", "request"} /\ ins.dst = RegsIn(r, op.res)
    BY <2>1 DEF Instr
  <2>3. q = o /\ Delivered(ins, g, h)
    BY <1>0, <2>2 DEF Effect
  <2>4. PICK got \in [Range(RegsIn(r, op.res)) -> Bits] : h = [x \in DOMAIN g |-> IF x \in DOMAIN got THEN got[x] ELSE g[x]]
    BY <2>2, <2>3 DEF Delivered
  <2>5. \A m \in DOMAIN op.res : r[op.res[m]] \in Range(RegsIn(r, op.res)) /\ r[op.res[m]] \in DOMAIN g
    BY ResultMapped DEF RegsIn, Range
  <2>6. \A m \in DOMAIN op.res : h[r[op.res[m]]] \in Bits
    BY <2>4, <2>5
  <2>7. \A x \in 0 .. HostRegisters - 1 : x \notin {r[v] : v \in Range(Made(p, b, j))} => h[x] = g[x]
    <3>1. \A x \in Range(RegsIn(r, op.res)) : x \in {r[v] : v \in Range(Made(p, b, j))}
      <4> TAKE x \in Range(RegsIn(r, op.res))
      <4>1. PICK m \in DOMAIN op.res : x = r[op.res[m]]
        BY DEF RegsIn, Range
      <4>2. op.res[m] \in Range(Made(p, b, j))
        BY ResultMapped
      <4> QED
        BY <4>1, <4>2
    <3> QED
      BY <2>4, <3>1
  <2>8. Agree(r, g, h, Before(p, b, j)) /\ DOMAIN h = DOMAIN g
    BY <1>1, <1>2, <2>4, <2>7, WriteAgrees
  <2>9. OpHolds(p, r, h, b, j)
    <3>1. \A x \in Bits : x \in Int
      BY HostAssumption
    <3> QED
      BY <1>7, <2>1, <2>6, <3>1 DEF OpHolds
  <2> QED
    BY <2>1, <2>3, <2>8, <2>9 DEF OpDone
<1> QED
  BY <1>1, <1>2, <1>4, <1>5, <1>6, <1>7 DEF IsOperation, Fetches

-----------------------------------------------------------------------------
(***************************************************************************)
(* A run of a block: what is in sight.                                     *)
(***************************************************************************)
LEMMA SightGrows ==
  ASSUME NEW p, NEW b, NEW i \in Nat \ {0}
  PROVE  InSight(p, b, i + 1) = InSight(p, b, i) \cup Range(p[b].ops[i].res)
<1>1. 1 .. (i + 1) - 1 = (1 .. i - 1) \cup {i}
  OBVIOUS
<1> QED
  BY <1>1 DEF InSight

LEMMA NothingElseInSight == ASSUME NEW p, NEW b PROVE InSight(p, b, 1) = Visible(p, b)
<1>1. 1 .. 1 - 1 = {}
  OBVIOUS
<1> QED
  BY <1>1 DEF InSight

\* Once an operation has run, what it made is right: so is another name for what is right.
LEMMA ResultsRight ==
  ASSUME NEW p, NEW r, Mapping(p, r), NEW b \in Blocks(p), NEW j \in DOMAIN p[b].ops, NEW g,
         SightRight(p, r, g, InSight(p, b, j)), j \in Emits(p, b) => OpHolds(p, r, g, b, j)
  PROVE  SightRight(p, r, g, Range(p[b].ops[j].res))
<1> SUFFICES ASSUME NEW v \in Range(p[b].ops[j].res), r[v] # Unmapped
             PROVE  g[r[v]] \in Int /\ (ConstantIn(p, v) => g[r[v]] = DefiningOp(p, v).val)
  BY DEF SightRight
<1> DEFINE op == p[b].ops[j]
<1>1. IsMain(p) /\ j \in Places(p, b) /\ j # 0 /\ Made(p, b, j) = op.res /\ IsOperation(op)
  BY OperandsIn DEF Mapping
<1>2. op.k # "cmp"
  BY <1>1 DEF Mapping, IsCmp
<1>3. DefiningOp(p, v) = op
  BY <1>1, DefinesIt
<1>4. CASE op.k = "ext"
  <2>1. IsSeq(op.res) /\ Len(op.res) = 1 /\ IsSeq(op.args) /\ Len(op.args) = 1
    BY <1>1, <1>4 DEF IsOperation
  <2>2. v = op.res[1] /\ 1 \in DOMAIN op.args
    BY <2>1 DEF IsSeq, Range
  <2>3. r[v] = r[op.args[1]] /\ op.args[1] \in InSight(p, b, j)
    BY <1>1, <1>4, <2>2, OperandsIn DEF Mapping
  <2> QED
    BY <1>3, <1>4, <2>3 DEF SightRight, ConstantIn
<1>5. CASE op.k # "ext"
  <2>1. OpHolds(p, r, g, b, j)
    BY <1>2, <1>5 DEF Emits
  <2>2. g[r[v]] \in Int
    BY <2>1 DEF OpHolds, Range
  <2>3. ASSUME ConstantIn(p, v) PROVE g[r[v]] = op.val
    <3>1. op.k \in {"const", "flag"}
      BY <1>3, <2>3 DEF ConstantIn
    <3>2. IsSeq(op.res) /\ Len(op.res) = 1
      BY <1>1, <3>1 DEF IsOperation
    <3>3. v = op.res[1]
      BY <3>2 DEF IsSeq, Range
    <3> QED
      BY <2>1, <3>1, <3>3 DEF OpHolds
  <2> QED
    BY <1>3, <2>2, <2>3
<1> QED
  BY <1>4, <1>5

LEMMA InSightRight ==
  ASSUME NEW p, NEW r, Mapping(p, r), NEW b \in Blocks(p), NEW g, SightRight(p, r, g, Visible(p, b)),
         NEW i \in 1 .. Len(p[b].ops) + 1, \A j \in Emits(p, b) : j < i => OpHolds(p, r, g, b, j)
  PROVE  SightRight(p, r, g, InSight(p, b, i))
<1>0. IsMain(p) /\ Len(p[b].ops) \in Nat /\ DOMAIN p[b].ops = 1 .. Len(p[b].ops)
  BY MainShape DEF Mapping
<1> DEFINE Bad == {k \in Nat : k # 0 /\ k <= i /\ ~SightRight(p, r, g, InSight(p, b, k))}
<1> SUFFICES ASSUME Bad # {} PROVE FALSE
  BY <1>0
<1>1. PICK k \in Bad : \A m \in Bad : k <= m
  BY LeastNatural
<1>2. k # 1
  BY <1>1, NothingElseInSight
<1> PICK j : j = k - 1
  OBVIOUS
<1>3. j \in Nat \ {0} /\ k = j + 1 /\ j < i /\ j <= i /\ j \notin Bad
  BY <1>1, <1>2
<1>4. SightRight(p, r, g, InSight(p, b, j)) /\ j \in DOMAIN p[b].ops
  BY <1>0, <1>3
<1>5. SightRight(p, r, g, Range(p[b].ops[j].res))
  BY <1>3, <1>4, ResultsRight
<1>6. InSight(p, b, k) = InSight(p, b, j) \cup Range(p[b].ops[j].res)
  BY <1>3, SightGrows, ZenonT(30)
<1>7. SightRight(p, r, g, InSight(p, b, k))
  BY <1>4, <1>5, <1>6 DEF SightRight
<1> QED
  BY <1>1, <1>7

\* Registers that hold the same of S are as right for S.
LEMMA SightAgrees ==
  ASSUME NEW p, NEW r, NEW g, NEW h, NEW S, NEW T, Agree(r, g, h, S), T \subseteq S, SightRight(p, r, g, T)
  PROVE  SightRight(p, r, h, T)
  BY DEF SightRight, Agree

LEMMA OpAgrees ==
  ASSUME NEW p, NEW r, Mapping(p, r), NEW b \in Blocks(p), NEW j \in Emits(p, b), NEW g, NEW h,
         NEW c \in Blocks(p), NEW i \in Nat, Earlier(b, j, c, i), Agree(r, g, h, Before(p, c, i)), OpHolds(p, r, g, b, j)
  PROVE  OpHolds(p, r, h, b, j) /\ SameOperands(p, r, b, j, g, h)
<1> DEFINE op == p[b].ops[j]
<1>1. IsMain(p) /\ j \in DOMAIN p[b].ops /\ op.k \notin {"cmp", "ext"}
  BY DEF Mapping, Emits
<1>2. j \in Places(p, b) /\ j \in Nat /\ Made(p, b, j) = op.res /\ IsOperation(op)
  BY <1>1, OperandsIn
<1>3. Before(p, b, j) \subseteq Before(p, c, i) /\ Range(op.res) \subseteq Before(p, c, i)
  BY <1>1, <1>2, BeforeGrows
<1>4. Agree(r, g, h, Before(p, b, j))
  BY <1>3 DEF Agree
<1>5. SameOperands(p, r, b, j, g, h)
  BY <1>1, <1>4, OperandsAgree
<1>6. \A m \in DOMAIN op.res : h[r[op.res[m]]] = g[r[op.res[m]]]
  <2> TAKE m \in DOMAIN op.res
  <2>1. r[op.res[m]] \in 0 .. HostRegisters - 1 /\ op.res[m] \in Range(op.res)
    BY <1>2, ResultMapped
  <2>2. r[op.res[m]] # Unmapped
    BY <2>1, HostAssumption DEF Unmapped
  <2> QED
    BY <1>3, <2>1, <2>2 DEF Agree
<1>7. op.k \in {"const", "flag", "sock", "add", "sub", "mul"} => 1 \in DOMAIN op.res
  BY <1>2 DEF IsOperation, IsSeq
<1>8. op.k \in {"add", "sub", "mul"} => 1 \in DOMAIN op.args /\ 2 \in DOMAIN op.args
  BY <1>2 DEF IsOperation, IsSeq
<1>9. OpHolds(p, r, h, b, j)
  BY <1>5, <1>6, <1>7, <1>8 DEF OpHolds, SameOperands
<1> QED
  BY <1>5, <1>9

-----------------------------------------------------------------------------
(***************************************************************************)
(* A run of a block: its operations and its messages.                      *)
(***************************************************************************)
LEMMA PlaceOnce ==
  ASSUME NEW p, IsMain(p), NEW b \in Blocks(p), NEW i \in Emits(p, b), NEW j \in Emits(p, b)
  PROVE  /\ Place(p, b, i) = Place(p, b, j) <=> i = j
         /\ Place(p, b, i) < Place(p, b, j) <=> i < j
         /\ Place(p, b, i) <= Place(p, b, j) <=> i <= j
<1>0. i \in 1 .. Len(p[b].ops) /\ j \in 1 .. Len(p[b].ops) /\ Len(p[b].ops) \in Nat
  BY MainShape DEF Emits
<1>1. i \in Nat /\ j \in Nat /\ Place(p, b, i) \in Nat /\ Place(p, b, j) \in Nat
  <2>1. i \in Nat /\ j \in Nat
    BY <1>0
  <2> QED
    BY <2>1, PlaceShape
<1>2. i < j => Place(p, b, i) < Place(p, b, j)
  BY <1>1, PlaceShape
<1>3. j < i => Place(p, b, j) < Place(p, b, i)
  BY <1>1, PlaceShape
<1> QED
  BY <1>1, <1>2, <1>3

OpsPart(p, r, g, b, k) ==
  /\ SightRight(p, r, g, Visible(p, b))
  /\ \A j \in Emits(p, b) : Place(p, b, j) < k => OpHolds(p, r, g, b, j)

LEMMA VisibleBefore ==
  ASSUME NEW p, IsMain(p), NEW b \in Blocks(p), NEW c \in Blocks(p), NEW i \in Nat, Earlier(b, 0, c, i)
  PROVE  Visible(p, b) \subseteq Before(p, c, i)
<1>0. Len(p[b].ops) \in Nat /\ b \in Nat /\ c \in Nat
  BY MainShape
<1>1. Visible(p, b) \subseteq Before(p, b, 1)
  <2>1. 1 \in 1 .. Len(p[b].ops) + 1
    BY <1>0
  <2> QED
    BY <2>1, SightIsBefore, NothingElseInSight
<1>2. CASE c = b /\ i = 1
  BY <1>1, <1>2
<1>3. CASE Earlier(b, 1, c, i)
  BY <1>1, <1>3, BeforeGrows
<1> QED
  BY <1>0, <1>2, <1>3 DEF Earlier

LEMMA SightForOp ==
  ASSUME NEW p, NEW r, Mapping(p, r), NEW b \in Blocks(p), NEW j \in Emits(p, b), NEW g,
         OpsPart(p, r, g, b, Place(p, b, j))
  PROVE  SightRight(p, r, g, InSight(p, b, j))
<1>1. IsMain(p) /\ j \in DOMAIN p[b].ops
  BY DEF Mapping, Emits
<1>2. j \in 1 .. Len(p[b].ops) + 1
  BY <1>1, MainShape
<1>3. \A i \in Emits(p, b) : i < j => OpHolds(p, r, g, b, i)
  BY <1>1, PlaceOnce DEF OpsPart
<1> QED
  BY <1>2, <1>3, InSightRight DEF OpsPart

LEMMA SightAtEnd ==
  ASSUME NEW p, NEW r, Mapping(p, r), NEW b \in Blocks(p), NEW g, NEW k \in Nat, LastPlace(p, b) < k, OpsPart(p, r, g, b, k)
  PROVE  /\ SightRight(p, r, g, InSight(p, b, Len(p[b].ops) + 1))
         /\ \A j \in Emits(p, b) : OpHolds(p, r, g, b, j)
<1>1. IsMain(p)
  BY DEF Mapping
<1>2. Len(p[b].ops) + 1 \in 1 .. Len(p[b].ops) + 1
  BY <1>1, MainShape
<1>3. \A j \in Emits(p, b) : Place(p, b, j) < k
  BY <1>1, PlaceShape
<1>4. \A j \in Emits(p, b) : OpHolds(p, r, g, b, j)
  BY <1>3 DEF OpsPart
<1> QED
  BY <1>2, <1>4, InSightRight DEF OpsPart

LEMMA OpsStep ==
  ASSUME NEW p, NEW r, Mapping(p, r), NEW b \in Blocks(p), NEW j \in Emits(p, b), NEW g, NEW h, NEW o, NEW q,
         OpsPart(p, r, g, b, Place(p, b, j)), OpDone(p, r, b, j, g, o, h, q)
  PROVE  OpsPart(p, r, h, b, Place(p, b, j) + 1)
<1>1. IsMain(p) /\ j \in DOMAIN p[b].ops /\ Agree(r, g, h, Before(p, b, j)) /\ OpHolds(p, r, h, b, j)
  BY DEF Mapping, Emits, OpDone
<1>2. j \in Nat \ {0} /\ Earlier(b, 0, b, j)
  BY <1>1, MainShape DEF Earlier
<1>3. SightRight(p, r, h, Visible(p, b))
  <2>1. Visible(p, b) \subseteq Before(p, b, j)
    BY <1>1, <1>2, VisibleBefore
  <2>2. SightRight(p, r, g, Visible(p, b))
    BY DEF OpsPart
  <2> QED
    BY <1>1, <2>1, <2>2, SightAgrees
<1>4. ASSUME NEW i \in Emits(p, b), Place(p, b, i) < Place(p, b, j) + 1 PROVE OpHolds(p, r, h, b, i)
  <2>1. Place(p, b, i) \in Nat /\ Place(p, b, j) \in Nat
    BY <1>1, PlaceShape
  <2>2. CASE i = j
    BY <1>1, <2>2
  <2>3. CASE i # j
    <3>1. Place(p, b, i) < Place(p, b, j) /\ i < j
      BY <1>1, <1>4, <2>1, <2>3, PlaceOnce
    <3>2. OpHolds(p, r, g, b, i) /\ Earlier(b, i, b, j)
      BY <3>1 DEF OpsPart, Earlier
    <3> QED
      BY <1>1, <1>2, <3>2, OpAgrees
  <2> QED
    BY <2>2, <2>3
<1> QED
  BY <1>3, <1>4 DEF OpsPart

\* Registers of a block further on may be written.
LEMMA OpsLater ==
  ASSUME NEW p, NEW r, Mapping(p, r), NEW b \in Blocks(p), NEW g, NEW h, NEW k \in Nat, LastPlace(p, b) < k,
         NEW c \in Blocks(p), b < c, Agree(r, g, h, Before(p, c, 0)), OpsPart(p, r, g, b, k)
  PROVE  OpsPart(p, r, h, b, k + 1)
<1>1. IsMain(p)
  BY DEF Mapping
<1>2. SightRight(p, r, h, Visible(p, b))
  <2>1. Visible(p, b) \subseteq Before(p, c, 0)
    BY <1>1, VisibleBefore DEF Earlier
  <2>2. SightRight(p, r, g, Visible(p, b))
    BY DEF OpsPart
  <2> QED
    BY <2>1, <2>2, SightAgrees
<1>3. ASSUME NEW i \in Emits(p, b) PROVE OpHolds(p, r, h, b, i)
  <2>1. OpHolds(p, r, g, b, i) /\ Earlier(b, i, c, 0)
    BY SightAtEnd DEF Earlier
  <2> QED
    BY <2>1, OpAgrees
<1> QED
  BY <1>2, <1>3 DEF OpsPart

-----------------------------------------------------------------------------
SentBy(p, b, k) == {j \in Sends(p, b) : Place(p, b, j) < k}

LEMMA SendsEmit ==
  ASSUME NEW p, IsMain(p), NEW b \in Blocks(p)
  PROVE  /\ Sends(p, b) \in SUBSET (1 .. Len(p[b].ops)) /\ Sends(p, b) \subseteq Emits(p, b)
         /\ IsFiniteSet(Sends(p, b)) /\ Len(p[b].ops) \in Nat
<1>1. DOMAIN p[b].ops = 1 .. Len(p[b].ops) /\ Len(p[b].ops) \in Nat
  BY MainShape
<1>2. Sends(p, b) \in SUBSET (1 .. Len(p[b].ops)) /\ Sends(p, b) \subseteq Emits(p, b)
  BY <1>1 DEF Sends, Emits
<1>3. ASSUME NEW n \in Nat PROVE IsFiniteSet(1 .. n)
  BY FS_Interval
<1> QED
  BY <1>1, <1>2, <1>3, FS_Subset

LEMMA SendsCount ==
  ASSUME NEW p, IsMain(p), NEW b \in Blocks(p), NEW k \in Nat
  PROVE  /\ Cardinality(SentBy(p, b, k)) \in Nat
         /\ LastPlace(p, b) < k => SentBy(p, b, k) = Sends(p, b)
         /\ \A j \in Sends(p, b) : Place(p, b, j) < k => Rank(Sends(p, b), j) \in 1 .. Cardinality(SentBy(p, b, k))
<1>1. /\ Sends(p, b) \in SUBSET (1 .. Len(p[b].ops)) /\ Sends(p, b) \subseteq Emits(p, b)
      /\ IsFiniteSet(Sends(p, b)) /\ Len(p[b].ops) \in Nat
  BY SendsEmit
<1>4. SentBy(p, b, k) \in SUBSET Sends(p, b)
  BY DEF SentBy
<1>5. IsFiniteSet(SentBy(p, b, k)) /\ Cardinality(SentBy(p, b, k)) \in Nat
  BY <1>1, <1>4, FS_Subset, FS_CardinalityType
<1>6. LastPlace(p, b) < k => SentBy(p, b, k) = Sends(p, b)
  BY <1>1, PlaceShape DEF SentBy
<1>7. ASSUME NEW j \in Sends(p, b), Place(p, b, j) < k
      PROVE  Rank(Sends(p, b), j) \in 1 .. Cardinality(SentBy(p, b, k))
  <2> DEFINE T == {i \in Sends(p, b) : i <= j}
  <2>1. T \in SUBSET SentBy(p, b, k)
    <3>1. \A i \in Sends(p, b) : i <= j => Place(p, b, i) <= Place(p, b, j)
      BY <1>1, PlaceOnce
    <3>2. \A i \in Sends(p, b) : Place(p, b, i) \in Nat
      BY <1>1, PlaceShape
    <3> QED
      BY <1>7, <3>1, <3>2 DEF SentBy
  <2>2. Rank(Sends(p, b), j) = Cardinality(T)
    BY DEF Rank
  <2> HIDE DEF T
  <2>3. Cardinality(T) <= Cardinality(SentBy(p, b, k))
    BY <1>5, <2>1, FS_Subset
  <2>4. Rank(Sends(p, b), j) \in 1 .. Cardinality(Sends(p, b))
    BY <1>1, InOrderLists
  <2> QED
    BY <1>5, <2>2, <2>3, <2>4
<1> QED
  BY <1>5, <1>6, <1>7

LEMMA SendsStep ==
  ASSUME NEW p, IsMain(p), NEW b \in Blocks(p), NEW j \in Emits(p, b), NEW k, k = Place(p, b, j)
  PROVE  IF j \in Sends(p, b)
           THEN /\ Cardinality(SentBy(p, b, k + 1)) = Cardinality(SentBy(p, b, k)) + 1
                /\ Rank(Sends(p, b), j) = Cardinality(SentBy(p, b, k)) + 1
           ELSE SentBy(p, b, k + 1) = SentBy(p, b, k)
<1>1. k \in Nat /\ Sends(p, b) \subseteq Emits(p, b) /\ \A i \in Emits(p, b) : Place(p, b, i) \in Nat
  BY PlaceShape, SendsEmit
<1>2. \A i \in Sends(p, b) : (Place(p, b, i) < k + 1 <=> Place(p, b, i) < k \/ i = j) /\ (Place(p, b, i) < k + 1 <=> i <= j)
  BY <1>1, PlaceOnce
<1>3. CASE j \in Sends(p, b)
  <2>1. SentBy(p, b, k + 1) = SentBy(p, b, k) \cup {j}
    BY <1>2, <1>3 DEF SentBy
  <2>2. j \notin SentBy(p, b, k)
    BY <1>1 DEF SentBy
  <2>3. IsFiniteSet(SentBy(p, b, k))
    <3>1. IsFiniteSet(Sends(p, b)) /\ SentBy(p, b, k) \in SUBSET Sends(p, b)
      BY SendsEmit DEF SentBy
    <3> QED
      BY <3>1, FS_Subset
  <2>4. Cardinality(SentBy(p, b, k + 1)) = Cardinality(SentBy(p, b, k)) + 1
    BY <2>1, <2>2, <2>3, FS_AddElement
  <2>5. {i \in Sends(p, b) : i <= j} = SentBy(p, b, k + 1)
    BY <1>2 DEF SentBy
  <2> QED
    BY <1>3, <2>4, <2>5 DEF Rank
<1>4. CASE j \notin Sends(p, b)
  <2>1. SentBy(p, b, k + 1) = SentBy(p, b, k)
    BY <1>2, <1>4 DEF SentBy
  <2> QED
    BY <1>4, <2>1
<1> QED
  BY <1>3, <1>4

-----------------------------------------------------------------------------
(***************************************************************************)
(* A run of a block: what goes out.                                        *)
(***************************************************************************)
\* Results of the function that were returned before instruction k.
Returned(p, b, k) == IF p[b].term.k = "return" /\ LastPlace(p, b) + 1 < k THEN k - 1 - LastPlace(p, b) ELSE 0

OutPart(p, r, g, b, k, o, s) ==
  /\ IsSeq(o) /\ IsSeq(s)
  /\ Len(o) = Len(s) + Cardinality(SentBy(p, b, k)) + Returned(p, b, k)
  /\ \A i \in 1 .. Len(s) : o[i] = s[i]
  /\ \A j \in Sends(p, b) : Place(p, b, j) < k => o[Len(s) + Rank(Sends(p, b), j)] = g[r[p[b].ops[j].args[2]]]
  /\ \A m \in 1 .. Returned(p, b, k) : o[Len(s) + Cardinality(Sends(p, b)) + m] = g[r[p[b].term.args[m]]]

LEMMA OutStart ==
  ASSUME NEW p, NEW r, NEW g, NEW b, IsMain(p), b \in Blocks(p), NEW o, IsSeq(o)
  PROVE  OutPart(p, r, g, b, 1, o, o)
<1>1. LastPlace(p, b) \in Nat /\ \A j \in Sends(p, b) : Place(p, b, j) >= 1
  BY PlaceShape, SendsEmit
<1>2. SentBy(p, b, 1) = {} /\ \A j \in Sends(p, b) : ~(Place(p, b, j) < 1)
  <2>1. \A j \in Sends(p, b) : ~(Place(p, b, j) < 1)
    <3>1. \A j \in Sends(p, b) : Place(p, b, j) \in 1 .. LastPlace(p, b)
      BY PlaceShape, SendsEmit
    <3> QED
      BY <1>1, <3>1
  <2> QED
    BY <2>1 DEF SentBy
<1>3. Cardinality(SentBy(p, b, 1)) = 0 /\ Returned(p, b, 1) = 0
  <2>1. Cardinality(SentBy(p, b, 1)) = 0
    BY <1>2, FS_EmptySet
  <2>2. ~(LastPlace(p, b) + 1 < 1)
    BY <1>1
  <2>3. Returned(p, b, 1) = 0
    BY <2>2 DEF Returned
  <2> QED
    BY <2>1, <2>3
<1>4. Len(o) \in Nat /\ \A m \in 1 .. Returned(p, b, 1) : FALSE
  BY <1>3 DEF IsSeq
<1>5. Len(o) = Len(o) + Cardinality(SentBy(p, b, 1)) + Returned(p, b, 1)
  BY <1>3, <1>4
<1> QED
  BY <1>2, <1>4, <1>5 DEF OutPart

\* The list q is o with x behind it.
IsAppend(q, o, x) ==
  IsSeq(q) /\ Len(o) \in Nat /\ Len(q) = Len(o) + 1 /\ q[Len(o) + 1] = x /\ \A m \in 1 .. Len(o) : q[m] = o[m]

LEMMA AppendIs == ASSUME NEW o, IsSeq(o), NEW x PROVE IsAppend(Append(o, x), o, x)
  BY AppendSeq DEF IsAppend

SameMessage(p, r, b, j, g, h) == h[r[p[b].ops[j].args[2]]] = g[r[p[b].ops[j].args[2]]]

LEMMA SendOperand ==
  ASSUME NEW p, NEW r, Mapping(p, r), NEW b \in Blocks(p), NEW j \in Sends(p, b), NEW g, NEW h, SameOperands(p, r, b, j, g, h)
  PROVE  SameMessage(p, r, b, j, g, h)
<1>1. j \in DOMAIN p[b].ops /\ p[b].ops[j].k = "send"
  BY DEF Sends
<1>2. IsSeq(p[b].ops[j].args) /\ Len(p[b].ops[j].args) = 2
  BY <1>1, OperandsIn DEF IsOperation, Mapping
<1>3. 2 \in DOMAIN p[b].ops[j].args
  BY <1>2 DEF IsSeq
<1> QED
  BY <1>3 DEF SameOperands, SameMessage

LEMMA OutStepOp ==
  ASSUME NEW p, NEW r, Mapping(p, r), NEW b \in Blocks(p), NEW j \in Emits(p, b), NEW k, k = Place(p, b, j),
         NEW g, NEW h, NEW o, NEW q, NEW s, OpDone(p, r, b, j, g, o, h, q), OutPart(p, r, g, b, k, o, s)
  PROVE  OutPart(p, r, h, b, k + 1, q, s)
<1>0. /\ IsSeq(o) /\ IsSeq(s) /\ Len(o) = Len(s) + Cardinality(SentBy(p, b, k)) + Returned(p, b, k)
      /\ \A i \in 1 .. Len(s) : o[i] = s[i]
  BY DEF OutPart
<1>1. /\ IsMain(p) /\ j \in DOMAIN p[b].ops /\ k \in Nat /\ k \in 1 .. LastPlace(p, b) /\ LastPlace(p, b) \in Nat
      /\ Sends(p, b) \subseteq Emits(p, b)
  BY PlaceShape, SendsEmit DEF Mapping
<1>2. Returned(p, b, k) = 0 /\ Returned(p, b, k + 1) = 0 /\ 1 .. 0 = {}
  BY <1>1 DEF Returned
<1> PICK before : before = Cardinality(SentBy(p, b, k))
  OBVIOUS
<1>3. /\ before \in Nat /\ Len(s) \in Nat /\ Len(o) = Len(s) + before
      /\ \A i \in Sends(p, b) : Place(p, b, i) < k => Rank(Sends(p, b), i) \in 1 .. before
  <2>1. before \in Nat /\ \A i \in Sends(p, b) : Place(p, b, i) < k => Rank(Sends(p, b), i) \in 1 .. before
    BY <1>1, SendsCount
  <2>2. Len(s) \in Nat
    BY <1>0 DEF IsSeq
  <2> QED
    BY <1>0, <1>2, <2>1, <2>2
<1>4. \A i \in Sends(p, b) : Place(p, b, i) < k + 1 <=> Place(p, b, i) < k \/ i = j
  <2>1. \A i \in Sends(p, b) : Place(p, b, i) \in Nat
    BY <1>1, PlaceShape
  <2> QED
    BY <1>1, <2>1, PlaceOnce
<1>5. ASSUME NEW i \in Sends(p, b), Place(p, b, i) < k + 1
      PROVE  SameMessage(p, r, b, i, g, h)
  <2>1. i \in Nat /\ j \in Nat /\ i <= j /\ i \in DOMAIN p[b].ops
    <3>1. i \in 1 .. Len(p[b].ops) /\ j \in 1 .. Len(p[b].ops) /\ Len(p[b].ops) \in Nat
      BY <1>1, MainShape, SendsEmit
    <3>2. i = j \/ i < j
      BY <1>1, <1>4, <1>5, PlaceOnce
    <3> QED
      BY <3>1, <3>2 DEF Sends
  <2>2. Agree(r, g, h, Before(p, b, i))
    <3>1. Before(p, b, i) \subseteq Before(p, b, j)
      <4>1. CASE i = j
        BY <4>1
      <4>2. CASE i # j
        <5>1. Earlier(b, i, b, j)
          BY <2>1, <4>2 DEF Earlier
        <5> QED
          BY <1>1, <2>1, <5>1, BeforeGrows
      <4> QED
        BY <4>1, <4>2
    <3> QED
      BY <3>1 DEF OpDone, Agree
  <2>3. SameOperands(p, r, b, i, g, h)
    BY <2>1, <2>2, OperandsAgree
  <2> QED
    BY <2>3, SendOperand
<1>6. CASE j \in Sends(p, b)
  <2> PICK x : x = g[r[p[b].ops[j].args[2]]]
    OBVIOUS
  <2>1. q = Append(o, x)
    BY <1>6 DEF OpDone, Sends
  <2>2. Cardinality(SentBy(p, b, k + 1)) = before + 1 /\ Rank(Sends(p, b), j) = before + 1
    BY <1>1, <1>6, SendsStep
  <2>3. IsAppend(q, o, x)
    BY <1>0, <2>1, AppendIs
  <2>4. \A i \in 1 .. Len(s) : q[i] = s[i]
    <3>1. \A i \in 1 .. Len(s) : i \in 1 .. Len(o)
      BY <1>3
    <3> QED
      BY <1>0, <2>3, <3>1 DEF IsAppend
  <2>5. ASSUME NEW i \in Sends(p, b), Place(p, b, i) < k + 1
        PROVE  q[Len(s) + Rank(Sends(p, b), i)] = h[r[p[b].ops[i].args[2]]]
    <3>1. CASE i = j
      <4>1. Len(s) + Rank(Sends(p, b), i) = Len(o) + 1
        BY <1>3, <2>2, <3>1
      <4>2. q[Len(o) + 1] = g[r[p[b].ops[i].args[2]]]
        BY <2>3, <3>1 DEF IsAppend
      <4> QED
        BY <1>5, <2>5, <4>1, <4>2 DEF SameMessage
    <3>2. CASE i # j
      <4>1. Place(p, b, i) < k /\ Rank(Sends(p, b), i) \in 1 .. before
        BY <1>3, <1>4, <2>5, <3>2
      <4>2. Len(s) + Rank(Sends(p, b), i) \in 1 .. Len(o)
        BY <1>3, <4>1
      <4>3. o[Len(s) + Rank(Sends(p, b), i)] = g[r[p[b].ops[i].args[2]]]
        BY <4>1 DEF OutPart
      <4> QED
        BY <1>5, <2>3, <2>5, <4>2, <4>3 DEF SameMessage, IsAppend
    <3> QED
      BY <3>1, <3>2
  <2>6. Len(q) = Len(s) + Cardinality(SentBy(p, b, k + 1)) + Returned(p, b, k + 1)
    <3>1. Len(q) = Len(o) + 1
      BY <2>3 DEF IsAppend
    <3>2. Cardinality(SentBy(p, b, k + 1)) = before + 1 /\ Returned(p, b, k + 1) = 0
      BY <1>2, <2>2
    <3> QED
      BY <1>3, <3>1, <3>2
  <2>7. IsSeq(q)
    BY <2>3 DEF IsAppend
  <2> QED
    BY <1>0, <1>2, <2>4, <2>5, <2>6, <2>7 DEF OutPart
<1>7. CASE j \notin Sends(p, b)
  <2>1. q = o
    BY <1>1, <1>7 DEF OpDone, Sends
  <2>2. SentBy(p, b, k + 1) = SentBy(p, b, k)
    BY <1>1, <1>7, SendsStep
  <2>3. ASSUME NEW i \in Sends(p, b), Place(p, b, i) < k + 1
        PROVE  q[Len(s) + Rank(Sends(p, b), i)] = h[r[p[b].ops[i].args[2]]]
    <3>1. Place(p, b, i) < k
      BY <1>4, <1>7, <2>3
    <3> QED
      BY <1>5, <2>1, <2>3, <3>1 DEF OutPart, SameMessage
  <2> QED
    BY <1>2, <2>1, <2>2, <2>3 DEF OutPart
<1> QED
  BY <1>6, <1>7

\* Copies send nothing.
LEMMA OutStepLater ==
  ASSUME NEW p, NEW r, Mapping(p, r), NEW b \in Blocks(p), NEW k \in Nat, LastPlace(p, b) < k,
         NEW g, NEW h, NEW o, NEW s, p[b].term.k # "return",
         NEW c \in Blocks(p), b < c, Agree(r, g, h, Before(p, c, 0)), OutPart(p, r, g, b, k, o, s)
  PROVE  OutPart(p, r, h, b, k + 1, o, s)
<1>1. IsMain(p) /\ LastPlace(p, b) \in Nat /\ Sends(p, b) \subseteq Emits(p, b)
  BY PlaceShape, SendsEmit DEF Mapping
<1>2. Returned(p, b, k) = 0 /\ Returned(p, b, k + 1) = 0 /\ 1 .. 0 = {}
  BY DEF Returned
<1>3. SentBy(p, b, k) = Sends(p, b) /\ SentBy(p, b, k + 1) = Sends(p, b)
  <2>1. k + 1 \in Nat /\ LastPlace(p, b) < k + 1
    BY <1>1
  <2> QED
    BY <1>1, <2>1, SendsCount
<1>4. ASSUME NEW i \in Sends(p, b)
      PROVE  Place(p, b, i) < k /\ SameMessage(p, r, b, i, g, h)
  <2>1. i \in DOMAIN p[b].ops /\ i \in Nat /\ Place(p, b, i) < k
    BY <1>1, <1>3, MainShape DEF SentBy, Sends
  <2>2. Agree(r, g, h, Before(p, b, i))
    <3>1. Earlier(b, i, c, 0)
      BY DEF Earlier
    <3>2. Before(p, b, i) \subseteq Before(p, c, 0)
      BY <1>1, <2>1, <3>1, BeforeGrows
    <3> QED
      BY <3>2 DEF Agree
  <2>3. SameOperands(p, r, b, i, g, h)
    BY <2>1, <2>2, OperandsAgree
  <2> QED
    BY <2>1, <2>3, SendOperand
<1> QED
  BY <1>2, <1>3, <1>4 DEF OutPart, SameMessage

LEMMA OutStepReturn ==
  ASSUME NEW p, NEW r, Mapping(p, r), NEW b \in Blocks(p), NEW t \in Nat \ {0}, NEW k, k = LastPlace(p, b) + t,
         NEW g, NEW o, NEW q, NEW s, p[b].term.k = "return",
         q = Append(o, g[r[p[b].term.args[t]]]), OutPart(p, r, g, b, k, o, s)
  PROVE  OutPart(p, r, g, b, k + 1, q, s)
<1>0. /\ IsSeq(o) /\ IsSeq(s) /\ Len(o) = Len(s) + Cardinality(SentBy(p, b, k)) + Returned(p, b, k)
      /\ \A i \in 1 .. Len(s) : o[i] = s[i]
  BY DEF OutPart
<1>1. IsMain(p) /\ LastPlace(p, b) \in Nat /\ k \in Nat /\ k + 1 \in Nat
  <2>1. IsMain(p)
    BY DEF Mapping
  <2>2. LastPlace(p, b) \in Nat
    BY <2>1, PlaceShape
  <2> QED
    BY <2>1, <2>2
<1>2. Returned(p, b, k) = t - 1 /\ Returned(p, b, k + 1) = t
  BY <1>1 DEF Returned
<1>3. SentBy(p, b, k) = Sends(p, b) /\ SentBy(p, b, k + 1) = Sends(p, b) /\ Cardinality(Sends(p, b)) \in Nat
  <2>1. LastPlace(p, b) < k /\ LastPlace(p, b) < k + 1
    BY <1>1
  <2> QED
    BY <1>1, <2>1, SendsCount
<1> PICK all : all = Cardinality(Sends(p, b))
  OBVIOUS
<1> PICK x : x = g[r[p[b].term.args[t]]]
  OBVIOUS
<1>4. Len(s) \in Nat /\ all \in Nat /\ Len(o) = Len(s) + all + (t - 1)
  <2>1. Len(s) \in Nat
    BY <1>0 DEF IsSeq
  <2> QED
    BY <1>0, <1>2, <1>3, <2>1
<1>5. IsSeq(q) /\ Len(q) = Len(o) + 1 /\ q[Len(o) + 1] = x /\ \A m \in 1 .. Len(o) : q[m] = o[m]
  <2>1. IsAppend(q, o, x)
    BY <1>0, AppendIs, Zenon
  <2> QED
    BY <2>1, Zenon DEF IsAppend
<1>6. \A i \in 1 .. Len(s) : q[i] = s[i]
  <2>1. \A i \in 1 .. Len(s) : i \in 1 .. Len(o)
    BY <1>4
  <2> QED
    BY <1>0, <1>5, <2>1
<1>7. \A i \in Sends(p, b) : Place(p, b, i) < k /\ Rank(Sends(p, b), i) \in 1 .. all
  <2>1. \A i \in Sends(p, b) : Place(p, b, i) < k
    BY <1>3 DEF SentBy
  <2> QED
    BY <1>1, <1>3, <2>1, SendsCount
<1>8. \A i \in Sends(p, b) : q[Len(s) + Rank(Sends(p, b), i)] = g[r[p[b].ops[i].args[2]]]
  <2> TAKE i \in Sends(p, b)
  <2>1. Len(s) + Rank(Sends(p, b), i) \in 1 .. Len(o)
    BY <1>4, <1>7
  <2> QED
    BY <1>5, <1>7, <2>1 DEF OutPart
<1>9. \A m \in 1 .. t : q[Len(s) + all + m] = g[r[p[b].term.args[m]]]
  <2> TAKE m \in 1 .. t
  <2>1. CASE m = t
    <3>1. Len(s) + all + m = Len(o) + 1
      BY <1>4, <2>1
    <3> QED
      BY <1>5, <2>1, <3>1
  <2>2. CASE m # t
    <3>1. m \in 1 .. t - 1 /\ Len(s) + all + m \in 1 .. Len(o)
      BY <1>4, <2>2
    <3> QED
      BY <1>2, <1>5, <3>1 DEF OutPart
  <2> QED
    BY <2>1, <2>2
<1>10. Len(q) = Len(s) + all + t
  <2>1. \A l, n \in Nat : (l + n + (t - 1)) + 1 = l + n + t
    OBVIOUS
  <2> QED
    BY <1>4, <1>5, <2>1, Zenon
<1> QED
  BY <1>0, <1>2, <1>3, <1>5, <1>6, <1>8, <1>9, <1>10 DEF OutPart

-----------------------------------------------------------------------------
(***************************************************************************)
(* A run of a block: its terminator.                                       *)
(***************************************************************************)
Branches(p, b) == p[b].term.k \in {"br", "cond"}
Tested(p, b) == p[b].term.k = "cond" /\ Test(p, b).k = "cmp"

\* The successor that instruction t of the terminator is for, and where its copies start.
Chosen(p, b, t) ==
  IF Tested(p, b) THEN (IF t > Len(p[b].term.with[1]) + 1 THEN 2 ELSE 1)
  ELSE IF p[b].term.k = "cond" THEN Way(p, b) ELSE 1
Base(p, b, n) == IF Tested(p, b) /\ n = 2 THEN Len(p[b].term.with[1]) + 1 ELSE 0

Copied(p, r, g, b, n, m) == g[r[p[p[b].term.to[n]].args[m]]] = g[r[p[b].term.with[n][m]]]
TestHolds(p, r, g, b) == Holds(Test(p, b).pred, g[r[Test(p, b).args[1]]], g[r[Test(p, b).args[2]]])

\* The first t - 1 instructions of the terminator have run.
TermPart(p, r, g, b, t) ==
  Branches(p, b) =>
    /\ \A m \in DOMAIN p[b].term.with[Chosen(p, b, t)] :
         Base(p, b, Chosen(p, b, t)) + m < t => Copied(p, r, g, b, Chosen(p, b, t), m)
    /\ Tested(p, b) /\ Chosen(p, b, t) = 2 => ~TestHolds(p, r, g, b)

CopyAt(p, r, b, t, m) ==
  LET n == Chosen(p, b, t)
  IN  /\ m \in DOMAIN p[b].term.with[n]
      /\ t = Base(p, b, n) + m
      /\ LastInstrs(p, r, b)[t] = CopyOf(p, r, p[b].term.to[n], p[b].term.with[n], m)
      /\ t < Len(LastInstrs(p, r, b)) /\ Chosen(p, b, t + 1) = n

TestAt(p, r, b, t) ==
  /\ Tested(p, b)
  /\ Chosen(p, b, t) = 1 /\ Chosen(p, b, t + 1) = 2 /\ t = Base(p, b, 2)
  /\ \A m \in DOMAIN p[b].term.with[1] : Base(p, b, 1) + m < t
  /\ LastInstrs(p, r, b)[t] = Instr(Test(p, b).pred, <<>>, RegsIn(r, Test(p, b).args), 0, p[b].term.to[1])
  /\ t < Len(LastInstrs(p, r, b))

JumpAt(p, r, b, t) ==
  LET n == Chosen(p, b, t)
  IN  /\ Tested(p, b) => n = 2
      /\ \A m \in DOMAIN p[b].term.with[n] : Base(p, b, n) + m < t
      /\ LastInstrs(p, r, b)[t] = Jump(p[b].term.to[n])

\* A branch on a comparison has two lists of copies.
TestedCode(p, r, b, first, second, all) ==
  /\ Tested(p, b) /\ all = first + second + 2
  /\ first = Len(p[b].term.with[1]) /\ all = Len(LastInstrs(p, r, b))
  /\ DOMAIN p[b].term.with[1] = 1 .. first /\ DOMAIN p[b].term.with[2] = 1 .. second
  /\ \A m \in 1 .. first : LastInstrs(p, r, b)[m] = CopyOf(p, r, p[b].term.to[1], p[b].term.with[1], m)
  /\ LastInstrs(p, r, b)[first + 1] = Instr(Test(p, b).pred, <<>>, RegsIn(r, Test(p, b).args), 0, p[b].term.to[1])
  /\ \A m \in 1 .. second :
       LastInstrs(p, r, b)[first + 1 + m] = CopyOf(p, r, p[b].term.to[2], p[b].term.with[2], m)
  /\ LastInstrs(p, r, b)[first + second + 2] = Jump(p[b].term.to[2])

LEMMA TestedAt ==
  ASSUME NEW p, NEW r, NEW b, NEW first \in Nat, NEW second \in Nat, NEW all \in Nat, NEW t \in 1 .. all,
         TestedCode(p, r, b, first, second, all)
  PROVE  (\E m : CopyAt(p, r, b, t, m)) \/ TestAt(p, r, b, t) \/ JumpAt(p, r, b, t)
<1>0. all = first + second + 2
  BY DEF TestedCode
<1>3. \A i \in Nat : Chosen(p, b, i) = IF i > first + 1 THEN 2 ELSE 1
  BY DEF Chosen, TestedCode
<1>4. Base(p, b, 1) = 0 /\ Base(p, b, 2) = first + 1
  BY DEF Base, TestedCode
<1>5. t \in 1 .. all /\ t \in Nat /\ t + 1 \in Nat /\ t <= first + second + 2 /\ t >= 1
  BY <1>0
<1>6. CASE t <= first
  <2>1. t \in 1 .. first /\ Chosen(p, b, t) = 1 /\ Chosen(p, b, t + 1) = 1 /\ t = 0 + t /\ t < all
    BY <1>0, <1>3, <1>5, <1>6
  <2>2. CopyAt(p, r, b, t, t)
    BY <1>4, <2>1 DEF CopyAt, TestedCode
  <2> QED
    BY <2>2
<1>7. CASE t = first + 1
  <2>1. Chosen(p, b, t) = 1 /\ Chosen(p, b, t + 1) = 2 /\ t < all
    BY <1>0, <1>3, <1>5, <1>7
  <2>2. \A m \in 1 .. first : 0 + m < t
    BY <1>7
  <2>3. TestAt(p, r, b, t)
    BY <1>4, <1>7, <2>1, <2>2 DEF TestAt, TestedCode
  <2> QED
    BY <2>3
<1>8. CASE t > first + 1 /\ t <= first + 1 + second
  <2> PICK m : m = t - (first + 1)
    OBVIOUS
  <2>1. m \in 1 .. second /\ t = first + 1 + m /\ t < all
    BY <1>0, <1>5, <1>8
  <2>2. Chosen(p, b, t) = 2 /\ Chosen(p, b, t + 1) = 2
    BY <1>0, <1>3, <1>5, <1>8
  <2>3. LastInstrs(p, r, b)[t] = CopyOf(p, r, p[b].term.to[2], p[b].term.with[2], m)
    BY <2>1 DEF TestedCode
  <2>4. CopyAt(p, r, b, t, m)
    BY <1>4, <2>1, <2>2, <2>3 DEF CopyAt, TestedCode
  <2> QED
    BY <2>4
<1>9. CASE t > first + 1 + second
  <2>1. t = first + second + 2 /\ Chosen(p, b, t) = 2
    BY <1>0, <1>3, <1>5, <1>9
  <2>2. \A m \in 1 .. second : first + 1 + m < t
    BY <2>1
  <2>3. JumpAt(p, r, b, t)
    BY <1>4, <2>1, <2>2 DEF JumpAt, TestedCode
  <2> QED
    BY <2>3
<1> QED
  BY <1>0, <1>5, <1>6, <1>7, <1>8, <1>9

\* What instruction t of a branch is.
LEMMA TermAt ==
  ASSUME NEW p, IsMain(p), NEW r, NEW b \in Blocks(p), Branches(p, b),
         NEW all \in Nat, all = Len(LastInstrs(p, r, b)), NEW t \in 1 .. all
  PROVE  (\E m : CopyAt(p, r, b, t, m)) \/ TestAt(p, r, b, t) \/ JumpAt(p, r, b, t)
<1>0. /\ \A n \in DOMAIN p[b].term.to : IsSeq(p[b].term.with[n])
      /\ DOMAIN p[b].term.to = IF p[b].term.k = "cond" THEN {1, 2} ELSE {1}
  BY JumpShape DEF Branches
<1>1. CASE ~Tested(p, b)
  <2> DEFINE n == IF p[b].term.k = "cond" THEN Way(p, b) ELSE 1
  <2>1. Chosen(p, b, t) = n /\ Chosen(p, b, t + 1) = n /\ Base(p, b, n) = 0
    BY <1>1 DEF Chosen, Base
  <2>2. /\ n \in DOMAIN p[b].term.to /\ Len(p[b].term.with[n]) \in Nat
        /\ Len(LastInstrs(p, r, b)) = Len(p[b].term.with[n]) + 1
        /\ \A m \in 1 .. Len(p[b].term.with[n]) :
             LastInstrs(p, r, b)[m] = CopyOf(p, r, p[b].term.to[n], p[b].term.with[n], m)
        /\ LastInstrs(p, r, b)[Len(p[b].term.with[n]) + 1] = Jump(p[b].term.to[n])
    <3>1. p[b].term.k = "br" \/ (p[b].term.k = "cond" /\ Test(p, b).k # "cmp")
      BY <1>1 DEF Tested, Branches
    <3> QED
      BY <3>1, LastShape
  <2> HIDE DEF n
  <2>3. DOMAIN p[b].term.with[n] = 1 .. Len(p[b].term.with[n])
    BY <1>0, <2>2 DEF IsSeq
  <2>4. CASE t \in 1 .. Len(p[b].term.with[n])
    <3>1. t < Len(LastInstrs(p, r, b)) /\ t = 0 + t
      BY <2>2, <2>4
    <3>2. CopyAt(p, r, b, t, t)
      BY <2>1, <2>2, <2>3, <2>4, <3>1 DEF CopyAt
    <3> QED
      BY <3>2
  <2>5. CASE t \notin 1 .. Len(p[b].term.with[n])
    <3>1. t = Len(p[b].term.with[n]) + 1
      <4> PICK l \in Nat : l = Len(p[b].term.with[n])
        BY <2>2
      <4>1. all = l + 1 /\ t \notin 1 .. l
        BY <2>2, <2>5
      <4>2. t = l + 1
        BY <4>1, SMTT(20)
      <4> QED
        BY <4>2, Zenon
    <3>3. \A m \in DOMAIN p[b].term.with[n] : 0 + m < t
      BY <2>2, <2>3, <3>1
    <3>2. JumpAt(p, r, b, t)
      BY <1>1, <2>1, <2>2, <3>1, <3>3 DEF JumpAt
    <3> QED
      BY <3>2
  <2> QED
    BY <2>4, <2>5
<1>2. CASE Tested(p, b)
  <2>1. Len(p[b].term.with[1]) \in Nat /\ Len(p[b].term.with[2]) \in Nat
    BY <1>2, LastShape DEF Tested
  <2> PICK first \in Nat : first = Len(p[b].term.with[1])
    BY <2>1
  <2> PICK second \in Nat : second = Len(p[b].term.with[2])
    BY <2>1
  <2>2. DOMAIN p[b].term.with[1] = 1 .. first /\ DOMAIN p[b].term.with[2] = 1 .. second
    BY <1>0, <1>2 DEF IsSeq, Tested
  <2>3. TestedCode(p, r, b, first, second, all)
    BY <1>2, <2>2, LastShape DEF Tested, TestedCode
  <2> QED
    BY <2>3, TestedAt
<1> QED
  BY <1>1, <1>2

-----------------------------------------------------------------------------
(***************************************************************************)
(* A run of a block: its steps.                                            *)
(***************************************************************************)
\* The first k - 1 instructions of block b have run, since it was entered with out = s.
RunPart(p, r, cd, b, k, g, o, s) ==
  /\ b \in Blocks(p) /\ NoneAhead(p, b)
  /\ k \in Nat \ {0} /\ k <= Len(cd[b]) + 1 /\ (Branches(p, b) => k <= Len(cd[b]))
  /\ DOMAIN g = 0 .. HostRegisters - 1
  /\ OpsPart(p, r, g, b, k)
  /\ TermPart(p, r, g, b, k - LastPlace(p, b))
  /\ OutPart(p, r, g, b, k, o, s)

\* What was in sight when the block was entered is not written.
StepRight(p, r, cd, b, k, g, h, q, s) ==
  RunPart(p, r, cd, b, k, h, q, s) /\ Agree(r, g, h, Before(p, b, 1))

LEMMA CodeLength ==
  ASSUME NEW p, NEW r, NEW cd, Mapping(p, r), Coded(p, r, cd), NEW b \in Blocks(p)
  PROVE  /\ LastPlace(p, b) \in Nat /\ Len(LastInstrs(p, r, b)) \in Nat /\ Len(cd[b]) \in Nat
         /\ Len(cd[b]) = LastPlace(p, b) + Len(LastInstrs(p, r, b))
         /\ Branches(p, b) => Len(LastInstrs(p, r, b)) > 0
<1>1. IsMain(p)
  BY DEF Mapping
<1>2. LastPlace(p, b) \in Nat
  BY <1>1, PlaceShape
<1>3. Len(LastInstrs(p, r, b)) \in Nat
  BY <1>1, LastShape
<1>4. Len(cd[b]) = LastPlace(p, b) + Len(LastInstrs(p, r, b))
  BY DEF Coded
<1>5. ASSUME Branches(p, b) PROVE Len(LastInstrs(p, r, b)) > 0
  <2>1. CASE Tested(p, b)
    <3>1. Len(p[b].term.with[1]) \in Nat /\ Len(p[b].term.with[2]) \in Nat
          /\ Len(LastInstrs(p, r, b)) = Len(p[b].term.with[1]) + Len(p[b].term.with[2]) + 2
      BY <1>1, <2>1, LastShape DEF Tested
    <3>2. \A l, m \in Nat : l + m + 2 > 0
      OBVIOUS
    <3> QED
      BY <3>1, <3>2
  <2>2. CASE ~Tested(p, b)
    <3> DEFINE n == IF p[b].term.k = "cond" THEN Way(p, b) ELSE 1
    <3>1. p[b].term.k = "br" \/ (p[b].term.k = "cond" /\ Test(p, b).k # "cmp")
      BY <1>5, <2>2 DEF Tested, Branches
    <3>2. Len(p[b].term.with[n]) \in Nat /\ Len(LastInstrs(p, r, b)) = Len(p[b].term.with[n]) + 1
      BY <1>1, <3>1, LastShape
    <3> HIDE DEF n
    <3>3. \A l \in Nat : l + 1 > 0
      OBVIOUS
    <3> QED
      BY <3>2, <3>3
  <2> QED
    BY <2>1, <2>2
<1>6. \A l, m \in Nat : l + m \in Nat
  OBVIOUS
<1> QED
  BY <1>2, <1>3, <1>4, <1>5, <1>6

\* An instruction of a block is that of an operation or of the terminator.
LEMMA InstrIs ==
  ASSUME NEW p, NEW r, NEW cd, Mapping(p, r), Coded(p, r, cd), NEW b \in Blocks(p), NEW k \in Nat \ {0}, k <= Len(cd[b])
  PROVE  \/ \E j \in Emits(p, b) : k = Place(p, b, j) /\ cd[b][k] = InstrFor(p, r, b, j)
         \/ \E t \in 1 .. Len(LastInstrs(p, r, b)) : k = LastPlace(p, b) + t /\ cd[b][k] = LastInstrs(p, r, b)[t]
<1>1. IsMain(p)
  BY DEF Mapping
<1>2. CASE k <= LastPlace(p, b)
  <2>1. k \in 1 .. LastPlace(p, b)
    BY <1>2, CodeLength
  <2>2. PICK j \in Emits(p, b) : Place(p, b, j) = k
    BY <1>1, <2>1, PlaceShape
  <2> QED
    BY <2>2 DEF Coded
<1>3. CASE ~(k <= LastPlace(p, b))
  <2> PICK l \in Nat : l = LastPlace(p, b)
    BY CodeLength
  <2> PICK n \in Nat : n = Len(LastInstrs(p, r, b))
    BY CodeLength
  <2>1. Len(cd[b]) = l + n
    BY CodeLength
  <2>2. k - l \in 1 .. n /\ k = l + (k - l)
    BY <1>3, <2>1
  <2>3. cd[b][l + (k - l)] = LastInstrs(p, r, b)[k - l]
    BY <2>2 DEF Coded
  <2> QED
    BY <2>2, <2>3
<1> QED
  BY <1>2, <1>3

LEMMA TermStart ==
  ASSUME NEW p, NEW r, NEW g, IsMain(p), NEW b \in Blocks(p), NEW t \in Int, t <= 1
  PROVE  TermPart(p, r, g, b, t)
<1> SUFFICES ASSUME Branches(p, b)
             PROVE  /\ \A m \in DOMAIN p[b].term.with[Chosen(p, b, t)] : ~(Base(p, b, Chosen(p, b, t)) + m < t)
                    /\ Tested(p, b) => Chosen(p, b, t) = 1
  BY DEF TermPart
<1>1. /\ \A n \in DOMAIN p[b].term.to : IsSeq(p[b].term.with[n])
      /\ DOMAIN p[b].term.to = IF p[b].term.k = "cond" THEN {1, 2} ELSE {1}
  BY JumpShape DEF Branches
<1>2. Tested(p, b) => Chosen(p, b, t) = 1
  <2> SUFFICES ASSUME Tested(p, b) PROVE Chosen(p, b, t) = 1
    OBVIOUS
  <2>1. Len(p[b].term.with[1]) \in Nat
    BY <1>1 DEF IsSeq, Tested
  <2>2. \A l \in Nat : ~(t > l + 1)
    OBVIOUS
  <2> QED
    BY <2>1, <2>2 DEF Chosen
<1>3. Base(p, b, Chosen(p, b, t)) = 0 /\ Chosen(p, b, t) \in DOMAIN p[b].term.to
  BY <1>1, <1>2 DEF Base, Chosen, Way, Tested
<1>4. \A m \in DOMAIN p[b].term.with[Chosen(p, b, t)] : m \in Nat \ {0}
  BY <1>1, <1>3 DEF IsSeq
<1> QED
  BY <1>2, <1>3, <1>4

LEMMA OpStepIn ==
  ASSUME NEW p, NEW r, NEW cd, Mapping(p, r), Coded(p, r, cd), NEW b, NEW j \in Emits(p, b), NEW k, k = Place(p, b, j),
         NEW g, NEW o, NEW h, NEW q, NEW s, RunPart(p, r, cd, b, k, g, o, s), Effect(InstrFor(p, r, b, j), g, o, h, q)
  PROVE  StepRight(p, r, cd, b, k + 1, g, h, q, s)
<1>1. IsMain(p) /\ b \in Blocks(p) /\ k \in Nat \ {0} /\ DOMAIN g = 0 .. HostRegisters - 1 /\ OpsPart(p, r, g, b, k)
      /\ OutPart(p, r, g, b, k, o, s)
  BY DEF Mapping, RunPart
<1>2. SightRight(p, r, g, InSight(p, b, j))
  BY <1>1, SightForOp
<1>3. OpDone(p, r, b, j, g, o, h, q)
  BY <1>1, <1>2, OpRuns
<1>4. OpsPart(p, r, h, b, k + 1)
  BY <1>1, <1>3, OpsStep
<1>5. OutPart(p, r, h, b, k + 1, q, s)
  BY <1>1, <1>3, OutStepOp
<1>6. k \in 1 .. LastPlace(p, b) /\ j \in DOMAIN p[b].ops
  BY <1>1, PlaceShape
<1> PICK l \in Nat : l = LastPlace(p, b)
  BY <1>1, CodeLength
<1>7. k + 1 \in Nat \ {0} /\ k + 1 <= Len(cd[b]) + 1 /\ (Branches(p, b) => k + 1 <= Len(cd[b]))
  <2> PICK n \in Nat : n = Len(LastInstrs(p, r, b))
    BY <1>1, CodeLength
  <2>1. Len(cd[b]) = l + n /\ (Branches(p, b) => n > 0)
    BY <1>1, CodeLength
  <2> QED
    BY <1>1, <1>6, <2>1
<1>8. TermPart(p, r, h, b, k + 1 - LastPlace(p, b))
  <2>1. k + 1 - l \in Int /\ k + 1 - l <= 1
    BY <1>1, <1>6
  <2>2. TermPart(p, r, h, b, k + 1 - l)
    BY <1>1, <2>1, TermStart
  <2> QED
    BY <2>2
<1>9. Agree(r, g, h, Before(p, b, 1))
  <2>1. j = 1 \/ Earlier(b, 1, b, j)
    BY <1>1, <1>6, MainShape DEF Earlier
  <2>2. Before(p, b, 1) \subseteq Before(p, b, j)
    <3>1. j \in Nat
      BY <1>1, <1>6, MainShape
    <3>2. Earlier(b, 1, b, j) => Before(p, b, 1) \subseteq Before(p, b, j)
      BY <1>1, <3>1, BeforeGrows
    <3> QED
      BY <2>1, <3>2
  <2> QED
    BY <1>3, <2>2 DEF OpDone, Agree
<1>10. DOMAIN h = 0 .. HostRegisters - 1 /\ NoneAhead(p, b)
  BY <1>1, <1>3 DEF OpDone, RunPart
<1> QED
  BY <1>1, <1>4, <1>5, <1>7, <1>8, <1>9, <1>10 DEF RunPart, StepRight

LEMMA TestOperands ==
  ASSUME NEW p, NEW r, Mapping(p, r), NEW b \in Blocks(p), Tested(p, b)
  PROVE  /\ \A m \in {1, 2} : Test(p, b).args[m] \in Before(p, b, Len(p[b].ops) + 1) /\ r[Test(p, b).args[m]] # Unmapped
         /\ DOMAIN Test(p, b).args = {1, 2} /\ Test(p, b).pred \in Supported
<1>1. IsMain(p) /\ TermRight(p, r, b)
  BY DEF Mapping
<1>2. /\ p[b].term.k = "cond" /\ Test(p, b).k = "cmp" /\ ~IsArgument(p, p[b].term.cond)
      /\ Test(p, b).pred \in Supported /\ \A m \in DOMAIN Test(p, b).args : r[Test(p, b).args[m]] # Unmapped
  BY <1>1 DEF Tested, TermRight
<1>3. PICK d \in Blocks(p) : \E k \in DOMAIN p[d].ops :
        /\ Test(p, b) = p[d].ops[k]
        /\ \A m \in DOMAIN Test(p, b).args : Test(p, b).args[m] \in Before(p, b, Len(p[b].ops) + 1)
  BY <1>1, <1>2, TestBefore
<1>4. PICK k \in DOMAIN p[d].ops :
        /\ Test(p, b) = p[d].ops[k]
        /\ \A m \in DOMAIN Test(p, b).args : Test(p, b).args[m] \in Before(p, b, Len(p[b].ops) + 1)
  BY <1>3
<1>5. IsSeq(Test(p, b).args) /\ Len(Test(p, b).args) = 2
  BY <1>1, <1>2, <1>4, OperandsIn DEF IsOperation
<1>6. DOMAIN Test(p, b).args = {1, 2}
  BY <1>5 DEF IsSeq
<1> QED
  BY <1>2, <1>4, <1>6

LEMMA TargetBehind ==
  ASSUME NEW p, IsMain(p), NEW b \in Blocks(p), Branches(p, b), NEW n \in DOMAIN p[b].term.to
  PROVE  /\ p[b].term.to[n] \in Blocks(p) /\ b < p[b].term.to[n]
         /\ Before(p, b, Len(p[b].ops) + 1) \subseteq Before(p, p[b].term.to[n], 0)
         /\ Before(p, b, 1) \subseteq Before(p, p[b].term.to[n], 0)
         /\ IsSeq(p[b].term.with[n]) /\ IsSeq(p[p[b].term.to[n]].args)
         /\ DOMAIN p[b].term.with[n] = DOMAIN p[p[b].term.to[n]].args
         /\ Range(p[b].term.with[n]) \subseteq InSight(p, b, Len(p[b].ops) + 1)
         /\ Range(p[b].term.with[n]) \subseteq Before(p, p[b].term.to[n], 0)
<1>1. /\ p[b].term.to[n] \in Blocks(p) /\ b < p[b].term.to[n]
      /\ IsSeq(p[b].term.with[n])
      /\ DOMAIN p[b].term.with[n] = DOMAIN p[p[b].term.to[n]].args
      /\ Range(p[b].term.with[n]) \subseteq InSight(p, b, Len(p[b].ops) + 1)
  BY JumpShape DEF Branches
<1>2. \A i : Earlier(b, i, p[b].term.to[n], 0)
  BY <1>1 DEF Earlier
<1>3. Len(p[b].ops) \in Nat
  BY MainShape
<1>4. Len(p[b].ops) + 1 \in Nat /\ Len(p[b].ops) + 1 \in 1 .. Len(p[b].ops) + 1
  BY <1>3
<1>5. Before(p, b, Len(p[b].ops) + 1) \subseteq Before(p, p[b].term.to[n], 0)
  BY <1>1, <1>2, <1>4, BeforeGrows
<1>6. Before(p, b, 1) \subseteq Before(p, p[b].term.to[n], 0)
  BY <1>1, <1>2, BeforeGrows
<1>7. InSight(p, b, Len(p[b].ops) + 1) \subseteq Before(p, b, Len(p[b].ops) + 1)
  BY <1>4, SightIsBefore
<1>8. IsSeq(p[p[b].term.to[n]].args)
  BY <1>1 DEF IsMain
<1> QED
  BY <1>1, <1>5, <1>6, <1>7, <1>8

LEMMA ChosenIs ==
  ASSUME NEW p, IsMain(p), NEW b \in Blocks(p), Branches(p, b), NEW t
  PROVE  Chosen(p, b, t) \in DOMAIN p[b].term.to
<1>1. DOMAIN p[b].term.to = IF p[b].term.k = "cond" THEN {1, 2} ELSE {1}
  BY JumpShape DEF Branches
<1> QED
  BY <1>1 DEF Chosen, Way, Tested

LEMMA PassedMapped ==
  ASSUME NEW p, NEW r, Mapping(p, r), NEW b \in Blocks(p), Branches(p, b), NEW n \in DOMAIN p[b].term.to,
         NEW m \in DOMAIN p[b].term.with[n]
  PROVE  r[p[b].term.with[n][m]] # Unmapped
<1>1. IsMain(p) /\ TermRight(p, r, b)
  BY DEF Mapping
<1>2. DOMAIN p[b].term.to = IF p[b].term.k = "cond" THEN {1, 2} ELSE {1}
  BY <1>1, JumpShape DEF Branches
<1>3. n \in {1, 2} /\ (n = 2 => p[b].term.k = "cond")
  BY <1>2
<1> QED
  BY <1>1, <1>3 DEF TermRight, Branches

LEMMA BelowLast == \A l \in Nat : 0 \in 0 .. l /\ \A y \in 0 .. l : y # l => y \in 0 .. l - 1
  OBVIOUS

\* A copy writes an argument of a block further on.
CopyDone(p, r, b, n, m, d, g, h) ==
  /\ DOMAIN h = 0 .. HostRegisters - 1 /\ Agree(r, g, h, Before(p, d, 0))
  /\ Copied(p, r, h, b, n, m)
  /\ \A x \in DOMAIN p[b].term.with[n] : Copied(p, r, g, b, n, x) => Copied(p, r, h, b, n, x)

LEMMA CopyWrites ==
  ASSUME NEW p, NEW r, Mapping(p, r), NEW b \in Blocks(p), Branches(p, b), NEW n \in DOMAIN p[b].term.to,
         NEW m \in DOMAIN p[b].term.with[n], NEW d, d = p[b].term.to[n],
         NEW g, NEW h, DOMAIN g = 0 .. HostRegisters - 1,
         Written(g, h, r[p[d].args[m]], g[r[p[b].term.with[n][m]]])
  PROVE  CopyDone(p, r, b, n, m, d, g, h)
<1>1. IsMain(p) /\ TermRight(p, r, b) /\ OwnIn(p, r)
  BY DEF Mapping
<1>2. /\ d \in Blocks(p) /\ DOMAIN p[b].term.with[n] = DOMAIN p[d].args
      /\ Range(p[b].term.with[n]) \subseteq Before(p, d, 0)
  BY <1>1, TargetBehind
<1>3. 0 \in Places(p, d) /\ Made(p, d, 0) = p[d].args /\ ~IsCmp(p, d, 0) /\ ~IsExt(p, d, 0)
  <2>1. Len(p[d].ops) \in Nat
    BY <1>1, <1>2, MainShape
  <2>3. 0 \in Places(p, d)
    BY <2>1, BelowLast, Zenon DEF Places
  <2>4. Made(p, d, 0) = p[d].args /\ ~IsCmp(p, d, 0) /\ ~IsExt(p, d, 0)
    BY DEF Made, IsCmp, IsExt
  <2> QED
    BY <2>3, <2>4
<1>4. \A x \in DOMAIN p[d].args : p[d].args[x] \in Range(Made(p, d, 0))
  BY <1>3 DEF Range
<1>5. \A x \in DOMAIN p[d].args : r[p[d].args[x]] \in 0 .. HostRegisters - 1
  <2> TAKE x \in DOMAIN p[d].args
  <2>1. p[d].args[x] \in Values(p)
    BY <1>1, <1>2, <1>3, <1>4, MadeIsValue
  <2>2. r[p[d].args[x]] \in 0 .. HostRegisters /\ r[p[d].args[x]] # Unmapped
    BY <1>2, <1>3, <1>4, <2>1 DEF Mapping
  <2> QED
    BY <2>2, BelowLast, HostAssumption, Zenon DEF Unmapped
<1>6. r[p[d].args[m]] \in DOMAIN g
  BY <1>2, <1>5
<1>7. DOMAIN h = DOMAIN g /\ h[r[p[d].args[m]]] = g[r[p[b].term.with[n][m]]]
      /\ \A x \in DOMAIN g : x # r[p[d].args[m]] => h[x] = g[x]
  BY <1>6 DEF Written
<1>8. \A x \in 0 .. HostRegisters - 1 : x \notin {r[v] : v \in Range(Made(p, d, 0))} => h[x] = g[x]
  BY <1>2, <1>4, <1>7
<1>9. Agree(r, g, h, Before(p, d, 0))
  BY <1>2, <1>3, <1>8, WriteAgrees
<1>10. \A x \in DOMAIN p[b].term.with[n] : h[r[p[b].term.with[n][x]]] = g[r[p[b].term.with[n][x]]]
  <2> TAKE x \in DOMAIN p[b].term.with[n]
  <2>1. p[b].term.with[n][x] \in Before(p, d, 0)
    BY <1>2 DEF Range
  <2>2. r[p[b].term.with[n][x]] # Unmapped
    BY PassedMapped
  <2> QED
    BY <1>9, <2>1, <2>2 DEF Agree
<1>11. Copied(p, r, h, b, n, m)
  BY <1>7, <1>10 DEF Copied
<1>12. ASSUME NEW x \in DOMAIN p[b].term.with[n], Copied(p, r, g, b, n, x) PROVE Copied(p, r, h, b, n, x)
  <2>1. CASE x = m
    BY <1>11, <2>1
  <2>2. CASE x # m
    <3>1. r[p[d].args[x]] # r[p[d].args[m]]
      BY <1>1, <1>2, <1>3, <2>2 DEF OwnIn
    <3>2. h[r[p[d].args[x]]] = g[r[p[d].args[x]]]
      BY <1>2, <1>5, <1>7, <3>1
    <3> QED
      BY <1>10, <1>12, <3>2 DEF Copied
  <2> QED
    BY <2>1, <2>2
<1>13. DOMAIN h = 0 .. HostRegisters - 1
  BY <1>7
<1> QED
  BY <1>9, <1>11, <1>12, <1>13 DEF CopyDone

LEMMA TestAgrees ==
  ASSUME NEW p, NEW r, Mapping(p, r), NEW b \in Blocks(p), Tested(p, b), NEW g, NEW h,
         Agree(r, g, h, Before(p, b, Len(p[b].ops) + 1))
  PROVE  TestHolds(p, r, h, b) = TestHolds(p, r, g, b)
<1>1. \A m \in {1, 2} : h[r[Test(p, b).args[m]]] = g[r[Test(p, b).args[m]]]
  BY TestOperands DEF Agree
<1> QED
  BY <1>1 DEF TestHolds

\* An instruction of a branch that does not leave the block.
LEMMA BranchStepIn ==
  ASSUME NEW p, NEW r, NEW cd, Mapping(p, r), Coded(p, r, cd), NEW b, NEW t \in Nat \ {0}, NEW k, k = LastPlace(p, b) + t,
         t < Len(LastInstrs(p, r, b)), Branches(p, b), NEW n \in DOMAIN p[b].term.to,
         NEW g, NEW o, NEW h, NEW s, RunPart(p, r, cd, b, k, g, o, s),
         DOMAIN h = 0 .. HostRegisters - 1, Agree(r, g, h, Before(p, p[b].term.to[n], 0)), TermPart(p, r, h, b, t + 1)
  PROVE  StepRight(p, r, cd, b, k + 1, g, h, o, s)
<1>1. IsMain(p) /\ b \in Blocks(p) /\ k \in Nat \ {0} /\ OpsPart(p, r, g, b, k) /\ OutPart(p, r, g, b, k, o, s)
  BY DEF Mapping, RunPart
<1> PICK l \in Nat : l = LastPlace(p, b)
  BY <1>1, CodeLength
<1> PICK d : d = p[b].term.to[n]
  OBVIOUS
<1>2. /\ d \in Blocks(p) /\ b < d /\ Before(p, b, 1) \subseteq Before(p, d, 0)
  BY <1>1, TargetBehind
<1>3. l < k /\ k + 1 - l = t + 1
  OBVIOUS
<1>4. OpsPart(p, r, h, b, k + 1)
  BY <1>1, <1>2, <1>3, OpsLater
<1>5. p[b].term.k # "return"
  BY DEF Branches
<1>6. OutPart(p, r, h, b, k + 1, o, s)
  BY <1>1, <1>2, <1>3, <1>5, OutStepLater
<1>7. k + 1 \in Nat \ {0} /\ k + 1 <= Len(cd[b]) + 1 /\ k + 1 <= Len(cd[b])
  <2> PICK m \in Nat : m = Len(LastInstrs(p, r, b))
    BY <1>1, CodeLength
  <2>1. Len(cd[b]) = l + m
    BY <1>1, CodeLength
  <2>2. k = l + t /\ t < m
    OBVIOUS
  <2> QED
    BY <2>1, <2>2
<1>8. Agree(r, g, h, Before(p, b, 1)) /\ NoneAhead(p, b)
  BY <1>2 DEF Agree, RunPart
<1>9. TermPart(p, r, h, b, k + 1 - LastPlace(p, b))
  BY <1>3
<1> QED
  BY <1>1, <1>4, <1>6, <1>7, <1>8, <1>9 DEF RunPart, StepRight

Copying(g, o, h, q, x, y) == Written(g, h, x, g[y]) /\ q = o

LEMMA CopyRuns ==
  ASSUME NEW x, NEW y, NEW g, NEW o, NEW h, NEW q, Effect(Instr("copy", <<x>>, <<y>>, 0, 0), g, o, h, q)
  PROVE  Copying(g, o, h, q, x, y)
  BY DEF Copying, Effect, Instr

LEMMA CopyEffect ==
  ASSUME NEW p, NEW r, NEW b, NEW t, NEW m, CopyAt(p, r, b, t, m),
         NEW g, NEW o, NEW h, NEW q, Effect(LastInstrs(p, r, b)[t], g, o, h, q)
  PROVE  Copying(g, o, h, q, r[p[p[b].term.to[Chosen(p, b, t)]].args[m]], r[p[b].term.with[Chosen(p, b, t)][m]])
<1> DEFINE x == r[p[p[b].term.to[Chosen(p, b, t)]].args[m]]
           y == r[p[b].term.with[Chosen(p, b, t)][m]]
<1>1. LastInstrs(p, r, b)[t] = Instr("copy", <<x>>, <<y>>, 0, 0)
  BY Zenon DEF CopyAt, CopyOf
<1> HIDE DEF x, y
<1>2. Effect(Instr("copy", <<x>>, <<y>>, 0, 0), g, o, h, q)
  BY <1>1
<1>3. Copying(g, o, h, q, x, y)
  BY <1>2, CopyRuns
<1> QED
  BY <1>3 DEF x, y

LEMMA CopyStepIn ==
  ASSUME NEW p, NEW r, NEW cd, Mapping(p, r), Coded(p, r, cd), NEW b, NEW t \in Nat \ {0}, NEW k, k = LastPlace(p, b) + t,
         Branches(p, b), NEW m, CopyAt(p, r, b, t, m),
         NEW g, NEW o, NEW h, NEW q, NEW s, RunPart(p, r, cd, b, k, g, o, s), Effect(LastInstrs(p, r, b)[t], g, o, h, q)
  PROVE  StepRight(p, r, cd, b, k + 1, g, h, q, s)
<1>0. Copying(g, o, h, q, r[p[p[b].term.to[Chosen(p, b, t)]].args[m]], r[p[b].term.with[Chosen(p, b, t)][m]])
  BY CopyEffect
<1>1. IsMain(p) /\ b \in Blocks(p) /\ DOMAIN g = 0 .. HostRegisters - 1 /\ TermPart(p, r, g, b, k - LastPlace(p, b))
  BY DEF Mapping, RunPart
<1> PICK n : n = Chosen(p, b, t)
  OBVIOUS
<1> PICK d : d = p[b].term.to[n]
  OBVIOUS
<1>2. /\ n \in DOMAIN p[b].term.to /\ m \in DOMAIN p[b].term.with[n] /\ t = Base(p, b, n) + m
      /\ t < Len(LastInstrs(p, r, b)) /\ Chosen(p, b, t + 1) = n
  BY <1>1, ChosenIs DEF CopyAt
<1>4. Written(g, h, r[p[d].args[m]], g[r[p[b].term.with[n][m]]]) /\ q = o
  BY <1>0 DEF Copying
<1>5. /\ DOMAIN h = 0 .. HostRegisters - 1 /\ Agree(r, g, h, Before(p, d, 0))
      /\ Copied(p, r, h, b, n, m)
      /\ \A x \in DOMAIN p[b].term.with[n] : Copied(p, r, g, b, n, x) => Copied(p, r, h, b, n, x)
  <2>1. CopyDone(p, r, b, n, m, d, g, h)
    BY <1>1, <1>2, <1>4, CopyWrites
  <2> QED
    BY <2>1 DEF CopyDone
<1>6. TermPart(p, r, g, b, t)
  <2> PICK l \in Nat : l = LastPlace(p, b)
    BY <1>1, CodeLength
  <2>1. k - l = t
    OBVIOUS
  <2> QED
    BY <1>1, <2>1
<1>7. ASSUME NEW x \in DOMAIN p[b].term.with[n], Base(p, b, n) + x < t + 1
      PROVE  Copied(p, r, h, b, n, x)
  <2>1. x = m \/ Base(p, b, n) + x < t
    <3>1. IsSeq(p[b].term.with[n])
      BY <1>1, <1>2, TargetBehind
    <3>2. x \in Nat /\ m \in Nat
      BY <1>2, <3>1 DEF IsSeq
    <3>3. Base(p, b, n) \in Nat
      <4>1. IsSeq(p[b].term.with[1])
        BY <1>1, JumpShape DEF Branches
      <4>2. Len(p[b].term.with[1]) \in Nat
        BY <4>1 DEF IsSeq
      <4>3. \A l \in Nat : l + 1 \in Nat
        OBVIOUS
      <4> QED
        BY <4>2, <4>3 DEF Base
    <3> PICK base \in Nat : base = Base(p, b, n)
      BY <3>3
    <3>4. t = base + m /\ base + x < t + 1
      BY <1>2, <1>7
    <3> QED
      BY <3>2, <3>4
  <2> QED
    BY <1>5, <1>6, <2>1 DEF TermPart
<1>8. ASSUME Tested(p, b), n = 2 PROVE ~TestHolds(p, r, h, b)
  <2>1. Agree(r, g, h, Before(p, b, Len(p[b].ops) + 1))
    <3>1. Before(p, b, Len(p[b].ops) + 1) \subseteq Before(p, d, 0)
      BY <1>1, <1>2, TargetBehind
    <3> QED
      BY <1>5, <3>1 DEF Agree
  <2>2. ~TestHolds(p, r, g, b)
    BY <1>6, <1>8 DEF TermPart
  <2>3. TestHolds(p, r, h, b) = TestHolds(p, r, g, b)
    BY <1>1, <1>8, <2>1, TestAgrees
  <2> QED
    BY <2>2, <2>3
<1>9. TermPart(p, r, h, b, t + 1)
  BY <1>2, <1>7, <1>8 DEF TermPart
<1> QED
  BY <1>2, <1>4, <1>5, <1>9, BranchStepIn

LEMMA NotTakenIn ==
  ASSUME NEW p, NEW r, NEW cd, Mapping(p, r), Coded(p, r, cd), NEW b, NEW t \in Nat \ {0}, NEW k, k = LastPlace(p, b) + t,
         Branches(p, b), TestAt(p, r, b, t),
         NEW g, NEW o, NEW s, RunPart(p, r, cd, b, k, g, o, s), ~TestHolds(p, r, g, b)
  PROVE  StepRight(p, r, cd, b, k + 1, g, g, o, s)
<1>1. IsMain(p) /\ b \in Blocks(p) /\ DOMAIN g = 0 .. HostRegisters - 1
  BY DEF Mapping, RunPart
<1>2. Chosen(p, b, t + 1) = 2 /\ t = Base(p, b, 2) /\ t < Len(LastInstrs(p, r, b)) /\ Tested(p, b)
  BY DEF TestAt
<1>3. 2 \in DOMAIN p[b].term.to
  BY <1>1, <1>2, ChosenIs
<1>4. \A m \in DOMAIN p[b].term.with[2] : ~(t + m < t + 1)
  <2>1. IsSeq(p[b].term.with[2])
    BY <1>1, <1>3, TargetBehind
  <2>2. \A m \in DOMAIN p[b].term.with[2] : m \in Nat \ {0}
    BY <2>1 DEF IsSeq
  <2> QED
    BY <2>2
<1>5. TermPart(p, r, g, b, t + 1)
  BY <1>2, <1>4 DEF TermPart
<1>6. Agree(r, g, g, Before(p, p[b].term.to[2], 0))
  BY DEF Agree
<1> QED
  BY <1>1, <1>2, <1>3, <1>5, <1>6, BranchStepIn

LEMMA ReturnShape ==
  ASSUME NEW p, NEW r, IsMain(p), NEW b \in Blocks(p), p[b].term.k = "return", NEW t \in 1 .. Len(p[b].term.args)
  PROVE  LastInstrs(p, r, b)[t] = Instr("return", <<>>, <<r[p[b].term.args[t]]>>, 0, 0)
<1>1. t \in DOMAIN p[b].term.args
  BY DEF IsMain, IsTerminator, IsSeq
<1>2. LastInstrs(p, r, b) = [m \in DOMAIN p[b].term.args |-> Instr("return", <<>>, <<r[p[b].term.args[m]]>>, 0, 0)]
  BY DEF LastInstrs
<1> QED
  BY <1>1, <1>2

LEMMA ReturnStepIn ==
  ASSUME NEW p, NEW r, NEW cd, Mapping(p, r), Coded(p, r, cd), NEW b, NEW t \in Nat \ {0}, NEW k, k = LastPlace(p, b) + t,
         t <= Len(LastInstrs(p, r, b)), p[b].term.k = "return",
         NEW g, NEW o, NEW h, NEW q, NEW s, RunPart(p, r, cd, b, k, g, o, s), Effect(LastInstrs(p, r, b)[t], g, o, h, q)
  PROVE  StepRight(p, r, cd, b, k + 1, g, h, q, s)
<1>1. IsMain(p) /\ b \in Blocks(p) /\ k \in Nat \ {0} /\ OpsPart(p, r, g, b, k) /\ OutPart(p, r, g, b, k, o, s)
      /\ DOMAIN g = 0 .. HostRegisters - 1 /\ NoneAhead(p, b)
  BY DEF Mapping, RunPart
<1> PICK l \in Nat : l = LastPlace(p, b)
  BY <1>1, CodeLength
<1> PICK m \in Nat : m = Len(LastInstrs(p, r, b))
  BY <1>1, CodeLength
<1> PICK ins : ins = LastInstrs(p, r, b)[t]
  OBVIOUS
<1>2. ins = Instr("return", <<>>, <<r[p[b].term.args[t]]>>, 0, 0)
  <2>1. Len(p[b].term.args) = m
    BY <1>1, LastShape, ZenonT(30)
  <2>3. t \in 1 .. m
    OBVIOUS
  <2>2. t \in 1 .. Len(p[b].term.args)
    BY <2>1, <2>3, Zenon
  <2> QED
    BY <1>1, <2>2, ReturnShape
<1>3. ins.op = "return" /\ ins.src[1] = r[p[b].term.args[t]]
  BY <1>2 DEF Instr
<1>4. q = Append(o, g[r[p[b].term.args[t]]]) /\ h = g
  BY <1>3 DEF Effect
<1>5. OutPart(p, r, g, b, k + 1, q, s)
  BY <1>1, <1>4, OutStepReturn
<1>6. l < k /\ k + 1 \in Nat \ {0} /\ \A i \in Nat : i <= l => i < k + 1
  OBVIOUS
<1>7. OpsPart(p, r, g, b, k + 1)
  BY <1>1, <1>6, SightAtEnd DEF OpsPart
<1>10. k + 1 \in Nat \ {0}
  BY <1>6
<1>8. k + 1 <= Len(cd[b]) + 1
  <2>1. Len(cd[b]) = l + m /\ t <= m /\ k = l + t
    BY <1>1, CodeLength
  <2> QED
    BY <2>1
<1>9. ~Branches(p, b) /\ TermPart(p, r, g, b, k + 1 - LastPlace(p, b)) /\ Agree(r, g, g, Before(p, b, 1))
  BY DEF Branches, TermPart, Agree
<1>11. RunPart(p, r, cd, b, k + 1, g, q, s)
  BY <1>1, <1>5, <1>7, <1>8, <1>9, <1>10 DEF RunPart
<1> QED
  BY <1>4, <1>9, <1>11 DEF StepRight

\* Operations are executed.
LEMMA InstrOps ==
  ASSUME NEW p, NEW r, IsMain(p), NEW b \in Blocks(p), NEW j \in Emits(p, b)
  PROVE  InstrFor(p, r, b, j).op \in Executed
<1>1. j \in DOMAIN p[b].ops /\ p[b].ops[j].k \notin {"cmp", "ext"}
  BY DEF Emits
<1>2. p[b].ops[j].k \in {"const", "flag", "sock", "cmp", "ext", "add", "sub", "mul", "send", "recv", "local", "request"}
  BY <1>1, OperandsIn DEF IsOperation
<1> QED
  BY <1>1, <1>2 DEF InstrFor, Executed, Instr

\* An instruction that is executed does not leave the block.
LEMMA ExecuteStepIn ==
  ASSUME NEW p, NEW r, NEW cd, Mapping(p, r), Coded(p, r, cd), NEW b, NEW k,
         NEW g, NEW o, NEW h, NEW q, NEW s, RunPart(p, r, cd, b, k, g, o, s),
         k <= Len(cd[b]), cd[b][k].op \in Executed, Effect(cd[b][k], g, o, h, q)
  PROVE  StepRight(p, r, cd, b, k + 1, g, h, q, s)
<1>1. IsMain(p) /\ b \in Blocks(p) /\ k \in Nat \ {0}
  BY DEF Mapping, RunPart
<1>2. ASSUME NEW j \in Emits(p, b), k = Place(p, b, j), cd[b][k] = InstrFor(p, r, b, j)
      PROVE  StepRight(p, r, cd, b, k + 1, g, h, q, s)
  BY <1>2, OpStepIn
<1>3. ASSUME NEW t \in 1 .. Len(LastInstrs(p, r, b)), k = LastPlace(p, b) + t, cd[b][k] = LastInstrs(p, r, b)[t]
      PROVE  StepRight(p, r, cd, b, k + 1, g, h, q, s)
  <2> PICK n \in Nat : n = Len(LastInstrs(p, r, b))
    BY <1>1, CodeLength
  <2>1. t \in Nat \ {0} /\ t \in 1 .. n /\ t <= n /\ n # 0
    OBVIOUS
  <2>2. CASE Branches(p, b)
    <3>1. (\E m : CopyAt(p, r, b, t, m)) \/ TestAt(p, r, b, t) \/ JumpAt(p, r, b, t)
      BY <1>1, <2>1, <2>2, TermAt
    <3>2. ASSUME TestAt(p, r, b, t) PROVE FALSE
      <4>1. cd[b][k].op = Test(p, b).pred /\ Tested(p, b)
        BY <1>3, <3>2 DEF TestAt, Instr
      <4>2. Test(p, b).pred \in Supported
        BY <1>1, <4>1, TestOperands
      <4> QED
        BY <4>1, <4>2 DEF Supported, Executed
    <3>3. ASSUME JumpAt(p, r, b, t) PROVE FALSE
      <4>1. cd[b][k].op = "jump"
        BY <1>3, <3>3 DEF JumpAt, Jump, Instr
      <4> QED
        BY <4>1 DEF Executed
    <3>4. PICK m : CopyAt(p, r, b, t, m)
      BY <3>1, <3>2, <3>3
    <3> QED
      BY <1>3, <2>1, <2>2, <3>4, CopyStepIn
  <2>3. CASE ~Branches(p, b)
    <3>1. p[b].term.k = "return"
      <4>1. p[b].term.k \in {"next", "br", "cond", "return"} /\ (p[b].term.k = "next" => LastInstrs(p, r, b) = <<>>)
        BY <1>1, LastShape
      <4>2. Len(<<>>) = 0
        OBVIOUS
      <4> QED
        BY <2>1, <2>3, <4>1, <4>2 DEF Branches
    <3> QED
      BY <1>3, <2>1, <3>1, ReturnStepIn
  <2> QED
    BY <2>2, <2>3
<1> QED
  BY <1>1, <1>2, <1>3, InstrIs

-----------------------------------------------------------------------------
(***************************************************************************)
(* The end of a block: what MLIR says is defined is in the registers.      *)
(***************************************************************************)
EnvAt(p, r, g, b) == [v \in Values(p) |-> IF v \in Visible(p, b) THEN ValueIn(p, r, g, v) ELSE NoValue]
GotIn(p, r, g, b) == [v \in FetchedIn(p, b) |-> g[r[v]]]
EndOf(p, r, g, b) == MLIR!AtEnd(p, b, EnvAt(p, r, g, b), GotIn(p, r, g, b))

\* Environment x is right for what is in sight at place i.
EnvRight(p, r, g, b, i, x) ==
  DOMAIN x = Values(p) /\ \A v \in InSight(p, b, i) : x[v] = ValueIn(p, r, g, v)

SightIsValue(p, b, i) == InSight(p, b, i) \subseteq Values(p)

LEMMA SightHasValues ==
  ASSUME NEW p, IsMain(p), NEW b \in Blocks(p), NEW i \in 1 .. Len(p[b].ops) + 1
  PROVE  SightIsValue(p, b, i)
<1>1. InSight(p, b, i) \subseteq Before(p, b, i)
  BY SightIsBefore
<1> QED
  BY <1>1 DEF Before, SightIsValue

LEMMA ResultValue ==
  ASSUME NEW p, NEW r, Mapping(p, r), NEW b \in Blocks(p), NEW i \in DOMAIN p[b].ops, NEW v \in Range(p[b].ops[i].res)
  PROVE  /\ v \in Values(p) /\ DefiningOp(p, v) = p[b].ops[i]
         /\ r[v] = Unmapped <=> p[b].ops[i].k = "cmp"
<1>1. IsMain(p)
  BY DEF Mapping
<1>2. i \in Places(p, b) /\ i # 0 /\ v \in Range(Made(p, b, i))
  BY <1>1, OperandsIn
<1>3. v \in Values(p)
  BY <1>1, <1>2, MadeIsValue
<1>4. r[v] = Unmapped <=> IsCmp(p, b, i)
  BY <1>2 DEF Mapping
<1> QED
  BY <1>1, <1>2, <1>3, <1>4, DefinesIt DEF IsCmp

LEMMA AfterIs ==
  ASSUME NEW op, NEW x, NEW got, NEW v \in DOMAIN x, v \in Range(op.res)
  PROVE  /\ op.k \in {"const", "flag", "sock"} => After(op, x, got)[v] = op.val
         /\ op.k = "cmp" => After(op, x, got)[v] = AsBit(Holds(op.pred, x[op.args[1]], x[op.args[2]]))
         /\ op.k = "ext" => After(op, x, got)[v] = x[op.args[1]]
         /\ op.k \in {"add", "sub", "mul"} =>
              After(op, x, got)[v] = Calculate(op.k, x[op.args[1]], x[op.args[2]])
<1>1. \A y : Yields(op, x, y)[v] = y
  BY DEF Yields
<1>2. ASSUME op.k \in {"const", "flag", "sock"} PROVE After(op, x, got) = Yields(op, x, op.val)
  BY <1>2 DEF After, Fetches
<1>3. ASSUME op.k = "cmp"
      PROVE  After(op, x, got) = Yields(op, x, AsBit(Holds(op.pred, x[op.args[1]], x[op.args[2]])))
  BY <1>3 DEF After, Fetches
<1>4. ASSUME op.k = "ext" PROVE After(op, x, got) = Yields(op, x, x[op.args[1]])
  BY <1>4 DEF After, Fetches
<1>5. ASSUME op.k \in {"add", "sub", "mul"}
      PROVE  After(op, x, got) = Yields(op, x, Calculate(op.k, x[op.args[1]], x[op.args[2]]))
  BY <1>5 DEF After, Fetches
<1> QED
  BY <1>1, <1>2, <1>3, <1>4, <1>5

\* What an operation makes has the value MLIR says.
LEMMA ResultIs ==
  ASSUME NEW p, NEW r, Mapping(p, r), NEW b \in Blocks(p), NEW i \in DOMAIN p[b].ops, NEW g,
         i \in Emits(p, b) => OpHolds(p, r, g, b, i),
         NEW x, EnvRight(p, r, g, b, i, x), NEW v \in Range(p[b].ops[i].res)
  PROVE  After(p[b].ops[i], x, GotIn(p, r, g, b))[v] = ValueIn(p, r, g, v)
<1> PICK op : op = p[b].ops[i]
  OBVIOUS
<1> PICK got : got = GotIn(p, r, g, b)
  OBVIOUS
<1>1. IsMain(p)
  BY DEF Mapping
<1>2. v \in Values(p) /\ DefiningOp(p, v) = op /\ (r[v] = Unmapped <=> op.k = "cmp")
  BY ResultValue
<1>3. DOMAIN x = Values(p) /\ v \in DOMAIN x
  BY <1>2 DEF EnvRight
<1>4. \A m \in DOMAIN op.args : x[op.args[m]] = g[r[op.args[m]]]
  <2> TAKE m \in DOMAIN op.args
  <2>1. op.args[m] \in InSight(p, b, i)
    BY <1>1, OperandsIn
  <2>2. r[op.args[m]] # Unmapped
    BY DEF Mapping
  <2> QED
    BY <2>1, <2>2 DEF EnvRight, ValueIn
<1>5. IsOperation(op)
  BY <1>1, OperandsIn
<1>6. /\ op.k \in {"const", "flag", "sock", "cmp", "ext", "add", "sub", "mul", "send", "recv", "local", "request"}
      /\ IsSeq(op.res) /\ IsSeq(op.args)
      /\ op.k \notin {"send", "local", "request"} => Len(op.res) = 1
      /\ op.k = "send" => op.res = <<>>
      /\ op.k \in {"cmp", "add", "sub", "mul", "send"} => Len(op.args) = 2
      /\ op.k = "ext" => Len(op.args) = 1
  BY <1>5 DEF IsOperation
<1>7. ASSUME op.k \notin {"send", "local", "request"} PROVE v = op.res[1] /\ 1 \in DOMAIN op.res
  <2>1. DOMAIN op.res = {1}
    BY <1>6, <1>7 DEF IsSeq
  <2> QED
    BY <2>1 DEF Range
<1>8. i \in Emits(p, b) <=> op.k \notin {"cmp", "ext"}
  BY DEF Emits
<1>9. CASE op.k \in {"const", "flag", "sock"}
  <2>1. After(op, x, got)[v] = op.val
    BY <1>3, <1>9, AfterIs
  <2>2. g[r[op.res[1]]] = op.val
    BY <1>8, <1>9 DEF OpHolds
  <2> QED
    BY <1>2, <1>7, <1>9, <2>1, <2>2 DEF ValueIn
<1>10. CASE op.k = "cmp"
  <2>1. After(op, x, got)[v] = AsBit(Holds(op.pred, x[op.args[1]], x[op.args[2]]))
    BY <1>3, <1>10, AfterIs
  <2>2. 1 \in DOMAIN op.args /\ 2 \in DOMAIN op.args
    BY <1>6, <1>10 DEF IsSeq
  <2>3. x[op.args[1]] = g[r[op.args[1]]] /\ x[op.args[2]] = g[r[op.args[2]]]
    BY <1>4, <2>2
  <2> QED
    BY <1>2, <1>10, <2>1, <2>3 DEF ValueIn
<1>11. CASE op.k = "ext"
  <2>1. After(op, x, got)[v] = x[op.args[1]]
    BY <1>3, <1>11, AfterIs
  <2>2. 1 \in DOMAIN op.args
    BY <1>6, <1>11 DEF IsSeq
  <2>3. r[op.res[1]] = r[op.args[1]]
    BY <1>11 DEF Mapping
  <2> QED
    BY <1>2, <1>4, <1>7, <1>11, <2>1, <2>2, <2>3 DEF ValueIn
<1>12. CASE op.k \in {"add", "sub", "mul"}
  <2>1. After(op, x, got)[v] = Calculate(op.k, x[op.args[1]], x[op.args[2]])
    BY <1>3, <1>12, AfterIs
  <2>2. 1 \in DOMAIN op.args /\ 2 \in DOMAIN op.args
    BY <1>6, <1>12 DEF IsSeq
  <2>3. g[r[op.res[1]]] = Calculate(op.k, g[r[op.args[1]]], g[r[op.args[2]]])
    BY <1>8, <1>12 DEF OpHolds
  <2>4. x[op.args[1]] = g[r[op.args[1]]] /\ x[op.args[2]] = g[r[op.args[2]]]
    BY <1>4, <2>2
  <2> QED
    BY <1>2, <1>7, <1>12, <2>1, <2>3, <2>4 DEF ValueIn
<1>13. CASE op.k \in {"recv", "local", "request"}
  <2>1. After(op, x, got)[v] = got[v]
    BY <1>3, <1>13 DEF After, Fetches
  <2>2. v \in FetchedIn(p, b)
    BY <1>13 DEF FetchedIn, Fetches
  <2>3. got[v] = g[r[v]]
    BY <2>2 DEF GotIn
  <2> QED
    BY <1>2, <1>13, <2>1, <2>3 DEF ValueIn
<1>14. CASE op.k = "send"
  BY <1>6, <1>14 DEF Range
<1> QED
  BY <1>6, <1>9, <1>10, <1>11, <1>12, <1>13, <1>14

LEMMA OthersKept ==
  ASSUME NEW op, NEW x, NEW got
  PROVE  DOMAIN After(op, x, got) = DOMAIN x \/ After(op, x, got) = x
  BY DEF After, Yields

LEMMA OthersStay ==
  ASSUME NEW op, NEW x, NEW got, NEW v \in DOMAIN x, v \notin Range(op.res)
  PROVE  After(op, x, got)[v] = x[v]
  BY DEF After, Yields

LEMMA AfterRight ==
  ASSUME NEW p, NEW r, Mapping(p, r), NEW b \in Blocks(p), NEW i \in DOMAIN p[b].ops, NEW g,
         i \in Emits(p, b) => OpHolds(p, r, g, b, i),
         NEW x, EnvRight(p, r, g, b, i, x)
  PROVE  EnvRight(p, r, g, b, i + 1, After(p[b].ops[i], x, GotIn(p, r, g, b)))
<1> PICK y : y = After(p[b].ops[i], x, GotIn(p, r, g, b))
  OBVIOUS
<1>1. IsMain(p)
  BY DEF Mapping
<1>2. DOMAIN y = Values(p)
  BY OthersKept DEF EnvRight
<1>3. i \in Nat \ {0} /\ i \in 1 .. Len(p[b].ops) + 1
  <2>1. i \in 1 .. Len(p[b].ops) /\ Len(p[b].ops) \in Nat
    BY <1>1, OperandsIn
  <2> QED
    BY <2>1
<1>4. InSight(p, b, i + 1) = InSight(p, b, i) \cup Range(p[b].ops[i].res)
  BY <1>3, SightGrows
<1>5. ASSUME NEW v \in InSight(p, b, i), v \notin Range(p[b].ops[i].res) PROVE y[v] = ValueIn(p, r, g, v)
  <2>1. v \in DOMAIN x /\ x[v] = ValueIn(p, r, g, v)
    BY <1>1, <1>3, SightHasValues DEF EnvRight, SightIsValue
  <2> QED
    BY <1>5, <2>1, OthersStay
<1>6. ASSUME NEW v \in Range(p[b].ops[i].res) PROVE y[v] = ValueIn(p, r, g, v)
  BY <1>6, ResultIs
<1> QED
  BY <1>2, <1>4, <1>5, <1>6 DEF EnvRight

LEMMA AtEndRight ==
  ASSUME NEW p, NEW r, Mapping(p, r), NEW b \in Blocks(p), NEW g, \A i \in Emits(p, b) : OpHolds(p, r, g, b, i)
  PROVE  EnvRight(p, r, g, b, Len(p[b].ops) + 1, EndOf(p, r, g, b))
<1>1. IsMain(p)
  BY DEF Mapping
<1> PICK n \in Nat : n = Len(p[b].ops)
  BY <1>1, MainShape
<1>2. DOMAIN p[b].ops = 1 .. n
  BY <1>1, MainShape
<1>3. PICK f : /\ f[0] = EnvAt(p, r, g, b)
               /\ \A i \in 1 .. n : f[i] = After(p[b].ops[i], f[i - 1], GotIn(p, r, g, b))
               /\ EndOf(p, r, g, b) = f[n]
  BY AtEndUnfolds DEF EndOf
<1> DEFINE Bad == {k \in Nat : k <= n /\ ~EnvRight(p, r, g, b, k + 1, f[k])}
<1>4. ASSUME Bad # {} PROVE FALSE
  <2>1. PICK k \in Bad : \A m \in Bad : k <= m
    BY <1>4, LeastNatural
  <2>2. CASE k = 0
    <3>1. InSight(p, b, 1) = Visible(p, b) /\ 1 \in 1 .. Len(p[b].ops) + 1
      BY NothingElseInSight
    <3>2. Visible(p, b) \subseteq Values(p)
      BY <1>1, <3>1, SightHasValues DEF SightIsValue
    <3>3. EnvRight(p, r, g, b, 1, f[0])
      BY <1>3, <3>1, <3>2 DEF EnvRight, EnvAt
    <3> QED
      BY <2>2, <3>3
  <2>3. CASE k # 0
    <3>1. k - 1 \in Nat /\ k - 1 <= n /\ k - 1 \notin Bad /\ k \in 1 .. n /\ (k - 1) + 1 = k
      BY <2>1, <2>3
    <3>2. EnvRight(p, r, g, b, k, f[k - 1])
      BY <3>1
    <3>3. EnvRight(p, r, g, b, k + 1, After(p[b].ops[k], f[k - 1], GotIn(p, r, g, b)))
      BY <1>2, <3>1, <3>2, AfterRight
    <3>4. EnvRight(p, r, g, b, k + 1, f[k])
      BY <1>3, <3>1, <3>3
    <3> QED
      BY <3>4
  <2> QED
    BY <2>2, <2>3
<1>5. EnvRight(p, r, g, b, n + 1, f[n])
  BY <1>4
<1> QED
  BY <1>3, <1>5

\* What was delivered is what may be.
LEMMA GotRight ==
  ASSUME NEW p, NEW r, NEW b, NEW g, \A i \in Emits(p, b) : OpHolds(p, r, g, b, i)
  PROVE  GotIn(p, r, g, b) \in [FetchedIn(p, b) -> Bits]
<1> SUFFICES ASSUME NEW v \in FetchedIn(p, b) PROVE g[r[v]] \in Bits
  BY DEF GotIn
<1>1. PICK i \in DOMAIN p[b].ops : Fetches(p[b].ops[i]) /\ v \in Range(p[b].ops[i].res)
  BY DEF FetchedIn
<1>2. i \in Emits(p, b)
  BY <1>1 DEF Emits, Fetches
<1> QED
  BY <1>1, <1>2 DEF OpHolds, Range

-----------------------------------------------------------------------------
(***************************************************************************)
(* The end of a block: which way it is left, and what is in sight there.   *)
(***************************************************************************)
\* All operations of block b have run.
BlockRun(p, r, g, b) ==
  /\ b \in Blocks(p) /\ NoneAhead(p, b)
  /\ SightRight(p, r, g, InSight(p, b, Len(p[b].ops) + 1))
  /\ \A j \in Emits(p, b) : OpHolds(p, r, g, b, j)

\* Successor n of a branch is the one to take, and its arguments are passed.
Passed(p, r, g, b, n) ==
  /\ Branches(p, b) /\ n \in DOMAIN p[b].term.to
  /\ \A m \in DOMAIN p[b].term.with[n] : Copied(p, r, g, b, n, m)
  /\ Tested(p, b) => (n = 1 <=> TestHolds(p, r, g, b))
  /\ ~Tested(p, b) => n = IF p[b].term.k = "cond" THEN Way(p, b) ELSE 1

LEMMA ConditionIs ==
  ASSUME NEW p, NEW r, Mapping(p, r), NEW b \in Blocks(p), p[b].term.k = "cond"
  PROVE  /\ p[b].term.cond \in InSight(p, b, Len(p[b].ops) + 1)
         /\ Tested(p, b) => r[p[b].term.cond] = Unmapped
         /\ ~Tested(p, b) => r[p[b].term.cond] # Unmapped /\ ConstantIn(p, p[b].term.cond)
<1>1. IsMain(p) /\ TermRight(p, r, b)
  BY DEF Mapping
<1>2. p[b].term.cond \in InSight(p, b, Len(p[b].ops) + 1)
  BY <1>1 DEF IsMain, IsTerminator
<1>3. ~IsArgument(p, p[b].term.cond) /\ Test(p, b).k \in {"cmp", "flag"}
  BY <1>1 DEF TermRight
<1>4. PICK d \in Blocks(p) : \E k \in DOMAIN p[d].ops :
        p[b].term.cond \in Range(p[d].ops[k].res) /\ Test(p, b) = p[d].ops[k]
  BY <1>1, <1>3, TestBefore
<1>5. PICK k \in DOMAIN p[d].ops : p[b].term.cond \in Range(p[d].ops[k].res) /\ Test(p, b) = p[d].ops[k]
  BY <1>4
<1>6. r[p[b].term.cond] = Unmapped <=> Test(p, b).k = "cmp"
  BY <1>5, ResultValue
<1>7. ~Tested(p, b) => ConstantIn(p, p[b].term.cond)
  BY <1>3 DEF Tested, ConstantIn, Test
<1> QED
  BY <1>2, <1>6, <1>7 DEF Tested

\* The run takes the successor that MLIR takes.
LEMMA TakenRight ==
  ASSUME NEW p, NEW r, Mapping(p, r), NEW b, NEW g, BlockRun(p, r, g, b), NEW n, Passed(p, r, g, b, n),
         NEW x, EnvRight(p, r, g, b, Len(p[b].ops) + 1, x)
  PROVE  Taken(p, b, x) = n
<1>1. b \in Blocks(p) /\ IsMain(p)
  BY DEF BlockRun, Mapping
<1>2. p[b].term.k = "cond" => x[p[b].term.cond] = ValueIn(p, r, g, p[b].term.cond)
  BY <1>1, ConditionIs DEF EnvRight
<1>3. CASE Tested(p, b)
  <2>1. ValueIn(p, r, g, p[b].term.cond) = AsBit(TestHolds(p, r, g, b))
    BY <1>1, <1>3, ConditionIs DEF ValueIn, TestHolds, Test, Tested
  <2>2. n = IF TestHolds(p, r, g, b) THEN 1 ELSE 2
    <3>1. DOMAIN p[b].term.to = IF p[b].term.k = "cond" THEN {1, 2} ELSE {1}
      BY <1>1, JumpShape DEF Branches, Passed
    <3>2. n \in {1, 2}
      BY <3>1 DEF Passed
    <3> QED
      BY <1>3, <3>2 DEF Passed
  <2>3. AsBit(TestHolds(p, r, g, b)) = IF TestHolds(p, r, g, b) THEN 1 ELSE 0
    BY DEF AsBit
  <2> QED
    BY <1>2, <1>3, <2>1, <2>2, <2>3 DEF Taken, Tested
<1>4. CASE ~Tested(p, b) /\ p[b].term.k = "cond"
  <2>1. g[r[p[b].term.cond]] = Test(p, b).val
    BY <1>1, <1>4, ConditionIs DEF BlockRun, SightRight, Test
  <2>2. ValueIn(p, r, g, p[b].term.cond) = g[r[p[b].term.cond]]
    BY <1>1, <1>4, ConditionIs DEF ValueIn
  <2>3. n = Way(p, b)
    BY <1>4 DEF Passed
  <2> QED
    BY <1>2, <1>4, <2>1, <2>2, <2>3 DEF Taken, Way
<1>5. CASE ~Tested(p, b) /\ p[b].term.k # "cond"
  BY <1>5 DEF Taken, Passed
<1> QED
  BY <1>3, <1>4, <1>5

\* Block d is entered, its arguments have the values passed.
Handed(p, r, g, d, passed) ==
  /\ DOMAIN passed = DOMAIN p[d].args
  /\ \A m \in DOMAIN passed : r[passed[m]] # Unmapped /\ g[r[p[d].args[m]]] = g[r[passed[m]]]

LEMMA ArgumentIs ==
  ASSUME NEW p, NEW r, Mapping(p, r), NEW d \in Blocks(p), NEW m \in DOMAIN p[d].args
  PROVE  /\ r[p[d].args[m]] # Unmapped /\ ~ConstantIn(p, p[d].args[m])
         /\ p[d].args[m] \in Range(p[d].args) /\ p[d].args[m] \in Values(p)
<1>1. IsMain(p)
  BY DEF Mapping
<1>2. 0 \in Places(p, d) /\ Made(p, d, 0) = p[d].args /\ ~IsCmp(p, d, 0)
  <2>1. Len(p[d].ops) \in Nat
    BY <1>1, MainShape
  <2>2. 0 \in Places(p, d)
    BY <2>1, BelowLast, Zenon DEF Places
  <2> QED
    BY <2>2 DEF Made, IsCmp
<1> PICK v : v = p[d].args[m]
  OBVIOUS
<1>3. v \in Range(Made(p, d, 0)) /\ v \in Range(p[d].args)
  BY <1>2 DEF Range
<1>4. v \in Values(p)
  BY <1>1, <1>2, <1>3, MadeIsValue
<1>5. r[v] # Unmapped
  BY <1>2, <1>3 DEF Mapping
<1>6. OpsOf(p, v) = {}
  <2> SUFFICES ASSUME NEW c \in Blocks(p), NEW j \in DOMAIN p[c].ops, v \in Range(p[c].ops[j].res) PROVE FALSE
    BY DEF OpsOf
  <2>1. j \in Places(p, c) /\ v \in Range(Made(p, c, j)) /\ j # 0
    BY <1>1, OperandsIn
  <2> QED
    BY <1>1, <1>2, <1>3, <2>1, MadeOnce
<1> QED
  BY <1>3, <1>4, <1>5, <1>6 DEF ConstantIn, IsArgument

\* What MLIR says is in sight behind the jump is in the registers.
LEMMA EnterRight ==
  ASSUME NEW p, NEW r, Mapping(p, r), NEW b, NEW g, BlockRun(p, r, g, b), NEW d \in Targets(p, b), NEW passed,
         Handed(p, r, g, d, passed), Range(passed) \subseteq InSight(p, b, Len(p[b].ops) + 1),
         NEW x, EnvRight(p, r, g, b, Len(p[b].ops) + 1, x)
  PROVE  Enter(p, d, passed, x) = EnvAt(p, r, g, d)
<1>1. b \in Blocks(p) /\ IsMain(p) /\ NoneAhead(p, b) /\ DOMAIN x = Values(p)
      /\ \A v \in InSight(p, b, Len(p[b].ops) + 1) : x[v] = ValueIn(p, r, g, v)
  BY DEF BlockRun, Mapping, EnvRight
<1>2. d \in Blocks(p)
  BY <1>1, TargetsAhead
<1>3. Visible(p, d) \subseteq Range(p[d].args) \cup InSight(p, b, Len(p[b].ops) + 1)
  BY <1>1, SightAtTarget
<1>4. ASSUME NEW v \in Values(p), v \in Visible(p, d), NEW m \in DOMAIN p[d].args, p[d].args[m] = v
      PROVE  x[passed[m]] = ValueIn(p, r, g, v)
  <2>1. m \in DOMAIN passed /\ r[passed[m]] # Unmapped /\ g[r[v]] = g[r[passed[m]]]
    BY <1>4 DEF Handed
  <2>2. x[passed[m]] = ValueIn(p, r, g, passed[m])
    BY <1>1, <2>1 DEF Range
  <2>3. r[v] # Unmapped
    BY <1>2, <1>4, ArgumentIs
  <2> QED
    BY <2>1, <2>2, <2>3 DEF ValueIn
<1>5. ASSUME NEW v \in Values(p), v \in Visible(p, d), ~ \E m \in DOMAIN p[d].args : p[d].args[m] = v
      PROVE  x[v] = ValueIn(p, r, g, v)
  BY <1>1, <1>3, <1>5 DEF Range
<1>6. ASSUME NEW v \in Values(p), v \in Visible(p, d), \E m \in DOMAIN p[d].args : p[d].args[m] = v
      PROVE  x[passed[CHOOSE m \in DOMAIN p[d].args : p[d].args[m] = v]] = ValueIn(p, r, g, v)
  <2> PICK n : n = CHOOSE m \in DOMAIN p[d].args : p[d].args[m] = v
    OBVIOUS
  <2>1. n \in DOMAIN p[d].args /\ p[d].args[n] = v
    BY <1>6
  <2> QED
    BY <1>4, <1>6, <2>1
<1> QED
  BY <1>1, <1>5, <1>6 DEF Enter, EnvAt

LEMMA SightNext ==
  ASSUME NEW p, NEW r, Mapping(p, r), NEW b, NEW g, BlockRun(p, r, g, b), NEW d \in Targets(p, b), NEW passed,
         Handed(p, r, g, d, passed), Range(passed) \subseteq InSight(p, b, Len(p[b].ops) + 1)
  PROVE  SightRight(p, r, g, Visible(p, d)) /\ NoneAhead(p, d) /\ d \in Blocks(p)
<1>1. b \in Blocks(p) /\ IsMain(p) /\ NoneAhead(p, b) /\ SightRight(p, r, g, InSight(p, b, Len(p[b].ops) + 1))
  BY DEF BlockRun, Mapping
<1>2. d \in Blocks(p)
  BY <1>1, TargetsAhead
<1>3. NoneAhead(p, d) /\ Visible(p, d) \subseteq Range(p[d].args) \cup InSight(p, b, Len(p[b].ops) + 1)
  BY <1>1, SightAtTarget
<1>4. ASSUME NEW v \in Range(p[d].args) PROVE g[r[v]] \in Int /\ ~ConstantIn(p, v)
  <2>1. PICK m \in DOMAIN p[d].args : v = p[d].args[m]
    BY DEF Range
  <2>2. m \in DOMAIN passed /\ r[passed[m]] # Unmapped /\ g[r[v]] = g[r[passed[m]]]
    BY <2>1 DEF Handed
  <2>3. passed[m] \in InSight(p, b, Len(p[b].ops) + 1)
    BY <2>2 DEF Range
  <2>4. g[r[passed[m]]] \in Int
    BY <1>1, <2>2, <2>3 DEF SightRight
  <2> QED
    BY <1>2, <2>1, <2>2, <2>4, ArgumentIs
<1> QED
  BY <1>1, <1>2, <1>3, <1>4 DEF SightRight

\* The next block begins.
LEMMA BlockBegins ==
  ASSUME NEW p, NEW r, NEW cd, Mapping(p, r), Coded(p, r, cd), NEW d \in Blocks(p), NEW g, NEW o, IsSeq(o),
         DOMAIN g = 0 .. HostRegisters - 1, SightRight(p, r, g, Visible(p, d)), NoneAhead(p, d)
  PROVE  RunPart(p, r, cd, d, 1, g, o, o)
<1>1. IsMain(p)
  BY DEF Mapping
<1>2. OutPart(p, r, g, d, 1, o, o)
  BY <1>1, OutStart
<1> PICK l \in Nat : l = LastPlace(p, d)
  BY CodeLength
<1> PICK n \in Nat : n = Len(LastInstrs(p, r, d))
  BY CodeLength
<1>3. Len(cd[d]) = l + n /\ (Branches(p, d) => n > 0)
  BY CodeLength
<1>4. 1 <= Len(cd[d]) + 1 /\ (Branches(p, d) => 1 <= Len(cd[d]))
  BY <1>3
<1>5. TermPart(p, r, g, d, 1 - LastPlace(p, d))
  <2>1. 1 - l \in Int /\ 1 - l <= 1
    OBVIOUS
  <2>2. TermPart(p, r, g, d, 1 - l)
    BY <1>1, <2>1, TermStart
  <2> QED
    BY <2>2
<1>6. OpsPart(p, r, g, d, 1)
  <2>1. \A j \in Emits(p, d) : ~(Place(p, d, j) < 1)
    <3>1. \A j \in Emits(p, d) : Place(p, d, j) \in 1 .. l
      BY <1>1, PlaceShape
    <3> QED
      BY <3>1
  <2> QED
    BY <2>1 DEF OpsPart
<1> QED
  BY <1>2, <1>4, <1>5, <1>6 DEF RunPart

-----------------------------------------------------------------------------
(***************************************************************************)
(* The end of a block: what was sent, and the block that comes next.       *)
(***************************************************************************)
LEMMA ListsEqual ==
  ASSUME NEW u, IsSeq(u), NEW w, IsSeq(w), Len(u) = Len(w), \A i \in 1 .. Len(u) : u[i] = w[i]
  PROVE  u = w
<1>1. u = [i \in 1 .. Len(u) |-> u[i]]
  BY DEF IsSeq
<1>2. w = [i \in 1 .. Len(w) |-> w[i]]
  BY DEF IsSeq
<1> QED
  BY <1>1, <1>2

LEMMA SeqLen == \A u : IsSeq(u) => Len(u) \in Nat
  BY DEF IsSeq

LEMMA RunAtEnd ==
  ASSUME NEW p, NEW r, NEW cd, Mapping(p, r), NEW b, NEW k, NEW g, NEW o, NEW s,
         RunPart(p, r, cd, b, k, g, o, s), LastPlace(p, b) < k
  PROVE  BlockRun(p, r, g, b)
  BY SightAtEnd DEF RunPart, BlockRun

\* The messages of a block are the operands of its sends, in order.
SentRight(p, r, g, b, u) ==
  /\ IsSeq(u) /\ Len(u) = Cardinality(Sends(p, b)) /\ Cardinality(Sends(p, b)) \in Nat
  /\ \A n \in 1 .. Len(u) : \E j \in Sends(p, b) : Rank(Sends(p, b), j) = n /\ u[n] = g[r[p[b].ops[j].args[2]]]

LEMMA SentIsRight ==
  ASSUME NEW p, NEW r, Mapping(p, r), NEW b \in Blocks(p), NEW g, NEW x, EnvRight(p, r, g, b, Len(p[b].ops) + 1, x)
  PROVE  SentRight(p, r, g, b, SentIn(p, b, x))
<1>1. IsMain(p)
  BY DEF Mapping
<1> PICK N \in Nat : N = Len(p[b].ops)
  BY <1>1, MainShape
<1> PICK S : S = Sends(p, b)
  OBVIOUS
<1>2. S \in SUBSET (1 .. N)
  BY <1>1, SendsEmit
<1>3. /\ DOMAIN InOrder(S) = 1 .. Cardinality(S) /\ Cardinality(S) \in Nat
      /\ \A k \in DOMAIN InOrder(S) : InOrder(S)[k] \in S /\ Rank(S, InOrder(S)[k]) = k
  BY <1>2, InOrderLists
<1> PICK u : u = SentIn(p, b, x)
  OBVIOUS
<1>4. u = [n \in 1 .. Cardinality(S) |-> x[p[b].ops[InOrder(S)[n]].args[2]]]
  BY <1>3 DEF SentIn
<1>5. u = [n \in 1 .. Cardinality(S) |-> u[n]]
  BY <1>4
<1>6. IsSeq(u) /\ Len(u) = Cardinality(S)
  BY <1>3, <1>5, ListSeq
<1>7. ASSUME NEW j \in S PROVE x[p[b].ops[j].args[2]] = g[r[p[b].ops[j].args[2]]]
  <2>1. j \in DOMAIN p[b].ops /\ p[b].ops[j].k = "send"
    BY DEF Sends
  <2>2. IsSeq(p[b].ops[j].args) /\ Len(p[b].ops[j].args) = 2
    BY <1>1, <2>1, OperandsIn DEF IsOperation
  <2>3. 2 \in DOMAIN p[b].ops[j].args
    BY <2>2 DEF IsSeq
  <2>4. p[b].ops[j].args[2] \in InSight(p, b, j) /\ r[p[b].ops[j].args[2]] # Unmapped
    BY <1>1, <2>1, <2>3, OperandsIn DEF Mapping
  <2>5. InSight(p, b, j) \subseteq InSight(p, b, N + 1)
    <3>1. \A i \in 1 .. j - 1 : i \in 1 .. (N + 1) - 1
      BY <1>2
    <3> QED
      BY <3>1 DEF InSight
  <2> QED
    BY <2>4, <2>5 DEF EnvRight, ValueIn
<1>8. \A n \in 1 .. Len(u) : \E j \in S : Rank(S, j) = n /\ u[n] = g[r[p[b].ops[j].args[2]]]
  <2> TAKE n \in 1 .. Len(u)
  <2> PICK j : j = InOrder(S)[n]
    OBVIOUS
  <2>1. j \in S /\ Rank(S, j) = n
    BY <1>3, <1>6
  <2>2. u[n] = x[p[b].ops[j].args[2]]
    BY <1>4, <1>6
  <2> QED
    BY <1>7, <2>1, <2>2
<1> QED
  BY <1>3, <1>6, <1>8 DEF SentRight

ReturnsRight(p, r, g, b, k, w) ==
  IsSeq(w) /\ Len(w) = Returned(p, b, k) /\ \A m \in 1 .. Len(w) : w[m] = g[r[p[b].term.args[m]]]

\* What went out is what the sends and the return say.
WentOut(p, b, k, o, s, u, w) ==
  /\ Returned(p, b, k) = 0 => o = s \o u
  /\ o = s \o u \o w

LEMMA OutIs ==
  ASSUME NEW p, NEW r, Mapping(p, r), NEW b \in Blocks(p), NEW g, NEW k \in Nat, LastPlace(p, b) < k,
         NEW o, NEW s, OutPart(p, r, g, b, k, o, s), NEW u, SentRight(p, r, g, b, u),
         NEW w, ReturnsRight(p, r, g, b, k, w)
  PROVE  WentOut(p, b, k, o, s, u, w)
<1>0. IsSeq(w) /\ Len(w) = Returned(p, b, k) /\ \A m \in 1 .. Len(w) : w[m] = g[r[p[b].term.args[m]]]
  BY DEF ReturnsRight
<1>1. IsMain(p)
  BY DEF Mapping
<1>2. /\ IsSeq(o) /\ IsSeq(s) /\ Len(o) = Len(s) + Cardinality(SentBy(p, b, k)) + Returned(p, b, k)
      /\ \A i \in 1 .. Len(s) : o[i] = s[i]
      /\ \A j \in Sends(p, b) : Place(p, b, j) < k => o[Len(s) + Rank(Sends(p, b), j)] = g[r[p[b].ops[j].args[2]]]
      /\ \A m \in 1 .. Returned(p, b, k) : o[Len(s) + Cardinality(Sends(p, b)) + m] = g[r[p[b].term.args[m]]]
  BY DEF OutPart
<1>3. SentBy(p, b, k) = Sends(p, b)
  BY <1>1, SendsCount
<1>4. IsSeq(u) /\ Len(u) = Cardinality(Sends(p, b))
  BY DEF SentRight
<1>5. Len(s) \in Nat /\ Len(u) \in Nat /\ Len(w) \in Nat
  BY <1>0, <1>2, <1>4, SeqLen, Zenon
<1> PICK l \in Nat : l = Len(s)
  BY <1>5
<1> PICK c \in Nat : c = Len(u)
  BY <1>5
<1> PICK d \in Nat : d = Len(w)
  BY <1>5
<1>6. Len(o) = l + c + d
  BY <1>0, <1>2, <1>3, <1>4
<1>7. ASSUME NEW n \in 1 .. c PROVE o[l + n] = u[n]
  <2>1. PICK j \in Sends(p, b) : Rank(Sends(p, b), j) = n /\ u[n] = g[r[p[b].ops[j].args[2]]]
    BY DEF SentRight
  <2>2. Place(p, b, j) < k
    BY <1>3 DEF SentBy
  <2> QED
    BY <1>2, <2>1, <2>2
<1>8. ASSUME NEW m \in 1 .. d PROVE o[l + c + m] = w[m]
  BY <1>0, <1>2, <1>4
<1> PICK su : su = Joined(s, u)
  OBVIOUS
<1>9. IsJoin(su, s, u)
  BY <1>2, <1>4, JoinIs
<1>10. IsSeq(su) /\ Len(su) = l + c /\ (\A i \in 1 .. l : su[i] = s[i]) /\ \A i \in 1 .. c : su[l + i] = u[i]
  BY <1>9 DEF IsJoin
<1>11. ASSUME NEW i \in 1 .. l + c PROVE o[i] = su[i]
  <2>1. CASE i \in 1 .. l
    BY <1>2, <1>10, <2>1
  <2>2. CASE i \notin 1 .. l
    <3>1. i - l \in 1 .. c /\ l + (i - l) = i
      BY <2>2
    <3>2. o[l + (i - l)] = su[l + (i - l)]
      BY <1>7, <1>10, <3>1
    <3> QED
      BY <3>1, <3>2
  <2> QED
    BY <2>1, <2>2
<1>12. ASSUME Returned(p, b, k) = 0 PROVE o = su
  <2>1. d = 0
    BY <1>0, <1>12
  <2>2. Len(o) = l + c
    BY <1>6, <2>1
  <2> QED
    BY <1>2, <1>10, <1>11, <2>2, ListsEqual
<1> PICK suw : suw = Joined(su, w)
  OBVIOUS
<1>13. IsJoin(suw, su, w)
  BY <1>0, <1>10, JoinIs
<1>14. IsSeq(suw) /\ Len(suw) = l + c + d /\ (\A i \in 1 .. l + c : suw[i] = su[i]) /\ \A i \in 1 .. d : suw[l + c + i] = w[i]
  BY <1>10, <1>13 DEF IsJoin
<1>15. ASSUME NEW i \in 1 .. l + c + d PROVE o[i] = suw[i]
  <2>1. CASE i \in 1 .. l + c
    BY <1>11, <1>14, <2>1
  <2>2. CASE i \notin 1 .. l + c
    <3>1. i - (l + c) \in 1 .. d /\ l + c + (i - (l + c)) = i
      BY <2>2
    <3>2. PICK j \in 1 .. d : l + c + j = i
      BY <3>1, Zenon
    <3>3. suw[l + c + j] = w[j]
      BY <1>14
    <3>4. o[l + c + j] = w[j]
      BY <1>8
    <3> QED
      BY <3>2, <3>3, <3>4, Zenon
  <2> QED
    BY <2>1, <2>2
<1>16. o = suw
  BY <1>2, <1>6, <1>14, <1>15, ListsEqual
<1> QED
  BY <1>12, <1>16 DEF Joined, WentOut

\* One block of the program, as MLIR says.
StepOf(p, b, e, s, d, f, o) ==
  \E got \in [FetchedIn(p, b) -> Bits] :
    LET end == MLIR!AtEnd(p, b, e, got)
        term == p[b].term
        n == Taken(p, b, end)
        dest == IF term.k = "next" THEN b + 1 ELSE term.to[n]
        passed == IF term.k = "next" THEN <<>> ELSE term.with[n]
    IN  IF term.k = "return"
          THEN /\ d = 0
               /\ f = [v \in DOMAIN e |-> NoValue]
               /\ o = s \o SentIn(p, b, end) \o [i \in DOMAIN term.args |-> end[term.args[i]]]
          ELSE /\ d = dest
               /\ f = Enter(p, dest, passed, end)
               /\ o = s \o SentIn(p, b, end)

\* Block d comes next, with the values passed.
GoesTo(p, r, g, b, d, passed) ==
  \/ p[b].term.k = "next" /\ d = b + 1 /\ passed = <<>>
  \/ \E n : Passed(p, r, g, b, n) /\ d = p[b].term.to[n] /\ passed = p[b].term.with[n]

LEMMA GoesRight ==
  ASSUME NEW p, NEW r, Mapping(p, r), NEW b \in Blocks(p), NEW g, NEW d, NEW passed, GoesTo(p, r, g, b, d, passed)
  PROVE  /\ d \in Targets(p, b) /\ Handed(p, r, g, d, passed)
         /\ Range(passed) \subseteq InSight(p, b, Len(p[b].ops) + 1)
         /\ p[b].term.k # "return"
<1>1. IsMain(p)
  BY DEF Mapping
<1>2. CASE p[b].term.k = "next" /\ d = b + 1 /\ passed = <<>>
  <2>1. p[b + 1].args = <<>>
    BY <1>1, <1>2 DEF IsMain, IsTerminator
  <2>2. DOMAIN passed = {} /\ DOMAIN p[d].args = {}
    BY <1>2, <2>1
  <2> QED
    BY <1>2, <2>2 DEF Targets, Handed, Range
<1>3. CASE \E n : Passed(p, r, g, b, n) /\ d = p[b].term.to[n] /\ passed = p[b].term.with[n]
  <2>1. PICK n : Passed(p, r, g, b, n) /\ d = p[b].term.to[n] /\ passed = p[b].term.with[n]
    BY <1>3
  <2>2. Branches(p, b) /\ n \in DOMAIN p[b].term.to /\ \A m \in DOMAIN passed : Copied(p, r, g, b, n, m)
    BY <2>1 DEF Passed
  <2>3. DOMAIN passed = DOMAIN p[d].args /\ Range(passed) \subseteq InSight(p, b, Len(p[b].ops) + 1)
    BY <1>1, <2>1, <2>2, TargetBehind
  <2>4. \A m \in DOMAIN passed : r[passed[m]] # Unmapped
    BY <2>1, <2>2, PassedMapped
  <2>5. Handed(p, r, g, d, passed)
    BY <2>1, <2>2, <2>3, <2>4 DEF Handed, Copied
  <2>6. d \in Targets(p, b)
    BY <2>1, <2>2 DEF Targets, Branches, Range
  <2>7. p[b].term.k # "return"
    BY <2>2 DEF Branches
  <2> QED
    BY <2>3, <2>5, <2>6, <2>7
<1> QED
  BY <1>2, <1>3 DEF GoesTo

LEMMA EndMoves ==
  ASSUME NEW p, NEW r, Mapping(p, r), NEW b \in Blocks(p), NEW g, BlockRun(p, r, g, b), NEW k \in Nat, LastPlace(p, b) < k,
         NEW o, NEW s, OutPart(p, r, g, b, k, o, s), NEW d, NEW passed, GoesTo(p, r, g, b, d, passed)
  PROVE  StepOf(p, b, EnvAt(p, r, g, b), s, d, EnvAt(p, r, g, d), o)
<1> PICK got : got = GotIn(p, r, g, b)
  OBVIOUS
<1> PICK end : end = EndOf(p, r, g, b)
  OBVIOUS
<1>1. \A j \in Emits(p, b) : OpHolds(p, r, g, b, j)
  BY DEF BlockRun
<1>2. got \in [FetchedIn(p, b) -> Bits]
  BY <1>1, GotRight
<1>3. EnvRight(p, r, g, b, Len(p[b].ops) + 1, end) /\ end = MLIR!AtEnd(p, b, EnvAt(p, r, g, b), got)
  BY <1>1, AtEndRight DEF EndOf
<1>4. /\ d \in Targets(p, b) /\ Handed(p, r, g, d, passed)
      /\ Range(passed) \subseteq InSight(p, b, Len(p[b].ops) + 1)
      /\ p[b].term.k # "return"
  BY GoesRight
<1>5. Enter(p, d, passed, end) = EnvAt(p, r, g, d)
  BY <1>3, <1>4, EnterRight
<1>6. o = s \o SentIn(p, b, end)
  <2>1. SentRight(p, r, g, b, SentIn(p, b, end))
    BY <1>3, SentIsRight
  <2>2. Returned(p, b, k) = 0
    BY <1>4 DEF Returned
  <2> PICK w : w = <<>>
    OBVIOUS
  <2>3. IsSeq(w) /\ Len(w) = Returned(p, b, k)
    BY <2>2 DEF IsSeq
  <2>4. \A m \in 1 .. Len(w) : w[m] = g[r[p[b].term.args[m]]]
    <3>1. \A m \in 1 .. 0 : FALSE
      OBVIOUS
    <3> QED
      BY <2>2, <2>3, <3>1
  <2>5. ReturnsRight(p, r, g, b, k, w)
    BY <2>3, <2>4 DEF ReturnsRight
  <2>6. WentOut(p, b, k, o, s, SentIn(p, b, end), w)
    BY <2>1, <2>5, OutIs
  <2> QED
    BY <2>2, <2>6 DEF WentOut
<1>7. /\ d = IF p[b].term.k = "next" THEN b + 1 ELSE p[b].term.to[Taken(p, b, end)]
      /\ passed = IF p[b].term.k = "next" THEN <<>> ELSE p[b].term.with[Taken(p, b, end)]
  <2>1. CASE p[b].term.k = "next" /\ d = b + 1 /\ passed = <<>>
    BY <2>1
  <2>2. ASSUME NEW n, Passed(p, r, g, b, n), d = p[b].term.to[n], passed = p[b].term.with[n]
        PROVE  /\ d = IF p[b].term.k = "next" THEN b + 1 ELSE p[b].term.to[Taken(p, b, end)]
               /\ passed = IF p[b].term.k = "next" THEN <<>> ELSE p[b].term.with[Taken(p, b, end)]
    <3>1. Taken(p, b, end) = n
      BY <1>3, <2>2, TakenRight
    <3>2. p[b].term.k # "next"
      BY <2>2 DEF Passed, Branches
    <3> QED
      BY <2>2, <3>1, <3>2
  <2> QED
    BY <2>1, <2>2 DEF GoesTo
<1>8. p[b].term.k # "return"
  BY <1>4
<1>9. EnvAt(p, r, g, d) = Enter(p, d, passed, end)
  BY <1>5
<1> HIDE DEF EnvAt
<1> QED
  BY <1>2, <1>3, <1>6, <1>7, <1>8, <1>9 DEF StepOf

NoEnv(p) == [v \in Values(p) |-> NoValue]

LEMMA EndReturns ==
  ASSUME NEW p, NEW r, NEW cd, Mapping(p, r), Coded(p, r, cd), NEW b, NEW k, NEW g, NEW o, NEW s,
         RunPart(p, r, cd, b, k, g, o, s), k > Len(cd[b]), p[b].term.k = "return"
  PROVE  StepOf(p, b, EnvAt(p, r, g, b), s, 0, NoEnv(p), o)
<1>0. IsMain(p) /\ b \in Blocks(p) /\ OutPart(p, r, g, b, k, o, s) /\ k \in Nat /\ k <= Len(cd[b]) + 1 /\ TermRight(p, r, b)
  BY DEF Mapping, RunPart
<1> PICK l \in Nat : l = LastPlace(p, b)
  BY <1>0, CodeLength
<1> PICK a \in Nat : a = Len(LastInstrs(p, r, b))
  BY <1>0, CodeLength
<1>1. k = l + a + 1 /\ l < k
  <2>1. Len(cd[b]) = l + a
    BY <1>0, CodeLength
  <2> QED
    BY <1>0, <2>1
<1>2. a = Len(p[b].term.args) /\ IsSeq(p[b].term.args)
      /\ Range(p[b].term.args) \subseteq InSight(p, b, Len(p[b].ops) + 1)
  <2>1. a = Len(p[b].term.args)
    BY <1>0, LastShape
  <2> QED
    BY <1>0, <2>1 DEF IsMain, IsTerminator
<1>3. Returned(p, b, k) = a
  <2>1. a = 0 => ~(l + 1 < k)
    BY <1>1
  <2>2. a # 0 => l + 1 < k
    BY <1>1
  <2>3. k - 1 - l = a
    BY <1>1
  <2> QED
    BY <2>1, <2>2, <2>3 DEF Returned
<1>4. BlockRun(p, r, g, b)
  BY <1>1, RunAtEnd
<1> PICK got : got = GotIn(p, r, g, b)
  OBVIOUS
<1> PICK end : end = EndOf(p, r, g, b)
  OBVIOUS
<1>5. \A j \in Emits(p, b) : OpHolds(p, r, g, b, j)
  BY <1>4 DEF BlockRun
<1>6. got \in [FetchedIn(p, b) -> Bits]
  BY <1>5, GotRight
<1>7. EnvRight(p, r, g, b, Len(p[b].ops) + 1, end) /\ end = MLIR!AtEnd(p, b, EnvAt(p, r, g, b), got)
  BY <1>0, <1>5, AtEndRight DEF EndOf
<1> PICK w : w = [i \in DOMAIN p[b].term.args |-> end[p[b].term.args[i]]]
  OBVIOUS
<1>8. DOMAIN p[b].term.args = 1 .. a
  BY <1>2 DEF IsSeq
<1>9. IsSeq(w) /\ Len(w) = a
  <2>1. w = [i \in 1 .. a |-> w[i]]
    BY <1>8
  <2> QED
    BY <2>1, ListSeq
<1>10. ASSUME NEW m \in 1 .. a PROVE w[m] = g[r[p[b].term.args[m]]]
  <2>1. p[b].term.args[m] \in InSight(p, b, Len(p[b].ops) + 1)
    BY <1>2, <1>8 DEF Range
  <2>2. r[p[b].term.args[m]] # Unmapped
    BY <1>0, <1>8 DEF TermRight
  <2>3. w[m] = end[p[b].term.args[m]]
    BY <1>8
  <2> QED
    BY <1>7, <2>1, <2>2, <2>3 DEF EnvRight, ValueIn
<1>11. o = s \o SentIn(p, b, end) \o w
  <2>1. SentRight(p, r, g, b, SentIn(p, b, end))
    BY <1>0, <1>7, SentIsRight
  <2>2. Len(w) = Returned(p, b, k) /\ IsSeq(w) /\ LastPlace(p, b) < k
    BY <1>1, <1>3, <1>9
  <2>3. \A m \in 1 .. Len(w) : w[m] = g[r[p[b].term.args[m]]]
    BY <1>9, <1>10
  <2>4. ReturnsRight(p, r, g, b, k, w)
    BY <2>2, <2>3 DEF ReturnsRight
  <2>5. WentOut(p, b, k, o, s, SentIn(p, b, end), w)
    BY <1>0, <2>1, <2>2, <2>4, OutIs
  <2> QED
    BY <2>5 DEF WentOut
<1>12. NoEnv(p) = [v \in DOMAIN EnvAt(p, r, g, b) |-> NoValue]
  BY DEF EnvAt, NoEnv
<1> HIDE DEF EnvAt, NoEnv
<1> QED
  BY <1>6, <1>7, <1>11, <1>12 DEF StepOf

-----------------------------------------------------------------------------
(***************************************************************************)
(* The run is one of MLIR's.                                               *)
(***************************************************************************)
RunInv ==
  /\ TransInv
  /\ DOMAIN regs = 0 .. HostRegisters - 1
  /\ stage \notin {"run", "returned"} => out = <<>> /\ settled = <<>>
  /\ stage = "run" => RunPart(main, regOf, code, pos[1], pos[2], regs, out, settled)

\* The values MLIR is said to have.
EnvNow == [v \in Values(main) |-> IF Finished /\ AbstractAt # 0 THEN Meaning(v) ELSE NoValue]

AbsStep ==
  main' = main /\ AbstractAt # 0 /\ StepOf(main, AbstractAt, EnvNow, settled, AbstractAt', EnvNow', settled')
AbsSame == UNCHANGED <<main, AbstractAt, EnvNow, settled>>

EnvShape ==
  /\ stage = "run" /\ pos[1] # 0 => AbstractAt = pos[1] /\ EnvNow = EnvAt(main, regOf, regs, pos[1])
  /\ stage \notin {"run", "returned"} => AbstractAt = 1 /\ EnvNow = NoEnv(main)
  /\ stage = "returned" => AbstractAt = 0 /\ EnvNow = NoEnv(main)

LEMMA EnvNowIs == EnvShape
<1>1. ASSUME stage = "run", 0 # pos[1]
      PROVE  AbstractAt = pos[1] /\ EnvNow = EnvAt(main, regOf, regs, pos[1])
  BY <1>1 DEF AbstractAt, EnvNow, EnvAt, Meaning, ValueIn, Finished
<1>2. stage \notin {"run", "returned"} => AbstractAt = 1 /\ EnvNow = NoEnv(main)
  BY DEF AbstractAt, EnvNow, NoEnv, Finished
<1>3. stage = "returned" => AbstractAt = 0 /\ EnvNow = NoEnv(main)
  BY DEF AbstractAt, EnvNow, NoEnv, Finished
<1> QED
  BY <1>1, <1>2, <1>3 DEF EnvShape

LEMMA EnvNextIs == EnvShape'
  BY EnvNowIs, PTL

LEMMA RunMapped ==
  ASSUME RunInv, stage = "run"
  PROVE  /\ Mapping(main, regOf) /\ Coded(main, regOf, code) /\ IsMain(main)
         /\ RunPart(main, regOf, code, pos[1], pos[2], regs, out, settled)
         /\ pos[1] \in Blocks(main) /\ pos[1] # 0 /\ pos[2] \in Nat \ {0}
<1>1. RunPart(main, regOf, code, pos[1], pos[2], regs, out, settled) /\ TransInv /\ Translated
  BY DEF RunInv, Translated
<1>2. Mapping(main, regOf) /\ Coded(main, regOf, code)
  BY <1>1, MappingRight
<1>3. pos[1] \in Blocks(main) /\ pos[2] \in Nat \ {0}
  BY <1>1 DEF RunPart
<1>4. pos[1] # 0
  <2>1. 0 \notin 1 .. Len(main)
    OBVIOUS
  <2> QED
    BY <1>3, <2>1 DEF Blocks
<1> QED
  BY <1>1, <1>2, <1>3, <1>4 DEF Mapping

\* Executing an instruction is not seen before the block is left.
LEMMA ExecuteSame ==
  ASSUME RunInv, TransInv', Execute
  PROVE  RunInv' /\ AbsSame
<1> PICK b : b = pos[1]
  OBVIOUS
<1> PICK k : k = pos[2]
  OBVIOUS
<1> PICK ins : ins = Current
  OBVIOUS
<1>1. /\ Effect(ins, regs, out, regs', out') /\ ins.op \in Executed
      /\ stage = "run" /\ k <= Len(code[b])
      /\ pos' = <<b, k + 1>> /\ UNCHANGED <<main, stage, translation, settled>>
  BY ExecuteEffect
<1>2. /\ Mapping(main, regOf) /\ Coded(main, regOf, code) /\ b \in Blocks(main) /\ b # 0 /\ IsMain(main)
      /\ RunPart(main, regOf, code, b, k, regs, out, settled)
  BY <1>1, RunMapped
<1>3. ins = code[b][k]
  BY DEF Current
<1>4. StepRight(main, regOf, code, b, k + 1, regs, regs', out', settled)
  BY <1>1, <1>2, <1>3, ExecuteStepIn
<1>5. regOf' = regOf /\ code' = code /\ main' = main /\ stage' = "run" /\ settled' = settled /\ pos'[1] = b /\ pos'[2] = k + 1
  BY <1>1 DEF translation
<1>6. RunInv'
  <2>1. RunPart(main, regOf, code, b, k + 1, regs', out', settled)
    BY <1>4 DEF StepRight
  <2>2. DOMAIN regs' = 0 .. HostRegisters - 1
    BY <2>1 DEF RunPart
  <2> QED
    BY <1>5, <2>1, <2>2 DEF RunInv
<1>7. EnvAt(main, regOf, regs', b) = EnvAt(main, regOf, regs, b)
  <2>1. Agree(regOf, regs, regs', Before(main, b, 1))
    BY <1>4 DEF StepRight
  <2>2. Visible(main, b) \subseteq Before(main, b, 1)
    BY <1>2, VisibleBefore DEF Earlier
  <2>3. \A v \in Visible(main, b) : ValueIn(main, regOf, regs', v) = ValueIn(main, regOf, regs, v)
    BY <1>2, <2>1, <2>2, ValueAgrees
  <2> QED
    BY <2>3 DEF EnvAt
<1>8. AbstractAt = b /\ EnvNow = EnvAt(main, regOf, regs, b)
  BY <1>1, <1>2, EnvNowIs DEF EnvShape
<1>9. AbstractAt' = b /\ EnvNow' = EnvAt(main, regOf, regs', b)
  BY <1>2, <1>5, EnvNextIs DEF EnvShape
<1> QED
  BY <1>5, <1>6, <1>7, <1>8, <1>9 DEF AbsSame

\* A block is left for block d.
LEMMA LeftFor ==
  ASSUME RunInv, TransInv', stage = "run", stage' = "run", UNCHANGED <<main, regOf, code, regs, out>>, settled' = out,
         NEW d, NEW passed, pos' = <<d, 1>>, LastPlace(main, pos[1]) < pos[2],
         GoesTo(main, regOf, regs, pos[1], d, passed)
  PROVE  RunInv' /\ AbsStep
<1> PICK b : b = pos[1]
  OBVIOUS
<1> PICK k : k = pos[2]
  OBVIOUS
<1>1. /\ Mapping(main, regOf) /\ Coded(main, regOf, code) /\ b \in Blocks(main) /\ b # 0 /\ IsMain(main)
      /\ RunPart(main, regOf, code, b, k, regs, out, settled) /\ k \in Nat
  BY RunMapped
<1>2. BlockRun(main, regOf, regs, b)
  BY <1>1, RunAtEnd
<1>3. OutPart(main, regOf, regs, b, k, out, settled) /\ DOMAIN regs = 0 .. HostRegisters - 1
  BY <1>1 DEF RunPart
<1>4. StepOf(main, b, EnvAt(main, regOf, regs, b), settled, d, EnvAt(main, regOf, regs, d), out)
  BY <1>1, <1>2, <1>3, EndMoves
<1>5. /\ d \in Targets(main, b) /\ Handed(main, regOf, regs, d, passed)
      /\ Range(passed) \subseteq InSight(main, b, Len(main[b].ops) + 1)
  BY <1>1, GoesRight
<1>6. SightRight(main, regOf, regs, Visible(main, d)) /\ NoneAhead(main, d) /\ d \in Blocks(main)
  BY <1>1, <1>2, <1>5, SightNext
<1>7. IsSeq(out)
  BY <1>3 DEF OutPart
<1>8. RunPart(main, regOf, code, d, 1, regs, out, out)
  BY <1>1, <1>3, <1>6, <1>7, BlockBegins
<1>9. pos'[1] = d /\ pos'[2] = 1
  OBVIOUS
<1>10. RunInv'
  BY <1>3, <1>8, <1>9 DEF RunInv
<1>11. d # 0
  <2>1. 0 \notin 1 .. Len(main)
    OBVIOUS
  <2> QED
    BY <1>6, <2>1 DEF Blocks
<1>12. AbstractAt = b /\ EnvNow = EnvAt(main, regOf, regs, b)
  BY <1>1, EnvNowIs DEF EnvShape
<1>13. AbstractAt' = d /\ EnvNow' = EnvAt(main, regOf, regs, d)
  BY <1>9, <1>11, EnvNextIs DEF EnvShape
<1>14. AbsStep
  BY <1>1, <1>4, <1>12, <1>13 DEF AbsStep
<1> QED
  BY <1>10, <1>14

\* What is behind the operations and not executed is a branch or a jump.
LEMMA LeavingAt ==
  ASSUME NEW p, NEW r, NEW cd, Mapping(p, r), Coded(p, r, cd), NEW b, NEW k, NEW g, NEW o, NEW s,
         RunPart(p, r, cd, b, k, g, o, s), k <= Len(cd[b]), cd[b][k].op \notin Executed
  PROVE  \E t \in Nat \ {0} : /\ k = LastPlace(p, b) + t /\ Branches(p, b) /\ TermPart(p, r, g, b, t)
                              /\ cd[b][k] = LastInstrs(p, r, b)[t]
                              /\ TestAt(p, r, b, t) \/ JumpAt(p, r, b, t)
<1>1. IsMain(p) /\ b \in Blocks(p) /\ k \in Nat \ {0} /\ TermPart(p, r, g, b, k - LastPlace(p, b))
  BY DEF Mapping, RunPart
<1>2. ASSUME NEW j \in Emits(p, b), cd[b][k] = InstrFor(p, r, b, j) PROVE FALSE
  BY <1>1, <1>2, InstrOps
<1>3. PICK t \in 1 .. Len(LastInstrs(p, r, b)) : k = LastPlace(p, b) + t /\ cd[b][k] = LastInstrs(p, r, b)[t]
  BY <1>1, <1>2, InstrIs
<1> PICK n \in Nat : n = Len(LastInstrs(p, r, b))
  BY <1>1, CodeLength
<1> PICK l \in Nat : l = LastPlace(p, b)
  BY <1>1, CodeLength
<1>4. t \in Nat \ {0} /\ t \in 1 .. n /\ n # 0 /\ k - l = t
  BY <1>3
<1>5. Branches(p, b)
  <2>1. p[b].term.k \in {"next", "br", "cond", "return"} /\ (p[b].term.k = "next" => LastInstrs(p, r, b) = <<>>)
    BY <1>1, LastShape
  <2>2. p[b].term.k # "next"
    BY <1>4, <2>1
  <2>3. ASSUME p[b].term.k = "return" PROVE FALSE
    <3>1. Len(LastInstrs(p, r, b)) = Len(p[b].term.args)
      BY <1>1, <2>3, LastShape, ZenonT(30)
    <3>4. t \in 1 .. Len(p[b].term.args)
      BY <3>1, Zenon
    <3>5. LastInstrs(p, r, b)[t] = Instr("return", <<>>, <<r[p[b].term.args[t]]>>, 0, 0)
      BY <1>1, <2>3, <3>4, ReturnShape, SMTT(20)
    <3>2. cd[b][k] = Instr("return", <<>>, <<r[p[b].term.args[t]]>>, 0, 0)
      BY <1>3, <3>5, Zenon
    <3>3. cd[b][k].op = "return"
      BY <3>2 DEF Instr
    <3> QED
      BY <3>3 DEF Executed
  <2> QED
    BY <2>1, <2>2, <2>3 DEF Branches
<1>6. (\E m : CopyAt(p, r, b, t, m)) \/ TestAt(p, r, b, t) \/ JumpAt(p, r, b, t)
  BY <1>1, <1>4, <1>5, TermAt
<1>7. ASSUME NEW m, CopyAt(p, r, b, t, m) PROVE FALSE
  <2> PICK x, y : LastInstrs(p, r, b)[t] = Instr("copy", x, y, 0, 0)
    BY <1>7, Zenon DEF CopyAt, CopyOf
  <2>1. cd[b][k].op = "copy"
    BY <1>3 DEF Instr
  <2> QED
    BY <2>1 DEF Executed
<1>8. TermPart(p, r, g, b, t)
  BY <1>1, <1>4
<1> QED
  BY <1>3, <1>4, <1>5, <1>6, <1>7, <1>8

LEMMA JumpLeaves ==
  ASSUME NEW p, NEW r, Mapping(p, r), NEW b \in Blocks(p), NEW t, NEW g, Branches(p, b), TermPart(p, r, g, b, t),
         JumpAt(p, r, b, t)
  PROVE  /\ GoesTo(p, r, g, b, LastInstrs(p, r, b)[t].to, p[b].term.with[Chosen(p, b, t)])
         /\ LastInstrs(p, r, b)[t].op = "jump"
<1> PICK n : n = Chosen(p, b, t)
  OBVIOUS
<1>1. IsMain(p)
  BY DEF Mapping
<1>2. n \in DOMAIN p[b].term.to
  BY <1>1, ChosenIs
<1>3. \A m \in DOMAIN p[b].term.with[n] : Copied(p, r, g, b, n, m)
  BY DEF TermPart, JumpAt
<1>4. Tested(p, b) => (n = 1 <=> TestHolds(p, r, g, b))
  <2>1. Tested(p, b) => n = 2 /\ ~TestHolds(p, r, g, b)
    BY DEF TermPart, JumpAt
  <2>2. 2 # 1
    OBVIOUS
  <2> QED
    BY <2>1, <2>2
<1>5. ~Tested(p, b) => n = IF p[b].term.k = "cond" THEN Way(p, b) ELSE 1
  BY DEF Chosen
<1>6. Passed(p, r, g, b, n)
  BY <1>2, <1>3, <1>4, <1>5 DEF Passed
<1>7. LastInstrs(p, r, b)[t] = Jump(p[b].term.to[n])
  BY DEF JumpAt
<1> QED
  BY <1>6, <1>7 DEF GoesTo, Jump, Instr

LEMMA TestLeaves ==
  ASSUME NEW p, NEW r, Mapping(p, r), NEW b \in Blocks(p), NEW t, NEW g, Branches(p, b), TermPart(p, r, g, b, t),
         TestAt(p, r, b, t)
  PROVE  /\ TestHolds(p, r, g, b) => GoesTo(p, r, g, b, LastInstrs(p, r, b)[t].to, p[b].term.with[1])
         /\ LastInstrs(p, r, b)[t].op = Test(p, b).pred /\ LastInstrs(p, r, b)[t].op \in Supported
         /\ \A m \in {1, 2} : LastInstrs(p, r, b)[t].src[m] = r[Test(p, b).args[m]]
<1>1. IsMain(p)
  BY DEF Mapping
<1>2. Tested(p, b) /\ Chosen(p, b, t) = 1
      /\ LastInstrs(p, r, b)[t] = Instr(Test(p, b).pred, <<>>, RegsIn(r, Test(p, b).args), 0, p[b].term.to[1])
  BY DEF TestAt
<1>3. 1 \in DOMAIN p[b].term.to
  BY <1>1, <1>2, ChosenIs
<1>4. \A m \in DOMAIN p[b].term.with[1] : Copied(p, r, g, b, 1, m)
  BY <1>2 DEF TermPart, TestAt
<1>5. TestHolds(p, r, g, b) => Passed(p, r, g, b, 1)
  BY <1>2, <1>3, <1>4 DEF Passed
<1>6. DOMAIN Test(p, b).args = {1, 2} /\ Test(p, b).pred \in Supported
  BY <1>2, TestOperands
<1>7. /\ LastInstrs(p, r, b)[t].op = Test(p, b).pred
      /\ LastInstrs(p, r, b)[t].src = RegsIn(r, Test(p, b).args)
      /\ LastInstrs(p, r, b)[t].to = p[b].term.to[1]
  BY <1>2 DEF Instr
<1>8. \A m \in {1, 2} : RegsIn(r, Test(p, b).args)[m] = r[Test(p, b).args[m]]
  BY <1>6 DEF RegsIn
<1> QED
  BY <1>5, <1>6, <1>7, <1>8 DEF GoesTo

LEMMA JumpGoes ==
  ASSUME RunInv, TransInv', JumpTo
  PROVE  RunInv' /\ AbsStep
<1> PICK b : b = pos[1]
  OBVIOUS
<1> PICK k : k = pos[2]
  OBVIOUS
<1>1. /\ stage = "run" /\ k <= Len(code[b]) /\ code[b][k].op = "jump" /\ settled' = out
      /\ pos' = <<code[b][k].to, 1>> /\ UNCHANGED <<main, stage, regOf, code, regs, out>>
  BY DEF JumpTo, Running, Leave, Current, translation
<1>2. /\ Mapping(main, regOf) /\ Coded(main, regOf, code) /\ b \in Blocks(main)
      /\ RunPart(main, regOf, code, b, k, regs, out, settled)
  BY <1>1, RunMapped
<1>3. code[b][k].op \notin Executed /\ code[b][k].op \notin Supported
  BY <1>1 DEF Executed, Supported
<1>4. PICK t \in Nat \ {0} :
        /\ k = LastPlace(main, b) + t /\ Branches(main, b) /\ TermPart(main, regOf, regs, b, t)
        /\ code[b][k] = LastInstrs(main, regOf, b)[t]
        /\ TestAt(main, regOf, b, t) \/ JumpAt(main, regOf, b, t)
  BY <1>1, <1>2, <1>3, LeavingAt
<1>5. JumpAt(main, regOf, b, t)
  <2>1. TestAt(main, regOf, b, t) => code[b][k].op \in Supported
    BY <1>2, <1>4, TestLeaves
  <2> QED
    BY <1>3, <1>4, <2>1
<1>6. GoesTo(main, regOf, regs, b, code[b][k].to, main[b].term.with[Chosen(main, b, t)])
  BY <1>2, <1>4, <1>5, JumpLeaves
<1>7. LastPlace(main, b) < k
  <2> PICK l \in Nat : l = LastPlace(main, b)
    BY <1>2, CodeLength
  <2>1. k = l + t
    BY <1>4
  <2> QED
    BY <2>1
<1>8. stage' = "run"
  BY <1>1
<1> QED
  BY <1>1, <1>6, <1>7, <1>8, LeftFor

LEMMA BranchGoes ==
  ASSUME RunInv, TransInv', BranchTo
  PROVE  RunInv' /\ (AbsStep \/ AbsSame)
<1> PICK b : b = pos[1]
  OBVIOUS
<1> PICK k : k = pos[2]
  OBVIOUS
<1> PICK ins : ins = code[b][k]
  OBVIOUS
<1>1. stage = "run" /\ k <= Len(code[b]) /\ ins.op \in Supported
  BY DEF BranchTo, Running
<1>2. /\ Mapping(main, regOf) /\ Coded(main, regOf, code) /\ b \in Blocks(main) /\ b # 0
      /\ RunPart(main, regOf, code, b, k, regs, out, settled)
  BY <1>1, RunMapped
<1>3. ins.op \notin Executed /\ ins.op # "jump"
  BY <1>1 DEF Executed, Supported
<1>4. PICK t \in Nat \ {0} :
        /\ k = LastPlace(main, b) + t /\ Branches(main, b) /\ TermPart(main, regOf, regs, b, t)
        /\ ins = LastInstrs(main, regOf, b)[t]
        /\ TestAt(main, regOf, b, t) \/ JumpAt(main, regOf, b, t)
  BY <1>1, <1>2, <1>3, LeavingAt
<1>5. TestAt(main, regOf, b, t)
  <2>1. JumpAt(main, regOf, b, t) => ins.op = "jump"
    BY <1>2, <1>4, JumpLeaves
  <2> QED
    BY <1>3, <1>4, <2>1
<1>6. /\ TestHolds(main, regOf, regs, b) => GoesTo(main, regOf, regs, b, ins.to, main[b].term.with[1])
      /\ ins.op = Test(main, b).pred
      /\ \A m \in {1, 2} : ins.src[m] = regOf[Test(main, b).args[m]]
  BY <1>2, <1>4, <1>5, TestLeaves
<1>7. TestHolds(main, regOf, regs, b) = Holds(ins.op, regs[ins.src[1]], regs[ins.src[2]])
  BY <1>6 DEF TestHolds
<1>8. ins = Current
  BY DEF Current
<1>9. /\ TestHolds(main, regOf, regs, b) => Leave(ins.to)
      /\ ~TestHolds(main, regOf, regs, b) => Advance /\ UNCHANGED <<main, stage, translation, execution>>
  <2>1. /\ Holds(ins.op, regs[ins.src[1]], regs[ins.src[2]]) => Leave(ins.to)
        /\ ~Holds(ins.op, regs[ins.src[1]], regs[ins.src[2]]) => Advance /\ UNCHANGED <<main, stage, translation, execution>>
    BY <1>8, Zenon DEF BranchTo, Src
  <2> QED
    BY <1>7, <2>1, Zenon
<1>10. ASSUME TestHolds(main, regOf, regs, b) PROVE RunInv' /\ AbsStep
  <2>1. pos' = <<ins.to, 1>> /\ settled' = out /\ UNCHANGED <<main, stage, regOf, code, regs, out>>
    BY <1>9, <1>10 DEF Leave, translation
  <2>2. LastPlace(main, b) < k
    <3> PICK l \in Nat : l = LastPlace(main, b)
      BY <1>2, CodeLength
    <3>1. k = l + t
      BY <1>4
    <3> QED
      BY <3>1
  <2>3. stage' = "run" /\ GoesTo(main, regOf, regs, b, ins.to, main[b].term.with[1])
    BY <1>1, <1>6, <1>10, <2>1
  <2> QED
    BY <1>1, <2>1, <2>2, <2>3, LeftFor
<1>11. ASSUME ~TestHolds(main, regOf, regs, b) PROVE RunInv' /\ AbsSame
  <2>1. UNCHANGED <<main, stage, regOf, code, regs, out, settled>> /\ pos' = <<b, k + 1>>
    BY <1>9, <1>11 DEF Advance, translation, execution
  <2>2. RunPart(main, regOf, code, b, k + 1, regs, out, settled)
    BY <1>2, <1>4, <1>5, <1>11, NotTakenIn DEF StepRight
  <2>3. pos'[1] = b /\ pos'[2] = k + 1 /\ stage' = "run"
    BY <1>1, <2>1
  <2>4. DOMAIN regs = 0 .. HostRegisters - 1
    BY <2>2 DEF RunPart
  <2>5. RunInv'
    BY <2>1, <2>2, <2>3, <2>4 DEF RunInv
  <2>6. AbstractAt = b /\ EnvNow = EnvAt(main, regOf, regs, b)
    BY <1>1, <1>2, EnvNowIs DEF EnvShape
  <2>7. AbstractAt' = b /\ EnvNow' = EnvAt(main, regOf, regs, b)
    BY <1>2, <2>1, <2>3, EnvNextIs DEF EnvShape
  <2> QED
    BY <2>1, <2>5, <2>6, <2>7 DEF AbsSame
<1> QED
  BY <1>10, <1>11

LEMMA FallsThrough ==
  ASSUME RunInv, TransInv', FallThrough
  PROVE  RunInv' /\ AbsStep
<1> PICK b : b = pos[1]
  OBVIOUS
<1> PICK k : k = pos[2]
  OBVIOUS
<1>1. /\ stage = "run" /\ k > Len(code[b]) /\ settled' = out /\ UNCHANGED <<main, regOf, code, regs, out>>
      /\ IF b = Len(main) THEN stage' = "returned" /\ UNCHANGED pos ELSE pos' = <<b + 1, 1>> /\ UNCHANGED stage
  BY DEF FallThrough, translation
<1>2. /\ Mapping(main, regOf) /\ Coded(main, regOf, code) /\ b \in Blocks(main) /\ b # 0 /\ k \in Nat
      /\ RunPart(main, regOf, code, b, k, regs, out, settled) /\ IsMain(main)
  BY <1>1, RunMapped
<1> PICK c \in Nat : c = Len(code[b])
  BY <1>2, CodeLength
<1>3. ~Branches(main, b)
  <2>1. Branches(main, b) => k <= c
    BY <1>2 DEF RunPart
  <2>2. k > c /\ k \in Nat
    BY <1>1, <1>2
  <2> QED
    BY <2>1, <2>2
<1>4. IsTerminator(main, b) /\ main[b].term.k \in {"next", "return"}
  <2>1. IsTerminator(main, b)
    BY <1>2 DEF IsMain
  <2> QED
    BY <1>3, <2>1 DEF IsTerminator, Branches
<1>5. CASE b = Len(main)
  <2>1. main[b].term.k = "return"
    BY <1>4, <1>5 DEF IsTerminator
  <2>2. StepOf(main, b, EnvAt(main, regOf, regs, b), settled, 0, NoEnv(main), out)
    BY <1>1, <1>2, <2>1, EndReturns
  <2>3. stage' = "returned"
    BY <1>1, <1>5
  <2>4. DOMAIN regs = 0 .. HostRegisters - 1
    BY DEF RunInv
  <2>5. RunInv'
    BY <1>1, <2>3, <2>4 DEF RunInv
  <2>6. AbstractAt = b /\ EnvNow = EnvAt(main, regOf, regs, b)
    BY <1>1, <1>2, EnvNowIs DEF EnvShape
  <2>7. AbstractAt' = 0 /\ EnvNow' = NoEnv(main)
    BY <1>1, <2>3, EnvNextIs DEF EnvShape
  <2> QED
    BY <1>1, <1>2, <2>2, <2>5, <2>6, <2>7 DEF AbsStep
<1>6. CASE b # Len(main)
  <2>1. main[b].term.k = "next"
    BY <1>4, <1>6 DEF IsTerminator
  <2> PICK passed : passed = <<>>
    OBVIOUS
  <2>2. GoesTo(main, regOf, regs, b, b + 1, passed)
    BY <2>1 DEF GoesTo
  <2>3. LastPlace(main, b) < k
    <3> PICK l \in Nat : l = LastPlace(main, b)
      BY <1>2, CodeLength
    <3> PICK a \in Nat : a = Len(LastInstrs(main, regOf, b))
      BY <1>2, CodeLength
    <3>1. c = l + a
      BY <1>2, CodeLength
    <3>2. k > c
      BY <1>1
    <3> QED
      BY <1>2, <3>1, <3>2
  <2>4. stage' = "run" /\ pos' = <<b + 1, 1>>
    BY <1>1, <1>6
  <2> QED
    BY <1>1, <2>2, <2>3, <2>4, LeftFor
<1> QED
  BY <1>5, <1>6

LEMMA RunBegins ==
  ASSUME RunInv, TransInv', SetBlockTypes, stage' = "run"
  PROVE  RunInv' /\ AbsSame
<1>1. stage = "type" /\ pos' = <<1, 1>> /\ UNCHANGED <<main, regOf, code, regs, out, settled>>
  BY DEF SetBlockTypes, Fail, execution
<1>2. TransInv /\ DOMAIN regs = 0 .. HostRegisters - 1 /\ out = <<>> /\ settled = <<>>
  BY <1>1 DEF RunInv
<1>3. Mapping(main, regOf) /\ Coded(main, regOf, code)
  BY <1>1, <1>2, MappingRight DEF Translated
<1>4. IsMain(main) /\ 1 \in Blocks(main) /\ Len(main) \in Nat /\ main[1].args = <<>>
  <2>1. IsMain(main)
    BY <1>3 DEF Mapping
  <2>2. Len(main) \in Nat /\ Len(main) # 0
    BY <2>1 DEF IsMain, IsSeq
  <2>3. 1 \in Blocks(main)
    BY <2>2 DEF Blocks
  <2> QED
    BY <2>1, <2>2, <2>3 DEF IsMain
<1>5. Visible(main, 1) = {}
  <2>1. Range(main[1].args) = {}
    BY <1>4 DEF Range
  <2>2. {x \in 1 .. 1 - 1 : Dominates(main, x, 1)} = {}
    OBVIOUS
  <2> QED
    BY <2>1, <2>2 DEF Visible
<1>6. NoneAhead(main, 1)
  <2>1. \A x \in Blocks(main) : 1 < x => x # 1
    BY DEF Blocks
  <2>2. \A x : Dominates(main, x, 1) => x = 1
    BY <1>4, DominatesUnfolds
  <2> QED
    BY <2>1, <2>2 DEF NoneAhead
<1>7. SightRight(main, regOf, regs, Visible(main, 1))
  BY <1>5 DEF SightRight
<1>8. RunPart(main, regOf, code, 1, 1, regs, out, settled)
  <2>1. IsSeq(out)
    BY <1>2 DEF IsSeq
  <2>2. RunPart(main, regOf, code, 1, 1, regs, out, out)
    BY <1>2, <1>3, <1>4, <1>6, <1>7, <2>1, BlockBegins
  <2> QED
    BY <1>2, <2>2
<1>9. pos'[1] = 1 /\ pos'[2] = 1
  BY <1>1
<1>10. RunInv'
  BY <1>1, <1>2, <1>8, <1>9 DEF RunInv
<1>11. AbstractAt = 1 /\ EnvNow = NoEnv(main)
  BY <1>1, EnvNowIs DEF EnvShape
<1>12. AbstractAt' = 1 /\ EnvNow' = EnvAt(main, regOf, regs, 1)
  <2>1. 1 # 0
    OBVIOUS
  <2> QED
    BY <1>1, <1>9, <2>1, EnvNextIs DEF EnvShape
<1>13. EnvAt(main, regOf, regs, 1) = NoEnv(main)
  BY <1>5 DEF EnvAt, NoEnv
<1> QED
  BY <1>1, <1>10, <1>11, <1>12, <1>13 DEF AbsSame

LEMMA TranslationSame ==
  ASSUME RunInv, TransInv', Translate
  PROVE  RunInv' /\ AbsSame
<1>1. CASE SetBlockTypes /\ stage' = "run"
  BY <1>1, RunBegins
<1>2. CASE ~(SetBlockTypes /\ stage' = "run")
  <2>1. /\ stage \notin {"run", "returned"} /\ stage' \notin {"run", "returned"}
        /\ UNCHANGED <<main, regs, out, settled>>
    <3>1. CASE EmplaceBlock \/ BlkMeta
      BY <3>1 DEF EmplaceBlock, BlkMeta, Fail, Advance, execution
    <3>2. CASE Constant \/ RemoteIDRef \/ CmpI \/ ExtUI \/ AddSub
      BY <3>2 DEF Constant, RemoteIDRef, CmpI, ExtUI, AddSub, At, Fail, execution
    <3>3. CASE MulI \/ Communicate \/ Call
      BY <3>3 DEF MulI, Communicate, Call, At, Fail, execution
    <3>4. CASE NopTerm \/ Branch \/ Return
      BY <3>4 DEF NopTerm, Branch, Return, AtTerminator, NextBlock, Fail, execution
    <3>5. CASE CondBranch
      BY <3>5 DEF CondBranch, AtTerminator, NextBlock, Fail, execution
    <3>6. CASE DeleteEmptyBlock \/ RemoveReferences
      BY <3>6 DEF DeleteEmptyBlock, RemoveReferences, execution
    <3>7. CASE SetBlockTypes
      BY <1>2, <3>7 DEF SetBlockTypes, Fail, execution
    <3> QED
      BY <3>1, <3>2, <3>3, <3>4, <3>5, <3>6, <3>7 DEF Translate
  <2>2. DOMAIN regs = 0 .. HostRegisters - 1 /\ out = <<>> /\ settled = <<>>
    BY <2>1 DEF RunInv
  <2>3. RunInv'
    BY <2>1, <2>2 DEF RunInv
  <2>4. AbstractAt = 1 /\ EnvNow = NoEnv(main)
    BY <2>1, EnvNowIs DEF EnvShape
  <2>5. AbstractAt' = 1 /\ EnvNow' = NoEnv(main)
    BY <2>1, EnvNextIs DEF EnvShape
  <2> QED
    BY <2>1, <2>3, <2>4, <2>5 DEF AbsSame
<1> QED
  BY <1>1, <1>2

LEMMA RunInvInit == Init => RunInv
<1> SUFFICES ASSUME Init PROVE RunInv
  OBVIOUS
<1>1. TransInv
  BY TransInvInit
<1> QED
  BY <1>1 DEF Init, RunInv, NoRegs

LEMMA RunInvNext == RunInv /\ [Next]_vars => RunInv' /\ (AbsStep \/ AbsSame)
<1> SUFFICES ASSUME RunInv, [Next]_vars PROVE RunInv' /\ (AbsStep \/ AbsSame)
  OBVIOUS
<1>1. TransInv'
  BY TransInvNext DEF RunInv
<1>2. CASE UNCHANGED vars
  <2>1. UNCHANGED <<main, stage, pos, regOf, code, regs, out, settled>>
    BY <1>2 DEF vars, translation, execution
  <2>2. RunInv'
    BY <1>1, <2>1 DEF RunInv
  <2>3. AbsSame
    BY <2>1 DEF AbsSame, AbstractAt, EnvNow, Finished, Meaning, Unmapped
  <2> QED
    BY <2>2, <2>3
<1>3. CASE Translate
  BY <1>1, <1>3, TranslationSame
<1>4. CASE Execute
  BY <1>1, <1>4, ExecuteSame
<1>5. CASE JumpTo
  BY <1>1, <1>5, JumpGoes
<1>6. CASE BranchTo
  BY <1>1, <1>6, BranchGoes
<1>7. CASE FallThrough
  BY <1>1, <1>7, FallsThrough
<1> QED
  BY <1>2, <1>3, <1>4, <1>5, <1>6, <1>7 DEF Next, Run

LEMMA StepIsOne ==
  ASSUME AbsStep
  PROVE  MLIR!Step /\ UNCHANGED main
<1> DEFINE fetched == MLIR!Fetched(AbstractAt)
<1>1. /\ main' = main /\ AbstractAt # 0
      /\ StepOf(main, AbstractAt, EnvNow, settled, AbstractAt', EnvNow', settled')
  BY DEF AbsStep
<1>2. fetched = FetchedIn(main, AbstractAt)
  BY SameFetched
<1>3. PICK got \in [FetchedIn(main, AbstractAt) -> Bits] :
        LET end == MLIR!AtEnd(main, AbstractAt, EnvNow, got)
            term == main[AbstractAt].term
            n == Taken(main, AbstractAt, end)
            dest == IF term.k = "next" THEN AbstractAt + 1 ELSE term.to[n]
            passed == IF term.k = "next" THEN <<>> ELSE term.with[n]
        IN  IF term.k = "return"
              THEN /\ AbstractAt' = 0
                   /\ EnvNow' = [v \in DOMAIN EnvNow |-> NoValue]
                   /\ settled' = settled \o SentIn(main, AbstractAt, end) \o [i \in DOMAIN term.args |-> end[term.args[i]]]
              ELSE /\ AbstractAt' = dest
                   /\ EnvNow' = Enter(main, dest, passed, end)
                   /\ settled' = settled \o SentIn(main, AbstractAt, end)
  BY <1>1 DEF StepOf
<1> HIDE DEF fetched
<1>4. got \in [fetched -> Bits]
  BY <1>2
<1> DEFINE end == MLIR!AtEnd(main, AbstractAt, EnvNow, got)
<1>5. MLIR!Sent(AbstractAt, end) = SentIn(main, AbstractAt, end) /\ MLIR!Taken(main, AbstractAt, end) = Taken(main, AbstractAt, end)
  BY SameSent, SameTaken
<1>6. \A d, passed : MLIR!Enter(main, d, passed, end) = Enter(main, d, passed, end)
  BY SameEnter
<1> HIDE DEF end
<1>7. LET term == main[AbstractAt].term
          n == MLIR!Taken(main, AbstractAt, end)
          dest == IF term.k = "next" THEN AbstractAt + 1 ELSE term.to[n]
          passed == IF term.k = "next" THEN <<>> ELSE term.with[n]
      IN  IF term.k = "return"
            THEN /\ AbstractAt' = 0
                 /\ EnvNow' = [v \in DOMAIN EnvNow |-> NoValue]
                 /\ settled' = settled \o MLIR!Sent(AbstractAt, end) \o [i \in DOMAIN term.args |-> end[term.args[i]]]
            ELSE /\ AbstractAt' = dest
                 /\ EnvNow' = MLIR!Enter(main, dest, passed, end)
                 /\ settled' = settled \o MLIR!Sent(AbstractAt, end)
  BY <1>3, <1>5, <1>6 DEF end
<1> QED
  BY <1>1, <1>4, <1>7 DEF MLIR!Step, EnvNow, fetched, end

LEMMA RunStarts == Init => MLIR!Init
<1> SUFFICES ASSUME Init PROVE MLIR!Init
  OBVIOUS
<1>1. stage = "place" /\ settled = <<>>
  BY DEF Init
<1>2. AbstractAt = 1 /\ EnvNow = NoEnv(main)
  BY <1>1, EnvNowIs DEF EnvShape
<1>3. NoEnv(main) = [v \in MLIR!Values(main) |-> NoValue]
  BY SameValues DEF NoEnv
<1> QED
  BY <1>1, <1>2, <1>3 DEF MLIR!Init, EnvNow

(***************************************************************************)
(* A run of the translated blocks is one of the main function as MLIR      *)
(* defines it, whatever receives and routines deliver: in front of each    *)
(* block the visible values are in the registers they are mapped to,       *)
(* whatever has been copied on the way, the block that comes next is the   *)
(* one the terminator says, and what was sent and returned is the same, in *)
(* the same order (translateBlock, createAliasOps, translateCompareOp).    *)
(* It is what RunImplemented says of the safety of a run, for every        *)
(* program, word and number of registers.                                  *)
(***************************************************************************)
THEOREM RunRight == Spec => MLIR!Spec
<1>1. RunInv /\ [Next]_vars =>
        [MLIR!Step /\ UNCHANGED main]_<<main, AbstractAt, [v \in Values(main) |->
           IF Finished /\ AbstractAt # 0 THEN Meaning(v) ELSE NoValue], settled>>
  <2> SUFFICES ASSUME RunInv, [Next]_vars
               PROVE  [MLIR!Step /\ UNCHANGED main]_<<main, AbstractAt, [v \in Values(main) |->
                         IF Finished /\ AbstractAt # 0 THEN Meaning(v) ELSE NoValue], settled>>
    OBVIOUS
  <2>1. AbsStep \/ AbsSame
    BY RunInvNext
  <2>2. CASE AbsStep
    BY <2>2, StepIsOne
  <2>3. CASE AbsSame
    BY <2>3 DEF AbsSame, EnvNow
  <2> QED
    BY <2>1, <2>2, <2>3
<1>2. RunInv /\ [Next]_vars => RunInv'
  BY RunInvNext
<1> QED
  BY <1>1, <1>2, RunInvInit, RunStarts, PTL DEF Spec, MLIR!Spec
=============================================================================
