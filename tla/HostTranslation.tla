-------------------------- MODULE HostTranslation ---------------------------
(***************************************************************************)
(* Translation of the main function to the host section of iQoala, and a   *)
(* run of the result.  One host block is made per MLIR block; operations   *)
(* become instructions on host registers; a branch passes values to a      *)
(* block by copying registers, one after the other.  Then blocks without   *)
(* instructions are deleted, references to them removed, and the rest get  *)
(* their types.  The host walks the blocks in the order they are listed:   *)
(* it goes on with the next one unless a jump says otherwise.              *)
(*                                                                         *)
(* What a call does to qubits is in RoutineTranslation; here a call has    *)
(* the classical operands and results.                                     *)
(*                                                                         *)
(* A definition marked Fault is the one below it as a plausible mistake    *)
(* would have it; it is not part of the specification.                     *)
(***************************************************************************)
EXTENDS HostMain, FiniteSets

CONSTANTS
  Programs,       \* the main functions to translate
  HostRegisters,  \* host registers: 64
  Bits            \* what a receive or a routine delivers

ASSUME HostAssumption ==
  /\ HostRegisters \in Nat
  /\ Word \in Nat \ {0}
  /\ Bits \subseteq 0 .. Word - 1

ASSUME ProgramsAssumption == \A p \in Programs : IsMain(p)

Unmapped == HostRegisters

VARIABLES
  main,     \* the main function
  stage,    \* of the translation, then of the run
  pos,      \* the block, and the operation in it, that is next
  regOf,    \* the register of each value
  nregs,    \* how many registers are allocated
  cmps,     \* cmpMap: the values a branch can test
  ids,      \* the blocks whose block_id was met
  code,     \* the instructions of each block
  meta,     \* what each block's header refers to
  removed,  \* blocks that were deleted
  type,     \* the type of each block
  regs,     \* run: the host registers
  out,      \* run: messages sent and results returned
  settled   \* run: out when the current block was entered

translation == <<regOf, nregs, cmps, ids, code, meta, removed, type>>
execution == <<regs, out, settled>>
vars == <<main, stage, pos, translation, execution>>

NoMeta == [preds |-> <<>>, deps |-> <<>>, comm |-> 0, ent |-> 0, deadlines |-> {}]

NoRegs == [r \in 0 .. HostRegisters - 1 |-> NoValue]

Init ==
  /\ main \in Programs
  /\ stage = "place"
  /\ pos = <<1, 0>>
  /\ regOf = [v \in Values(main) |-> Unmapped]
  /\ nregs = 0
  /\ cmps = {}
  /\ ids = {}
  /\ code = [b \in Blocks(main) |-> <<>>]
  /\ meta = [b \in Blocks(main) |-> NoMeta]
  /\ removed = {}
  /\ type = [b \in Blocks(main) |-> "CL"]
  /\ regs = NoRegs
  /\ out = <<>>
  /\ settled = <<>>

Fail ==
  /\ stage' = "failed"
  /\ UNCHANGED <<main, pos, translation, execution>>

\* A register of its own for each value, in order.
NewRegisters(vs) ==
  [v \in DOMAIN regOf |->
     IF v \in Range(vs) THEN nregs + (CHOOSE i \in DOMAIN vs : vs[i] = v) - 1 ELSE regOf[v]]

Allocates(vs) ==
  /\ nregs + Len(vs) <= HostRegisters
  /\ nregs' = nregs + Len(vs)
  /\ regOf' = NewRegisters(vs)

\* Blocks are made before any operation is translated: a branch may name any of them,
\* and copy to the registers of its arguments.
EmplaceBlock ==
  LET b == pos[1]
  IN  /\ stage = "place"
      /\ Allocates(main[b].args)
      /\ IF b = Len(main)
           THEN stage' = "emit" /\ pos' = <<1, 0>>
           ELSE pos' = <<b + 1, 0>> /\ UNCHANGED stage
      /\ UNCHANGED <<main, cmps, ids, code, meta, removed, type, execution>>
-----------------------------------------------------------------------------
(***************************************************************************)
(* Operations                                                              *)
(***************************************************************************)
Instr(op, dst, src, val, to) == [op |-> op, dst |-> dst, src |-> src, val |-> val, to |-> to]

\* The operation that is translated next, and its registers.
Op == main[pos[1]].ops[pos[2]]
Advance == pos' = <<pos[1], pos[2] + 1>>
Mapped(vs) == \A i \in DOMAIN vs : regOf[vs[i]] # Unmapped
RegsOf(vs) == [i \in DOMAIN vs |-> regOf[vs[i]]]
At(kinds) ==
  /\ stage = "emit"
  /\ pos[2] \in 1 .. Len(main[pos[1]].ops)
  /\ Op.k \in kinds

\* An instruction with these operands, whose results get new registers.
Build(op, src, val) ==
  /\ Allocates(Op.res)
  /\ code' = [code EXCEPT ![pos[1]] =
       Append(@, Instr(op, [i \in DOMAIN Op.res |-> nregs + i - 1], src, val, 0))]

\* Integer constants; those of type i1 can be tested by a branch.
Constant ==
  /\ At({"const", "flag"})
  /\ Build("assign", <<>>, Op.val)
  /\ cmps' = IF Op.k = "flag" THEN cmps \cup Range(Op.res) ELSE cmps
  /\ Advance
  /\ UNCHANGED <<main, stage, ids, meta, removed, type, execution>>

\* The classical socket of a remote.
RemoteIDRef ==
  /\ At({"sock"})
  /\ Build("assign", <<>>, Op.val)
  /\ Advance
  /\ UNCHANGED <<main, stage, cmps, ids, meta, removed, type, execution>>

\* A comparison becomes part of the branch that tests it.
CmpI ==
  /\ At({"cmp"})
  /\ cmps' = cmps \cup Range(Op.res)
  /\ Advance
  /\ UNCHANGED <<main, stage, regOf, nregs, ids, code, meta, removed, type, execution>>

\* An extension is another name for its operand.
ExtUI ==
  /\ At({"ext"})
  /\ Mapped(Op.args)
  /\ regOf' = [regOf EXCEPT ![Op.res[1]] = regOf[Op.args[1]]]
  /\ Advance
  /\ UNCHANGED <<main, stage, nregs, cmps, ids, code, meta, removed, type, execution>>

AddSub ==
  /\ At({"add", "sub"})
  /\ Mapped(Op.args)
  /\ Build(Op.k, RegsOf(Op.args), 0)
  /\ Advance
  /\ UNCHANGED <<main, stage, cmps, ids, meta, removed, type, execution>>

IsConstant(v) == ~IsArgument(main, v) /\ DefiningOp(main, v).k \in {"const", "flag"}

\* A factor that is a constant becomes an immediate.  The defining operation of a block
\* argument is null, and is asked what it is.
MulI ==
  LET a == Op.args[1]
      b == Op.args[2]
      times(v, c) == Build("mulc", RegsOf(<<v>>), DefiningOp(main, c).val)
  IN  /\ At({"mul"})
      /\ IF IsArgument(main, a) \/ (~IsConstant(a) /\ IsArgument(main, b))
           THEN Fail
           ELSE /\ CASE IsConstant(a) -> Mapped(<<b>>) /\ times(b, a)
                     [] ~IsConstant(a) /\ IsConstant(b) -> Mapped(<<a>>) /\ times(a, b)
                     [] OTHER -> Mapped(Op.args) /\ Build("mul", RegsOf(Op.args), 0)
                /\ Advance
                /\ UNCHANGED <<main, stage, cmps, ids, meta, removed, type, execution>>

\* Messages go through the socket of their remote.
Communicate ==
  /\ At({"send", "recv"})
  /\ Mapped(Op.args)
  /\ Build(Op.k, RegsOf(Op.args), 0)
  /\ Advance
  /\ UNCHANGED <<main, stage, cmps, ids, meta, removed, type, execution>>

Call ==
  /\ At({"local", "request"})
  /\ Mapped(Op.args)
  /\ Build(Op.k, RegsOf(Op.args), 0)
  /\ Advance
  /\ UNCHANGED <<main, stage, cmps, ids, meta, removed, type, execution>>

\* The header of a block.  Without a previous request it is the previous communication
\* that is reset.
Header(m) == [m EXCEPT !.comm = IF m.ent = 0 THEN 0 ELSE @]

BlkMeta ==
  LET m == main[pos[1]].meta
      named == Range(m.preds) \cup Range(m.deps) \cup ({m.comm, m.ent} \ {0}) \cup m.deadlines
  IN  /\ stage = "emit"
      /\ pos[2] = 0
      /\ IF named \subseteq ids
           THEN /\ meta' = [meta EXCEPT ![pos[1]] = Header(m)]
                /\ ids' = ids \cup {pos[1]}
                /\ Advance
                /\ UNCHANGED <<main, stage, regOf, nregs, cmps, code, removed, type, execution>>
           ELSE Fail
-----------------------------------------------------------------------------
(***************************************************************************)
(* Terminators                                                             *)
(***************************************************************************)
Term == main[pos[1]].term
AtTerminator(k) ==
  /\ stage = "emit"
  /\ pos[2] = Len(main[pos[1]].ops) + 1
  /\ Term.k = k

\* When all blocks are translated, empty ones are deleted.
NextBlock ==
  IF pos[1] = Len(main)
    THEN stage' = "delete" /\ pos' = <<1, 0>>
    ELSE pos' = <<pos[1] + 1, 0>> /\ UNCHANGED stage

Emit(instrs) == code' = [code EXCEPT ![pos[1]] = @ \o instrs]

Jump(b) == Instr("jump", <<>>, <<>>, 0, b)

\* The arguments of block d take the passed values, one after the other.
Aliases(d, passed) ==
  [i \in DOMAIN passed |->
     Instr("copy", <<regOf[main[d].args[i]]>>, <<regOf[passed[i]]>>, 0, 0)]

NopTerm ==
  /\ AtTerminator("next")
  /\ NextBlock
  /\ UNCHANGED <<main, translation, execution>>

Branch ==
  /\ AtTerminator("br")
  /\ Mapped(Term.with[1])
  /\ Emit(Append(Aliases(Term.to[1], Term.with[1]), Jump(Term.to[1])))
  /\ NextBlock
  /\ UNCHANGED <<main, regOf, nregs, cmps, ids, meta, removed, type, execution>>

\* The branch instructions there are.
Supported == {"eq", "ne", "gt", "lt"}

\* Fault: the values for the false target are copied before the branch as well
CompareFirst(test, t, f) ==
  Aliases(t, Term.with[1]) \o Aliases(f, Term.with[2])
    \o <<Instr(test.pred, <<>>, RegsOf(test.args), 0, t), Jump(f)>>

\* The branch jumps if the comparison holds; the jump behind it is for when it does not.
Compare(test, t, f) ==
  Aliases(t, Term.with[1]) \o <<Instr(test.pred, <<>>, RegsOf(test.args), 0, t)>>
    \o Aliases(f, Term.with[2]) \o <<Jump(f)>>

\* A branch on a comparison, or on a constant: then the way is known.
CondBranch ==
  LET test == DefiningOp(main, Term.cond)
      way == IF test.val = 0 THEN 2 ELSE 1
  IN  /\ AtTerminator("cond")
      /\ IF Term.cond \notin cmps \/ (test.k = "cmp" /\ test.pred \notin Supported)
           THEN Fail
           ELSE /\ test.k = "cmp" => Mapped(test.args)
                /\ Mapped(Term.with[1] \o Term.with[2])
                /\ Emit(IF test.k = "cmp" THEN Compare(test, Term.to[1], Term.to[2])
                        ELSE Append(Aliases(Term.to[way], Term.with[way]), Jump(Term.to[way])))
                /\ NextBlock
                /\ UNCHANGED <<main, regOf, nregs, cmps, ids, meta, removed, type, execution>>

\* Nothing is emitted for a return without values.
Return ==
  /\ AtTerminator("return")
  /\ Mapped(Term.args)
  /\ Emit([i \in DOMAIN Term.args |-> Instr("return", <<>>, <<regOf[Term.args[i]]>>, 0, 0)])
  /\ NextBlock
  /\ UNCHANGED <<main, regOf, nregs, cmps, ids, meta, removed, type, execution>>
-----------------------------------------------------------------------------
(***************************************************************************)
(* Sections                                                                *)
(***************************************************************************)
ContainsJumpTo(b, d) == \E i \in DOMAIN code[b] : code[b][i].op = "jump" /\ code[b][i].to = d

\* Fault: a block without instructions is always deleted
DeleteAnyEmpty(d) == {FALSE}

\* Every block made so far is asked, also those that were deleted: what freed memory
\* answers is open.
UsedAsJumpDestination(d) ==
  IF \E b \in Blocks(main) \ removed : ContainsJumpTo(b, d) THEN {TRUE}
  ELSE IF removed = {} THEN {FALSE} ELSE BOOLEAN

DeleteEmptyBlock ==
  LET b == pos[1]
  IN  /\ stage = "delete"
      /\ \E used \in UsedAsJumpDestination(b) :
           removed' = IF used \/ code[b] # <<>> THEN removed ELSE removed \cup {b}
      /\ IF b = Len(main)
           THEN stage' = "clean" /\ pos' = <<1, 0>>
           ELSE pos' = <<b + 1, 0>> /\ UNCHANGED stage
      /\ UNCHANGED <<main, regOf, nregs, cmps, ids, code, meta, type, execution>>

\* Fault: everything behind a removed block goes as well
RemoveOnwards(m, S) ==
  LET cut(s) == SelectInSeq(s, LAMBDA b : b \in S)
      front(s) == IF cut(s) = 0 THEN s ELSE SubSeq(s, 1, cut(s) - 1)
  IN  [m EXCEPT !.preds = front(@), !.deps = front(@),
                !.comm = IF @ \in S THEN 0 ELSE @, !.ent = IF @ \in S THEN 0 ELSE @]

\* The first occurrence of each member of S goes.
Without(s, S) ==
  LET kept == InOrder({i \in DOMAIN s : s[i] \notin S \/ \E j \in 1 .. i - 1 : s[j] = s[i]})
  IN  [n \in DOMAIN kept |-> s[kept[n]]]

\* One occurrence of each removed block goes; deadlines are not looked at.
WithoutReferences(m, S) ==
  [m EXCEPT !.preds = Without(@, S),
            !.deps = Without(@, S),
            !.comm = IF @ \in S THEN 0 ELSE @,
            !.ent = IF @ \in S THEN 0 ELSE @]

RemoveReferences ==
  /\ stage = "clean"
  /\ meta' = [b \in DOMAIN meta |->
                IF b \in removed THEN meta[b] ELSE WithoutReferences(meta[b], removed)]
  /\ stage' = "type"
  /\ UNCHANGED <<main, pos, regOf, nregs, cmps, ids, code, removed, type, execution>>

Has(b, op) == \E i \in DOMAIN code[b] : code[b][i].op = op

TypeOf(b) ==
  CASE Has(b, "request") -> "QC"
    [] ~Has(b, "request") /\ Has(b, "local") -> "QL"
    [] ~Has(b, "request") /\ ~Has(b, "local") /\ Has(b, "recv") -> "CC"
    [] OTHER -> "CL"

\* A block with a call or a receive has no other instruction.
SetBlockTypes ==
  LET listed == Blocks(main) \ removed
  IN  /\ stage = "type"
      /\ IF \E b \in listed : TypeOf(b) # "CL" /\ Len(code[b]) # 1
           THEN Fail
           ELSE /\ type' = [b \in DOMAIN type |-> IF b \in listed THEN TypeOf(b) ELSE type[b]]
                /\ stage' = "run"
                /\ pos' = <<1, 1>>
                /\ UNCHANGED <<main, regOf, nregs, cmps, ids, code, meta, removed, execution>>
-----------------------------------------------------------------------------
(***************************************************************************)
(* A run: the host                                                         *)
(***************************************************************************)
Running(ops) ==
  /\ stage = "run"
  /\ pos[2] <= Len(code[pos[1]])
  /\ code[pos[1]][pos[2]].op \in ops

Current == code[pos[1]][pos[2]]
Src(i) == regs[Current.src[i]]
Writes(x) == regs' = [regs EXCEPT ![Current.dst[1]] = x]

Execute ==
  /\ Running({"assign", "copy", "add", "sub", "mul", "mulc", "send", "return", "recv", "local", "request"})
  /\ LET op == Current.op
     IN  CASE op = "assign" -> Writes(Current.val) /\ UNCHANGED out
           [] op = "copy" -> Writes(Src(1)) /\ UNCHANGED out
           [] op \in {"add", "sub", "mul"} -> Writes(Calculate(op, Src(1), Src(2))) /\ UNCHANGED out
           [] op = "mulc" -> Writes(Calculate("mul", Src(1), Current.val)) /\ UNCHANGED out
           [] op = "send" -> out' = Append(out, Src(2)) /\ UNCHANGED regs
           [] op = "return" -> out' = Append(out, Src(1)) /\ UNCHANGED regs
           [] OTHER ->
                /\ \E got \in [Range(Current.dst) -> Bits] :
                     regs' = [r \in DOMAIN regs |-> IF r \in DOMAIN got THEN got[r] ELSE regs[r]]
                /\ UNCHANGED out
  /\ Advance
  /\ UNCHANGED <<main, stage, translation, settled>>

\* Only what is listed can be jumped to.
Leave(b) ==
  /\ b \notin removed
  /\ pos' = <<b, 1>>
  /\ settled' = out
  /\ UNCHANGED <<main, stage, translation, regs, out>>

JumpTo == Running({"jump"}) /\ Leave(Current.to)

BranchTo ==
  /\ Running(Supported)
  /\ IF Holds(Current.op, Src(1), Src(2))
       THEN Leave(Current.to)
       ELSE Advance /\ UNCHANGED <<main, stage, translation, execution>>

\* Behind the last instruction of a block comes the next block.
FallThrough ==
  /\ stage = "run"
  /\ pos[2] > Len(code[pos[1]])
  /\ IF pos[1] = Len(main)
       THEN stage' = "returned" /\ UNCHANGED pos
       ELSE pos' = <<pos[1] + 1, 1>> /\ UNCHANGED stage
  /\ settled' = out
  /\ UNCHANGED <<main, translation, regs, out>>
-----------------------------------------------------------------------------
Translate ==
  \/ EmplaceBlock \/ BlkMeta
  \/ Constant \/ RemoteIDRef \/ CmpI \/ ExtUI \/ AddSub \/ MulI \/ Communicate \/ Call
  \/ NopTerm \/ Branch \/ CondBranch \/ Return
  \/ DeleteEmptyBlock \/ RemoveReferences \/ SetBlockTypes

Run == Execute \/ JumpTo \/ BranchTo \/ FallThrough

Next == Translate \/ Run

Spec == Init /\ [][Next]_vars /\ WF_vars(Next)
-----------------------------------------------------------------------------
(***************************************************************************)
(* Properties                                                              *)
(***************************************************************************)
Finished == stage \in {"run", "returned"}

\* The run of the host blocks is a run of the main function: each block leaves the values
\* that are visible at the next in the registers they are mapped to, whatever has been
\* copied on the way, and the same messages are sent and results returned in the same order.
AbstractAt == IF stage = "returned" THEN 0 ELSE IF stage = "run" THEN pos[1] ELSE 1

Meaning(v) ==
  IF v \notin Visible(main, AbstractAt) THEN NoValue
  ELSE IF regOf[v] # Unmapped THEN regs[regOf[v]]
  ELSE LET test == DefiningOp(main, v)
       IN  AsBit(Holds(test.pred, regs[regOf[test.args[1]]], regs[regOf[test.args[2]]]))

MLIR == INSTANCE MainRun WITH
          at <- AbstractAt,
          env <- [v \in Values(main) |->
                    IF Finished /\ AbstractAt # 0 THEN Meaning(v) ELSE NoValue],
          out <- settled

\* And it returns, unless the translation fails.
RunImplemented == MLIR!Spec /\ <>(stage \in {"returned", "failed"})

\* The header of a listed block refers to listed blocks only (removeAllBlockReferences finds
\* every reference, iQoalaMCBlocks.cpp:36), and apart from removed blocks nothing of the order
\* that the passes worked out is lost: predecessors, dependencies and the previous request are
\* those of blk_meta.
HeaderOrderKept ==
  Finished =>
    \A b \in Blocks(main) \ removed :
      LET m == main[b].meta
      IN  /\ Range(meta[b].preds) = Range(m.preds) \ removed
          /\ Range(meta[b].deps) = Range(m.deps) \ removed
          /\ meta[b].comm \notin removed
          /\ meta[b].ent = (IF m.ent \in removed THEN 0 ELSE m.ent)

\* What a jump names is listed, whichever blocks were deleted before it was looked at.
JumpsResolve ==
  Finished => \A b \in Blocks(main), d \in removed : ~ContainsJumpTo(b, d)

-----------------------------------------------------------------------------
(***************************************************************************)
(* What a comment and a test say, and the code does not do                 *)
(***************************************************************************)

\* iQoalaMCSections.cpp:111-112: "We want to preserve the blocks that are used as a jump
\* destination, even if they are empty".
BranchTargetsListed ==
  Finished =>
    \A b \in Blocks(main) : \A i \in DOMAIN code[b] : code[b][i].to \notin removed

\* iQoala-reference-to-removed-block.mlir expects the references of a block to stay, apart from
\* those to a removed block; prev_comm is one of them.
HeadersKept ==
  Finished =>
    \A b \in Blocks(main) \ removed :
      meta[b].comm = (IF main[b].meta.comm \in removed THEN 0 ELSE main[b].meta.comm)
=============================================================================
