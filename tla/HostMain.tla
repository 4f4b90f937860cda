------------------------------ MODULE HostMain ------------------------------
(***************************************************************************)
(* The main function the translation to iQoala is given, as data, and what *)
(* MLIR says a run of it does.                                             *)
(*                                                                         *)
(* A program is a sequence of blocks.  A block has arguments (values), a   *)
(* sequence of operations [k, res, args, val, pred], a terminator [k, to,  *)
(* with, cond, args] and the metadata [preds, deps, comm, ent, deadlines] of its *)
(* blk_meta.  Jumps go forward.  Names are abstracted to places: a block   *)
(* is its index, and so is its block_id.                                   *)
(***************************************************************************)
EXTENDS Naturals, Sequences, SequencesExt, Listing

CONSTANTS
  Word,    \* bound: integers are below it; 2^32 in the code
  NoValue  \* a value that is not defined yet

Blocks(p) == 1 .. Len(p)

\* The values operations of block b define, and those it has by its end.
Results(p, b) == UNION {Range(p[b].ops[i].res) : i \in 1 .. Len(p[b].ops)}
Defines(p, b) == Range(p[b].args) \cup Results(p, b)
Values(p) == UNION {Defines(p, b) : b \in Blocks(p)}

\* nop_term has no successor in MLIR: control goes on with the next block.
Targets(p, b) ==
  CASE p[b].term.k = "next" -> {b + 1}
    [] p[b].term.k = "return" -> {}
    [] OTHER -> Range(p[b].term.to)

\* Every way from the first block to b leads through d.
Dominates(p, d, b) ==
  LET reached[x \in Blocks(p)] ==
        x # d /\ (x = 1 \/ \E y \in 1 .. x - 1 : x \in Targets(p, y) /\ reached[y])
  IN  d = b \/ ~reached[b]

\* What is defined when control enters block b.
Visible(p, b) ==
  Range(p[b].args) \cup UNION {Defines(p, d) : d \in {x \in 1 .. b - 1 : Dominates(p, x, b)}}

\* The operation that defines a value: one of the program's, or none for a block argument.
OpsOf(p, v) ==
  UNION {{p[b].ops[i] : i \in {j \in DOMAIN p[b].ops : v \in Range(p[b].ops[j].res)}} : b \in Blocks(p)}
IsArgument(p, v) == OpsOf(p, v) = {}
DefiningOp(p, v) == CHOOSE op \in OpsOf(p, v) : TRUE

\* A comparison of two integers, and arithmetic on them.
Holds(pred, a, b) ==
  CASE pred = "eq" -> a = b
    [] pred = "ne" -> a # b
    [] pred = "gt" -> a > b
    [] pred = "lt" -> a < b
    [] pred = "ge" -> a >= b

Calculate(k, a, b) ==
  CASE k = "add" -> (a + b) % Word
    [] k = "sub" -> (a + Word - b) % Word
    [] k = "mul" -> (a * b) % Word

AsBit(c) == IF c THEN 1 ELSE 0

Fetches(op) == op.k \in {"recv", "local", "request"}

\* The results of an operation are x.
Yields(op, env, x) == [v \in DOMAIN env |-> IF v \in Range(op.res) THEN x ELSE env[v]]

\* What an operation adds to env; got holds what receives and calls deliver.
After(op, env, got) ==
  LET arg(i) == env[op.args[i]]
  IN  CASE op.k \in {"const", "flag", "sock"} -> Yields(op, env, op.val)
        [] op.k = "cmp" -> Yields(op, env, AsBit(Holds(op.pred, arg(1), arg(2))))
        [] op.k = "ext" -> Yields(op, env, arg(1))
        [] op.k \in {"add", "sub", "mul"} -> Yields(op, env, Calculate(op.k, arg(1), arg(2)))
        [] Fetches(op) -> [v \in DOMAIN env |-> IF v \in Range(op.res) THEN got[v] ELSE env[v]]
        [] OTHER -> env

\* The values at the end of block b.
AtEnd(p, b, env, got) ==
  LET after[i \in 0 .. Len(p[b].ops)] ==
        IF i = 0 THEN env ELSE After(p[b].ops[i], after[i - 1], got)
  IN  after[Len(p[b].ops)]

\* Which successor a run takes: the index in term.to.
Taken(p, b, env) ==
  IF p[b].term.k = "cond" /\ env[p[b].term.cond] = 0 THEN 2 ELSE 1

\* Entering block d: its arguments take the passed values at once, and what is out of
\* sight is forgotten.
Enter(p, d, passed, env) ==
  [v \in DOMAIN env |->
     IF v \notin Visible(p, d) THEN NoValue
     ELSE IF \E i \in DOMAIN p[d].args : p[d].args[i] = v
            THEN env[passed[CHOOSE i \in DOMAIN p[d].args : p[d].args[i] = v]]
            ELSE env[v]]
-----------------------------------------------------------------------------
(***************************************************************************)
(* Which sequences of blocks are main functions.                           *)
(***************************************************************************)
\* The values made at place i of block b: its arguments, or what an operation returns.
Made(p, b, i) == IF i = 0 THEN p[b].args ELSE p[b].ops[i].res
Places(p, b) == 0 .. Len(p[b].ops)

\* Everything defined at place i of block b.
InSight(p, b, i) == Visible(p, b) \cup UNION {Range(p[b].ops[j].res) : j \in 1 .. i - 1}

IsSeq(s) == s \in Seq(Range(s))

\* Operations have the operands and results of their kind.
IsOperation(op) ==
  /\ op.k \in {"const", "flag", "sock", "cmp", "ext", "add", "sub", "mul", "send", "recv", "local", "request"}
  /\ IsSeq(op.res) /\ IsSeq(op.args)
  /\ op.val \in 0 .. Word - 1
  /\ op.k \in {"const", "flag", "sock"} => op.args = <<>>
  /\ op.k \notin {"send", "local", "request"} => Len(op.res) = 1
  /\ op.k = "send" => op.res = <<>>
  /\ op.k \in {"cmp", "add", "sub", "mul", "send"} => Len(op.args) = 2
  /\ op.k = "ext" => Len(op.args) = 1

\* A value is made once.
SingleAssignment(p) ==
  \A b, c \in Blocks(p) : \A i \in Places(p, b), j \in Places(p, c) :
    \A m \in DOMAIN Made(p, b, i), n \in DOMAIN Made(p, c, j) :
      Made(p, b, i)[m] = Made(p, c, j)[n] => <<b, i, m>> = <<c, j, n>>

\* A jump passes values that are in sight to the arguments of a block further on.
IsJump(p, b, to, with) ==
  /\ Len(to) = Len(with) /\ IsSeq(to)
  /\ \A n \in DOMAIN to :
       /\ to[n] \in b + 1 .. Len(p)
       /\ IsSeq(with[n]) /\ Len(with[n]) = Len(p[to[n]].args)
       /\ Range(with[n]) \subseteq InSight(p, b, Len(p[b].ops) + 1)

IsTerminator(p, b) ==
  LET term == p[b].term
  IN  CASE term.k = "next" -> b < Len(p) /\ p[b + 1].args = <<>>
        [] term.k = "br" -> Len(term.to) = 1 /\ IsJump(p, b, term.to, term.with)
        [] term.k = "cond" ->
             /\ Len(term.to) = 2 /\ IsJump(p, b, term.to, term.with)
             /\ term.cond \in InSight(p, b, Len(p[b].ops) + 1)
        [] term.k = "return" ->
             b = Len(p) /\ IsSeq(term.args) /\ Range(term.args) \subseteq InSight(p, b, Len(p[b].ops) + 1)
        [] OTHER -> FALSE

\* A header names no predecessor or dependency twice.
IsHeader(m) ==
  /\ DOMAIN m = {"preds", "deps", "comm", "ent", "deadlines"}
  /\ \A s \in {m.preds, m.deps} : IsSeq(s) /\ IsInjective(s)

\* Operands are in sight, and what is compared is an integer, never a comparison.  Only the
\* last block returns.
IsMain(p) ==
  /\ IsSeq(p) /\ p # <<>> /\ p[1].args = <<>>
  /\ SingleAssignment(p)
  /\ \A b \in Blocks(p) :
       /\ IsSeq(p[b].args) /\ IsSeq(p[b].ops)
       /\ \A i \in DOMAIN p[b].ops :
            LET op == p[b].ops[i]
            IN  /\ IsOperation(op)
                /\ Range(op.args) \subseteq InSight(p, b, i)
                /\ op.k = "cmp" => \A c \in Blocks(p) : \A j \in DOMAIN p[c].ops :
                     p[c].ops[j].k = "cmp" => Range(op.args) \cap Range(p[c].ops[j].res) = {}
       /\ IsTerminator(p, b)
       /\ IsHeader(p[b].meta)
=============================================================================
