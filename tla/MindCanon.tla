----------------------------- MODULE MindCanon -----------------------------
(***************************************************************************)
(* The instructions of the IR (src/src/ir/mod.rs) that integers and        *)
(* control flow lower to, the canonicaliser (src/src/opt/ir_canonical.rs), *)
(* and what instructions without regions do when they are run.             *)
(*                                                                         *)
(* A value id is a number.  A module is [instrs, next]: its top-level      *)
(* stream and the next fresh id.  Region instructions hold their own       *)
(* streams, whose ids come from the same counter.                          *)
(*                                                                         *)
(* The passes go over a stream once, forwards or backwards: each is a      *)
(* function of the number of instructions it has seen.                     *)
(***************************************************************************)
EXTENDS Sequences, SequencesExt, FiniteSetsExt, MindInt

Const(d, v)       == [op |-> "const", dst |-> d, val |-> v]
BinOp(d, f, l, r) == [op |-> "bin", dst |-> d, fn |-> f, lhs |-> l, rhs |-> r]
Output(i)         == [op |-> "output", id |-> i]

\* merges: <<merge id, value of the then branch, value of the else branch>>.
IfInstr(c, cs, ts, tr, es, er, d, bs, ms) ==
    [op |-> "if", cond_id |-> c, cond |-> cs, then |-> ts, then_result |-> tr,
     else |-> es, else_result |-> er, dst |-> d, bindings |-> bs, merges |-> ms]

\* live: <<name, value at the end of the body>>, with the value before the
\* loop in init and the one after it in exit.
WhileInstr(c, cs, b, lv, is, xs) ==
    [op |-> "while", cond_id |-> c, cond |-> cs, body |-> b,
     live |-> lv, init |-> is, exit |-> xs]

\* instruction_dst: a while and an output define nothing by themselves.
Dsts(i) == IF i.op \in {"const", "bin", "if"} THEN {i.dst} ELSE {}

\* for_each_operand: reads of the enclosing scope, regions not entered.
Operands(i) ==
    CASE i.op = "const"  -> {}
      [] i.op = "bin"    -> {i.lhs, i.rhs}
      [] i.op = "output" -> {i.id}
      [] i.op = "while"  -> ToSet(i.init)
      [] i.op = "if"     -> UNION {{m[2], m[3]} : m \in ToSet(i.merges)}

\* expose_region_definitions
Exposed(i) ==
    CASE i.op = "if"    -> {i.dst} \cup {m[1] : m \in ToSet(i.merges)}
      [] i.op = "while" -> ToSet(i.exit)
      [] OTHER          -> Dsts(i)

\* instruction_id_bound
Named(i) ==
    Dsts(i) \cup Operands(i) \cup Exposed(i)
      \cup (IF i.op = "if" THEN {b[2] : b \in ToSet(i.bindings)} ELSE {})

NextSequentialId(instrs) ==
    Max({0} \cup UNION {{id + 1 : id \in Named(i)} : i \in ToSet(instrs)})

\* f with the value v at d.
With(f, d, v) == [x \in DOMAIN f \cup {d} |-> IF x = d THEN v ELSE f[x]]

(***************************************************************************)
(* Canonicalisation, on the top-level stream only.                         *)
(***************************************************************************)
\* An instruction that is kept marks the ids below n that it reads.
Marked(used, i, n) ==
    IF Dsts(i) = {} \/ Dsts(i) \cap used # {}
    THEN used \cup {o \in Operands(i) : o < n} ELSE used

\* The ids marked when the stream was seen from its end.
Used(instrs, n) ==
    LET used[k \in 0 .. Len(instrs)] ==
          IF k = 0 THEN {} ELSE Marked(used[k - 1], instrs[Len(instrs) + 1 - k], n)
    IN  used[Len(instrs)]

\* The instructions that define nothing or one of the ids `used`, in order.
Retained(instrs, used) ==
    LET kept[k \in 0 .. Len(instrs)] ==
          IF k = 0 THEN <<>>
          ELSE IF Dsts(instrs[k]) \subseteq used THEN Append(kept[k - 1], instrs[k])
          ELSE kept[k - 1]
    IN  kept[Len(instrs)]

PruneDead(instrs, n) == Retained(instrs, Used(instrs, n))

Commuted(i) ==
    IF i.op = "bin" /\ i.fn \in {"+", "*"} /\ i.rhs < i.lhs
    THEN [i EXCEPT !.lhs = i.rhs, !.rhs = i.lhs] ELSE i

ReorderCommutativeOps(instrs) == [k \in DOMAIN instrs |-> Commuted(instrs[k])]

BothKnown(known, i) == i.op = "bin" /\ {i.lhs, i.rhs} \subseteq DOMAIN known

\* An operation on two constants is folded when the exact result is an
\* integer of the width.
Folded(known, i) ==
    IF BothKnown(known, i) /\ Exact(i.fn, known[i.lhs], known[i.rhs]) \in Ints
    THEN Const(i.dst, Exact(i.fn, known[i.lhs], known[i.rhs]))
    ELSE i

\* The constants known after an instruction.  One that could not be folded
\* for its result leaves the table as it is.
Learnt(known, i) ==
    LET j == Folded(known, i)
    IN  IF j.op = "const" THEN With(known, j.dst, j.val)
        ELSE IF BothKnown(known, i) THEN known
        ELSE [d \in DOMAIN known \ Dsts(i) |-> known[d]]

ConstantFold(instrs) ==
    LET known[k \in 0 .. Len(instrs)] ==
          IF k = 0 THEN [d \in {} |-> 0] ELSE Learnt(known[k - 1], instrs[k])
    IN  [k \in DOMAIN instrs |-> Folded(known[k - 1], instrs[k])]

\* Mutant: what folding leaves without a reader is not pruned.
CanonicalizePruneOnce(m) ==
    LET out == ConstantFold(ReorderCommutativeOps(PruneDead(m.instrs, m.next)))
    IN  [m EXCEPT !.instrs = out, !.next = NextSequentialId(out)]

Canonicalize(m) ==
    LET out == PruneDead(ConstantFold(ReorderCommutativeOps(PruneDead(m.instrs, m.next))), m.next)
    IN  [m EXCEPT !.instrs = out, !.next = NextSequentialId(out)]

\* The pass has nothing left to do.
Canonical(m) == Canonicalize(m) = m

(***************************************************************************)
(* What an instruction without regions does to [vals, outs] (external: the *)
(* machine), whether its operands are ids or the names emitted for them.   *)
(***************************************************************************)
Value(vals, n) == IF n \in DOMAIN vals THEN vals[n] ELSE Undef

RunPlain(r, i) ==
    CASE i.op = "const"  -> [r EXCEPT !.vals = With(@, i.dst, i.val)]
      [] i.op = "bin"    -> [r EXCEPT !.vals =
                               With(@, i.dst, Apply(i.fn, Value(@, i.lhs), Value(@, i.rhs)))]
      [] i.op = "output" -> [r EXCEPT !.outs = Append(@, Value(r.vals, i.id))]
=============================================================================
