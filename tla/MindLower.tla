----------------------------- MODULE MindLower -----------------------------
(***************************************************************************)
(* Lowering of a module to the IR (src/src/eval/lower.rs).  A name is      *)
(* bound to the id of its current value: env is a function from the names  *)
(* in scope to ids, and `let j = x` makes two names share one id.          *)
(***************************************************************************)
EXTENDS MindIr

CONSTANT Names      \* all names, in alphabetical order

Push(ir, i)  == [ir EXCEPT !.instrs = Append(@, i)]
Def(ir, i)   == [Push(ir, i) EXCEPT !.next = @ + 1]     \* i defines ir.next

\* sub_ir_from and sub_ir_from_after: an empty stream, the same counter.
SubIr(ir) == [ir EXCEPT !.instrs = <<>>]

RECURSIVE LowerExpr(_, _, _)
LowerExpr(e, ir, env) ==
    CASE e.k = "lit" -> [ir |-> Def(ir, Const(ir.next, e.v)), id |-> ir.next]
      [] e.k = "var" -> [ir |-> ir, id |-> env[e.x]]
      [] e.k = "bin" ->
           LET l == LowerExpr(e.l, ir, env)
               r == LowerExpr(e.r, l.ir, env)
           IN  [ir |-> Def(r.ir, BinOp(r.ir.next, e.f, l.id, r.id)), id |-> r.ir.next]

(***************************************************************************)
(* Scans of the source.                                                    *)
(***************************************************************************)
RECURSIVE Reads(_, _), AssignTargets(_)

\* ast_reads_ident: s mentions one of the names as a value.
Reads(s, names) ==
    CASE s.k = "lit" -> FALSE
      [] s.k = "var" -> s.x \in names
      [] s.k = "bin" -> Reads(s.l, names) \/ Reads(s.r, names)
      [] s.k \in {"let", "set", "expr"} -> Reads(s.e, names)
      [] s.k = "if" -> \/ Reads(s.c, names)
                       \/ \E t \in ToSet(s.t \o s.f) : Reads(t, names)
      [] s.k = "while" -> Reads(s.c, names) \/ \E t \in ToSet(s.b) : Reads(t, names)

\* collect_assign_targets, nested branches and loops included.
AssignTargets(stmts) ==
    UNION {CASE s.k = "set"   -> {s.x}
             [] s.k = "if"    -> AssignTargets(s.t) \cup AssignTargets(s.f)
             [] s.k = "while" -> AssignTargets(s.b)
             [] OTHER         -> {} : s \in ToSet(stmts)}

(***************************************************************************)
(* Names rebound by a region, for the enclosing scope.                     *)
(***************************************************************************)
\* Mutant: after a loop a name has its value at the end of the body.
RegionExitFromBody(i) ==
    CASE i.op = "while" -> i.live
      [] i.op = "if"    -> i.bindings
      [] OTHER          -> <<>>

RegionExitRebindings(i) ==
    CASE i.op = "while" -> [k \in DOMAIN i.live |-> <<i.live[k][1], i.exit[k]>>]
      [] i.op = "if"    -> i.bindings
      [] OTHER          -> <<>>

\* Those of the last instruction, or of the one before a trailing constant.
LastRegionExitRebindings(instrs) ==
    LET n == Len(instrs)
        direct == IF n = 0 THEN <<>> ELSE RegionExitRebindings(instrs[n])
    IN  IF direct # <<>> \/ n < 2 THEN direct
        ELSE IF instrs[n].op = "const" THEN RegionExitRebindings(instrs[n - 1])
        ELSE <<>>

\* stmt_exit_rebindings, for the top level: a loop's only for names in scope.
StmtExitRebindings(instrs, env) ==
    SelectSeq(LastRegionExitRebindings(instrs), LAMBDA b : b[1] \in DOMAIN env)

AddOnce(seq, x) == IF x \in ToSet(seq) THEN seq ELSE Append(seq, x)

RECURSIVE LowerNode(_, _, _)

(***************************************************************************)
(* A branch of an if.  writes are the outer names it assigns, locals the   *)
(* names it declares, frozen the value a written name had when a later     *)
(* declaration in the branch shadowed it.                                  *)
(***************************************************************************)
Frozen(b, x) ==
    IF x \in ToSet(b.writes) /\ x \notin DOMAIN b.frozen
    THEN (x :> b.env[x]) @@ b.frozen ELSE b.frozen

Written(b, x) == IF x \in b.locals THEN b.writes ELSE AddOnce(b.writes, x)

BranchRebind(b, r) ==
    [b EXCEPT !.env = Bind(@, r[1], r[2]), !.writes = Written(b, r[1])]

BranchStmt(b, s) ==
    IF s.k \in {"let", "set"}
    THEN LET v == LowerExpr(s.e, b.ir, b.env)
             n == [b EXCEPT !.ir = v.ir, !.env = Bind(@, s.x, v.id), !.result = v.id]
         IN  IF s.k = "let"
             THEN [n EXCEPT !.frozen = Frozen(b, s.x), !.locals = @ \cup {s.x}]
             ELSE [n EXCEPT !.writes = Written(b, s.x)]
    ELSE LET v == LowerNode(s, b.ir, b.env)
         IN  FoldLeft(BranchRebind, [b EXCEPT !.ir = v.ir, !.result = v.id],
                      LastRegionExitRebindings(v.ir.instrs))

LowerBranch(stmts, ir, env) ==
    FoldLeft(BranchStmt,
             [ir |-> Def(SubIr(ir), Const(ir.next, 0)), env |-> env, result |-> ir.next,
              writes |-> <<>>, locals |-> {}, frozen |-> <<>>],
             stmts)

\* The value of name x at the end of branch b.
EdgeValue(b, env, x) ==
    IF x \in DOMAIN b.frozen THEN b.frozen[x]
    ELSE IF x \in ToSet(b.writes) THEN b.env[x] ELSE env[x]

\* Every name assigned in either branch gets a merge id.  Names are in scope
\* before the if: the checker rejects an assignment to an undeclared name.
LowerIf(s, ir, env) ==
    LET c  == LowerExpr(s.c, SubIr(ir), env)
        t  == LowerBranch(s.t, c.ir, env)
        e  == LowerBranch(s.f, t.ir, env)
        ns == FoldLeft(AddOnce, t.writes, e.writes)
        m0 == e.ir.next
        bs == [k \in DOMAIN ns |-> <<ns[k], m0 + k - 1>>]
        ms == [k \in DOMAIN ns |-> <<m0 + k - 1, EdgeValue(t, env, ns[k]),
                                     EdgeValue(e, env, ns[k])>>]
        d  == m0 + Len(ns)
        i  == IfInstr(c.id, c.ir.instrs, t.ir.instrs, t.result,
                      e.ir.instrs, e.result, d, bs, ms)
    IN  [ir |-> [Push(ir, i) EXCEPT !.next = d + 1, !.copies = e.ir.copies], id |-> d]

(***************************************************************************)
(* A while.  A name that is assigned in the body and shares its id with a  *)
(* name that is read there gets a copy of its own first.                   *)
(***************************************************************************)
\* Mutant: only the condition is searched.
AliasReadInCond(s, seed, x) ==
    LET sources == {y \in DOMAIN seed : y # x /\ seed[y] = seed[x]}
    IN  sources # {} /\ Reads(s.c, sources)

AliasRead(s, seed, x) ==
    LET sources == {y \in DOMAIN seed : y # x /\ seed[y] = seed[x]}
    IN  sources # {} /\ (Reads(s.c, sources) \/ \E t \in ToSet(s.b) : Reads(t, sources))

AliasBreak(s, ir, env) ==
    LET cands == SelectSeq(Names, LAMBDA x : x \in AssignTargets(s.b) \cap DOMAIN env)
        Break(a, x) ==
            IF ~AliasRead(s, a.env, x) THEN a
            ELSE LET n == a.ir.next
                     z == Def(a.ir, Const(n, 0))
                     c == Def(z, BinOp(n + 1, "+", a.env[x], n))
                 IN  [ir  |-> [c EXCEPT !.copies = @ \cup {n + 1}],
                      env |-> Bind(a.env, x, n + 1)]
    IN  FoldLeft(Break, [ir |-> ir, env |-> env], cands)

\* record_loop_mut: the first assignment fixes the value before the loop, the
\* last one the value handed to the next iteration.
Carried(b, x, id) ==
    IF x \notin b.outer \ b.locals THEN b
    ELSE IF \E k \in DOMAIN b.live : b.live[k][1] = x
    THEN [b EXCEPT !.live = [k \in DOMAIN @ |-> IF @[k][1] = x THEN <<x, id>> ELSE @[k]]]
    ELSE [b EXCEPT !.live = Append(@, <<x, id>>), !.init = Append(@, b.env[x])]

BodyRebind(b, r) ==
    IF r[1] \notin DOMAIN b.env THEN b
    ELSE [Carried(b, r[1], r[2]) EXCEPT !.env = Bind(@, r[1], r[2])]

BodyStmt(b, s) ==
    CASE s.k = "let" ->
           LET v == LowerExpr(s.e, b.ir, b.env)
           IN  [b EXCEPT !.ir = v.ir, !.env = Bind(@, s.x, v.id), !.locals = @ \cup {s.x}]
      [] s.k = "set" ->
           LET v == LowerExpr(s.e, b.ir, b.env)
           IN  [Carried(b, s.x, v.id) EXCEPT !.ir = v.ir, !.env = Bind(@, s.x, v.id)]
      [] OTHER ->
           LET v == LowerNode(s, b.ir, b.env)
           IN  FoldLeft(BodyRebind, [b EXCEPT !.ir = v.ir],
                        LastRegionExitRebindings(v.ir.instrs))

LowerWhile(s, ir, env) ==
    LET a == AliasBreak(s, ir, env)
        c == LowerExpr(s.c, SubIr(a.ir), a.env)
        b == FoldLeft(BodyStmt,
                      [ir |-> SubIr(c.ir), env |-> a.env, live |-> <<>>, init |-> <<>>,
                       locals |-> {}, outer |-> DOMAIN env],
                      s.b)
        n == b.ir.next + Len(b.live)
        i == WhileInstr(c.id, c.ir.instrs, b.ir.instrs, b.live, b.init,
                        [k \in DOMAIN b.live |-> b.ir.next + k - 1])
    IN  [ir |-> [Push(Push(a.ir, i), Const(n, 0)) EXCEPT !.next = n + 1,
                                                       !.copies = b.ir.copies],
         id |-> n]

LowerNode(s, ir, env) ==
    CASE s.k = "if"    -> LowerIf(s, ir, env)
      [] s.k = "while" -> LowerWhile(s, ir, env)
      [] s.k = "expr"  -> LowerExpr(s.e, ir, env)

\* lower_to_ir: every top-level item is followed by an output of its value.
LowerItem(m, s) ==
    IF s.k \in {"let", "set"}
    THEN LET v == LowerExpr(s.e, m.ir, m.env)
         IN  [ir |-> Push(v.ir, Output(v.id)), env |-> Bind(m.env, s.x, v.id)]
    ELSE LET v == LowerNode(s, m.ir, m.env)
             Rebind(env, r) == Bind(env, r[1], r[2])
         IN  [ir  |-> Push(v.ir, Output(v.id)),
              env |-> FoldLeft(Rebind, m.env, StmtExitRebindings(v.ir.instrs, m.env))]

\* copies is bookkeeping: the ids made by AliasBreak.
LowerToIr(prog) ==
    FoldLeft(LowerItem, [ir |-> [instrs |-> <<>>, next |-> 0, copies |-> {}], env |-> <<>>],
             prog).ir
=============================================================================
