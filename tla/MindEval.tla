------------------------------ MODULE MindEval ------------------------------
(***************************************************************************)
(* The interpreter (src/src/eval/mod.rs) on the part of the language in    *)
(* which values flow through control flow: integers, let, assignment, if,  *)
(* while and bare expressions.  It is the reference the compiled program   *)
(* is compared with.                                                       *)
(*                                                                         *)
(* Expressions  [k |-> "lit", v]  [k |-> "var", x]  [k |-> "bin", f, l, r] *)
(* Statements   [k |-> "let", x, e]  [k |-> "set", x, e]  [k |-> "expr", e]*)
(*              [k |-> "if", c, t, f]  [k |-> "while", c, b]               *)
(***************************************************************************)
EXTENDS MindInt, Sequences, SequencesExt, FiniteSets, TLC

CONSTANT MaxIters   \* iterations after which a loop is taken to diverge

ASSUME EvalAssumption == MaxIters \in Nat

Lit(v)       == [k |-> "lit", v |-> v]
Var(x)       == [k |-> "var", x |-> x]
Bin(f, l, r) == [k |-> "bin", f |-> f, l |-> l, r |-> r]
Let(x, e)    == [k |-> "let", x |-> x, e |-> e]
Set(x, e)    == [k |-> "set", x |-> x, e |-> e]
Expr(e)      == [k |-> "expr", e |-> e]
If(c, t, f)  == [k |-> "if", c |-> c, t |-> t, f |-> f]
While(c, b)  == [k |-> "while", c |-> c, b |-> b]

RECURSIVE EvalExpr(_, _)
EvalExpr(e, env) ==
    CASE e.k = "lit" -> e.v
      [] e.k = "var" -> env[e.x]
      [] e.k = "bin" -> Apply(e.f, EvalExpr(e.l, env), EvalExpr(e.r, env))

(***************************************************************************)
(* Statements run against a state [env, val, ok]: the bindings, the value  *)
(* of the last statement, and FALSE once a loop ran past MaxIters.         *)
(* A block remembers, for each name it declares, the binding it shadows.   *)
(***************************************************************************)
Bind(env, x, v) == (x :> v) @@ env

Remember(saves, env, x) ==
    IF x \in DOMAIN saves THEN saves
    ELSE (x :> IF x \in DOMAIN env THEN <<env[x]>> ELSE <<>>) @@ saves

Restored(env, saves) ==
    [x \in {y \in DOMAIN env : y \in DOMAIN saves => saves[y] # <<>>}
        |-> IF x \in DOMAIN saves THEN saves[x][1] ELSE env[x]]

RECURSIVE Block(_, _), Loop(_, _, _, _)

\* exec_threaded_stmt: st.saves is the frame of the enclosing block.
Exec(st, s) ==
    IF ~st.ok THEN st
    ELSE CASE s.k \in {"let", "set"} ->
                LET v == EvalExpr(s.e, st.env)
                IN  [st EXCEPT !.env = Bind(@, s.x, v), !.val = v,
                               !.saves = IF s.k = "let"
                                         THEN Remember(@, st.env, s.x) ELSE @]
           [] s.k = "expr" -> [st EXCEPT !.val = EvalExpr(s.e, st.env)]
           [] s.k = "if" ->
                LET b == Block(IF EvalExpr(s.c, st.env) # 0 THEN s.t ELSE s.f, st)
                IN  [b EXCEPT !.saves = st.saves]
           [] s.k = "while" ->
                LET b == Loop(s.c, s.b, [st EXCEPT !.val = 0], 0)
                IN  [b EXCEPT !.saves = st.saves]

\* exec_block_scoped: lets die with the block, assignments survive it.
Block(stmts, st) ==
    LET inner == FoldLeft(Exec, [st EXCEPT !.saves = <<>>, !.val = 0], stmts)
    IN  [inner EXCEPT !.env = Restored(@, inner.saves)]

\* eval_while_stmt_threaded: each iteration is a block of its own.
Loop(c, body, st, n) ==
    IF ~st.ok \/ EvalExpr(c, st.env) = 0 THEN st
    ELSE IF n = MaxIters THEN [st EXCEPT !.ok = FALSE]
    ELSE Loop(c, body, Block(body, st), n + 1)

\* The top-level items in order; the value of every item is kept.  An if at
\* the top level is evaluated as an expression: its assignments are dropped.
Item(m, s) ==
    LET r == Exec(m.st, s)
        n == IF s.k = "if" THEN [r EXCEPT !.env = m.st.env] ELSE r
    IN  [st |-> n, outs |-> Append(m.outs, n.val)]

Interpret(prog) ==
    FoldLeft(Item, [st |-> [env |-> <<>>, val |-> 0, ok |-> TRUE, saves |-> <<>>],
                    outs |-> <<>>], prog)
=============================================================================
