------------------------------ MODULE MindEmit ------------------------------
(***************************************************************************)
(* Emission of MLIR from the IR (src/src/mlir/lowering.rs), and the meaning*)
(* of what is emitted.  An SSA name is <<"id", n>> for %n, or an argument  *)
(* of a block of a loop: <<"head", x>> and <<"body", x>>, told apart by    *)
(* the id x of the loop's exit value, where the code numbers the loops.    *)
(***************************************************************************)
EXTENDS MindLower

V(id)        == <<"id", id>>
Vs(ids)      == [k \in DOMAIN ids |-> V(ids[k])]
Heads(exits) == [k \in DOMAIN exits |-> <<"head", exits[k]>>]
Bodies(exits) == [k \in DOMAIN exits |-> <<"body", exits[k]>>]

\* substitute_ids: the text is searched for the ids in descending order, so
\* among equal ids the first of the list replaces them all.
Substitute(name, ids, args) ==
    LET hits == {k \in DOMAIN ids : V(ids[k]) = name}
    IN  IF hits = {} THEN name ELSE args[Min(hits)]

RECURSIVE Emit(_), SubstituteIds(_, _, _)

\* The substitution is textual: it reaches nested blocks, branch operands
\* and block arguments alike.
SubstituteIds(code, ids, args) ==
    LET S(n)  == Substitute(n, ids, args)
        Ss(q) == [k \in DOMAIN q |-> S(q[k])]
        T(c)  == SubstituteIds(c, ids, args)
    IN  [k \in DOMAIN code |->
           LET i == code[k] IN
           CASE i.op = "const"  -> [i EXCEPT !.dst = S(@)]
             [] i.op = "bin"    -> [i EXCEPT !.dst = S(@), !.lhs = S(@), !.rhs = S(@)]
             [] i.op = "output" -> [i EXCEPT !.id = S(@)]
             [] i.op = "if"     -> [i EXCEPT !.cond = T(@), !.test = S(@), !.then = T(@),
                                      !.else = T(@), !.to = Ss(@), !.fromThen = Ss(@),
                                      !.fromElse = Ss(@)]
             [] i.op = "while"  -> [i EXCEPT !.cond = T(@), !.test = S(@), !.body = T(@),
                                      !.entry = Ss(@), !.back = Ss(@), !.exit = Ss(@)]]

\* cf.cond_br to two blocks, each ending in a branch to the block after the
\* if, whose arguments are the value of the if and its merges.
EmitIf(i) ==
    [op |-> "if", cond |-> Emit(i.cond), test |-> V(i.cond_id),
     then |-> Emit(i.then), else |-> Emit(i.else),
     to       |-> <<V(i.dst)>> \o [k \in DOMAIN i.merges |-> V(i.merges[k][1])],
     fromThen |-> <<V(i.then_result)>> \o [k \in DOMAIN i.merges |-> V(i.merges[k][2])],
     fromElse |-> <<V(i.else_result)>> \o [k \in DOMAIN i.merges |-> V(i.merges[k][3])]]

\* The operand of the back edge for a value the body left unchanged is the
\* argument of the body block that stands for it.
BackEdge(i) ==
    [k \in DOMAIN i.live |-> Substitute(V(i.live[k][2]), i.init, Bodies(i.exit))]

\* Header, body and after blocks, each taking the carried values.
EmitWhile(i) ==
    [op |-> "while",
     entry |-> Vs(i.init), head |-> Heads(i.exit), bodyArgs |-> Bodies(i.exit),
     cond  |-> SubstituteIds(Emit(i.cond), i.init, Heads(i.exit)),
     test  |-> Substitute(V(i.cond_id), i.init, Heads(i.exit)),
     body  |-> SubstituteIds(Emit(i.body), i.init, Bodies(i.exit)),
     back  |-> BackEdge(i), exit |-> Vs(i.exit)]

Emit(instrs) ==
    [k \in DOMAIN instrs |->
       LET i == instrs[k] IN
       CASE i.op = "const"  -> [i EXCEPT !.dst = V(@)]
         [] i.op = "bin"    -> [i EXCEPT !.dst = V(@), !.lhs = V(@), !.rhs = V(@)]
         [] i.op = "output" -> [i EXCEPT !.id = V(@)]
         [] i.op = "if"     -> EmitIf(i)
         [] i.op = "while"  -> EmitWhile(i)]

(***************************************************************************)
(* Running the emitted code (external: MLIR and the machine).  A name is   *)
(* visible where its definition dominates: what a block defines is gone    *)
(* after the block, what is passed to the block after it stays.            *)
(***************************************************************************)
RECURSIVE Run(_, _), Iterate(_, _, _, _)

\* vals with the values of the names `from` under the names `to`.
Pass(vals, to, from, source) ==
    [n \in ToSet(to) |-> Value(source, from[CHOOSE k \in DOMAIN to : to[k] = n])] @@ vals

RunInstr(r, i) ==
    IF ~r.ok THEN r
    ELSE CASE i.op \in {"const", "bin", "output"} -> RunPlain(r, i)
           [] i.op = "if" ->
                LET c == Run(i.cond, r)
                    yes == Value(c.vals, i.test) # 0
                    b == Run(IF yes THEN i.then ELSE i.else, c)
                IN  [b EXCEPT !.vals = Pass(c.vals, i.to,
                                            IF yes THEN i.fromThen ELSE i.fromElse, b.vals)]
           [] i.op = "while" ->
                Iterate(i, r, [r EXCEPT !.vals = Pass(@, i.head, i.entry, @)], 0)

\* r is the state before the loop, h the one on entry to the header.
Iterate(i, r, h, n) ==
    LET c == Run(i.cond, h)
        b == Run(i.body, [c EXCEPT !.vals = Pass(@, i.bodyArgs, i.head, @)])
    IN  IF ~c.ok THEN c
        ELSE IF Value(c.vals, i.test) = 0
        THEN [c EXCEPT !.vals = Pass(r.vals, i.exit, i.head, c.vals)]
        ELSE IF n = MaxIters THEN [c EXCEPT !.ok = FALSE]
        ELSE Iterate(i, r, [b EXCEPT !.vals = Pass(r.vals, i.head, i.back, b.vals)], n + 1)

Run(code, r) == FoldLeft(RunInstr, r, code)

Execute(code) == Run(code, [vals |-> <<>>, outs |-> <<>>, ok |-> TRUE])
=============================================================================
