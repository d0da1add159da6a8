----------------------------- MODULE MCCompiler -----------------------------
(***************************************************************************)
(* Small programs around one loop: every way two of the variables start as *)
(* aliases, then two statements of the pools below in the body, then the   *)
(* variables are shown.                                                    *)
(***************************************************************************)
EXTENDS Compiler

CONSTANTS
    BareExpressions,    \* BOOLEAN: a branch may end in a bare expression
    AliasStarts         \* BOOLEAN: let j = x as a start

j == Var("j")
k == Var("k")
p == Var("p")
x == Var("x")

NamesInOrder == <<"j", "k", "p", "x">>

Starts ==
    {<<Let("p", Lit(3)), Let("x", a), Let("j", b), Let("k", Lit(0))>> :
        a \in {p, Bin("*", Lit(2), Lit(3))},
        b \in {Lit(1)} \cup (IF AliasStarts THEN {x} ELSE {})}

Simple ==
    {Set("j", Bin("+", p, Lit(1))),
     Set("x", j),
     Set("x", Bin("-", Lit(0), Bin("*", x, Lit(1)))),
     Let("x", Bin("+", x, j))}

Branches ==
    {<<>>,
     <<Set("x", Lit(1))>>,
     <<Set("x", Bin("+", x, j)), Let("x", Lit(2)), Set("x", j)>>,
     <<Let("x", Lit(2)), Set("j", x)>>,
     <<While(Bin("<", x, j), <<Set("x", Bin("+", x, Lit(1)))>>), Set("j", Bin("*", j, Lit(0)))>>}
    \cup IF BareExpressions
         THEN {<<If(Bin("==", k, Lit(0)), <<Set("x", Lit(1))>>, <<>>), Set("x", Lit(2)), Expr(x)>>}
         ELSE {}

Ifs == {If(Bin("==", k, Lit(0)), t, f) : t \in Branches, f \in Branches}

Nested ==
    {While(Bin("<", j, Lit(2)), <<Set("j", Bin("+", j, Lit(1))), s>>) :
        s \in {Set("x", Bin("+", x, j)), If(Bin("==", j, p), <<Set("x", p)>>, <<Set("p", x)>>)}}

Bodies1 == {<<s>> : s \in Simple \cup Ifs \cup Nested}
Bodies2 == {<<s, t>> : s \in Simple \cup Nested, t \in Simple \cup Ifs \cup Nested}
           \cup {<<s, t>> : s \in Ifs, t \in Simple}

Loop1(body) == While(Bin("<", k, Lit(2)), Append(body, Set("k", Bin("+", k, Lit(1)))))

Shows == <<Expr(x), Expr(j), Expr(p), Expr(k)>>

SmallPrograms == {s \o <<Loop1(b)>> \o Shows : s \in Starts, b \in Bodies1 \cup Bodies2}
=============================================================================
