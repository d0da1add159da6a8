------------------------------- MODULE MindIr -------------------------------
(***************************************************************************)
(* The verifier of the IR (src/src/ir/verify.rs) and the opt-in optimiser  *)
(* (src/src/opt/native_opt.rs).                                            *)
(***************************************************************************)
EXTENDS MindEval, MindCanon

(***************************************************************************)
(* Verification.  A stream is checked in order against the ids defined so  *)
(* far; [ok, def] is the verdict and the ids defined after it.             *)
(***************************************************************************)
RECURSIVE Stream(_, _)

\* validate_if_merges: each branch's value within that branch's scope alone.
MergesValid(i, t, e) ==
    \A m \in ToSet(i.merges) : m[2] \in t /\ m[3] \in e

\* validate_while_backedges
BackedgesValid(i, enclosing) ==
    LET reachable == enclosing \cup UNION {Exposed(j) : j \in ToSet(i.cond \o i.body)}
    IN  \A lv \in ToSet(i.live) : lv[2] \in reachable

\* One instruction of validate_ssa_stream (and of its twin check_ssa_stream).
SsaStep(v, i) ==
    IF ~v.ok THEN v
    ELSE CASE i.op = "if" ->
                LET c == Stream(i.cond, v.def)
                    t == Stream(i.then, c.def)
                    e == Stream(i.else, c.def)
                IN  [ok  |-> /\ c.ok /\ i.cond_id \in c.def
                             /\ t.ok /\ i.then_result \in t.def
                             /\ e.ok /\ i.else_result \in e.def
                             /\ MergesValid(i, t.def, e.def),
                     def |-> t.def \cup e.def \cup Exposed(i)]
           [] i.op = "while" ->
                LET c == Stream(i.cond, v.def)
                    b == Stream(i.body, c.def)
                IN  [ok  |-> /\ Operands(i) \subseteq v.def
                             /\ c.ok /\ b.ok /\ i.cond_id \in b.def
                             /\ BackedgesValid(i, v.def),
                     def |-> b.def \cup Exposed(i)]
           [] OTHER ->
                [ok  |-> Operands(i) \subseteq v.def /\ Dsts(i) \cap v.def = {},
                 def |-> v.def \cup Dsts(i)]

Stream(instrs, def) == FoldLeft(SsaStep, [ok |-> TRUE, def |-> def], instrs)

\* One top-level instruction of verify_module: what a region defines inside
\* stays inside, and an exposed id must be new.
TopStep(v, i) ==
    [ok  |-> v.ok /\ SsaStep([ok |-> TRUE, def |-> v.def], i).ok
                  /\ Exposed(i) \cap v.def = {},
     def |-> v.def \cup Exposed(i)]

\* Mutant: regions are not entered.
VerifyModuleFlat(m) ==
    /\ \A i \in ToSet(m.instrs) : Operands(i) \subseteq 0 .. m.next - 1
    /\ \E i \in ToSet(m.instrs) : i.op = "output"

VerifyModule(m) ==
    /\ FoldLeft(TopStep, [ok |-> TRUE, def |-> {}], m.instrs).ok
    /\ \E i \in ToSet(m.instrs) : i.op = "output"
    /\ m.next >= NextSequentialId(m.instrs)

(***************************************************************************)
(* MIND_NATIVE_OPT=basic.  Every pass treats nested streams first, each as *)
(* a scope of its own.                                                     *)
(***************************************************************************)
Inside(i, Pass(_)) ==
    CASE i.op = "if"    -> [i EXCEPT !.cond = Pass(@), !.then = Pass(@), !.else = Pass(@)]
      [] i.op = "while" -> [i EXCEPT !.cond = Pass(@), !.body = Pass(@)]
      [] OTHER          -> i

\* remap_operands: the operands of the stream itself, regions not entered.
Remap(instrs, from, to) ==
    LET R(id) == IF id = from THEN to ELSE id
    IN  [k \in DOMAIN instrs |->
           LET i == instrs[k] IN
           CASE i.op = "bin"    -> [i EXCEPT !.lhs = R(@), !.rhs = R(@)]
             [] i.op = "output" -> [i EXCEPT !.id = R(@)]
             [] i.op = "while"  -> [i EXCEPT !.init = [n \in DOMAIN @ |-> R(@[n])]]
             [] i.op = "if"     -> [i EXCEPT !.merges =
                                      [n \in DOMAIN @ |-> <<@[n][1], R(@[n][2]), R(@[n][3])>>]]
             [] OTHER           -> i]

\* Drop the k-th instruction and use id `to` for what it defined.
Aliased(instrs, k, from, to) ==
    SubSeq(instrs, 1, k - 1) \o Remap(SubSeq(instrs, k + 1, Len(instrs)), from, to)

Constants(instrs, v) ==
    {i.dst : i \in {j \in ToSet(instrs) : j.op = "const" /\ j.val = v}}

\* An if is replaced by one branch when its condition is one constant and it
\* rebinds nothing.
Prunable(i) ==
    /\ i.op = "if" /\ i.merges = <<>> /\ i.bindings = <<>>
    /\ Len(i.cond) = 1 /\ i.cond[1].op = "const" /\ i.cond[1].dst = i.cond_id

RECURSIVE ConstIfPrune(_), PruneFrom(_, _)
PruneFrom(instrs, k) ==
    IF k > Len(instrs) THEN instrs
    ELSE LET i == Inside(instrs[k], ConstIfPrune)
             here == [instrs EXCEPT ![k] = i]
         IN  IF ~Prunable(i) THEN PruneFrom(here, k + 1)
             ELSE LET taken  == IF i.cond[1].val # 0 THEN i.then ELSE i.else
                      result == IF i.cond[1].val # 0 THEN i.then_result ELSE i.else_result
                  IN  PruneFrom(SubSeq(here, 1, k - 1) \o taken
                                  \o Remap(SubSeq(here, k + 1, Len(here)), i.dst, result),
                                k + Len(taken))
ConstIfPrune(instrs) == PruneFrom(instrs, 1)

RECURSIVE FoldMulByZero(_)
FoldMulByZero(instrs) ==
    LET zeros == Constants(instrs, 0)
    IN  [k \in DOMAIN instrs |->
           LET i == Inside(instrs[k], FoldMulByZero)
           IN  IF i.op = "bin" /\ i.fn = "*" /\ {i.lhs, i.rhs} \cap zeros # {}
               THEN Const(i.dst, 0) ELSE i]

\* identity_survivor: <<id>> when the operation is the identity on id.
Survivor(i, zeros, ones) ==
    CASE i.op # "bin" -> <<>>
      [] i.op = "bin" /\ i.fn = "+" -> IF i.rhs \in zeros THEN <<i.lhs>>
                        ELSE IF i.lhs \in zeros THEN <<i.rhs>> ELSE <<>>
      [] i.op = "bin" /\ i.fn = "-" -> IF i.rhs \in zeros THEN <<i.lhs>> ELSE <<>>
      [] i.op = "bin" /\ i.fn = "*" -> IF i.rhs \in ones THEN <<i.lhs>>
                        ELSE IF i.lhs \in ones THEN <<i.rhs>> ELSE <<>>
      [] OTHER -> <<>>

RECURSIVE FoldIdentities(_), IdentitiesFrom(_, _, _, _)
IdentitiesFrom(instrs, k, zeros, ones) ==
    IF k > Len(instrs) THEN instrs
    ELSE LET i == Inside(instrs[k], FoldIdentities)
             s == Survivor(i, zeros, ones)
         IN  IF s = <<>> THEN IdentitiesFrom([instrs EXCEPT ![k] = i], k + 1, zeros, ones)
             ELSE IdentitiesFrom(Aliased(instrs, k, i.dst, s[1]), k, zeros, ones)
FoldIdentities(instrs) ==
    IdentitiesFrom(instrs, 1, Constants(instrs, 0), Constants(instrs, 1))

\* binop_key: what makes two operations the same.
BinopKey(i) ==
    IF i.fn \in {"+", "*", "=="} /\ i.rhs < i.lhs
    THEN <<i.fn, i.rhs, i.lhs>> ELSE <<i.fn, i.lhs, i.rhs>>

RECURSIVE CseBinops(_), CseFrom(_, _, _)
CseFrom(instrs, k, seen) ==
    IF k > Len(instrs) THEN instrs
    ELSE LET i == Inside(instrs[k], CseBinops)
         IN  IF i.op # "bin" THEN CseFrom([instrs EXCEPT ![k] = i], k + 1, seen)
             ELSE IF BinopKey(i) \in DOMAIN seen
             THEN CseFrom(Aliased(instrs, k, i.dst, seen[BinopKey(i)]), k, seen)
             ELSE CseFrom(instrs, k + 1, (BinopKey(i) :> i.dst) @@ seen)
CseBinops(instrs) == CseFrom(instrs, 1, <<>>)

OptimizeMic3(m, level) ==
    IF level = "off" THEN m
    ELSE Canonicalize([m EXCEPT !.instrs =
            CseBinops(FoldIdentities(FoldMulByZero(ConstIfPrune(@))))])
=============================================================================
