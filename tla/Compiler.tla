------------------------------ MODULE Compiler ------------------------------
(***************************************************************************)
(* The compilation of one module, stage by stage: lowering, then           *)
(* prepare_ir_for_backend (src/src/ir/mod.rs) with its two verifications,  *)
(* then emission, then a run of the result next to the interpreter.        *)
(***************************************************************************)
EXTENDS MindEmit

CONSTANTS
    Programs,   \* the source modules: sequences of top-level items
    Levels      \* settings of MIND_NATIVE_OPT: "off" and "basic"

ASSUME CompilerAssumption == Levels \subseteq {"off", "basic"}

VARIABLES
    src, level, \* what is compiled, and how
    stage,      \* the last stage completed
    low,        \* the module as lowered
    ir,         \* the module as transformed
    code,       \* the emitted MLIR
    result      \* what the program did when it was run

vars == <<src, level, stage, low, ir, code, result>>

Empty == [instrs |-> <<>>, next |-> 0, copies |-> {}]

Init ==
    /\ src \in Programs
    /\ level \in Levels
    /\ stage = "source"
    /\ low = Empty /\ ir = Empty
    /\ code = <<>>
    /\ result = [vals |-> <<>>, outs |-> <<>>, ok |-> TRUE]

Lower ==
    /\ stage = "source"
    /\ low' = LowerToIr(src)
    /\ ir' = low'
    /\ stage' = "lowered"
    /\ UNCHANGED <<src, level, code, result>>

Verify ==
    /\ \/ stage = "lowered"   /\ stage' = IF VerifyModule(ir) THEN "verified" ELSE "rejected"
       \/ stage = "optimised" /\ stage' = IF VerifyModule(ir) THEN "ready" ELSE "refused"
    /\ UNCHANGED <<src, level, low, ir, code, result>>

Canonicalise ==
    /\ stage = "verified"
    /\ ir' = Canonicalize(ir)
    /\ stage' = "canonical"
    /\ UNCHANGED <<src, level, low, code, result>>

Optimise ==
    /\ stage = "canonical"
    /\ ir' = OptimizeMic3(ir, level)
    /\ stage' = "optimised"
    /\ UNCHANGED <<src, level, low, code, result>>

EmitMlir ==
    /\ stage = "ready"
    /\ code' = Emit(ir.instrs)
    /\ stage' = "emitted"
    /\ UNCHANGED <<src, level, low, ir, result>>

RunProgram ==
    /\ stage = "emitted"
    /\ result' = Execute(code)
    /\ stage' = "done"
    /\ UNCHANGED <<src, level, low, ir, code>>

Next == Lower \/ Verify \/ Canonicalise \/ Optimise \/ EmitMlir \/ RunProgram

Spec == Init /\ [][Next]_vars

-----------------------------------------------------------------------------
\* All while instructions of a stream, at any depth.
RECURSIVE Loops(_)
Loops(instrs) ==
    UNION {CASE i.op = "if"    -> Loops(i.cond) \cup Loops(i.then) \cup Loops(i.else)
             [] i.op = "while" -> {i} \cup Loops(i.cond) \cup Loops(i.body)
             [] OTHER          -> {} : i \in ToSet(instrs)}

\* Two variables a loop carries enter it with one id.
SharesInit(m) == \E w \in Loops(m.instrs) : ~IsInjective(w.init)

\* The values of the expression statements at the top level.
Shown(outs) ==
    LET shown == SelectSeq([k \in DOMAIN src |-> k], LAMBDA k : src[k].k = "expr")
    IN  [n \in DOMAIN shown |-> outs[shown[n]]]

Agrees ==
    LET run == Interpret(src)
    IN  /\ result.ok = run.st.ok
        /\ result.ok => Shown(result.outs) = Shown(run.outs)

-----------------------------------------------------------------------------
(***************************************************************************)
(* Properties                                                              *)
(***************************************************************************)
\* The compiled program prints what the interpreter prints.  Excepted are the
\* loops two carried variables enter with one id, and, at level basic, the
\* programs in which lowering copied a variable to keep two names apart, for
\* the optimiser takes that copy out again.
CompiledAgrees ==
    (/\ stage = "done"
     /\ ~SharesInit(low)
     /\ level = "basic" => low.copies = {}) => Agrees

\* What lowering produces always passes the verifier, and canonicalisation
\* keeps it so: a program is not rejected for the compiler's own fault.
\* Excepted are programs with a copy made for the sake of a loop: nothing but
\* the loop's body may read it, and prune_dead does not look there.
LoweringVerifies ==
    /\ stage # "rejected"
    /\ level = "off" /\ low.copies = {} => stage # "refused"

\* A module both verifications accepted never reads a value on a path that
\* did not define it, whatever the optimiser did to it.
NoUndefRead == Undef \notin ToSet(result.outs)

\* Canonicalisation is idempotent: what it folds makes nothing new foldable,
\* reorderable or dead.
CanonicalFixpoint == stage = "canonical" => Canonical(ir)

\* The claim of the alias break in the lowering of while: it may be left out
\* when no name that shares the id is read in the loop, since "the alias is
\* harmless" then.
SourceUnreadIsHarmless == stage = "done" /\ level = "off" => Agrees

\* The claim of the merges of an if: each takes the value of the variable at
\* the exit of the branch, also when the branch ends in a bare expression.
MergesBranchExit == stage = "done" /\ level = "off" /\ ~SharesInit(low) => Agrees
=============================================================================
