------------------------------ MODULE MCTools ------------------------------
(***************************************************************************)
(* The tool runner, the test runner and the dependency commands have       *)
(* nothing in common; each is explored while the others have finished.     *)
(***************************************************************************)
EXTENDS RunCommand, TestRunner, Deps

DepOrder == <<"lib", "repo">>

CommandFinished ==
    /\ pc = "done" /\ result = "ok"
    /\ unsent = 0 /\ stdin = -1
    /\ next = "exited"
    /\ wrote = Nothing /\ pipe = Nothing /\ got = Nothing
    /\ drained = Outputs
    /\ orphan = FALSE

RunnerFinished ==
    /\ passes = Tests
    /\ queue = <<>>
    /\ hand = [w \in Workers |-> -1]
    /\ results = [t \in Tests |-> <<t, TRUE>>]
    /\ joined = Cardinality(Workers) /\ report = results

\* No dependency command is left to start.
DepsUntouched ==
    /\ current = [d \in Names |-> MaxRev] /\ wanted = Names /\ lockfile = Missing
    /\ cache = [d \in Git |-> [r \in Revs |-> Missing]]
    /\ run = [p \in Procs |-> Idle]
    /\ started = MaxCommands /\ last = "none" /\ broken = FALSE

Init == \/ CommandInit /\ RunnerFinished /\ DepsUntouched
        \/ CommandFinished /\ RunnerInit /\ DepsUntouched
        \/ CommandFinished /\ RunnerFinished /\ DepsInit

Next == \/ CommandNext /\ UNCHANGED <<runnerVars, depsVars>>
        \/ RunnerNext /\ UNCHANGED <<commandVars, depsVars>>
        \/ /\ CommandFinished /\ RunnerFinished /\ DepsNext
           /\ UNCHANGED <<commandVars, runnerVars>>

Spec ==
    /\ Init /\ [][Next]_<<commandVars, runnerVars, depsVars>>
    /\ CommandFairness /\ RunnerFairness
=============================================================================
