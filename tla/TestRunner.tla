----------------------------- MODULE TestRunner -----------------------------
(***************************************************************************)
(* The parallel test runner (src/src/test/runner.rs): workers take tests   *)
(* from a shared queue, run them and store the results; the coordinator    *)
(* joins them and reports in discovery order.  run_one_test catches panics *)
(* and reports them as failures, so a worker always comes back.            *)
(***************************************************************************)
EXTENDS Integers, Sequences, FiniteSetsExt, Functions

CONSTANTS
    NumTests,   \* tests discovered
    Threads     \* TestOptions.threads, or the number of CPUs

ASSUME RunnerAssumption == NumTests \in Nat /\ Threads \in Nat \ {0}

Tests   == 1 .. NumTests
Workers == 1 .. Min({Threads, NumTests})

VARIABLES
    passes,     \* the tests that pass when they are run
    queue,      \* tests not yet taken
    hand,       \* the test each worker runs, 0 for none, -1 once it has ended
    results,    \* <<test, passed>> in the order in which they were stored
    joined,     \* workers joined so far
    report      \* the reports, or <<>>; printed when `joined` is complete

runnerVars == <<passes, queue, hand, results, joined, report>>

RunnerInit ==
    /\ passes \in SUBSET Tests
    /\ queue = [k \in Tests |-> k]
    /\ hand = [w \in Workers |-> 0]
    /\ results = <<>> /\ joined = 0 /\ report = <<>>

\* pop_front
QueuePopped == Tail(queue)

Take(w) ==
    /\ hand[w] = 0 /\ queue # <<>>
    /\ hand' = [hand EXCEPT ![w] = Head(queue)]
    /\ queue' = QueuePopped
    /\ UNCHANGED <<passes, results, joined, report>>

Store(w) ==
    /\ hand[w] > 0
    /\ results' = Append(results, <<hand[w], hand[w] \in passes>>)
    /\ hand' = [hand EXCEPT ![w] = 0]
    /\ UNCHANGED <<passes, queue, joined, report>>

\* Mutant: a worker stays until the others have ended.
MayEndLast(w) == queue = <<>> /\ \A v \in Workers \ {w} : hand[v] = -1

\* A worker ends when it finds the queue empty.
MayEnd(w) == queue = <<>>

End(w) ==
    /\ hand[w] = 0 /\ MayEnd(w)
    /\ hand' = [hand EXCEPT ![w] = -1]
    /\ UNCHANGED <<passes, queue, results, joined, report>>

Join ==
    /\ joined + 1 \in Workers /\ hand[joined + 1] = -1
    /\ joined' = joined + 1
    /\ UNCHANGED <<passes, queue, hand, results, report>>

\* Mutant: results are reported as they were stored.
OrderAsStored(rs) == rs

\* order_results: rearranged by ordinal, in any such way.
OrderResults(rs) ==
    LET from == CHOOSE p \in Bijection(DOMAIN rs, DOMAIN rs) :
                    \A i, j \in DOMAIN rs : i < j => rs[p[i]][1] <= rs[p[j]][1]
    IN  [i \in DOMAIN rs |-> rs[from[i]]]

Report ==
    /\ joined = Cardinality(Workers) /\ report = <<>> /\ results # <<>>
    /\ report' = OrderResults(results)
    /\ UNCHANGED <<passes, queue, hand, results, joined>>

RunnerNext == (\E w \in Workers : Take(w) \/ Store(w) \/ End(w)) \/ Join \/ Report

RunnerFairness ==
    /\ \A w \in Workers : WF_runnerVars(Take(w) \/ Store(w) \/ End(w))
    /\ WF_runnerVars(Join \/ Report)

RunnerSpec == RunnerInit /\ [][RunnerNext]_runnerVars /\ RunnerFairness

-----------------------------------------------------------------------------
\* The report names every test once, in discovery order, with that test's own
\* verdict, in whatever order the workers finished.
ReportExact == report # <<>> => report = [t \in Tests |-> <<t, t \in passes>>]

\* The run always ends in a report.
RunEnds == <>(report # <<>>)
=============================================================================
