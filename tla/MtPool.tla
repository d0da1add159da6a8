------------------------------- MODULE MtPool -------------------------------
(***************************************************************************)
(* The deterministic thread pool behind the multithreaded Q16.16 GEMM and  *)
(* GEMV kernels: the emitted band partition (src/src/mlir/lowering.rs) and *)
(* the pool dispatcher (src/runtime-support/mind_intrinsics.c).            *)
(*                                                                         *)
(* A kernel call splits its M output rows into T bands and hands them to   *)
(* __mind_blas_mt_dispatch, which publishes one round to the parked        *)
(* workers and waits for all of them.  Worker i runs band i.               *)
(*                                                                         *)
(* Grain of atomicity: everything a thread does between taking and giving  *)
(* up mind_mt.mtx (by unlock or by pthread_cond_wait) is one step, because *)
(* the round state is touched only under that mutex.  A band runs outside  *)
(* the mutex, so taking a job, running it and reporting it are three steps.*)
(* pool_n is read outside the mutex and is a step of its own.              *)
(***************************************************************************)
EXTENDS Naturals, FiniteSets

CONSTANTS
  Callers,      \* threads that call a multithreaded kernel
  PoolMax,      \* MIND_MT_POOL_MAX (256 in the code)
  MaxThreads,   \* MAX_THREADS of the emitter (256 in the code)
  MaxRows,      \* bound: the largest row count M a kernel is called with
  CpuCounts,    \* the values sysconf(_SC_NPROCESSORS_ONLN) may return
  MaxCalls,     \* bound: kernel calls per caller
  MaxFailures,  \* bound: pthread_create calls that fail during pool_init
  None          \* no owner of mind_mt_dispatch_lock

ASSUME ConstantsAssumption ==
  /\ PoolMax \in Nat \ {0}
  /\ MaxThreads \in Nat \ {0}
  /\ MaxRows \in Nat
  /\ CpuCounts \subseteq Nat
  /\ MaxCalls \in Nat
  /\ MaxFailures \in Nat
  /\ None \notin Callers

VARIABLES
  ncpu,      \* what sysconf returns now; CPUs go on and off line
  \* --- the pool: struct mind_mt -------------------------------------------
  poolN,     \* pool_n; 0 before pool_init and after pool_shutdown
  alive,     \* the worker ids whose pthread_create succeeded
  gen,       \* bumped once per round
  active,    \* bands in the current round
  finished,  \* bands completed this round
  stop,      \* teardown flag
  slot,      \* fn[i] and arg[i]: the caller whose band i worker i is to run
  dlock,     \* owner of mind_mt_dispatch_lock
  \* --- the workers ---------------------------------------------------------
  wpc,       \* where worker i is in mind_mt_worker_loop
  seen,      \* its local seen
  job,       \* its local fn and arg, copied from slot under the mutex
  \* --- the callers ---------------------------------------------------------
  cpc,       \* where the caller is in the kernel or the dispatcher
  m, t, n,   \* row count M, band count T, and n_bands after truncation
  calls,     \* kernel calls made so far
  ran,       \* how often each band of the caller's latest call has run
  \* --- the destructor ------------------------------------------------------
  upc        \* "loaded", "joining", "unloaded", or "crashed" in pthread_join

workerVars == <<wpc, seen, job>>
callerVars == <<cpc, m, t, n, calls, ran>>
poolVars   == <<poolN, alive, gen, active, finished, stop, slot>>
vars == <<ncpu, poolVars, dlock, workerVars, callerVars, upc>>

Ids   == 0 .. PoolMax - 1
Bands == 0 .. MaxThreads - 1

Least(a, b)    == IF a < b THEN a ELSE b
Greatest(a, b) == IF a < b THEN b ELSE a

(***************************************************************************)
(* The emitted partition of M rows into T bands.                           *)
(***************************************************************************)

\* Mutant: the clamp to at least one band is missing.
EmitTUnclamped(rows, cpus) == Least(cpus, Least(rows, MaxThreads))

\* T = max(1, min(ncpu, min(M, MAX_THREADS))).
EmitT(rows, cpus) == Greatest(1, Least(cpus, Least(rows, MaxThreads)))

\* Mutant: the division rounds down.
BandSizeFloor(rows, bands) == rows \div bands

\* band = ceildiv(M, T).
BandSize(rows, bands) == (rows + bands - 1) \div bands

RowStart(rows, bands, i) == Least(i * BandSize(rows, bands), rows)

RowEnd(rows, bands, i) ==
  Least(RowStart(rows, bands, i) + BandSize(rows, bands), rows)

\* The rows band i writes: row_start <= r < row_end.
BandRows(rows, bands, i) ==
  {r \in 0 .. rows - 1 :
     RowStart(rows, bands, i) <= r /\ r < RowEnd(rows, bands, i)}

-----------------------------------------------------------------------------
Init ==
  /\ ncpu \in CpuCounts
  /\ poolN = 0 /\ alive = {} /\ gen = 0 /\ active = 0 /\ finished = 0
  /\ stop = FALSE
  /\ slot = [i \in Ids |-> None]
  /\ dlock = None
  /\ wpc = [i \in Ids |-> "none"]
  /\ seen = [i \in Ids |-> 0]
  /\ job = [i \in Ids |-> None]
  /\ cpc = [c \in Callers |-> "idle"]
  /\ m = [c \in Callers |-> 0]
  /\ t = [c \in Callers |-> 1]
  /\ n = [c \in Callers |-> 0]
  /\ calls = [c \in Callers |-> 0]
  /\ ran = [c \in Callers |-> [b \in Bands |-> 0]]
  /\ upc = "loaded"

(***************************************************************************)
(* The environment: the number of online CPUs changes.                     *)
(***************************************************************************)
Hotplug ==
  /\ \E k \in CpuCounts \ {ncpu} : ncpu' = k
  /\ UNCHANGED <<poolVars, dlock, workerVars, callerVars, upc>>

(***************************************************************************)
(* The callers.                                                            *)
(***************************************************************************)

\* The kernel's entry: read the CPU count, clamp T, pack the T band structs.
Call(c) ==
  /\ cpc[c] = "idle"
  /\ calls[c] < MaxCalls
  /\ upc = "loaded"
  /\ \E rows \in 0 .. MaxRows :
       /\ m' = [m EXCEPT ![c] = rows]
       /\ t' = [t EXCEPT ![c] = EmitT(rows, ncpu)]
  /\ calls' = [calls EXCEPT ![c] = @ + 1]
  /\ ran' = [ran EXCEPT ![c] = [b \in Bands |-> 0]]
  /\ cpc' = [cpc EXCEPT ![c] = "once"]
  /\ UNCHANGED <<ncpu, poolVars, dlock, workerVars, n, upc>>

\* pthread_once runs mind_mt_pool_init for the first caller; the others wait
\* for it, so it is one step.  A failed pthread_create goes unnoticed.
PoolInit(c) ==
  /\ cpc[c] = "once"
  /\ poolN = 0
  /\ LET size == Least(Greatest(ncpu, 1), PoolMax) IN
       \E up \in SUBSET (0 .. size - 1) :
         /\ Cardinality((0 .. size - 1) \ up) <= MaxFailures
         /\ poolN' = size
         /\ alive' = up
         /\ wpc' = [i \in Ids |-> IF i \in up THEN "check" ELSE "none"]
  /\ UNCHANGED <<ncpu, gen, active, finished, stop, slot, dlock, seen, job,
                 callerVars, upc>>

\* After pthread_once: truncate n_bands to the pool size.
Truncate(c) ==
  /\ cpc[c] = "once"
  /\ poolN > 0
  /\ n' = [n EXCEPT ![c] = Least(t[c], poolN)]
  /\ cpc' = [cpc EXCEPT ![c] = "lock"]
  /\ UNCHANGED <<ncpu, poolVars, dlock, workerVars, m, t, calls, ran, upc>>

LockDispatch(c) ==
  /\ cpc[c] = "lock"
  /\ dlock = None
  /\ dlock' = c
  /\ cpc' = [cpc EXCEPT ![c] = "publish"]
  /\ UNCHANGED <<ncpu, poolVars, workerVars, m, t, n, calls, ran, upc>>

\* Mutant: pthread_cond_signal where the code broadcasts.
AwokenOne ==
  IF \E i \in Ids : wpc[i] = "parked"
  THEN [wpc EXCEPT ![CHOOSE i \in Ids : wpc[i] = "parked"] = "check"]
  ELSE wpc

\* pthread_cond_broadcast(&wake): every parked worker contends for the mutex.
Awoken == [i \in Ids |-> IF wpc[i] = "parked" THEN "check" ELSE wpc[i]]

\* Publish the round, wake the workers, and wait on done (n is never 0 here,
\* so the first test of finished < n_bands succeeds).
Publish(c) ==
  /\ cpc[c] = "publish"
  /\ slot' = [i \in Ids |-> IF i < n[c] THEN c ELSE slot[i]]
  /\ active' = n[c]
  /\ finished' = 0
  /\ gen' = gen + 1
  /\ wpc' = Awoken
  /\ cpc' = [cpc EXCEPT ![c] = "wait"]
  /\ UNCHANGED <<ncpu, poolN, alive, stop, dlock, seen, job, m, t, n, calls,
                 ran, upc>>

\* Mutants: an if where the code has a while, and an off-by-one in its test.
AnyWakeUp(c)     == TRUE
AllButOneIn(c)   == finished + 1 >= n[c]

\* The negation of the waiting loop's condition.
AllBandsIn(c) == finished >= n[c]

\* The caller is back from pthread_cond_wait with bands still missing.
Rewait(c) ==
  /\ cpc[c] = "recheck"
  /\ ~AllBandsIn(c)
  /\ cpc' = [cpc EXCEPT ![c] = "wait"]
  /\ UNCHANGED <<ncpu, poolVars, dlock, workerVars, m, t, n, calls, ran, upc>>

\* All bands are in: release both mutexes and return to the kernel's caller.
Return(c) ==
  /\ cpc[c] = "recheck"
  /\ AllBandsIn(c)
  /\ dlock' = None
  /\ cpc' = [cpc EXCEPT ![c] = "idle"]
  /\ UNCHANGED <<ncpu, poolVars, workerVars, m, t, n, calls, ran, upc>>

(***************************************************************************)
(* The workers.                                                            *)
(***************************************************************************)

\* Mutant: the generation is not compared, so a woken worker always goes on.
AlwaysFresh(w) == TRUE

\* A round this worker has not looked at: the parking loop ends.
FreshRound(w) == gen # seen[w]

\* gen = seen: park on wake.
Park(w) ==
  /\ wpc[w] = "check"
  /\ ~FreshRound(w)
  /\ wpc' = [wpc EXCEPT ![w] = "parked"]
  /\ UNCHANGED <<ncpu, poolVars, dlock, seen, job, callerVars, upc>>

\* inrange = (id < active).
InRange(w) == w < active

\* A new round with a band for this worker: copy fn and arg, leave the mutex.
Take(w) ==
  /\ wpc[w] = "check"
  /\ FreshRound(w)
  /\ ~stop
  /\ InRange(w)
  /\ seen' = [seen EXCEPT ![w] = gen]
  /\ job' = [job EXCEPT ![w] = slot[w]]
  /\ wpc' = [wpc EXCEPT ![w] = "run"]
  /\ UNCHANGED <<ncpu, poolVars, dlock, callerVars, upc>>

\* A new round with no band for this worker: go round the loop again.
Skip(w) ==
  /\ wpc[w] = "check"
  /\ FreshRound(w)
  /\ ~stop
  /\ ~InRange(w)
  /\ seen' = [seen EXCEPT ![w] = gen]
  /\ UNCHANGED <<ncpu, poolVars, dlock, wpc, job, callerVars, upc>>

\* The teardown round: leave the loop.
Exit(w) ==
  /\ wpc[w] = "check"
  /\ FreshRound(w)
  /\ stop
  /\ seen' = [seen EXCEPT ![w] = gen]
  /\ wpc' = [wpc EXCEPT ![w] = "exited"]
  /\ UNCHANGED <<ncpu, poolVars, dlock, job, callerVars, upc>>

\* fn(arg), outside the mutex: the rows of band w of the job's caller.
Run(w) ==
  /\ wpc[w] = "run"
  /\ ran' = [ran EXCEPT ![job[w]][w] = @ + 1]
  /\ wpc' = [wpc EXCEPT ![w] = "report"]
  /\ UNCHANGED <<ncpu, poolVars, dlock, seen, job, cpc, m, t, n, calls, upc>>

\* Mutant: the signal is forgotten.
NotSignalled == cpc

\* pthread_cond_signal(&done): at most the one caller inside dispatch waits.
Signalled == [c \in Callers |-> IF cpc[c] = "wait" THEN "recheck" ELSE cpc[c]]

Report(w) ==
  /\ wpc[w] = "report"
  /\ finished' = finished + 1
  /\ cpc' = Signalled
  /\ wpc' = [wpc EXCEPT ![w] = "check"]
  /\ UNCHANGED <<ncpu, poolN, alive, gen, active, stop, slot, dlock, seen,
                 job, m, t, n, calls, ran, upc>>

\* pthread_cond_wait may return without a wake-up, in either role.
SpuriousWorker(w) ==
  /\ wpc[w] = "parked"
  /\ wpc' = [wpc EXCEPT ![w] = "check"]
  /\ UNCHANGED <<ncpu, poolVars, dlock, seen, job, callerVars, upc>>

SpuriousCaller(c) ==
  /\ cpc[c] = "wait"
  /\ cpc' = [cpc EXCEPT ![c] = "recheck"]
  /\ UNCHANGED <<ncpu, poolVars, dlock, workerVars, m, t, n, calls, ran, upc>>

(***************************************************************************)
(* The destructor mind_mt_pool_shutdown, run at dlclose or exit when no    *)
(* kernel call is in flight.                                               *)
(***************************************************************************)
ShutdownNoPool ==
  /\ upc = "loaded"
  /\ \A c \in Callers : cpc[c] = "idle"
  /\ poolN = 0
  /\ upc' = "unloaded"
  /\ UNCHANGED <<ncpu, poolVars, dlock, workerVars, callerVars>>

ShutdownBegin ==
  /\ upc = "loaded"
  /\ \A c \in Callers : cpc[c] = "idle"
  /\ poolN > 0
  /\ stop' = TRUE
  /\ gen' = gen + 1
  /\ wpc' = Awoken
  /\ upc' = "joining"
  /\ UNCHANGED <<ncpu, poolN, alive, active, finished, slot, dlock, seen, job,
                 callerVars>>

\* pthread_join of every handle.  Joining the handle of a thread that was
\* never created is undefined: it may return an error or crash.
ShutdownJoined ==
  /\ upc = "joining"
  /\ \A w \in alive : wpc[w] = "exited"
  /\ IF alive = 0 .. poolN - 1
     THEN upc' = "unloaded" /\ poolN' = 0
     ELSE \/ upc' = "unloaded" /\ poolN' = 0
          \/ upc' = "crashed" /\ poolN' = poolN
  /\ UNCHANGED <<ncpu, alive, gen, active, finished, stop, slot, dlock,
                 workerVars, callerVars>>

\* The library is gone; nothing of it runs any more.
Terminated ==
  /\ upc \in {"unloaded", "crashed"}
  /\ UNCHANGED vars

CallerStep(c) ==
  PoolInit(c) \/ Truncate(c) \/ LockDispatch(c) \/ Publish(c) \/ Rewait(c)
    \/ Return(c)

WorkerStep(w) ==
  Park(w) \/ Take(w) \/ Skip(w) \/ Exit(w) \/ Run(w) \/ Report(w)

Next ==
  \/ Hotplug
  \/ \E c \in Callers : Call(c) \/ CallerStep(c) \/ SpuriousCaller(c)
  \/ \E w \in Ids : WorkerStep(w) \/ SpuriousWorker(w)
  \/ ShutdownNoPool \/ ShutdownBegin \/ ShutdownJoined
  \/ Terminated

Spec == Init /\ [][Next]_vars

\* Threads are scheduled and mutexes are granted; callers need not call,
\* nobody need unload, and spurious wake-ups and hotplug need not happen.
Fairness ==
  /\ \A c \in Callers : WF_vars(CallerStep(c))
  /\ \A w \in Ids : WF_vars(WorkerStep(w))
  /\ WF_vars(ShutdownJoined)

FairSpec == Spec /\ Fairness

-----------------------------------------------------------------------------
(***************************************************************************)
(* Properties.                                                             *)
(***************************************************************************)

\* Type correctness of the pool, its workers and its callers.
TypeOK ==
  /\ ncpu \in CpuCounts
  /\ poolN \in 0 .. PoolMax
  /\ alive \in SUBSET Ids
  /\ gen \in Nat /\ active \in Nat /\ finished \in Nat
  /\ stop \in BOOLEAN
  /\ slot \in [Ids -> Callers \cup {None}]
  /\ dlock \in Callers \cup {None}
  /\ wpc \in [Ids -> {"none", "check", "parked", "run", "report", "exited"}]
  /\ seen \in [Ids -> Nat]
  /\ job \in [Ids -> Callers \cup {None}]
  /\ cpc \in [Callers -> {"idle", "once", "lock", "publish", "wait", "recheck"}]
  /\ m \in [Callers -> 0 .. MaxRows]
  /\ t \in [Callers -> 1 .. MaxThreads]
  /\ n \in [Callers -> 0 .. MaxThreads]
  /\ calls \in [Callers -> Nat]
  /\ ran \in [Callers -> [Bands -> Nat]]
  /\ upc \in {"loaded", "joining", "unloaded", "crashed"}

InRound(c)  == cpc[c] \in {"wait", "recheck"}
InFlight(w) == wpc[w] \in {"run", "report"}

\* A worker that holds a job is working for the one caller inside the
\* dispatcher, on a band of that caller's round: no band touches the argument
\* structs on a caller's stack after, or before, the call that owns them
\* ("this call JOINS all bands before returning").
NoBandOutlivesCall ==
  \A w \in Ids : InFlight(w) =>
    /\ job[w] \in Callers
    /\ InRound(job[w])
    /\ dlock = job[w]
    /\ w < n[job[w]]

\* When dispatch has returned, every band handed to the pool has run exactly
\* once and no other band has run ("every output element is still written by
\* exactly one thread").
DispatchedBandsRunOnce ==
  \A c \in Callers : cpc[c] = "idle" /\ calls[c] > 0 =>
    \A b \in Bands : ran[c][b] = IF b < n[c] THEN 1 ELSE 0

Returned(c) == cpc[c] = "idle" /\ calls[c] > 0

\* Each of the M rows of the call has been computed by exactly one band.
EachRowOnce(c) ==
  \A r \in 0 .. m[c] - 1 :
    Cardinality({b \in Bands : ran[c][b] > 0
                               /\ r \in BandRows(m[c], t[c], b)}) = 1

\* When a kernel call has returned, each of its rows has been computed by
\* exactly one band: the result does not depend on pool size or thread count
\* ("this never truncates a band in practice").
RowsComputedOnce == \A c \in Callers : Returned(c) => EachRowOnce(c)

\* The same where the pool has a worker for every band the kernel asked for:
\* the ceiling partition leaves no gap, no overlap and no row past the end,
\* whatever the rounds of other callers did in between.
UntruncatedRowsOnce ==
  \A c \in Callers : Returned(c) /\ n[c] = t[c] => EachRowOnce(c)

\* Where a caller is in the abstract loop.
Phase(c) == CASE cpc[c] = "idle" -> "idle"
              [] cpc[c] = "once" -> "called"
              [] OTHER -> "busy"

\* The kernel sees the pool as the abstract parallel loop.
Loop == INSTANCE ParallelFor WITH
  phase <- [c \in Callers |-> Phase(c)],
  want <- n,
  done <- ran

\* Every step of the pool is a step of the parallel loop or invisible to it.
ImplementsParallelFor == Loop!Spec

\* pthread_create has failed for some worker, which pool_init ignores.
WorkerMissing == alive # 0 .. poolN - 1

\* A kernel call that starts returns, whatever the other callers do, unless a
\* worker of the pool could not be created.
CallReturns ==
  \A c \in Callers : cpc[c] # "idle" ~> (cpc[c] = "idle" \/ WorkerMissing)

\* The destructor joins every worker and finishes: no lost wake-up leaves a
\* worker parked.
UnloadCompletes == upc = "joining" ~> (upc = "unloaded" \/ WorkerMissing)
=============================================================================
