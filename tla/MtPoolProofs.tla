---------------------------- MODULE MtPoolProofs ----------------------------
(***************************************************************************)
(* Proofs about the thread pool, for every number of callers, workers,     *)
(* rows and calls: type correctness, the safety properties of a round and  *)
(* of the partition, the refinement of the abstract parallel loop, and     *)
(* that no wake-up is lost, so that calls go on.                           *)
(***************************************************************************)
EXTENDS MtPool, FiniteSetTheorems, TLAPS

(***************************************************************************)
(* The inductive invariant.                                                *)
(***************************************************************************)

Holding(c) == cpc[c] \in {"publish", "wait", "recheck"}
Sized(c)   == cpc[c] \in {"lock", "publish", "wait", "recheck"}

\* The dispatch lock belongs to the one caller past LockDispatch.
LockInv == \A c \in Callers : Holding(c) <=> dlock = c

\* A caller past Truncate has a band and fits the pool.
SizeInv == \A c \in Callers : Sized(c) => n[c] >= 1 /\ n[c] <= poolN

\* The round state describes the call in progress.
RoundInv ==
  \A c \in Callers : InRound(c) =>
    /\ active = n[c]
    /\ \A i \in Ids : i < n[c] => slot[i] = c

\* No worker is ahead of the generation; a busy one is on the current round.
SeenInv ==
  \A w \in Ids : seen[w] <= gen /\ (InFlight(w) => seen[w] = gen)

\* The workers that have reported in the current round.
Reported == {w \in Ids : w < active /\ seen[w] = gen /\ ~InFlight(w)}

\* finished counts them.
CountInv ==
  \A c \in Callers : InRound(c) => finished = Cardinality(Reported)

\* Bands of a call before, during and after its round.
HasRun(w) == w \in Ids /\ seen[w] = gen /\ wpc[w] # "run"
RanInv ==
  \A c \in Callers : \A b \in Bands :
    /\ cpc[c] \in {"once", "lock", "publish"} => ran[c][b] = 0
    /\ InRound(c) =>
         ran[c][b] = IF b < n[c] /\ HasRun(b) THEN 1 ELSE 0

\* Between rounds no worker has a band of an old round left to take.
QuietInv ==
  (\A c \in Callers : ~InRound(c)) =>
    \A w \in Ids : w < active => stop \/ seen[w] = gen

\* Teardown begins only when nobody is inside a kernel.
TeardownInv ==
  /\ upc # "loaded" => \A c \in Callers : cpc[c] = "idle"
  /\ stop => upc # "loaded"

IInv ==
  /\ TypeOK
  /\ LockInv
  /\ SizeInv
  /\ RoundInv
  /\ SeenInv
  /\ NoBandOutlivesCall
  /\ CountInv
  /\ RanInv
  /\ DispatchedBandsRunOnce
  /\ QuietInv
  /\ TeardownInv

-----------------------------------------------------------------------------
(***************************************************************************)
(* Type correctness.                                                       *)
(***************************************************************************)

\* The emitter's thread count lies between 1 and MAX_THREADS.
LEMMA EmitTRange ==
  ASSUME NEW rows \in Nat, NEW cpus \in Nat
  PROVE  EmitT(rows, cpus) \in 1 .. MaxThreads
  BY ConstantsAssumption DEF EmitT, Greatest, Least

\* The initial state is well typed.
LEMMA InitType == Init => TypeOK
  <1> SUFFICES ASSUME Init PROVE TypeOK
    OBVIOUS
  <1>1. ran \in [Callers -> [Bands -> Nat]]
    BY DEF Init
  <1>2. /\ t \in [Callers -> 1 .. MaxThreads]
        /\ n \in [Callers -> 0 .. MaxThreads]
        /\ m \in [Callers -> 0 .. MaxRows]
        /\ poolN \in 0 .. PoolMax
    BY ConstantsAssumption DEF Init
  <1>. QED
    BY <1>1, <1>2 DEF Init, TypeOK

\* Every variable of the pool keeps its type: a step of a caller.
LEMMA CallerTypeStep ==
  ASSUME TypeOK, NEW c \in Callers,
         Call(c) \/ CallerStep(c) \/ SpuriousCaller(c)
  PROVE  TypeOK'
  <1> USE ConstantsAssumption DEF TypeOK
  <1>1. CASE Call(c)
    <2>1. PICK rows \in 0 .. MaxRows :
            /\ m' = [m EXCEPT ![c] = rows]
            /\ t' = [t EXCEPT ![c] = EmitT(rows, ncpu)]
      BY <1>1 DEF Call
    <2>2. ncpu \in Nat /\ rows \in Nat
      BY <2>1
    <2>3. EmitT(rows, ncpu) \in 1 .. MaxThreads
      BY <2>2, EmitTRange
    <2>4. ran' \in [Callers -> [Bands -> Nat]]
      BY <1>1 DEF Call
    <2>. QED
      BY <1>1, <2>1, <2>3, <2>4 DEF Call, poolVars, workerVars
  <1>2. CASE PoolInit(c)
    <2> DEFINE size == Least(Greatest(ncpu, 1), PoolMax)
    <2>1. size \in 1 .. PoolMax
      BY DEF Least, Greatest
    <2>2. PICK up \in SUBSET (0 .. size - 1) :
            /\ poolN' = size
            /\ alive' = up
            /\ wpc' = [i \in Ids |-> IF i \in up THEN "check" ELSE "none"]
      BY <1>2 DEF PoolInit
    <2> HIDE DEF size
    <2>3. up \in SUBSET Ids
      BY <2>1 DEF Ids
    <2>. QED
      BY <1>2, <2>1, <2>2, <2>3 DEF PoolInit, callerVars
  <1>3. CASE Truncate(c)
    BY <1>3 DEF Truncate, Least, poolVars, workerVars
  <1>4. CASE LockDispatch(c)
    BY <1>4 DEF LockDispatch, poolVars, workerVars
  <1>5. CASE Publish(c)
    BY <1>5 DEF Publish, Awoken
  <1>6. CASE Rewait(c)
    BY <1>6 DEF Rewait, poolVars, workerVars
  <1>7. CASE Return(c)
    BY <1>7 DEF Return, poolVars, workerVars
  <1>8. CASE SpuriousCaller(c)
    BY <1>8 DEF SpuriousCaller, poolVars, workerVars
  <1>. QED
    BY <1>1, <1>2, <1>3, <1>4, <1>5, <1>6, <1>7, <1>8 DEF CallerStep

\* Every variable of the pool keeps its type: a step of a worker.
LEMMA WorkerTypeStep ==
  ASSUME TypeOK, NEW w \in Ids, WorkerStep(w) \/ SpuriousWorker(w)
  PROVE  TypeOK'
  <1> USE DEF TypeOK
  <1>1. CASE Park(w)
    BY <1>1 DEF Park, poolVars, callerVars
  <1>2. CASE Take(w)
    BY <1>2 DEF Take, poolVars, callerVars
  <1>3. CASE Skip(w)
    BY <1>3 DEF Skip, poolVars, callerVars
  <1>4. CASE Exit(w)
    BY <1>4 DEF Exit, poolVars, callerVars
  <1>5. CASE Run(w)
    <2>1. ASSUME NEW c \in Callers
          PROVE  ran'[c] \in [Bands -> Nat]
      <3> DEFINE f == ran[c]
      <3>1. ran'[c] = IF c = job[w] THEN [f EXCEPT ![w] = f[w] + 1] ELSE f
        BY <1>5 DEF Run
      <3>2. f \in [Bands -> Nat]
        OBVIOUS
      <3> HIDE DEF f
      <3>3. CASE c = job[w] /\ w \in Bands
        <4>1. f[w] + 1 \in Nat
          BY <3>2, <3>3
        <4>. QED
          BY <3>1, <3>2, <3>3, <4>1
      <3>4. CASE ~(c = job[w] /\ w \in Bands)
        <4>1. ran'[c] = f
          BY <3>1, <3>2, <3>4
        <4>. QED
          BY <3>2, <4>1
      <3>. QED
        BY <3>3, <3>4
    <2>2. ran' \in [Callers -> [Bands -> Nat]]
      BY <1>5, <2>1 DEF Run
    <2>. QED
      BY <1>5, <2>2 DEF Run, poolVars
  <1>6. CASE Report(w)
    BY <1>6 DEF Report, Signalled
  <1>7. CASE SpuriousWorker(w)
    BY <1>7 DEF SpuriousWorker, poolVars, callerVars
  <1>. QED
    BY <1>1, <1>2, <1>3, <1>4, <1>5, <1>6, <1>7 DEF WorkerStep

\* Type correctness of the thread pool for any number of callers and workers.
THEOREM TypeCorrect == Spec => []TypeOK
  <1>1. Init => TypeOK
    BY InitType
  <1>2. TypeOK /\ [Next]_vars => TypeOK'
    <2> SUFFICES ASSUME TypeOK, [Next]_vars PROVE TypeOK'
      OBVIOUS
    <2>1. CASE Hotplug
      BY <2>1 DEF Hotplug, TypeOK, poolVars, workerVars, callerVars
    <2>2. CASE \E c \in Callers : Call(c) \/ CallerStep(c) \/ SpuriousCaller(c)
      BY <2>2, CallerTypeStep
    <2>3. CASE \E w \in Ids : WorkerStep(w) \/ SpuriousWorker(w)
      BY <2>3, WorkerTypeStep
    <2>4. CASE ShutdownNoPool
      BY <2>4 DEF ShutdownNoPool, TypeOK, poolVars, workerVars, callerVars
    <2>5. CASE ShutdownBegin
      BY <2>5 DEF ShutdownBegin, Awoken, TypeOK, callerVars
    <2>6. CASE ShutdownJoined
      BY <2>6, ConstantsAssumption DEF ShutdownJoined, TypeOK, workerVars, callerVars
    <2>7. CASE UNCHANGED vars
      BY <2>7 DEF TypeOK, vars, poolVars, workerVars, callerVars
    <2>. QED
      BY <2>1, <2>2, <2>3, <2>4, <2>5, <2>6, <2>7 DEF Next, Terminated
  <1>. QED
    BY <1>1, <1>2, PTL DEF Spec

-----------------------------------------------------------------------------
(***************************************************************************)
(* Counting the reports of a round.                                        *)
(***************************************************************************)

\* The workers that reported form a finite set.
LEMMA ReportedFinite ==
  ASSUME TypeOK
  PROVE  IsFiniteSet(Reported) /\ Cardinality(Reported) \in Nat
  <1>1. IsFiniteSet(Ids)
    BY ConstantsAssumption, FS_Interval DEF Ids
  <1>2. Reported \in SUBSET Ids
    BY DEF Reported
  <1>3. IsFiniteSet(Reported)
    BY <1>1, <1>2, FS_Subset
  <1>. QED
    BY <1>3, FS_CardinalityType

\* When the waiting loop of dispatch ends, every worker with a band reported.
LEMMA RoundComplete ==
  ASSUME IInv, NEW c \in Callers, InRound(c), AllBandsIn(c)
  PROVE  \A w \in Ids : w < n[c] => w \in Reported
  <1> USE DEF IInv
  <1>1. n[c] \in Nat /\ n[c] <= PoolMax /\ active = n[c]
    BY ConstantsAssumption DEF TypeOK, SizeInv, Sized, RoundInv, InRound
  <1>2. IsFiniteSet(0 .. n[c] - 1) /\ Cardinality(0 .. n[c] - 1) = n[c]
    BY SMTT(30), <1>1, FS_Interval
  <1>3. Reported \in SUBSET (0 .. n[c] - 1)
    BY <1>1, ConstantsAssumption DEF Reported, Ids
  <1>4. Cardinality(Reported) >= n[c]
    BY DEF CountInv, AllBandsIn
  <1>5. Cardinality(Reported) <= n[c] /\ Cardinality(Reported) \in Nat
    BY ZenonT(30), <1>2, <1>3, FS_Subset, ReportedFinite
  <1>6. Cardinality(Reported) = n[c]
    BY <1>1, <1>4, <1>5
  <1>7. Reported = 0 .. n[c] - 1
    BY <1>2, <1>3, <1>6, FS_Subset
  <1>. QED
    BY <1>1, <1>7, ConstantsAssumption DEF Ids

\* When the waiting loop of dispatch ends, each band of the call ran once.
LEMMA CompleteRoundRan ==
  ASSUME IInv, NEW c \in Callers, InRound(c), AllBandsIn(c)
  PROVE  \A b \in Bands : ran[c][b] = IF b < n[c] THEN 1 ELSE 0
  <1>1. \A w \in Ids : w < n[c] => w \in Reported
    BY RoundComplete
  <1>2. n[c] \in Nat /\ n[c] <= PoolMax
    BY ConstantsAssumption DEF IInv, TypeOK, SizeInv, Sized, InRound
  <1>3. \A b \in Bands : b < n[c] => HasRun(b)
    BY <1>1, <1>2, ConstantsAssumption
       DEF Bands, Ids, Reported, InFlight, HasRun
  <1>. QED
    BY <1>3 DEF IInv, RanInv

-----------------------------------------------------------------------------
(***************************************************************************)
(* The invariant is inductive: the steps of a caller.                      *)
(***************************************************************************)

LEMMA CallerInvStep ==
  ASSUME IInv, NEW c \in Callers,
         Call(c) \/ CallerStep(c) \/ SpuriousCaller(c)
  PROVE  IInv'
  <1>0. TypeOK /\ TypeOK'
    BY CallerTypeStep DEF IInv
  <1> USE <1>0, ConstantsAssumption DEF IInv
  <1>1. CASE Call(c)
    <2> USE <1>1 DEF Call, TypeOK, poolVars, workerVars, callerVars
    <2>1. LockInv'
      BY DEF LockInv, Holding
    <2>2. SizeInv'
      BY DEF SizeInv, Sized
    <2>3. RoundInv'
      BY DEF RoundInv, InRound
    <2>4. SeenInv'
      BY DEF SeenInv, InFlight
    <2>5. NoBandOutlivesCall'
      BY DEF NoBandOutlivesCall, InFlight, InRound
    <2>6. CountInv'
      BY DEF CountInv, Reported, InRound, InFlight
    <2>7. RanInv'
      BY DEF RanInv, InRound, HasRun
    <2>8. DispatchedBandsRunOnce'
      BY DEF DispatchedBandsRunOnce
    <2>9. TeardownInv'
      BY DEF TeardownInv
    <2>20. QuietInv'
      BY DEF QuietInv, InRound
    <2>. QED
      BY <2>1, <2>2, <2>3, <2>4, <2>5, <2>6, <2>7, <2>8, <2>9, <2>20
  <1>2. CASE PoolInit(c)
    <2> USE <1>2 DEF PoolInit, TypeOK, poolVars, workerVars, callerVars
    <2>0. \A d \in Callers : ~Sized(d) /\ ~InRound(d)
      BY DEF SizeInv, Sized, InRound
    <2>1. LockInv'
      BY DEF LockInv, Holding
    <2>2. SizeInv'
      BY <2>0 DEF SizeInv, Sized
    <2>3. RoundInv'
      BY DEF RoundInv, InRound
    <2>4. SeenInv'
      BY DEF SeenInv, InFlight
    <2>5. NoBandOutlivesCall'
      BY <2>0 DEF NoBandOutlivesCall, InFlight, InRound
    <2>6. CountInv'
      BY <2>0 DEF CountInv, InRound
    <2>7. RanInv'
      BY <2>0 DEF RanInv, InRound
    <2>8. DispatchedBandsRunOnce'
      BY DEF DispatchedBandsRunOnce
    <2>9. TeardownInv'
      BY DEF TeardownInv
    <2>20. QuietInv'
      BY DEF QuietInv, InRound
    <2>. QED
      BY <2>1, <2>2, <2>3, <2>4, <2>5, <2>6, <2>7, <2>8, <2>9, <2>20
  <1>3. CASE Truncate(c)
    <2> USE <1>3 DEF Truncate, TypeOK, poolVars, workerVars, callerVars
    <2>1. LockInv'
      BY DEF LockInv, Holding
    <2>2. SizeInv'
      BY DEF SizeInv, Sized, Least
    <2>3. RoundInv'
      BY DEF RoundInv, InRound
    <2>4. SeenInv'
      BY DEF SeenInv, InFlight
    <2>5. NoBandOutlivesCall'
      BY DEF NoBandOutlivesCall, InFlight, InRound
    <2>6. CountInv'
      BY DEF CountInv, Reported, InRound, InFlight
    <2>7. RanInv'
      BY DEF RanInv, InRound, HasRun
    <2>8. DispatchedBandsRunOnce'
      BY DEF DispatchedBandsRunOnce
    <2>9. TeardownInv'
      BY DEF TeardownInv
    <2>20. QuietInv'
      BY DEF QuietInv, InRound
    <2>. QED
      BY <2>1, <2>2, <2>3, <2>4, <2>5, <2>6, <2>7, <2>8, <2>9, <2>20
  <1>4. CASE LockDispatch(c)
    <2> USE <1>4 DEF LockDispatch, TypeOK, poolVars, workerVars, callerVars
    <2>1. LockInv'
      BY DEF LockInv, Holding
    <2>2. SizeInv'
      BY DEF SizeInv, Sized
    <2>3. RoundInv'
      BY DEF RoundInv, InRound
    <2>4. SeenInv'
      BY DEF SeenInv, InFlight
    <2>5. NoBandOutlivesCall'
      BY DEF NoBandOutlivesCall, InFlight, InRound
    <2>6. CountInv'
      BY DEF CountInv, Reported, InRound, InFlight
    <2>7. RanInv'
      BY DEF RanInv, InRound, HasRun
    <2>8. DispatchedBandsRunOnce'
      BY DEF DispatchedBandsRunOnce
    <2>9. TeardownInv'
      BY DEF TeardownInv
    <2>20. QuietInv'
      BY DEF QuietInv, InRound
    <2>. QED
      BY <2>1, <2>2, <2>3, <2>4, <2>5, <2>6, <2>7, <2>8, <2>9, <2>20
  <1>5. CASE Publish(c)
    <2> USE <1>5 DEF Publish, TypeOK
    <2>1. LockInv'
      BY DEF LockInv, Holding
    <2>2. SizeInv'
      BY DEF SizeInv, Sized
    <2>3. \A d \in Callers : d # c => ~InRound(d) /\ ~InRound(d)'
      BY DEF LockInv, Holding, InRound
    <2>4. \A w \in Ids : ~InFlight(w)
      BY DEF LockInv, Holding, InRound, NoBandOutlivesCall
    <2>5. \A w \in Ids : ~InFlight(w)'
      BY <2>4 DEF InFlight, Awoken
    <2>6. \A w \in Ids : seen'[w] < gen'
      BY DEF SeenInv
    <2>7. RoundInv'
      <3>1. active' = n'[c] /\ \A i \in Ids : i < n'[c] => slot'[i] = c
        OBVIOUS
      <3>. QED
        BY <2>3, <3>1 DEF RoundInv
    <2>8. SeenInv'
      BY <2>5, <2>6 DEF SeenInv
    <2>9. NoBandOutlivesCall'
      BY <2>5 DEF NoBandOutlivesCall
    <2>10. CountInv'
      <3>1. Reported' = {}
        BY <2>6 DEF Reported
      <3>. QED
        BY <3>1, FS_EmptySet DEF CountInv
    <2>11. RanInv'
      <3>1. \A b \in Bands : ran'[c][b] = 0 /\ ~HasRun(b)'
        BY <2>6 DEF RanInv, HasRun
      <3>2. cpc'[c] = "wait"
        OBVIOUS
      <3>. QED
        BY <2>3, <3>1, <3>2 DEF RanInv
    <2>12. DispatchedBandsRunOnce'
      BY DEF DispatchedBandsRunOnce
    <2>13. TeardownInv'
      BY DEF TeardownInv
    <2>20. QuietInv'
      BY DEF QuietInv, InRound
    <2>. QED
      BY <2>1, <2>2, <2>7, <2>8, <2>9, <2>10, <2>11, <2>12, <2>13, <2>20
  <1>6. CASE Rewait(c)
    <2> USE <1>6 DEF Rewait, TypeOK, poolVars, workerVars, callerVars
    <2>1. LockInv'
      BY DEF LockInv, Holding
    <2>2. SizeInv'
      BY DEF SizeInv, Sized
    <2>3. RoundInv'
      BY DEF RoundInv, InRound
    <2>4. SeenInv'
      BY DEF SeenInv, InFlight
    <2>5. NoBandOutlivesCall'
      BY DEF NoBandOutlivesCall, InFlight, InRound
    <2>6. CountInv'
      BY DEF CountInv, Reported, InRound, InFlight
    <2>7. RanInv'
      BY DEF RanInv, InRound, HasRun
    <2>8. DispatchedBandsRunOnce'
      BY DEF DispatchedBandsRunOnce
    <2>9. TeardownInv'
      BY DEF TeardownInv
    <2>20. QuietInv'
      BY DEF QuietInv, InRound
    <2>. QED
      BY <2>1, <2>2, <2>3, <2>4, <2>5, <2>6, <2>7, <2>8, <2>9, <2>20
  <1>7. CASE Return(c)
    <2> USE <1>7 DEF Return, TypeOK, poolVars, workerVars, callerVars
    <2>0. \A w \in Ids : w < n[c] => w \in Reported
      BY RoundComplete DEF InRound
    <2>1. LockInv'
      BY DEF LockInv, Holding
    <2>2. SizeInv'
      BY DEF SizeInv, Sized
    <2>3. RoundInv'
      BY DEF RoundInv, InRound
    <2>4. SeenInv'
      BY DEF SeenInv, InFlight
    <2>5. NoBandOutlivesCall'
      <3>1. \A w \in Ids : ~InFlight(w)
        BY <2>0 DEF NoBandOutlivesCall, LockInv, Holding, Reported
      <3>. QED
        BY <3>1 DEF NoBandOutlivesCall, InFlight
    <2>6. CountInv'
      BY DEF CountInv, Reported, InRound, InFlight
    <2>7. RanInv'
      BY DEF RanInv, InRound, HasRun
    <2>8. DispatchedBandsRunOnce'
      <3>1. \A b \in Bands : ran[c][b] = IF b < n[c] THEN 1 ELSE 0
        BY CompleteRoundRan DEF InRound
      <3>. QED
        BY <3>1 DEF DispatchedBandsRunOnce
    <2>9. TeardownInv'
      BY DEF TeardownInv
    <2>20. QuietInv'
      BY <2>0 DEF QuietInv, Reported, RoundInv, InRound
    <2>. QED
      BY <2>1, <2>2, <2>3, <2>4, <2>5, <2>6, <2>7, <2>8, <2>9, <2>20
  <1>8. CASE SpuriousCaller(c)
    <2> USE <1>8 DEF SpuriousCaller, TypeOK, poolVars, workerVars, callerVars
    <2>1. LockInv'
      BY DEF LockInv, Holding
    <2>2. SizeInv'
      BY DEF SizeInv, Sized
    <2>3. RoundInv'
      BY DEF RoundInv, InRound
    <2>4. SeenInv'
      BY DEF SeenInv, InFlight
    <2>5. NoBandOutlivesCall'
      BY DEF NoBandOutlivesCall, InFlight, InRound
    <2>6. CountInv'
      BY DEF CountInv, Reported, InRound, InFlight
    <2>7. RanInv'
      BY DEF RanInv, InRound, HasRun
    <2>8. DispatchedBandsRunOnce'
      BY DEF DispatchedBandsRunOnce
    <2>9. TeardownInv'
      BY DEF TeardownInv
    <2>20. QuietInv'
      BY DEF QuietInv, InRound
    <2>. QED
      BY <2>1, <2>2, <2>3, <2>4, <2>5, <2>6, <2>7, <2>8, <2>9, <2>20
  <1>. QED
    BY <1>1, <1>2, <1>3, <1>4, <1>5, <1>6, <1>7, <1>8 DEF CallerStep

(***************************************************************************)
(* The invariant is inductive: the steps of a worker.                      *)
(***************************************************************************)

LEMMA WorkerInvStep ==
  ASSUME IInv, NEW w \in Ids, WorkerStep(w) \/ SpuriousWorker(w)
  PROVE  IInv'
  <1>0. TypeOK /\ TypeOK'
    BY WorkerTypeStep DEF IInv
  <1> USE <1>0, ConstantsAssumption DEF IInv
  <1>1. CASE Park(w)
    <2> USE <1>1 DEF Park, TypeOK, poolVars, callerVars
    <2>1. LockInv'
      BY DEF LockInv, Holding
    <2>2. SizeInv'
      BY DEF SizeInv, Sized
    <2>3. RoundInv'
      BY DEF RoundInv, InRound
    <2>4. SeenInv'
      BY DEF SeenInv, InFlight
    <2>5. NoBandOutlivesCall'
      BY DEF NoBandOutlivesCall, InFlight, InRound
    <2>6. CountInv'
      BY DEF CountInv, Reported, InRound, InFlight
    <2>7. RanInv'
      BY DEF RanInv, InRound, HasRun
    <2>8. DispatchedBandsRunOnce'
      BY DEF DispatchedBandsRunOnce
    <2>9. QuietInv'
      BY DEF QuietInv, InRound
    <2>10. TeardownInv'
      BY DEF TeardownInv
    <2>. QED
      BY <2>1, <2>2, <2>3, <2>4, <2>5, <2>6, <2>7, <2>8, <2>9, <2>10
  <1>2. CASE Take(w)
    <2> USE <1>2 DEF Take, TypeOK, poolVars, callerVars, FreshRound, InRange
    <2>1. LockInv'
      BY DEF LockInv, Holding
    <2>2. SizeInv'
      BY DEF SizeInv, Sized
    <2>3. RoundInv'
      BY DEF RoundInv, InRound
    <2>4. SeenInv'
      BY DEF SeenInv, InFlight
    <2>5. NoBandOutlivesCall'
      <3>1. PICK c \in Callers : InRound(c)
        BY DEF QuietInv
      <3>2. slot[w] = c /\ w < n[c] /\ dlock = c
        BY <3>1 DEF RoundInv, LockInv, Holding, InRound
      <3>3. \A v \in Ids : v # w => (InFlight(v)' <=> InFlight(v))
        BY DEF InFlight
      <3>. QED
        BY <3>1, <3>2, <3>3 DEF NoBandOutlivesCall, InRound
    <2>6. CountInv'
      BY DEF CountInv, Reported, InRound, InFlight
    <2>7. RanInv'
      BY DEF RanInv, InRound, HasRun
    <2>8. DispatchedBandsRunOnce'
      BY DEF DispatchedBandsRunOnce
    <2>9. QuietInv'
      BY DEF QuietInv, InRound
    <2>10. TeardownInv'
      BY DEF TeardownInv
    <2>. QED
      BY <2>1, <2>2, <2>3, <2>4, <2>5, <2>6, <2>7, <2>8, <2>9, <2>10
  <1>3. CASE Skip(w)
    <2> USE <1>3 DEF Skip, TypeOK, poolVars, callerVars, FreshRound, InRange
    <2>1. LockInv'
      BY DEF LockInv, Holding
    <2>2. SizeInv'
      BY DEF SizeInv, Sized
    <2>3. RoundInv'
      BY DEF RoundInv, InRound
    <2>4. SeenInv'
      BY DEF SeenInv, InFlight
    <2>5. NoBandOutlivesCall'
      BY DEF NoBandOutlivesCall, InFlight, InRound
    <2>6. CountInv'
      BY DEF CountInv, Reported, InRound, InFlight
    <2>7. RanInv'
      <3>1. \A c \in Callers : InRound(c) => ~(w < n[c])
        BY DEF RoundInv
      <3>2. \A b \in Bands : b # w => (HasRun(b)' <=> HasRun(b))
        BY DEF HasRun
      <3>. QED
        BY <3>1, <3>2 DEF RanInv, InRound
    <2>8. DispatchedBandsRunOnce'
      BY DEF DispatchedBandsRunOnce
    <2>9. QuietInv'
      BY DEF QuietInv, InRound
    <2>10. TeardownInv'
      BY DEF TeardownInv
    <2>. QED
      BY <2>1, <2>2, <2>3, <2>4, <2>5, <2>6, <2>7, <2>8, <2>9, <2>10
  <1>4. CASE Exit(w)
    <2> USE <1>4 DEF Exit, TypeOK, poolVars, callerVars, FreshRound
    <2>0. \A c \in Callers : cpc[c] = "idle" /\ ~InRound(c)
      BY DEF TeardownInv, InRound
    <2>1. LockInv'
      BY DEF LockInv, Holding
    <2>2. SizeInv'
      BY DEF SizeInv, Sized
    <2>3. RoundInv'
      BY DEF RoundInv, InRound
    <2>4. SeenInv'
      BY DEF SeenInv, InFlight
    <2>5. NoBandOutlivesCall'
      BY DEF NoBandOutlivesCall, InFlight, InRound
    <2>6. CountInv'
      BY <2>0 DEF CountInv, InRound
    <2>7. RanInv'
      BY <2>0 DEF RanInv, InRound
    <2>8. DispatchedBandsRunOnce'
      BY DEF DispatchedBandsRunOnce
    <2>9. QuietInv'
      BY DEF QuietInv, InRound
    <2>10. TeardownInv'
      BY DEF TeardownInv
    <2>. QED
      BY <2>1, <2>2, <2>3, <2>4, <2>5, <2>6, <2>7, <2>8, <2>9, <2>10
  <1>5. CASE Run(w)
    <2> USE <1>5 DEF Run, TypeOK, poolVars, callerVars
    <2> DEFINE j == job[w]
    <2>a. j \in Callers /\ InRound(j) /\ w < n[j] /\ dlock = j
      BY DEF NoBandOutlivesCall, InFlight
    <2>b. w \in Bands /\ ~HasRun(w)
      BY <2>a DEF Bands, Ids, HasRun
    <2>c. ran[j][w] = 0
      BY <2>a, <2>b DEF RanInv
    <2>d. \A c \in Callers : \A b \in Bands :
            ran'[c][b] = IF c = j /\ b = w THEN 1 ELSE ran[c][b]
      BY <2>a, <2>b, <2>c
    <2> HIDE DEF j
    <2>1. LockInv'
      BY DEF LockInv, Holding
    <2>2. SizeInv'
      BY DEF SizeInv, Sized
    <2>3. RoundInv'
      BY DEF RoundInv, InRound
    <2>4. SeenInv'
      BY DEF SeenInv, InFlight
    <2>5. NoBandOutlivesCall'
      BY DEF NoBandOutlivesCall, InFlight, InRound
    <2>6. CountInv'
      BY DEF CountInv, Reported, InRound, InFlight
    <2>7. RanInv'
      <3>1. \A b \in Bands : b # w => (HasRun(b)' <=> HasRun(b))
        BY DEF HasRun
      <3>2. HasRun(w)'
        BY DEF HasRun, SeenInv, InFlight
      <3>3. \A c \in Callers : InRound(c) => c = j
        BY <2>a DEF LockInv, Holding, InRound
      <3>. QED
        BY <2>a, <2>b, <2>d, <3>1, <3>2, <3>3 DEF RanInv, InRound
    <2>8. DispatchedBandsRunOnce'
      BY <2>a, <2>d DEF DispatchedBandsRunOnce, InRound
    <2>9. QuietInv'
      BY DEF QuietInv, InRound
    <2>10. TeardownInv'
      BY DEF TeardownInv
    <2>. QED
      BY <2>1, <2>2, <2>3, <2>4, <2>5, <2>6, <2>7, <2>8, <2>9, <2>10
  <1>6. CASE Report(w)
    <2> USE <1>6 DEF Report, TypeOK, poolVars, callerVars, Signalled
    <2>1. LockInv'
      BY DEF LockInv, Holding
    <2>2. SizeInv'
      BY DEF SizeInv, Sized
    <2>3. RoundInv'
      BY DEF RoundInv, InRound
    <2>4. SeenInv'
      BY DEF SeenInv, InFlight
    <2>5. NoBandOutlivesCall'
      BY DEF NoBandOutlivesCall, InFlight, InRound
    <2>6. CountInv'
      <3>1. PICK c \in Callers : InRound(c) /\ w < n[c]
        BY DEF NoBandOutlivesCall, InFlight
      <3>2. active = n[c] /\ seen[w] = gen
        BY <3>1 DEF RoundInv, SeenInv, InFlight
      <3>3. Reported' = Reported \cup {w}
        BY <3>1, <3>2 DEF Reported, InFlight
      <3>4. w \notin Reported
        BY DEF Reported, InFlight
      <3>5. Cardinality(Reported') = Cardinality(Reported) + 1
        BY <3>3, <3>4, ReportedFinite, FS_AddElement
      <3>6. finished = Cardinality(Reported)
        BY <3>1 DEF CountInv
      <3>. QED
        BY <3>5, <3>6 DEF CountInv
    <2>7. RanInv'
      BY DEF RanInv, InRound, HasRun
    <2>8. DispatchedBandsRunOnce'
      BY DEF DispatchedBandsRunOnce
    <2>9. QuietInv'
      BY DEF QuietInv, InRound
    <2>10. TeardownInv'
      BY DEF TeardownInv
    <2>. QED
      BY <2>1, <2>2, <2>3, <2>4, <2>5, <2>6, <2>7, <2>8, <2>9, <2>10
  <1>7. CASE SpuriousWorker(w)
    <2> USE <1>7 DEF SpuriousWorker, TypeOK, poolVars, callerVars
    <2>1. LockInv'
      BY DEF LockInv, Holding
    <2>2. SizeInv'
      BY DEF SizeInv, Sized
    <2>3. RoundInv'
      BY DEF RoundInv, InRound
    <2>4. SeenInv'
      BY DEF SeenInv, InFlight
    <2>5. NoBandOutlivesCall'
      BY DEF NoBandOutlivesCall, InFlight, InRound
    <2>6. CountInv'
      BY DEF CountInv, Reported, InRound, InFlight
    <2>7. RanInv'
      BY DEF RanInv, InRound, HasRun
    <2>8. DispatchedBandsRunOnce'
      BY DEF DispatchedBandsRunOnce
    <2>9. QuietInv'
      BY DEF QuietInv, InRound
    <2>10. TeardownInv'
      BY DEF TeardownInv
    <2>. QED
      BY <2>1, <2>2, <2>3, <2>4, <2>5, <2>6, <2>7, <2>8, <2>9, <2>10
  <1>. QED
    BY <1>1, <1>2, <1>3, <1>4, <1>5, <1>6, <1>7 DEF WorkerStep

(***************************************************************************)
(* The invariant is inductive: the environment and the destructor.         *)
(***************************************************************************)

LEMMA OtherInvStep ==
  ASSUME IInv, Hotplug \/ ShutdownNoPool \/ ShutdownBegin \/ ShutdownJoined
                 \/ UNCHANGED vars, TypeOK'
  PROVE  IInv'
  <1> USE DEF IInv
  <1>1. CASE Hotplug \/ UNCHANGED vars
    BY <1>1 DEF Hotplug, vars, poolVars, workerVars, callerVars, LockInv,
       Holding, SizeInv, Sized, RoundInv, InRound, SeenInv, InFlight,
       NoBandOutlivesCall, CountInv, Reported, RanInv, HasRun,
       DispatchedBandsRunOnce, QuietInv, TeardownInv
  <1>2. CASE ShutdownNoPool \/ ShutdownBegin \/ ShutdownJoined
    <2>1. \A c \in Callers : cpc[c] = "idle" /\ cpc'[c] = "idle"
      BY <1>2 DEF ShutdownNoPool, ShutdownBegin, ShutdownJoined, TeardownInv,
         callerVars
    <2>2. \A w \in Ids : ~InFlight(w) /\ ~InFlight(w)'
      <3>1. \A w \in Ids : ~InFlight(w)
        BY <2>1 DEF NoBandOutlivesCall, InRound
      <3>. QED
        BY SMTT(30), <1>2, <3>1 DEF ShutdownNoPool, ShutdownBegin, ShutdownJoined,
           InFlight, Awoken, workerVars, TypeOK
    <2>3. LockInv' /\ SizeInv' /\ RoundInv' /\ CountInv' /\ RanInv'
      BY <1>2, <2>1 DEF ShutdownNoPool, ShutdownBegin, ShutdownJoined, LockInv,
         Holding, SizeInv, Sized, RoundInv, CountInv, RanInv, InRound
    <2>4. SeenInv'
      BY SMTT(30), <1>2, <2>2 DEF ShutdownNoPool, ShutdownBegin, ShutdownJoined, SeenInv,
         poolVars, workerVars, TypeOK
    <2>5. NoBandOutlivesCall'
      BY <2>2 DEF NoBandOutlivesCall
    <2>6. DispatchedBandsRunOnce'
      BY <1>2 DEF ShutdownNoPool, ShutdownBegin, ShutdownJoined,
         DispatchedBandsRunOnce, callerVars
    <2>7. QuietInv' /\ TeardownInv'
      BY <1>2, <2>1 DEF ShutdownNoPool, ShutdownBegin, ShutdownJoined, QuietInv,
         TeardownInv, poolVars, workerVars, InRound
    <2>. QED
      BY <2>3, <2>4, <2>5, <2>6, <2>7
  <1>. QED
    BY <1>1, <1>2

\* The invariant holds in every reachable state of the pool.
THEOREM Invariance == Spec => []IInv
  <1>1. Init => IInv
    <2> SUFFICES ASSUME Init, TypeOK PROVE IInv
      BY InitType
    <2>. QED
      BY ConstantsAssumption DEF Init, IInv, LockInv, Holding, SizeInv, Sized,
         RoundInv, InRound, SeenInv, InFlight, NoBandOutlivesCall, CountInv,
         RanInv, DispatchedBandsRunOnce, QuietInv, TeardownInv
  <1>2. IInv /\ TypeOK' /\ [Next]_vars => IInv'
    BY CallerInvStep, WorkerInvStep, OtherInvStep DEF Next, Terminated
  <1>. QED
    BY <1>1, <1>2, TypeCorrect, PTL DEF Spec

\* No band of a kernel call runs outside that call, for any pool and any
\* number of concurrent callers: the argument structs live on the caller's
\* stack.
THEOREM BandsStayInsideCalls == Spec => []NoBandOutlivesCall
  BY Invariance, PTL DEF IInv

\* A dispatch that returned ran each of its bands exactly once.
THEOREM BandsRunOnce == Spec => []DispatchedBandsRunOnce
  BY Invariance, PTL DEF IInv

-----------------------------------------------------------------------------
(***************************************************************************)
(* The partition of the rows.                                              *)
(***************************************************************************)

\* Of two multiples of q the later one starts where the earlier one's band ends,
\* or after.
LEMMA MultiplesApart ==
  ASSUME NEW q \in Nat, NEW i \in Nat, NEW j \in Nat, i < j
  PROVE  i * q + q <= j * q
  <1>1. (j - i - 1) * q >= 0
    OBVIOUS
  <1>2. j * q = (j - i - 1) * q + i * q + q
    OBVIOUS
  <1> QED
    BY <1>1, <1>2

\* Rounding up: the bands are not empty and together cover the rows.
LEMMA Ceiling ==
  ASSUME NEW rows \in Nat \ {0}, NEW bands \in Nat \ {0}
  PROVE  /\ BandSize(rows, bands) \in Nat \ {0}
         /\ rows <= bands * BandSize(rows, bands)
  <1> DEFINE q == BandSize(rows, bands)
             s == (rows + bands - 1) % bands
  <1>1. q \in Int /\ s \in 0 .. bands - 1 /\ rows + bands - 1 = bands * q + s
    BY DEF BandSize
  <1> HIDE DEF q, s
  <1>2. rows <= bands * q
    BY <1>1
  <1>3. q > 0
    <2>1. SUFFICES ASSUME q <= 0 PROVE FALSE
      BY <1>1
    <2>2. bands * (0 - q) >= 0
      BY <1>1, <2>1
    <2>3. bands * (0 - q) = 0 - bands * q
      BY <1>1
    <2> QED BY <1>1, <1>2, <2>2, <2>3
  <1> QED BY <1>1, <1>2, <1>3 DEF q

\* Every row lies between two multiples of the band size.
LEMMA Quotient ==
  ASSUME NEW r \in Nat, NEW q \in Nat \ {0}
  PROVE  \E i \in Nat : i * q <= r /\ r < i * q + q
  <1> DEFINE i == r \div q
  <1>1. i \in Int /\ r % q \in 0 .. q - 1 /\ r = q * i + (r % q)
    OBVIOUS
  <1>2. i >= 0
    OBVIOUS
  <1>3. q * i = i * q
    BY <1>1
  <1> HIDE DEF i
  <1>4. i \in Nat /\ i * q <= r /\ r < i * q + q
    BY <1>1, <1>2, <1>3
  <1> QED BY <1>4

\* The ceiling partition: each row is in one band, and in no other, whether the
\* row count is below, above or no multiple of the number of bands.
LEMMA OneBandPerRow ==
  ASSUME NEW rows \in Nat, NEW bands \in Nat \ {0}, NEW r \in 0 .. rows - 1
  PROVE  \E i \in 0 .. bands - 1 :
           \A b \in Nat : r \in BandRows(rows, bands, b) <=> b = i
  <1> DEFINE q == BandSize(rows, bands)
  <1>1. rows \in Nat \ {0} /\ r \in Nat /\ r < rows
    OBVIOUS
  <1>2. q \in Nat \ {0} /\ rows <= bands * q
    BY <1>1, Ceiling
  <1>3. ASSUME NEW b \in Nat
        PROVE  r \in BandRows(rows, bands, b) <=> b * q <= r /\ r < b * q + q
    <2> HIDE DEF q
    <2>1. b * q \in Nat
      BY <1>2
    <2>2. r \in BandRows(rows, bands, b) <=>
            /\ Least(b * q, rows) <= r
            /\ r < Least(Least(b * q, rows) + q, rows)
      BY DEF BandRows, RowStart, RowEnd, q
    <2> QED BY <1>1, <1>2, <2>1, <2>2 DEF Least
  <1> HIDE DEF q
  <1>4. PICK i \in Nat : i * q <= r /\ r < i * q + q
    BY <1>1, <1>2, Quotient
  <1>5. i < bands
    <2>1. SUFFICES ASSUME ~(i < bands) PROVE FALSE
      OBVIOUS
    <2>2. bands * q <= i * q
      <3>1. CASE i = bands
        BY <3>1, <1>2
      <3>2. CASE bands < i
        <4>1. bands * q + q <= i * q
          BY <3>2, <1>2, MultiplesApart
        <4>2. bands * q \in Nat /\ i * q \in Nat
          BY <1>2
        <4> QED BY <4>1, <4>2, <1>2
      <3> QED BY <2>1, <3>1, <3>2
    <2>3. bands * q \in Nat /\ i * q \in Nat
      BY <1>2
    <2> QED BY <1>1, <1>2, <1>4, <2>2, <2>3
  <1>6. ASSUME NEW b \in Nat, b * q <= r, r < b * q + q PROVE b = i
    <2>1. b * q \in Nat /\ i * q \in Nat
      BY <1>2
    <2>2. ~(b < i)
      <3>1. b < i => b * q + q <= i * q
        BY <1>2, MultiplesApart
      <3> QED BY <1>1, <1>2, <1>4, <1>6, <2>1, <3>1
    <2>3. ~(i < b)
      <3>1. i < b => i * q + q <= b * q
        BY <1>2, MultiplesApart
      <3> QED BY <1>1, <1>2, <1>4, <1>6, <2>1, <3>1
    <2> QED BY <2>2, <2>3
  <1>7. i \in 0 .. bands - 1
    BY <1>5
  <1>8. \A b \in Nat : r \in BandRows(rows, bands, b) <=> b = i
    BY <1>3, <1>4, <1>6
  <1> QED BY <1>7, <1>8

\* Each row of a call whose bands all had a worker has been computed by exactly
\* one band (the partition the Q16.16 kernels emit, with the dispatcher).
THEOREM RowsOnce == Spec => []UntruncatedRowsOnce
  <1>1. TypeOK /\ DispatchedBandsRunOnce => UntruncatedRowsOnce
    <2> SUFFICES ASSUME TypeOK, DispatchedBandsRunOnce PROVE UntruncatedRowsOnce
      OBVIOUS
    <2> SUFFICES ASSUME NEW c \in Callers, Returned(c), n[c] = t[c],
                        NEW r \in 0 .. m[c] - 1
                 PROVE  Cardinality({b \in Bands : ran[c][b] > 0
                                       /\ r \in BandRows(m[c], t[c], b)}) = 1
      BY DEF UntruncatedRowsOnce, EachRowOnce
    <2>1. m[c] \in Nat /\ t[c] \in Nat \ {0} /\ t[c] <= MaxThreads
      BY ConstantsAssumption DEF TypeOK
    <2>2. PICK i \in 0 .. t[c] - 1 :
            \A b \in Nat : r \in BandRows(m[c], t[c], b) <=> b = i
      BY <2>1, OneBandPerRow
    <2>3. \A b \in Bands : ran[c][b] > 0 <=> b < t[c]
      BY DEF DispatchedBandsRunOnce, Returned
    <2>4. i \in Bands /\ Bands \subseteq Nat
      BY <2>1, ConstantsAssumption DEF Bands
    <2>5. {b \in Bands : ran[c][b] > 0 /\ r \in BandRows(m[c], t[c], b)} = {i}
      BY <2>1, <2>2, <2>3, <2>4
    <2> QED BY <2>5, FS_Singleton
  <1>. QED
    BY <1>1, TypeCorrect, BandsRunOnce, PTL

-----------------------------------------------------------------------------
(***************************************************************************)
(* Refinement.                                                             *)
(***************************************************************************)

\* The pool implements the abstract parallel loop: seen from the kernels, only
\* whole bands, each once, and complete calls are visible.
THEOREM Refinement == Spec => ImplementsParallelFor
  <1> DEFINE phase == [c \in Callers |-> Phase(c)]
  <1>1. Init => Loop!Init
    BY DEF Init, Phase, Loop!Init, Loop!Bands, Bands
  <1>2. IInv /\ [Next]_vars => [Loop!Next]_(Loop!vars)
    <2> SUFFICES ASSUME IInv, [Next]_vars
                 PROVE  Loop!Next \/ UNCHANGED <<phase, n, ran>>
      BY DEF Loop!vars
    <2> USE DEF IInv, TypeOK
    <2>1. ASSUME NEW c \in Callers, Call(c)
          PROVE  Loop!Call(c)
      BY <2>1 DEF Call, Phase, Loop!Call, Loop!Bands, Bands
    <2>2. ASSUME NEW c \in Callers, Truncate(c)
          PROVE  Loop!FixBands(c)
      <3>1. Least(t[c], poolN) \in 1 .. MaxThreads
        BY <2>2, ConstantsAssumption DEF Truncate, Least
      <3>2. phase' = [phase EXCEPT ![c] = "busy"] /\ phase[c] = "called"
        BY <2>2 DEF Truncate, Phase
      <3>. QED
        BY <2>2, <3>1, <3>2 DEF Truncate, Loop!FixBands
    <2>3. ASSUME NEW c \in Callers, Return(c)
          PROVE  Loop!Return(c)
      <3>1. InRound(c) /\ AllBandsIn(c)
        BY <2>3 DEF Return, InRound
      <3>2. \A b \in Bands : b < n[c] => ran[c][b] = 1
        BY <3>1, CompleteRoundRan
      <3>3. phase' = [phase EXCEPT ![c] = "idle"] /\ phase[c] = "busy"
        BY <2>3 DEF Return, Phase
      <3>. QED
        BY <2>3, <3>2, <3>3 DEF Return, Loop!Return, Loop!Bands, Bands
    <2>4. ASSUME NEW w \in Ids, Run(w)
          PROVE  \E c \in Callers : \E b \in Loop!Bands : Loop!RunBand(c, b)
      <3> DEFINE j == job[w]
      <3>1. j \in Callers /\ InRound(j) /\ w < n[j]
        BY <2>4 DEF Run, NoBandOutlivesCall, InFlight
      <3>2. w \in Bands
        BY <3>1, ConstantsAssumption DEF Bands, Ids
      <3>3. ran[j][w] = 0
        BY <2>4, <3>1, <3>2 DEF Run, RanInv, HasRun
      <3>4. phase[j] = "busy" /\ phase' = phase
        BY <2>4, <3>1 DEF Run, Phase, InRound
      <3>5. ran' = [ran EXCEPT ![j][w] = 1]
        BY <2>4, <3>3 DEF Run
      <3>6. Loop!RunBand(j, w)
        BY <2>4, <3>1, <3>3, <3>4, <3>5 DEF Run, Loop!RunBand
      <3>. QED
        BY <3>1, <3>2, <3>6 DEF Loop!Bands, Bands
    <2>5. ASSUME NEW c \in Callers,
                 PoolInit(c) \/ LockDispatch(c) \/ Publish(c) \/ Rewait(c)
                   \/ SpuriousCaller(c)
          PROVE  UNCHANGED <<phase, n, ran>>
      BY <2>5 DEF PoolInit, LockDispatch, Publish, Rewait, SpuriousCaller,
         callerVars, Phase
    <2>6. ASSUME NEW w \in Ids,
                 Park(w) \/ Take(w) \/ Skip(w) \/ Exit(w) \/ Report(w)
                   \/ SpuriousWorker(w)
          PROVE  UNCHANGED <<phase, n, ran>>
      BY <2>6 DEF Park, Take, Skip, Exit, Report, SpuriousWorker, Signalled,
         callerVars, Phase
    <2>7. ASSUME Hotplug \/ ShutdownNoPool \/ ShutdownBegin \/ ShutdownJoined
                   \/ UNCHANGED vars
          PROVE  UNCHANGED <<phase, n, ran>>
      BY <2>7 DEF Hotplug, ShutdownNoPool, ShutdownBegin, ShutdownJoined, vars,
         callerVars, Phase
    <2> HIDE DEF phase
    <2>. QED
      BY <2>1, <2>2, <2>3, <2>4, <2>5, <2>6, <2>7
         DEF Next, CallerStep, WorkerStep, Terminated, Loop!Next
  <1>. QED
    BY <1>1, <1>2, Invariance, PTL DEF Spec, ImplementsParallelFor, Loop!Spec

-----------------------------------------------------------------------------
(***************************************************************************)
(* No wake-up is lost.  What CallReturns and UnloadCompletes need of the   *)
(* code, apart from fair scheduling: nobody sleeps while there is          *)
(* something for him to do, and what a round has achieved is not undone.   *)
(***************************************************************************)

\* A parked worker has seen the latest round: the broadcast of a later one
\* finds it in the parking loop or about to test the generation again.
AwakeInv == \A w \in Ids : wpc[w] = "parked" => seen[w] = gen

\* A caller sleeps only while a band is missing: the signal of the last
\* report cannot come before the wait.
WaitInv == \A c \in Callers : cpc[c] = "wait" => finished < n[c]

\* Workers that were created go round their loop until the teardown.
LoopInv == \A w \in Ids : /\ w \in alive => wpc[w] # "none"
                          /\ wpc[w] = "exited" => stop

\* While the destructor joins, each worker has left or has yet to see that
\* it should.
JoinInv == upc = "joining" => /\ stop
                              /\ \A w \in alive : wpc[w] = "exited" \/ seen[w] # gen

WakeInv == AwakeInv /\ WaitInv /\ LoopInv /\ JoinInv

\* The guards of the steps that bring the calls forward.
CallerCanGo(c) ==
  \/ cpc[c] \in {"once", "publish", "recheck"}
  \/ cpc[c] = "lock" /\ dlock = None

BandCanGo(w) ==
  InFlight(w) \/ (wpc[w] = "check" /\ FreshRound(w) /\ ~stop /\ InRange(w))

\* While a kernel call is in progress some caller can go on or some band can
\* be taken, run or reported, unless a worker could not be created: callers
\* and workers never all wait for one another.
CallsNeverStuck ==
  ~WorkerMissing /\ (\E c \in Callers : cpc[c] # "idle") =>
    (\E c \in Callers : CallerCanGo(c)) \/ (\E w \in Ids : BandCanGo(w))

\* While the destructor joins, each worker it waits for is in its loop with
\* the teardown round before it, and leaves at its next step.
JoinNeverStuck ==
  upc = "joining" =>
    \A w \in alive : wpc[w] # "exited" => wpc[w] = "check" /\ FreshRound(w) /\ stop

\* The bands of the current round that have been taken and that have run.
Taken    == {w \in Ids : w < active /\ seen[w] = gen}
Executed == {w \in Ids : w < active /\ HasRun(w)}

\* What a round has achieved stays achieved until the caller returns, and
\* each step on a band adds to it.
RoundAdvances ==
  \A c \in Callers : InRound(c) /\ InRound(c)' =>
    /\ Taken \subseteq Taken' /\ Executed \subseteq Executed' /\ Reported \subseteq Reported'
    /\ \A w \in Ids : /\ Take(w) => w \in Taken' \ Taken
                      /\ Run(w) => w \in Executed' \ Executed
                      /\ Report(w) => w \in Reported' \ Reported

-----------------------------------------------------------------------------
LEMMA CallerWakeStep ==
  ASSUME IInv, WakeInv, NEW c \in Callers,
         Call(c) \/ CallerStep(c) \/ SpuriousCaller(c), TypeOK'
  PROVE  WakeInv'
  <1> USE DEF WakeInv
  <1>0. TypeOK /\ TypeOK' /\ upc' = upc /\ upc # "joining" /\ stop' = stop
    <2>1. cpc[c] # "idle" \/ upc = "loaded"
      BY DEF Call, CallerStep, PoolInit, Truncate, LockDispatch, Publish, Rewait, Return,
             SpuriousCaller
    <2>2. upc # "joining"
      BY <2>1 DEF IInv, TeardownInv
    <2>. QED
      BY <2>2 DEF IInv, Call, CallerStep, PoolInit, Truncate, LockDispatch, Publish, Rewait,
             Return, SpuriousCaller, poolVars
  <1>1. JoinInv'
    BY <1>0 DEF JoinInv
  <1>2. CASE PoolInit(c)
    <2>1. PICK up : /\ alive' = up
                    /\ wpc' = [i \in Ids |-> IF i \in up THEN "check" ELSE "none"]
      BY <1>2 DEF PoolInit
    <2>2. AwakeInv' /\ LoopInv'
      BY <2>1 DEF AwakeInv, LoopInv
    <2>3. WaitInv'
      BY <1>2 DEF PoolInit, callerVars, WaitInv
    <2>. QED
      BY <1>1, <2>2, <2>3
  <1>3. CASE Publish(c)
    <2>1. /\ wpc' = [i \in Ids |-> IF wpc[i] = "parked" THEN "check" ELSE wpc[i]]
          /\ alive' = alive /\ finished' = 0 /\ n' = n /\ cpc' = [cpc EXCEPT ![c] = "wait"]
      BY <1>3 DEF Publish, Awoken
    <2>2. AwakeInv' /\ LoopInv'
      BY <1>0, <2>1 DEF AwakeInv, LoopInv
    <2>3. WaitInv'
      <3> SUFFICES ASSUME NEW d \in Callers, cpc'[d] = "wait" PROVE 0 < n[d]
        BY <2>1 DEF WaitInv
      <3>1. Sized(d)
        BY <1>0, <1>3, <2>1 DEF Sized, TypeOK, Publish
      <3>. QED
        BY <1>0, <3>1 DEF IInv, SizeInv, TypeOK
    <2>. QED
      BY <1>1, <2>2, <2>3
  <1>4. CASE Call(c) \/ Truncate(c) \/ LockDispatch(c) \/ Rewait(c) \/ Return(c)
               \/ SpuriousCaller(c)
    <2>1. UNCHANGED <<wpc, seen, gen, alive, finished>>
      BY <1>4 DEF Call, Truncate, LockDispatch, Rewait, Return, SpuriousCaller, poolVars,
             workerVars
    <2>2. AwakeInv' /\ LoopInv'
      BY <1>0, <2>1 DEF AwakeInv, LoopInv
    <2>3. \A d \in Callers : cpc'[d] = "wait" => n'[d] = n[d] /\ finished < n[d]
      <3>1. CASE Call(c) \/ LockDispatch(c) \/ Return(c) \/ SpuriousCaller(c)
        BY <1>0, <3>1 DEF Call, LockDispatch, Return, SpuriousCaller, WaitInv, TypeOK
      <3>2. CASE Truncate(c)
        BY <1>0, <3>2 DEF Truncate, WaitInv, TypeOK
      <3>3. CASE Rewait(c)
        BY <1>0, <3>3 DEF Rewait, AllBandsIn, WaitInv, TypeOK
      <3>. QED
        BY <1>4, <3>1, <3>2, <3>3
    <2>. QED
      BY <1>1, <2>1, <2>2, <2>3 DEF WaitInv
  <1>. QED
    BY <1>2, <1>3, <1>4 DEF CallerStep

LEMMA WorkerWakeStep ==
  ASSUME IInv, WakeInv, NEW w \in Ids, WorkerStep(w) \/ SpuriousWorker(w)
  PROVE  WakeInv'
  <1> USE DEF WakeInv
  <1>0. /\ alive \subseteq Ids /\ UNCHANGED <<upc, stop, gen, alive, n>>
        /\ wpc \in [Ids -> {"none", "check", "parked", "run", "report", "exited"}]
        /\ seen \in [Ids -> Nat] /\ cpc \in [Callers -> {"idle", "once", "lock", "publish", "wait", "recheck"}]
    BY DEF IInv, TypeOK, WorkerStep, Park, Take, Skip, Exit, Run, Report, SpuriousWorker,
           poolVars, callerVars
  <1>1. WaitInv'
    <2>1. CASE Report(w)
      BY <1>0, <2>1 DEF Report, Signalled, WaitInv
    <2>2. CASE UNCHANGED <<cpc, finished>>
      BY <1>0, <2>2 DEF WaitInv
    <2>. QED
      BY <2>1, <2>2 DEF WorkerStep, Park, Take, Skip, Exit, Run, SpuriousWorker, poolVars,
         callerVars
  <1>2. CASE Park(w)
    BY <1>0, <1>1, <1>2 DEF Park, FreshRound, AwakeInv, LoopInv, JoinInv
  <1>3. CASE Take(w) \/ Skip(w)
    <2>1. JoinInv'
      BY <1>0, <1>3 DEF Take, Skip, JoinInv
    <2>2. AwakeInv' /\ LoopInv'
      BY <1>0, <1>3 DEF Take, Skip, AwakeInv, LoopInv
    <2>. QED
      BY <1>1, <2>1, <2>2
  <1>4. CASE Exit(w)
    BY <1>0, <1>1, <1>4 DEF Exit, AwakeInv, LoopInv, JoinInv
  <1>5. CASE Run(w) \/ Report(w) \/ SpuriousWorker(w)
    <2>1. seen' = seen /\ wpc[w] # "exited"
      BY <1>5 DEF Run, Report, SpuriousWorker
    <2>2. wpc' = [wpc EXCEPT ![w] = "report"] \/ wpc' = [wpc EXCEPT ![w] = "check"]
      BY <1>5 DEF Run, Report, SpuriousWorker
    <2>3. JoinInv'
      BY <1>0, <2>1, <2>2 DEF JoinInv
    <2>4. AwakeInv' /\ LoopInv'
      BY <1>0, <2>1, <2>2 DEF AwakeInv, LoopInv
    <2>. QED
      BY <1>1, <2>3, <2>4
  <1>. QED
    BY <1>2, <1>3, <1>4, <1>5 DEF WorkerStep

LEMMA OtherWakeStep ==
  ASSUME IInv, WakeInv, Hotplug \/ ShutdownNoPool \/ ShutdownBegin \/ ShutdownJoined
                          \/ UNCHANGED vars
  PROVE  WakeInv'
  <1> USE DEF WakeInv
  <1>1. CASE Hotplug \/ UNCHANGED vars
    BY <1>1 DEF Hotplug, vars, poolVars, workerVars, callerVars, AwakeInv, WaitInv, LoopInv, JoinInv
  <1>2. CASE ShutdownNoPool \/ ShutdownJoined
    BY <1>2 DEF ShutdownNoPool, ShutdownJoined, poolVars, workerVars, callerVars, AwakeInv, WaitInv,
       LoopInv, JoinInv
  <1>3. CASE ShutdownBegin
    <2>1. /\ wpc' = [i \in Ids |-> IF wpc[i] = "parked" THEN "check" ELSE wpc[i]]
          /\ stop' = TRUE /\ gen' = gen + 1 /\ UNCHANGED <<alive, seen, finished, n, cpc>>
      BY <1>3 DEF ShutdownBegin, Awoken, callerVars
    <2>2. AwakeInv' /\ LoopInv' /\ WaitInv'
      BY <2>1 DEF AwakeInv, LoopInv, WaitInv
    <2>3. JoinInv'
      BY <2>1 DEF JoinInv, IInv, SeenInv, TypeOK
    <2>. QED
      BY <2>2, <2>3
  <1>. QED
    BY <1>1, <1>2, <1>3

\* No wake-up is lost, of a worker by the round or the teardown that is
\* published for it, nor of a caller by the last report of its round
\* (the waiting loops of mind_mt_worker_loop and __mind_blas_mt_dispatch).
THEOREM NoLostWakeUp == Spec => []WakeInv
  <1>1. Init => WakeInv
    BY ConstantsAssumption DEF Init, WakeInv, AwakeInv, WaitInv, LoopInv, JoinInv
  <1>2. IInv /\ TypeOK' /\ WakeInv /\ [Next]_vars => WakeInv'
    BY CallerWakeStep, WorkerWakeStep, OtherWakeStep DEF Next, Terminated
  <1>. QED
    BY <1>1, <1>2, Invariance, TypeCorrect, PTL DEF Spec

\* In a round whose bands are not all in, some band is still on its way.
LEMMA BandOnItsWay ==
  ASSUME IInv, NEW c \in Callers, InRound(c), ~AllBandsIn(c)
  PROVE  \E w \in Ids : w < n[c] /\ w \notin Reported
  <1> SUFFICES ASSUME \A w \in Ids : w < n[c] => w \in Reported PROVE FALSE
    OBVIOUS
  <1>1. n[c] \in Nat /\ n[c] <= PoolMax /\ active = n[c] /\ finished = Cardinality(Reported)
    BY ConstantsAssumption DEF IInv, TypeOK, SizeInv, Sized, RoundInv, CountInv, InRound
  <1>2. Reported = 0 .. n[c] - 1
    <2>1. Reported \subseteq 0 .. n[c] - 1
      BY <1>1, ConstantsAssumption DEF Reported, Ids
    <2>2. 0 .. n[c] - 1 \subseteq Reported
      BY <1>1, ConstantsAssumption DEF Ids
    <2>. QED
      BY <2>1, <2>2
  <1>3. Cardinality(0 .. n[c] - 1) = n[c]
    BY SMTT(30), <1>1, FS_Interval
  <1>. QED
    BY <1>1, <1>2, <1>3 DEF AllBandsIn

\* No deadlock of callers and workers, for any number of both (the dispatch
\* lock, the parking loop and the waiting loop together).
THEOREM CallsGoOn == Spec => []CallsNeverStuck
  <1>1. IInv /\ WakeInv => CallsNeverStuck
    <2> SUFFICES ASSUME IInv, WakeInv, ~WorkerMissing,
                        NEW e \in Callers, cpc[e] # "idle",
                        \A c \in Callers : ~CallerCanGo(c)
                 PROVE  \E w \in Ids : BandCanGo(w)
      BY DEF CallsNeverStuck
    <2> USE DEF IInv, WakeInv
    <2>1. PICK c \in Callers : cpc[c] = "wait"
      <3>1. cpc[e] \in {"lock", "wait"} /\ (cpc[e] = "lock" => dlock # None)
        BY DEF CallerCanGo, TypeOK
      <3>2. CASE cpc[e] = "lock"
        <4>1. dlock \in Callers /\ Holding(dlock)
          BY <3>1, <3>2 DEF TypeOK, LockInv
        <4>. QED
          BY <4>1 DEF Holding, CallerCanGo
      <3>. QED
        BY <3>1, <3>2
    <2>2. InRound(c) /\ ~AllBandsIn(c)
      BY <2>1 DEF InRound, AllBandsIn, WaitInv, TypeOK
    <2>3. PICK w \in Ids : w < n[c] /\ w \notin Reported
      BY <2>2, BandOnItsWay
    <2>4. w < active /\ n[c] <= poolN
      BY <2>2, <2>3 DEF RoundInv, SizeInv, Sized, InRound
    <2>5. w \in alive
      <3>0. w \in Nat /\ n[c] \in Nat /\ poolN \in Nat
        BY ConstantsAssumption DEF TypeOK, Ids
      <3>1. w \in 0 .. poolN - 1
        <4>1. w < n[c] /\ n[c] <= poolN
          BY <2>3, <2>4
        <4> HIDE DEF IInv, WakeInv
        <4>. QED
          BY <3>0, <4>1
      <3>. QED
        BY <3>1 DEF WorkerMissing
    <2>6. ~stop
      BY <2>1 DEF TeardownInv
    <2>7. CASE ~InFlight(w)
      <3>1. FreshRound(w)
        BY <2>3, <2>4, <2>7 DEF Reported, FreshRound
      <3>2. wpc[w] = "check"
        BY <2>5, <2>6, <2>7, <3>1 DEF AwakeInv, LoopInv, FreshRound, InFlight, TypeOK
      <3>. QED
        BY <2>4, <2>6, <3>1, <3>2 DEF BandCanGo, InRange
    <2>. QED
      BY <2>7 DEF BandCanGo
  <1>. QED
    BY <1>1, Invariance, NoLostWakeUp, PTL

\* The destructor waits for nobody who waits himself, for any pool
\* (mind_mt_pool_shutdown).
THEOREM JoinsGoOn == Spec => []JoinNeverStuck
  <1>1. IInv /\ WakeInv => JoinNeverStuck
    <2> SUFFICES ASSUME IInv, WakeInv, upc = "joining", NEW w \in alive, wpc[w] # "exited"
                 PROVE  wpc[w] = "check" /\ FreshRound(w) /\ stop
      BY DEF JoinNeverStuck
    <2> USE DEF IInv, WakeInv
    <2>1. w \in Ids /\ stop /\ seen[w] # gen
      BY DEF JoinInv, TypeOK
    <2>2. ~InFlight(w)
      BY <2>1 DEF SeenInv
    <2>. QED
      BY <2>1, <2>2 DEF AwakeInv, LoopInv, FreshRound, InFlight, TypeOK
  <1>. QED
    BY <1>1, Invariance, NoLostWakeUp, PTL

-----------------------------------------------------------------------------
\* In a round only its own caller and the workers move the round's state.
LEMMA CallerAdvance ==
  ASSUME IInv, NEW d \in Callers, Call(d) \/ CallerStep(d) \/ SpuriousCaller(d),
         NEW c \in Callers, InRound(c), InRound(c)'
  PROVE  UNCHANGED <<active, gen, seen, wpc>>
  <1> USE DEF IInv
  <1>1. ~PoolInit(d)
    <2>1. poolN > 0
      BY DEF SizeInv, Sized, InRound, TypeOK
    <2>. QED
      BY <2>1 DEF PoolInit
  <1>2. ~Publish(d)
    <2>1. Holding(c) /\ dlock = c
      BY DEF LockInv, Holding, InRound
    <2>2. cpc[d] = "publish" => c = d
      BY <2>1 DEF LockInv, Holding
    <2>. QED
      BY <2>2 DEF Publish, InRound
  <1>. QED
    BY <1>1, <1>2 DEF Call, CallerStep, Truncate, LockDispatch, Rewait, Return, SpuriousCaller,
       poolVars, workerVars

\* A round moves only forward: a band once taken, run or reported stays so
\* until the call returns, and each step on a band is one of at most three
\* per band, for any pool and any interleaving of the callers.
THEOREM RoundsAdvance == Spec => [][RoundAdvances]_vars
  <1>1. ASSUME IInv, Next, NEW c \in Callers, InRound(c), InRound(c)'
        PROVE  /\ Taken \subseteq Taken' /\ Executed \subseteq Executed' /\ Reported \subseteq Reported'
               /\ \A w \in Ids : /\ Take(w) => w \in Taken' \ Taken
                                 /\ Run(w) => w \in Executed' \ Executed
                                 /\ Report(w) => w \in Reported' \ Reported
    <2>0. /\ wpc \in [Ids -> {"none", "check", "parked", "run", "report", "exited"}]
          /\ seen \in [Ids -> Nat]
      BY <1>1 DEF IInv, TypeOK
    <2>1. CASE UNCHANGED <<active, gen, seen, wpc>>
      <3>1. Taken' = Taken /\ Executed' = Executed /\ Reported' = Reported
        BY <2>1 DEF Taken, Executed, Reported, HasRun, InFlight
      <3>2. \A w \in Ids : ~Take(w) /\ ~Run(w) /\ ~Report(w)
        BY <2>0, <2>1 DEF Take, Run, Report
      <3>. QED
        BY <3>1, <3>2
    <2>2. ASSUME NEW v \in Ids, WorkerStep(v) \/ SpuriousWorker(v)
          PROVE  /\ Taken \subseteq Taken' /\ Executed \subseteq Executed'
                 /\ Reported \subseteq Reported'
                 /\ \A w \in Ids : /\ Take(w) => w \in Taken' \ Taken
                                   /\ Run(w) => w \in Executed' \ Executed
                                   /\ Report(w) => w \in Reported' \ Reported
      <3>1. UNCHANGED <<active, gen>>
        BY <2>2 DEF WorkerStep, Park, Take, Skip, Exit, Run, Report, SpuriousWorker, poolVars
      <3>2. \A w \in Ids : /\ seen'[w] = seen[w] \/ (seen'[w] = gen /\ seen[w] # gen)
                           /\ seen[w] = gen /\ wpc[w] # "run" => wpc'[w] # "run"
                           /\ seen[w] = gen /\ ~InFlight(w) => wpc'[w] \notin {"run", "report"}
        BY <2>0, <2>2 DEF WorkerStep, Park, Take, Skip, Exit, Run, Report, SpuriousWorker,
           FreshRound, InFlight
      <3>3. Taken \subseteq Taken' /\ Executed \subseteq Executed' /\ Reported \subseteq Reported'
        BY <3>1, <3>2 DEF Taken, Executed, Reported, HasRun, InFlight
      <3>4. ASSUME NEW w \in Ids, Take(w) PROVE w \in Taken' \ Taken
        BY <2>0, <3>1, <3>4 DEF Take, FreshRound, InRange, Taken
      <3>5. ASSUME NEW w \in Ids, Run(w) \/ Report(w) PROVE w < active /\ seen[w] = gen
        BY <1>1, <3>5 DEF Run, Report, IInv, SeenInv, NoBandOutlivesCall, RoundInv, InFlight
      <3>6. ASSUME NEW w \in Ids, Run(w) PROVE w \in Executed' \ Executed
        BY <2>0, <3>1, <3>5, <3>6 DEF Run, Executed, HasRun
      <3>7. ASSUME NEW w \in Ids, Report(w) PROVE w \in Reported' \ Reported
        BY <2>0, <3>1, <3>5, <3>7 DEF Report, Reported, InFlight
      <3>. QED
        BY <3>3, <3>4, <3>6, <3>7
    <2>3. ASSUME ShutdownNoPool \/ ShutdownBegin \/ ShutdownJoined PROVE FALSE
      <3>1. cpc[c] = "idle"
        BY <1>1, <2>3 DEF ShutdownNoPool, ShutdownBegin, ShutdownJoined, IInv, TeardownInv
      <3>. QED
        BY <1>1, <3>1 DEF InRound
    <2>4. Hotplug \/ Terminated => UNCHANGED <<active, gen, seen, wpc>>
      BY DEF Hotplug, Terminated, vars, poolVars, workerVars
    <2>5. ASSUME NEW d \in Callers, Call(d) \/ CallerStep(d) \/ SpuriousCaller(d)
          PROVE  UNCHANGED <<active, gen, seen, wpc>>
      BY <1>1, <2>5, CallerAdvance
    <2>. QED
      BY <1>1, <2>1, <2>2, <2>3, <2>4, <2>5 DEF Next
  <1>2. IInv /\ [Next]_vars => [RoundAdvances]_vars
    BY <1>1 DEF RoundAdvances
  <1>. QED
    BY <1>2, Invariance, PTL DEF Spec
=============================================================================
