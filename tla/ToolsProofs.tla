---------------------------- MODULE ToolsProofs ----------------------------
(***************************************************************************)
(* Proofs about the tools: a run_command that succeeds returns all the     *)
(* output, for every size of the pipes, of the input and of the output     *)
(* (RunCommand); the report of the tests is each test's own verdict, in    *)
(* order, for every number of tests and threads (TestRunner).  Neither of  *)
(* them gets stuck or goes on for ever.  And what the dependency commands  *)
(* leave in the cache is whole (Deps).                                     *)
(***************************************************************************)
EXTENDS RunCommand, TestRunner, Deps, FiniteSetTheorems, SequenceTheorems,
        WellFoundedInduction, TLAPS

\* What the child may be doing while it lives.
Doing == {"read", "exit", "hang", "stdout", "stderr"}

TypeOK ==
    /\ pc \in {"spawn", "write", "poll", "join", "done"}
    /\ result \in {"none", "ok", "missing", "io", "timeout"}
    /\ unsent \in 0 .. InputSize
    /\ stdin \in -1 .. PipeSize
    /\ next \in Doing \cup {"none", "exited"}
    /\ wrote \in [Outputs -> Nat]
    /\ pipe \in [Outputs -> 0 .. PipeSize]
    /\ got \in [Outputs -> Nat]
    /\ drained \in SUBSET Outputs
    /\ orphan \in BOOLEAN

\* No byte of an output is lost or made up between the child and the buffers.
Conserved == \A s \in Outputs : wrote[s] = pipe[s] + got[s]

\* A drain thread that has ended left nothing in its pipe, and nobody is there
\* to write to it again.
AtEnd == \A s \in drained : pipe[s] = 0 /\ ~Alive /\ ~orphan

\* There is no child before it is spawned; its input is open until the caller
\* has written it.
Started ==
    /\ pc = "spawn" => next = "none" /\ drained = {}
    /\ stdin = -1 => pc \notin {"spawn", "write"}

\* Success is reported by Collect only, and stays true of the threads.
Succeeds == result = "ok" => drained = Outputs

IInv == TypeOK /\ Conserved /\ AtEnd /\ Started /\ Succeeds

-----------------------------------------------------------------------------
LEMMA CommandStarts == CommandInit => IInv
<1> SUFFICES ASSUME CommandInit PROVE IInv
    OBVIOUS
<1>1. TypeOK
  <2>1. Nothing \in [Outputs -> Nat] /\ Nothing \in [Outputs -> 0 .. PipeSize]
    BY CommandAssumption DEF Nothing
  <2>2. unsent \in 0 .. InputSize /\ stdin \in -1 .. PipeSize
    BY CommandAssumption DEF CommandInit
  <2> QED
    BY <2>1, <2>2 DEF CommandInit, TypeOK
<1>2. Conserved /\ AtEnd /\ Started /\ Succeeds
    BY DEF CommandInit, Conserved, AtEnd, Started, Succeeds, Nothing, Alive
<1> QED
    BY <1>1, <1>2 DEF IInv

\* A plan of the child is something a living child does.
LEMMA PlansLive == \A w, p : p \in Plans(w) => p \in Doing /\ p \notin {"none", "exited"}
BY DEF Plans, Doing, Outputs

LEMMA CallerKeeps == IInv /\ Caller => IInv'
<1> SUFFICES ASSUME IInv, Caller PROVE IInv'
    OBVIOUS
<1> USE CommandAssumption
<1>1. CASE Spawn
  <2>1. UNCHANGED <<unsent, stdin, wrote, pipe, got, drained, orphan>> /\ drained = {} /\ pc = "spawn"
    BY <1>1 DEF Spawn, IInv, Started
  <2>2. CASE \E r \in {"missing", "io"} : Return(r) /\ UNCHANGED next
    BY <2>1, <2>2 DEF Return, IInv, TypeOK, Conserved, AtEnd, Started, Succeeds, Alive
  <2>3. CASE pc' = "write" /\ next' \in Plans(wrote) /\ UNCHANGED result
    BY <2>1, <2>3, PlansLive DEF IInv, TypeOK, Conserved, AtEnd, Started, Succeeds, Alive
  <2> QED
    BY <1>1, <2>2, <2>3 DEF Spawn
<1>2. CASE WriteStdin
    BY <1>2 DEF WriteStdin, HasRoom, Return, IInv, TypeOK, Conserved, AtEnd, Started, Succeeds, Alive
<1>3. CASE CloseStdin
    BY <1>3 DEF CloseStdin, IInv, TypeOK, Conserved, AtEnd, Started, Succeeds, Alive
<1>4. CASE SeeExit
    BY <1>4 DEF SeeExit, IInv, TypeOK, Conserved, AtEnd, Started, Succeeds, Alive
<1>5. CASE PollFails
    BY <1>5 DEF PollFails, Return, IInv, TypeOK, Conserved, AtEnd, Started, Succeeds, Alive
<1>6. CASE TimeOut
    BY <1>6 DEF TimeOut, Return, IInv, TypeOK, Conserved, AtEnd, Started, Succeeds, Alive
<1>7. CASE Collect
    BY <1>7 DEF Collect, Joined, Return, IInv, TypeOK, Conserved, AtEnd, Started, Succeeds, Alive
<1> QED
    BY <1>1, <1>2, <1>3, <1>4, <1>5, <1>6, <1>7 DEF Caller

LEMMA DrainKeeps == \A s \in Outputs : IInv /\ Drain(s) => IInv'
<1> SUFFICES ASSUME NEW s \in Outputs, IInv, Drain(s) PROVE IInv'
    OBVIOUS
<1> USE CommandAssumption
<1>0. MayDrain /\ s \notin drained /\ UNCHANGED <<pc, result, unsent, stdin, next, wrote, orphan>>
    BY DEF Drain
<1>1. CASE /\ pipe[s] > 0
           /\ pipe' = [pipe EXCEPT ![s] = @ - 1] /\ got' = [got EXCEPT ![s] = @ + 1]
           /\ UNCHANGED drained
  <2>1. TypeOK'
    BY <1>0, <1>1 DEF IInv, TypeOK
  <2>2. Conserved'
    BY <1>0, <1>1 DEF IInv, TypeOK, Conserved
  <2>3. AtEnd' /\ Started' /\ Succeeds'
    BY <1>0, <1>1 DEF IInv, TypeOK, AtEnd, Started, Succeeds, Alive
  <2> QED
    BY <2>1, <2>2, <2>3 DEF IInv
<1>2. CASE /\ pipe[s] = 0 /\ ~Alive /\ ~orphan
           /\ drained' = drained \cup {s}
           /\ UNCHANGED <<pipe, got>>
    BY <1>0, <1>2 DEF MayDrain, IInv, TypeOK, Conserved, AtEnd, Started, Succeeds, Alive
<1> QED
    BY <1>1, <1>2 DEF Drain

LEMMA ChildKeeps == IInv /\ Child => IInv'
<1> SUFFICES ASSUME IInv, Child PROVE IInv'
    OBVIOUS
<1> USE CommandAssumption
<1>1. CASE ChildReads
  <2>1. next' \in Doing
    BY <1>1, PlansLive DEF ChildReads
  <2>2. Alive /\ pc # "spawn" /\ drained = {}
    BY <1>1 DEF ChildReads, IInv, AtEnd, Started, Alive
  <2> QED
    BY <1>1, <2>1, <2>2 DEF ChildReads, IInv, TypeOK, Conserved, AtEnd, Started, Succeeds
<1>2. ASSUME NEW s \in Outputs, ChildWrites(s) PROVE IInv'
  <2>1. next' \in Doing
    BY <1>2, PlansLive DEF ChildWrites
  <2>2. Alive /\ pc # "spawn" /\ drained = {}
    BY <1>2 DEF ChildWrites, IInv, AtEnd, Started, Alive, Outputs
  <2>3. TypeOK'
    BY <1>2, <2>1 DEF ChildWrites, HasRoom, IInv, TypeOK
  <2>4. Conserved'
    BY <1>2 DEF ChildWrites, IInv, TypeOK, Conserved
  <2> QED
    BY <1>2, <2>2, <2>3, <2>4 DEF ChildWrites, IInv, AtEnd, Started, Succeeds
<1>3. CASE ChildExits
  <2>1. Alive /\ pc # "spawn" /\ drained = {}
    BY <1>3 DEF ChildExits, IInv, AtEnd, Started, Alive
  <2> QED
    BY <1>3, <2>1 DEF ChildExits, IInv, TypeOK, Conserved, AtEnd, Started, Succeeds
<1> QED
    BY <1>1, <1>2, <1>3 DEF Child

LEMMA OrphanKeeps == IInv /\ OrphanEnds => IInv'
BY DEF OrphanEnds, IInv, TypeOK, Conserved, AtEnd, Started, Succeeds, Alive

\* At every moment of a call each byte the tool wrote is in its pipe or in its
\* buffer, pipes hold no more than they can, and a drain thread ends only when
\* its pipe is empty for good (run_command's threads and its polling loop).
THEOREM CommandInvariance == CommandSpec => []IInv
<1>1. IInv /\ [CommandNext]_commandVars => IInv'
  <2> SUFFICES ASSUME IInv, [CommandNext]_commandVars PROVE IInv'
    OBVIOUS
  <2>1. CASE UNCHANGED commandVars
    BY <2>1 DEF commandVars, IInv, TypeOK, Conserved, AtEnd, Started, Succeeds, Alive
  <2> QED
    BY <2>1, CallerKeeps, DrainKeeps, ChildKeeps, OrphanKeeps DEF CommandNext
<1> QED
    BY <1>1, CommandStarts, PTL DEF CommandSpec

\* A call that succeeds returns all the tool wrote to both outputs, for every
\* size of the pipes and whatever the interleaving (run_command).
THEOREM CommandReturnsAll == CommandSpec => []OutputComplete
<1>1. IInv => OutputComplete
  <2> SUFFICES ASSUME IInv, result = "ok" PROVE got = wrote
    BY DEF OutputComplete
  <2>1. \A s \in Outputs : wrote[s] = got[s]
    BY DEF IInv, TypeOK, Conserved, AtEnd, Succeeds
  <2> QED
    BY <2>1 DEF IInv, TypeOK
<1> QED
    BY <1>1, CommandInvariance, PTL

-----------------------------------------------------------------------------
(***************************************************************************)
(* That a call ends rests on two facts that need no fairness: as long as   *)
(* it has not ended somebody can go on, with two exceptions, and nobody    *)
(* can go on for ever.                                                     *)
(***************************************************************************)

\* Between the spawn and the return there is a child; the threads are joined
\* once it has exited.  The child writes no more than it may.
Running ==
    /\ pc \in {"write", "poll", "join"} => next # "none"
    /\ pc = "join" => next = "exited"
    /\ \A s \in Outputs : wrote[s] <= MaxOutput
    /\ \A s \in Outputs : next = s => wrote[s] < MaxOutput

\* The guards of the steps that somebody owes, the caller's failing poll not
\* counted.
CallerCanGo ==
    \/ pc = "spawn"
    \/ pc = "write" /\ unsent > 0 /\ (Alive => HasRoom(stdin))
    \/ pc = "write" /\ unsent = 0
    \/ pc = "poll" /\ (next = "exited" \/ Alive)
    \/ pc = "join" /\ Joined

DrainCanGo(s) ==
    MayDrain /\ s \notin drained /\ (pipe[s] > 0 \/ (~Alive /\ ~orphan))

ChildCanGo ==
    \/ next = "read" /\ stdin # 0
    \/ next = "exit"
    \/ \E s \in Outputs : next = s /\ HasRoom(pipe[s])

\* A call that has not returned can go on, however full the pipes are, unless
\* the tool hangs before its input is written or a descendant keeps its
\* outputs open: there is no circle of caller, child and drain threads in
\* which each waits for the next.
NeverStuck ==
    \/ pc = "done"
    \/ CallerCanGo \/ (\E s \in Outputs : DrainCanGo(s)) \/ ChildCanGo
    \/ pc = "write" /\ next = "hang"
    \/ pc = "join" /\ orphan

\* How much may still happen: bytes on their way, and places to leave.
CallerLeft == CASE pc = "spawn" -> 4 [] pc = "write" -> 3 [] pc = "poll" -> 2
                [] pc = "join" -> 1 [] OTHER -> 0

ChildLeft == CASE next = "none" -> 4 [] next = "read" -> 3 [] next = "exited" -> 0
               [] OTHER -> 2

OutputLeft(s) ==
    3 * (MaxOutput - wrote[s]) + pipe[s] + (IF s \in drained THEN 0 ELSE 1)

StepsLeft ==
    2 * unsent + (stdin + 1) + OutputLeft("stdout") + OutputLeft("stderr")
    + CallerLeft + ChildLeft + (IF orphan THEN 1 ELSE 0)

-----------------------------------------------------------------------------
LEMMA RunningKept == IInv /\ Running /\ [CommandNext]_commandVars => Running'
<1> SUFFICES ASSUME IInv, Running, [CommandNext]_commandVars PROVE Running'
    OBVIOUS
<1> USE CommandAssumption
<1>0. wrote \in [Outputs -> Nat] /\ \A p \in Plans(wrote) : p \notin {"none", "exited"}
    BY PlansLive DEF IInv, TypeOK
<1>p. \A w : \A s \in Outputs : s \in Plans(w) => w[s] < MaxOutput
    BY DEF Plans, Outputs
<1>1. CASE UNCHANGED commandVars
    BY <1>1 DEF commandVars, Running
<1>2. CASE Spawn
  <2>1. CASE \E r \in {"missing", "io"} : Return(r) /\ UNCHANGED next
    BY <1>2, <2>1 DEF Spawn, Return, Running
  <2>2. CASE pc' = "write" /\ next' \in Plans(wrote)
    BY <1>0, <1>p, <1>2, <2>2 DEF Spawn, Running
  <2> QED
    BY <1>2, <2>1, <2>2 DEF Spawn
<1>3. CASE WriteStdin \/ CloseStdin \/ SeeExit \/ PollFails \/ Collect
    BY <1>3 DEF WriteStdin, CloseStdin, SeeExit, PollFails, Collect, Return, Running
<1>4. CASE TimeOut
    BY <1>4 DEF TimeOut, Return, Running, Outputs
<1>5. CASE \E s \in Outputs : Drain(s)
    BY <1>5 DEF Drain, Running
<1>6. CASE ChildReads
    BY <1>0, <1>p, <1>6 DEF ChildReads, Running
<1>7. ASSUME NEW s \in Outputs, ChildWrites(s) PROVE Running'
  <2>1. next' \notin {"none", "exited"} /\ pc' = pc /\ pc # "join"
    BY <1>7, PlansLive DEF ChildWrites, Running, Outputs
  <2>2. \A r \in Outputs : wrote'[r] <= MaxOutput
    BY <1>0, <1>7 DEF ChildWrites, Running
  <2>3. \A r \in Outputs : next' = r => wrote'[r] < MaxOutput
    BY <1>p, <1>7 DEF ChildWrites
  <2> QED
    BY <2>1, <2>2, <2>3 DEF Running
<1>8. CASE ChildExits \/ OrphanEnds
    BY <1>8 DEF ChildExits, OrphanEnds, Running, Outputs
<1> QED
    BY <1>1, <1>2, <1>3, <1>4, <1>5, <1>6, <1>7, <1>8 DEF CommandNext, Caller, Child

LEMMA CommandRuns == CommandSpec => [](IInv /\ Running)
<1>1. CommandInit => Running
    BY CommandAssumption DEF CommandInit, Running, Nothing, Outputs
<1> QED
    BY <1>1, RunningKept, CommandInvariance, PTL DEF CommandSpec

\* run_command cannot deadlock on its pipes, for every size of them, of the
\* input and of the output: it waits for ever in CallEnds' two cases only.
THEOREM CommandNeverStuck == CommandSpec => []NeverStuck
<1>1. IInv /\ Running => NeverStuck
  <2> SUFFICES ASSUME IInv, Running, pc # "done", ~CallerCanGo,
                      \A s \in Outputs : ~DrainCanGo(s), ~ChildCanGo
               PROVE  (pc = "write" /\ next = "hang") \/ (pc = "join" /\ orphan)
    BY DEF NeverStuck
  <2>0. /\ pipe \in [Outputs -> 0 .. PipeSize] /\ unsent \in 0 .. InputSize
        /\ stdin \in -1 .. PipeSize /\ PipeSize \in Nat \ {0} /\ InputSize \in Nat
    BY CommandAssumption DEF IInv, TypeOK
  <2>1. CASE pc = "write"
    <3>1. Alive /\ ~HasRoom(stdin)
      BY <2>0, <2>1 DEF CallerCanGo
    <3>2. stdin > 0
      BY <2>0, <3>1 DEF HasRoom
    <3>3. \A s \in Outputs : pipe[s] = 0
      BY <2>0, <2>1, <3>1 DEF DrainCanGo, MayDrain, IInv, AtEnd
    <3>4. next \notin {"read", "exit"} /\ next \notin Outputs
      BY <2>0, <3>2, <3>3 DEF ChildCanGo, HasRoom
    <3> QED
      BY <2>1, <3>1, <3>4 DEF IInv, TypeOK, Doing, Outputs, Alive
  <2>2. CASE pc = "join"
    BY <2>2 DEF CallerCanGo, Joined, DrainCanGo, MayDrain, Alive, Running, IInv, TypeOK
  <2>3. pc \notin {"spawn", "poll"}
    BY DEF CallerCanGo, Running, Alive
  <2> QED
    BY <2>1, <2>2, <2>3 DEF IInv, TypeOK
<1> QED
    BY <1>1, CommandRuns, PTL

LEMMA StepsLeftNat == IInv /\ Running => StepsLeft \in Nat
<1> SUFFICES ASSUME IInv, Running PROVE StepsLeft \in Nat
    OBVIOUS
<1>1. \A s \in Outputs : OutputLeft(s) \in Nat
    BY CommandAssumption DEF OutputLeft, IInv, TypeOK, Running
<1>2. OutputLeft("stdout") \in Nat /\ OutputLeft("stderr") \in Nat
    BY <1>1 DEF Outputs
<1>3. CallerLeft \in 0 .. 4 /\ ChildLeft \in 0 .. 4
    BY DEF CallerLeft, ChildLeft
<1>4. unsent \in Nat /\ stdin + 1 \in Nat
    BY CommandAssumption DEF IInv, TypeOK
<1> QED
    BY <1>2, <1>3, <1>4 DEF StepsLeft

LEMMA CallerUses == IInv /\ Running /\ Caller => StepsLeft' < StepsLeft
<1> SUFFICES ASSUME IInv, Running, Caller PROVE StepsLeft' < StepsLeft
    OBVIOUS
<1>1. /\ UNCHANGED <<wrote, pipe, drained, orphan>>
      /\ OutputLeft("stdout") \in Nat /\ OutputLeft("stderr") \in Nat
  <2>1. UNCHANGED <<wrote, pipe, drained, orphan>>
    BY DEF Caller, Spawn, WriteStdin, CloseStdin, SeeExit, PollFails, TimeOut, Collect
  <2>2. \A s \in Outputs : OutputLeft(s) \in Nat
    BY CommandAssumption DEF OutputLeft, IInv, TypeOK, Running
  <2> QED
    BY <2>1, <2>2 DEF Outputs
<1>2. OutputLeft("stdout")' = OutputLeft("stdout") /\ OutputLeft("stderr")' = OutputLeft("stderr")
    BY <1>1 DEF OutputLeft
<1> DEFINE rest  == OutputLeft("stdout") + OutputLeft("stderr") + (IF orphan THEN 1 ELSE 0)
           mine  == 2 * unsent + (stdin + 1) + CallerLeft + ChildLeft
<1>3. rest \in Nat /\ rest' = rest
    BY <1>1, <1>2
<1>4. unsent \in Nat /\ stdin \in Int
    BY CommandAssumption DEF IInv, TypeOK
<1>5. mine \in Int /\ mine' \in Int /\ mine' < mine
  <2>1. CASE Spawn
    <3>1. pc = "spawn" /\ next = "none" /\ UNCHANGED <<unsent, stdin>>
      BY <2>1 DEF Spawn, IInv, Started
    <3>2. CallerLeft = 4 /\ ChildLeft = 4 /\ CallerLeft' \in 0 .. 3 /\ ChildLeft' \in 0 .. 4
      BY <2>1, <3>1 DEF Spawn, Return, CallerLeft, ChildLeft
    <3>3. PICK a \in 0 .. 3, b \in 0 .. 4 : CallerLeft' = a /\ ChildLeft' = b
      BY <3>2
    <3> QED
      BY <1>4, <3>1, <3>2, <3>3
  <2>2. CASE WriteStdin
    <3>1. ChildLeft \in Int /\ ChildLeft' = ChildLeft /\ CallerLeft = 3
      BY <2>2 DEF WriteStdin, CallerLeft, ChildLeft
    <3>2. CASE CallerLeft' = 3 /\ stdin' = stdin + 1 /\ unsent' = unsent - 1
      BY <1>4, <3>1, <3>2
    <3>3. CASE CallerLeft' = 0 /\ UNCHANGED <<stdin, unsent>>
      BY <1>4, <3>1, <3>3
    <3> QED
      BY <2>2, <3>2, <3>3 DEF WriteStdin, Return, CallerLeft
  <2>3. CASE CloseStdin
    BY <1>4, <2>3 DEF CloseStdin, CallerLeft, ChildLeft
  <2>4. CASE SeeExit \/ PollFails \/ Collect
    BY <1>4, <2>4 DEF SeeExit, PollFails, Collect, Return, CallerLeft, ChildLeft
  <2>5. CASE TimeOut
    BY <1>4, <2>5 DEF TimeOut, Return, CallerLeft, ChildLeft
  <2> QED
    BY <2>1, <2>2, <2>3, <2>4, <2>5 DEF Caller
<1>6. StepsLeft = mine + rest /\ StepsLeft' = mine' + rest'
  <2>1. CallerLeft \in Int /\ ChildLeft \in Int /\ CallerLeft' \in Int /\ ChildLeft' \in Int
    BY DEF CallerLeft, ChildLeft
  <2>2. unsent' \in Int /\ stdin' \in Int
    BY <1>4 DEF Caller, Spawn, WriteStdin, CloseStdin, SeeExit, PollFails, TimeOut, Collect
  <2>3. StepsLeft = mine + rest
    BY <1>1, <1>4, <2>1 DEF StepsLeft
  <2>4. StepsLeft' = mine' + rest'
    <3>1. OutputLeft("stdout")' \in Int /\ OutputLeft("stderr")' \in Int /\ (IF orphan THEN 1 ELSE 0)' \in Int
      BY <1>1, <1>2
    <3> QED
      BY <2>1, <2>2, <3>1 DEF StepsLeft
  <2> QED
    BY <2>3, <2>4
<1> HIDE DEF rest, mine
<1>7. PICK m \in Int, k \in Int, r \in Int : m = mine /\ k = mine' /\ r = rest
    BY <1>3, <1>5
<1>8. k < m /\ StepsLeft = m + r /\ StepsLeft' = k + r
    BY <1>3, <1>5, <1>6, <1>7
<1> QED
    BY <1>8

\* What the steps of the drain threads and of the child do to an output.
LEMMA DrainUses == \A s \in Outputs : IInv /\ Running /\ Drain(s) => StepsLeft' < StepsLeft
<1> SUFFICES ASSUME NEW s \in Outputs, IInv, Running, Drain(s) PROVE StepsLeft' < StepsLeft
    OBVIOUS
<1>1. /\ UNCHANGED <<pc, unsent, stdin, next, wrote, orphan>>
      /\ wrote \in [Outputs -> Nat] /\ pipe \in [Outputs -> Nat] /\ MaxOutput \in Nat
      /\ unsent \in Nat /\ stdin \in Int
    BY CommandAssumption DEF Drain, IInv, TypeOK
<1>2. \A r \in Outputs : OutputLeft(r) \in Int /\ OutputLeft(r)' \in Int
    BY <1>1 DEF Drain, OutputLeft
<1>3. \A r \in Outputs : r # s => OutputLeft(r)' = OutputLeft(r)
    BY <1>1 DEF Drain, OutputLeft
<1>4. OutputLeft(s)' < OutputLeft(s)
    BY <1>1 DEF Drain, OutputLeft
<1>5. CallerLeft \in Int /\ ChildLeft \in Int /\ CallerLeft' = CallerLeft /\ ChildLeft' = ChildLeft
    BY <1>1 DEF CallerLeft, ChildLeft
<1> HIDE DEF OutputLeft
<1>6. CASE s = "stdout"
    BY <1>1, <1>2, <1>3, <1>4, <1>5, <1>6 DEF StepsLeft, Outputs
<1>7. CASE s = "stderr"
    BY <1>1, <1>2, <1>3, <1>4, <1>5, <1>7 DEF StepsLeft, Outputs
<1> QED
    BY <1>6, <1>7 DEF Outputs

LEMMA ChildUses == IInv /\ Running /\ Child => StepsLeft' < StepsLeft
<1> SUFFICES ASSUME IInv, Running, Child PROVE StepsLeft' < StepsLeft
    OBVIOUS
<1>1. /\ wrote \in [Outputs -> Nat] /\ pipe \in [Outputs -> Nat] /\ MaxOutput \in Nat
      /\ unsent \in Nat /\ stdin \in Int
    BY CommandAssumption DEF IInv, TypeOK
<1>2. UNCHANGED <<pc, unsent, drained>> /\ CallerLeft \in Int /\ CallerLeft' = CallerLeft
    BY DEF Child, ChildReads, ChildWrites, ChildExits, CallerLeft
<1>3. \A r \in Outputs : OutputLeft(r) \in Int
    BY <1>1 DEF OutputLeft
<1>4. CASE ChildReads \/ ChildExits
  <2>1. UNCHANGED <<wrote, pipe>>
    BY <1>4 DEF ChildReads, ChildExits
  <2>2. \A r \in Outputs : OutputLeft(r)' = OutputLeft(r)
    BY <1>2, <2>1 DEF OutputLeft
  <2>3. \A p \in Plans(wrote) : p \notin {"none", "exited"}
    BY PlansLive
  <2>4. CASE ChildReads
    <3>1. ChildLeft = 3 /\ ChildLeft' \in 2 .. 3 /\ (stdin = -1 => ChildLeft' = 2) /\ UNCHANGED orphan
      BY <2>3, <2>4 DEF ChildReads, ChildLeft
    <3>2. (stdin > 0 /\ stdin' \in Int /\ stdin' < stdin) \/ (stdin = -1 /\ stdin' = -1)
      BY <1>1, <2>4 DEF ChildReads
    <3> QED
      BY <1>1, <1>2, <1>3, <2>2, <3>1, <3>2 DEF StepsLeft, Outputs
  <2>5. CASE ChildExits
    <3>1. ChildLeft = 2 /\ ChildLeft' = 0 /\ stdin' = stdin /\ orphan' \in BOOLEAN
      BY <2>5 DEF ChildExits, ChildLeft
    <3> QED
      BY <1>1, <1>2, <1>3, <2>2, <3>1 DEF StepsLeft, Outputs
  <2> QED
    BY <1>4, <2>4, <2>5
<1>5. ASSUME NEW s \in Outputs, ChildWrites(s) PROVE StepsLeft' < StepsLeft
  <2>1. UNCHANGED <<stdin, orphan>>
    BY <1>5 DEF ChildWrites
  <2>2. \A r \in Outputs : r # s => OutputLeft(r)' = OutputLeft(r)
    BY <1>1, <1>2, <1>5 DEF ChildWrites, OutputLeft
  <2>3. OutputLeft(s)' = OutputLeft(s) - 2
    BY <1>1, <1>2, <1>5 DEF ChildWrites, OutputLeft
  <2>4. ChildLeft = 2 /\ ChildLeft' \in 2 .. 3
    BY <1>5, PlansLive DEF ChildWrites, ChildLeft, Outputs
  <2>5. CASE s = "stdout"
    BY <1>1, <1>2, <1>3, <2>1, <2>2, <2>3, <2>4, <2>5 DEF StepsLeft, Outputs
  <2>6. CASE s = "stderr"
    BY <1>1, <1>2, <1>3, <2>1, <2>2, <2>3, <2>4, <2>6 DEF StepsLeft, Outputs
  <2> QED
    BY <2>5, <2>6 DEF Outputs
<1> QED
    BY <1>4, <1>5 DEF Child

LEMMA OrphanUses == IInv /\ Running /\ OrphanEnds => StepsLeft' < StepsLeft
<1> SUFFICES ASSUME IInv, Running, OrphanEnds PROVE StepsLeft' < StepsLeft
    OBVIOUS
<1>1. StepsLeft \in Nat
    BY StepsLeftNat
<1>2. UNCHANGED <<pc, unsent, stdin, next, wrote, pipe, drained>> /\ orphan /\ ~orphan'
    BY DEF OrphanEnds
<1>3. /\ OutputLeft("stdout")' = OutputLeft("stdout") /\ OutputLeft("stderr")' = OutputLeft("stderr")
      /\ CallerLeft' = CallerLeft /\ ChildLeft' = ChildLeft
    BY <1>2 DEF OutputLeft, CallerLeft, ChildLeft
<1>4. /\ OutputLeft("stdout") \in Nat /\ OutputLeft("stderr") \in Nat
      /\ CallerLeft \in Nat /\ ChildLeft \in Nat /\ unsent \in Nat /\ stdin \in Int
  <2>1. \A s \in Outputs : OutputLeft(s) \in Nat
    BY CommandAssumption DEF OutputLeft, IInv, TypeOK, Running
  <2>2. CallerLeft \in Nat /\ ChildLeft \in Nat /\ unsent \in Nat /\ stdin \in Int
    BY CommandAssumption DEF CallerLeft, ChildLeft, IInv, TypeOK
  <2> QED
    BY <2>1, <2>2 DEF Outputs
<1> HIDE DEF OutputLeft, CallerLeft, ChildLeft
<1> QED
    BY <1>2, <1>3, <1>4 DEF StepsLeft

\* Every step of a call, of the tool, of its drain threads and of a
\* descendant uses up some of a store that is finite from the start: none of
\* them goes round for ever (write_all, read_to_end, the polling loop).
THEOREM CommandUsesSteps ==
    CommandSpec => [](StepsLeft \in Nat) /\ [][StepsLeft' < StepsLeft]_commandVars
<1>1. IInv /\ Running /\ [CommandNext]_commandVars => [StepsLeft' < StepsLeft]_commandVars
    BY CallerUses, DrainUses, ChildUses, OrphanUses DEF CommandNext
<1> QED
    BY <1>1, StepsLeftNat, CommandRuns, PTL DEF CommandSpec

-----------------------------------------------------------------------------
(***************************************************************************)
(* The test runner.                                                        *)
(***************************************************************************)

RunnerTypeOK ==
    /\ passes \in SUBSET Tests
    /\ queue \in Seq(Tests)
    /\ hand \in [Workers -> {-1, 0} \cup Tests]
    /\ results \in Seq(Tests \X BOOLEAN)
    /\ joined \in 0 .. Min({Threads, NumTests})

\* A test is in the queue, with a worker or among the results: in one place of
\* one of them,
InOnePlace ==
    /\ \A i, j \in DOMAIN queue : queue[i] = queue[j] => i = j
    /\ \A v, w \in Workers : hand[v] \in Tests /\ hand[v] = hand[w] => v = w
    /\ \A i, j \in DOMAIN results : results[i][1] = results[j][1] => i = j
    /\ \A i \in DOMAIN queue : /\ \A w \in Workers : hand[w] # queue[i]
                               /\ \A j \in DOMAIN results : results[j][1] # queue[i]
    /\ \A w \in Workers : \A j \in DOMAIN results : results[j][1] # hand[w]

\* and never in none.
InSomePlace ==
    \A t \in Tests : \/ \E i \in DOMAIN queue : queue[i] = t
                     \/ \E w \in Workers : hand[w] = t
                     \/ \E j \in DOMAIN results : results[j][1] = t

OwnVerdict == \A j \in DOMAIN results : results[j][2] = (results[j][1] \in passes)

\* Workers end when nothing is queued, and are joined when they have ended.
Through ==
    /\ \A w \in Workers : hand[w] = -1 => queue = <<>>
    /\ \A w \in 1 .. joined : hand[w] = -1

RunnerInv == RunnerTypeOK /\ InOnePlace /\ InSomePlace /\ OwnVerdict /\ Through /\ ReportExact

-----------------------------------------------------------------------------
\* The workers are as many as there are threads for, or tests.
LEMMA WorkerCount ==
    /\ Min({Threads, NumTests}) \in Nat
    /\ Cardinality(Workers) = Min({Threads, NumTests})
    /\ NumTests > 0 => Min({Threads, NumTests}) > 0
<1> DEFINE n == Min({Threads, NumTests})
<1>1. \E x \in {Threads, NumTests} : \A y \in {Threads, NumTests} : x <= y
  <2>1. CASE Threads <= NumTests
    BY <2>1, RunnerAssumption
  <2>2. CASE NumTests <= Threads
    BY <2>2, RunnerAssumption
  <2> QED
    BY <2>1, <2>2, RunnerAssumption
<1>2. n \in {Threads, NumTests}
    BY <1>1, Zenon DEF Min
<1>3. n \in Nat /\ (NumTests > 0 => n > 0)
    BY <1>2, RunnerAssumption
<1> HIDE DEF n
<1>4. Cardinality(1 .. n) = n
    BY <1>3, FS_Interval
<1> QED
    BY <1>3, <1>4 DEF n, Workers

\* A list of all tests in rising order is the tests in order.
LEMMA RisingIsAll ==
    ASSUME NEW n \in Nat, NEW g \in [1 .. n -> 1 .. n],
           \A i, j \in 1 .. n : i < j => g[i] < g[j],
           \A k \in 1 .. n : \E i \in 1 .. n : g[i] = k
    PROVE  \A i \in 1 .. n : g[i] = i
<1> DEFINE Odd == {i \in 1 .. n : g[i] # i}
<1> SUFFICES ASSUME Odd # {} PROVE FALSE
    OBVIOUS
<1>1. PICK i \in Odd : \A k \in Odd : <<k, i>> \notin OpToRel(<, Nat)
  <2>1. Odd \subseteq Nat
    OBVIOUS
  <2> HIDE DEF Odd
  <2> QED
    BY <2>1, NatLessThanWellFounded, WFMin, Zenon
<1>2. i \in 1 .. n /\ g[i] # i
    OBVIOUS
<1>3. ASSUME NEW k \in 1 .. n, k < i PROVE g[k] = k
  <2> SUFFICES ASSUME g[k] # k PROVE FALSE
    OBVIOUS
  <2>1. <<k, i>> \notin OpToRel(<, Nat)
    BY <1>1
  <2>2. k \in Nat /\ i \in Nat
    BY <1>2
  <2> HIDE DEF Odd
  <2> QED
    BY <1>3, <2>1, <2>2 DEF OpToRel
<1> HIDE DEF Odd
<1>4. \A k \in 1 .. n : g[k] \in 1 .. n
    OBVIOUS
<1>5. g[i] > i
  <2> SUFFICES ASSUME g[i] < i PROVE FALSE
    BY <1>2, <1>4
  <2> DEFINE k == g[i]
  <2>1. k \in 1 .. n /\ k < i
    BY <1>2, <1>4
  <2>2. g[k] = k /\ g[k] < g[i]
    BY <1>2, <1>3, <2>1
  <2> QED
    BY <2>1, <2>2
<1>6. PICK k \in 1 .. n : g[k] = i
    BY <1>2
<1>7. k < i => g[k] = k
    BY <1>3
<1>8. k > i => g[k] > g[i]
    BY <1>2
<1>9. i \in Nat /\ k \in Nat /\ g[i] \in Nat
    BY <1>2, <1>4
<1>10. ~(k < i)
    BY <1>6, <1>7, <1>9
<1>11. ~(k > i)
  <2>1. k > i => i > g[i]
    BY <1>6, <1>8
  <2> QED
    BY <1>5, <1>9, <2>1
<1>12. k # i
    BY <1>2, <1>6
<1> QED
    BY <1>9, <1>10, <1>11, <1>12

\* Once all tests are among the results, rearranging these gives the report.
LEMMA OrderIsExact ==
    ASSUME RunnerInv, queue = <<>>, \A w \in Workers : hand[w] = -1
    PROVE  OrderResults(results) = [t \in Tests |-> <<t, t \in passes>>]
<1> DEFINE at  == DOMAIN results
           ord == [j \in at |-> results[j][1]]
<1>1. results \in Seq(Tests \X BOOLEAN) /\ at = 1 .. Len(results) /\ Len(results) \in Nat
    BY DEF RunnerInv, RunnerTypeOK
<1>2. \A j \in at : /\ results[j][1] \in Tests
                     /\ results[j] = <<results[j][1], results[j][1] \in passes>>
  <2> SUFFICES ASSUME NEW j \in at
               PROVE  /\ results[j][1] \in Tests
                      /\ results[j] = <<results[j][1], results[j][1] \in passes>>
    OBVIOUS
  <2>1. results[j] \in Tests \X BOOLEAN
    BY <1>1
  <2>2. results[j][2] = (results[j][1] \in passes)
    BY DEF RunnerInv, OwnVerdict
  <2> QED
    BY <2>1, <2>2
<1>3. \A t \in Tests : \E j \in at : results[j][1] = t
  <2> SUFFICES ASSUME NEW t \in Tests PROVE \E j \in at : results[j][1] = t
    OBVIOUS
  <2>1. t # -1
    BY RunnerAssumption DEF Tests
  <2>2. DOMAIN queue = {}
    OBVIOUS
  <2> QED
    BY <2>1, <2>2 DEF RunnerInv, InSomePlace
<1>4. \A i, j \in at : results[i][1] = results[j][1] => i = j
    BY DEF RunnerInv, InOnePlace
<1>5. ord \in Bijection(at, Tests)
    BY <1>2, <1>3, <1>4 DEF Bijection, Injection, Surjection, IsInjective
<1>6. at = Tests
  <2>1. IsFiniteSet(at) /\ Cardinality(at) = Len(results) /\ Cardinality(Tests) = NumTests
    <3> HIDE DEF at
    <3>1. IsFiniteSet(1 .. Len(results)) /\ Cardinality(1 .. Len(results)) = Len(results)
      <4> DEFINE n == Len(results)
      <4>1. n \in Nat
        BY <1>1
      <4> HIDE DEF n
      <4>2. IsFiniteSet(1 .. n) /\ Cardinality(1 .. n) = n
        BY <4>1, FS_Interval
      <4> QED
        BY <4>2 DEF n
    <3>2. Cardinality(1 .. NumTests) = NumTests
      BY FS_Interval, RunnerAssumption
    <3> QED
      BY <1>1, <3>1, <3>2 DEF Tests
  <2>2. ExistsBijection(at, Tests)
    BY <1>5 DEF ExistsBijection
  <2>3. Cardinality(Tests) = Cardinality(at)
    BY <2>1, <2>2, FS_Bijection
  <2> QED
    BY <1>1, <2>1, <2>3 DEF Tests
<1> DEFINE Sorts(p) == \A i, j \in at : i < j => results[p[i]][1] <= results[p[j]][1]
           from == CHOOSE p \in Bijection(at, at) : Sorts(p)
<1>7. \E p \in Bijection(at, at) : Sorts(p)
  <2> DEFINE p == [t \in Tests |-> CHOOSE j \in at : results[j][1] = t]
  <2>1. \A t \in Tests : p[t] \in at /\ results[p[t]][1] = t
    BY <1>3
  <2> HIDE DEF p
  <2>2. p \in [at -> at]
    BY <2>1, <1>6 DEF p
  <2>3. IsInjective(p)
    BY <2>1, <2>2, <1>6 DEF IsInjective
  <2>4. \A j \in at : \E t \in at : p[t] = j
    BY <2>1, <1>2, <1>4, <1>6
  <2>5. Sorts(p)
    BY <2>1, <1>6 DEF Tests
  <2> QED
    BY <2>2, <2>3, <2>4, <2>5 DEF Bijection, Injection, Surjection
<1>8. from \in Bijection(at, at) /\ Sorts(from)
    BY <1>7, Zenon
<1>9. OrderResults(results) = [i \in at |-> results[from[i]]]
    BY Zenon DEF OrderResults
<1> HIDE DEF from
<1>10. /\ from \in [at -> at] /\ \A i, j \in at : from[i] = from[j] => i = j
       /\ \A j \in at : \E i \in at : from[i] = j
    BY <1>8 DEF Bijection, Injection, Surjection, IsInjective
<1> DEFINE g == [i \in Tests |-> results[from[i]][1]]
<1>11. g \in [1 .. NumTests -> 1 .. NumTests]
    BY <1>2, <1>6, <1>10 DEF Tests
<1>12. \A i, j \in 1 .. NumTests : i < j => g[i] < g[j]
  <2> SUFFICES ASSUME NEW i \in Tests, NEW j \in Tests, i < j PROVE g[i] < g[j]
    BY DEF Tests
  <2>1. g[i] <= g[j] /\ g[i] # g[j]
    <3>1. i # j /\ i \in at /\ j \in at
      BY <1>6 DEF Tests
    <3>2. from[i] # from[j] /\ from[i] \in at /\ from[j] \in at
      BY <1>10, <3>1
    <3>3. results[from[i]][1] # results[from[j]][1]
      BY <1>4, <3>2
    <3>4. results[from[i]][1] <= results[from[j]][1]
      BY <1>8, <3>1
    <3>5. g[i] = results[from[i]][1] /\ g[j] = results[from[j]][1]
      OBVIOUS
    <3> QED
      BY <3>3, <3>4, <3>5
  <2>2. g[i] \in Nat /\ g[j] \in Nat
    BY <1>11 DEF Tests
  <2> QED
    BY <2>1, <2>2
<1>13. \A k \in 1 .. NumTests : \E i \in 1 .. NumTests : g[i] = k
  <2> SUFFICES ASSUME NEW k \in Tests PROVE \E i \in Tests : g[i] = k
    BY DEF Tests
  <2>1. PICK j \in at : results[j][1] = k
    BY <1>3
  <2>2. PICK i \in at : from[i] = j
    BY <1>10
  <2> QED
    BY <1>6, <2>1, <2>2
<1>14. \A i \in Tests : g[i] = i
  <2> HIDE DEF g
  <2> QED
    BY <1>11, <1>12, <1>13, RisingIsAll, RunnerAssumption DEF Tests
<1>15. \A i \in at : results[from[i]] = <<i, i \in passes>>
  <2> SUFFICES ASSUME NEW i \in at PROVE results[from[i]] = <<i, i \in passes>>
    OBVIOUS
  <2>1. results[from[i]][1] = i
    BY <1>6, <1>14
  <2> QED
    BY <2>1, <1>2, <1>10
<1> QED
    BY <1>6, <1>9, <1>15

LEMMA RunnerStarts == RunnerInit => RunnerInv
<1> SUFFICES ASSUME RunnerInit PROVE RunnerInv
    OBVIOUS
<1>1. queue \in Seq(Tests) /\ DOMAIN queue = Tests /\ \A i \in Tests : queue[i] = i
    BY RunnerAssumption DEF RunnerInit, Tests
<1>2. RunnerTypeOK
    BY <1>1, WorkerCount DEF RunnerInit, RunnerTypeOK
<1>3. InOnePlace
    BY <1>1 DEF RunnerInit, InOnePlace, Tests
<1>4. InSomePlace /\ OwnVerdict /\ Through /\ ReportExact
    BY <1>1 DEF RunnerInit, InSomePlace, OwnVerdict, Through, ReportExact
<1> QED
    BY <1>2, <1>3, <1>4 DEF RunnerInv

\* The queue without its head.
LEMMA Popped ==
    ASSUME queue \in Seq(Tests), queue # <<>>
    PROVE  /\ QueuePopped \in Seq(Tests) /\ Head(queue) = queue[1] /\ 1 \in DOMAIN queue
           /\ Head(queue) \in Tests
           /\ \A i \in DOMAIN QueuePopped : i + 1 \in DOMAIN queue /\ QueuePopped[i] = queue[i + 1]
           /\ \A i \in DOMAIN queue : i # 1 => i - 1 \in DOMAIN QueuePopped /\ QueuePopped[i - 1] = queue[i]
BY DEF QueuePopped

LEMMA TakeKeeps ==
    ASSUME RunnerInv, NEW w \in Workers, Take(w)
    PROVE  RunnerInv'
<1> USE DEF RunnerInv
<1>1. queue \in Seq(Tests) /\ queue # <<>> /\ queue' = QueuePopped
    BY DEF Take, RunnerTypeOK
<1>2. /\ queue' \in Seq(Tests) /\ 1 \in DOMAIN queue /\ queue[1] \in Tests
      /\ hand' = [hand EXCEPT ![w] = queue[1]] /\ hand[w] = 0
      /\ \A i \in DOMAIN queue' : i \in Nat \ {0} /\ i + 1 \in DOMAIN queue /\ queue'[i] = queue[i + 1]
      /\ \A i \in DOMAIN queue : i # 1 => i - 1 \in DOMAIN queue' /\ queue'[i - 1] = queue[i]
  <2>1. \A i \in DOMAIN queue' : i \in Nat \ {0}
    BY <1>1, Popped
  <2> QED
    BY <1>1, <2>1, Popped DEF Take
<1> HIDE DEF RunnerInv
<1>3. /\ RunnerTypeOK /\ InOnePlace /\ InSomePlace /\ OwnVerdict /\ Through /\ ReportExact
      /\ passes' = passes /\ results' = results /\ joined' = joined /\ report' = report
      /\ hand \in [Workers -> {-1, 0} \cup Tests]
      /\ 0 \notin Tests /\ -1 \notin Tests
    BY RunnerAssumption DEF RunnerInv, Take, RunnerTypeOK, Tests
<1>4. RunnerTypeOK'
    BY <1>2, <1>3 DEF RunnerTypeOK
<1>5. \A v \in Workers : hand'[v] = IF v = w THEN queue[1] ELSE hand[v]
    BY <1>2, <1>3
<1>6. InOnePlace'
  <2>1. \A i, j \in DOMAIN queue' : queue'[i] = queue'[j] => i = j
    <3> SUFFICES ASSUME NEW i \in DOMAIN queue', NEW j \in DOMAIN queue', queue'[i] = queue'[j]
                 PROVE  i = j
      OBVIOUS
    <3>1. i + 1 = j + 1
      BY <1>2, <1>3 DEF InOnePlace
    <3> QED
      BY <1>2, <3>1
  <2>2. \A u, v \in Workers : hand'[u] \in Tests /\ hand'[u] = hand'[v] => u = v
    BY <1>2, <1>3, <1>5 DEF InOnePlace
  <2>3. \A i, j \in DOMAIN results' : results'[i][1] = results'[j][1] => i = j
    BY <1>3 DEF InOnePlace
  <2>4. ASSUME NEW i \in DOMAIN queue'
        PROVE  /\ \A v \in Workers : hand'[v] # queue'[i]
               /\ \A j \in DOMAIN results' : results'[j][1] # queue'[i]
    <3>1. i + 1 \in DOMAIN queue /\ i + 1 # 1 /\ queue'[i] = queue[i + 1]
      BY <1>2
    <3>2. queue[i + 1] # queue[1]
      BY <1>2, <1>3, <3>1 DEF InOnePlace
    <3> QED
      BY <1>3, <1>5, <3>1, <3>2 DEF InOnePlace
  <2>5. \A v \in Workers : \A j \in DOMAIN results' : results'[j][1] # hand'[v]
    BY <1>2, <1>3, <1>5 DEF InOnePlace
  <2> QED
    BY <2>1, <2>2, <2>3, <2>4, <2>5 DEF InOnePlace
<1>7. InSomePlace'
  <2> SUFFICES ASSUME NEW t \in Tests
               PROVE  \/ \E i \in DOMAIN queue' : queue'[i] = t
                      \/ \E v \in Workers : hand'[v] = t
                      \/ \E j \in DOMAIN results' : results'[j][1] = t
    BY DEF InSomePlace
  <2>1. ASSUME NEW i \in DOMAIN queue, queue[i] = t
        PROVE  (\E k \in DOMAIN queue' : queue'[k] = t) \/ (\E v \in Workers : hand'[v] = t)
    BY <1>2, <1>5, <2>1
  <2>2. ASSUME NEW v \in Workers, hand[v] = t PROVE hand'[v] = t
    BY <1>2, <1>3, <1>5, <2>2
  <2> QED
    BY <1>3, <2>1, <2>2 DEF InSomePlace
<1>8. OwnVerdict' /\ ReportExact'
    BY <1>3 DEF OwnVerdict, ReportExact
<1>9. Through'
    BY <1>1, <1>2, <1>3, <1>5 DEF Through, RunnerTypeOK
<1> QED
    BY <1>4, <1>6, <1>7, <1>8, <1>9 DEF RunnerInv

LEMMA StoreKeeps ==
    ASSUME RunnerInv, NEW w \in Workers, Store(w)
    PROVE  RunnerInv'
<1> DEFINE r == <<hand[w], hand[w] \in passes>>
           n == Len(results)
<1>1. /\ RunnerTypeOK /\ InOnePlace /\ InSomePlace /\ OwnVerdict /\ Through /\ ReportExact
      /\ passes' = passes /\ queue' = queue /\ joined' = joined /\ report' = report
      /\ hand \in [Workers -> {-1, 0} \cup Tests] /\ hand[w] \in Tests
      /\ results' = Append(results, r) /\ hand' = [hand EXCEPT ![w] = 0]
      /\ results \in Seq(Tests \X BOOLEAN) /\ r \in Tests \X BOOLEAN
      /\ 0 \notin Tests /\ -1 \notin Tests
  <2>1. /\ RunnerTypeOK /\ InOnePlace /\ InSomePlace /\ OwnVerdict /\ Through /\ ReportExact
        /\ passes' = passes /\ queue' = queue /\ joined' = joined /\ report' = report
        /\ results' = Append(results, r) /\ hand' = [hand EXCEPT ![w] = 0]
    BY DEF RunnerInv, Store
  <2>2. /\ hand \in [Workers -> {-1, 0} \cup Tests] /\ results \in Seq(Tests \X BOOLEAN)
        /\ hand[w] > 0
    BY DEF RunnerInv, RunnerTypeOK, Store
  <2>3. hand[w] \in Tests /\ 0 \notin Tests /\ -1 \notin Tests
    BY <2>2, RunnerAssumption DEF Tests
  <2>4. r \in Tests \X BOOLEAN
    <3>1. (hand[w] \in passes) \in BOOLEAN
      OBVIOUS
    <3> QED
      BY <2>3, <3>1, Zenon
  <2> HIDE DEF r
  <2> QED
    BY <2>1, <2>2, <2>3, <2>4
<1>2. /\ n \in Nat /\ DOMAIN results = 1 .. n /\ DOMAIN results' = 1 .. n + 1
      /\ results' \in Seq(Tests \X BOOLEAN) /\ results'[n + 1] = r
      /\ \A j \in 1 .. n : results'[j] = results[j]
    BY <1>1
<1>3. r[1] = hand[w] /\ r[2] = (hand[w] \in passes)
    OBVIOUS
<1> HIDE DEF r, n
<1>4. \A v \in Workers : hand'[v] = IF v = w THEN 0 ELSE hand[v]
    BY <1>1
<1>5. \A j \in DOMAIN results' : (j \in DOMAIN results /\ results'[j] = results[j])
                                \/ (j = n + 1 /\ results'[j] = r)
    BY <1>2
<1>6. RunnerTypeOK'
    BY <1>1, <1>2 DEF RunnerTypeOK
<1>7. InOnePlace'
  <2>1. \A i, j \in DOMAIN queue' : queue'[i] = queue'[j] => i = j
    BY <1>1 DEF InOnePlace
  <2>2. \A u, v \in Workers : hand'[u] \in Tests /\ hand'[u] = hand'[v] => u = v
    BY <1>1, <1>4 DEF InOnePlace
  <2>3. \A i, j \in DOMAIN results' : results'[i][1] = results'[j][1] => i = j
    BY <1>1, <1>3, <1>5 DEF InOnePlace
  <2>4. ASSUME NEW i \in DOMAIN queue'
        PROVE  /\ \A v \in Workers : hand'[v] # queue'[i]
               /\ \A j \in DOMAIN results' : results'[j][1] # queue'[i]
    <3>1. i \in DOMAIN queue /\ queue'[i] = queue[i] /\ queue[i] \in Tests
      BY <1>1 DEF RunnerTypeOK
    <3> QED
      BY <1>1, <1>3, <1>4, <1>5, <3>1 DEF InOnePlace
  <2>5. \A v \in Workers : \A j \in DOMAIN results' : results'[j][1] # hand'[v]
    <3>1. \A j \in DOMAIN results' : results'[j][1] \in Tests
      BY <1>1, <1>3, <1>5
    <3> QED
      BY <1>1, <1>3, <1>4, <1>5, <3>1 DEF InOnePlace
  <2> QED
    BY <2>1, <2>2, <2>3, <2>4, <2>5 DEF InOnePlace
<1>8. InSomePlace'
  <2> SUFFICES ASSUME NEW t \in Tests
               PROVE  \/ \E i \in DOMAIN queue' : queue'[i] = t
                      \/ \E v \in Workers : hand'[v] = t
                      \/ \E j \in DOMAIN results' : results'[j][1] = t
    BY DEF InSomePlace
  <2>1. ASSUME NEW v \in Workers, hand[v] = t
        PROVE  hand'[v] = t \/ \E j \in DOMAIN results' : results'[j][1] = t
    BY <1>2, <1>3, <1>4, <2>1
  <2>2. ASSUME NEW j \in DOMAIN results, results[j][1] = t
        PROVE  \E k \in DOMAIN results' : results'[k][1] = t
    BY <1>2, <2>2
  <2> QED
    BY <1>1, <2>1, <2>2 DEF InSomePlace
<1>9. OwnVerdict'
    BY <1>1, <1>3, <1>5 DEF OwnVerdict
<1>10. Through' /\ ReportExact'
    BY <1>1, <1>4 DEF Through, ReportExact
<1> QED
    BY <1>6, <1>7, <1>8, <1>9, <1>10 DEF RunnerInv

LEMMA EndKeeps ==
    ASSUME RunnerInv, NEW w \in Workers, End(w)
    PROVE  RunnerInv'
<1>1. /\ RunnerTypeOK /\ InOnePlace /\ InSomePlace /\ OwnVerdict /\ Through /\ ReportExact
      /\ passes' = passes /\ queue' = queue /\ joined' = joined /\ report' = report
      /\ results' = results /\ queue = <<>> /\ hand[w] = 0
      /\ hand \in [Workers -> {-1, 0} \cup Tests] /\ hand' = [hand EXCEPT ![w] = -1]
      /\ 0 \notin Tests /\ -1 \notin Tests
    BY RunnerAssumption DEF RunnerInv, End, MayEnd, RunnerTypeOK, Tests
<1>2. \A v \in Workers : hand'[v] = IF v = w THEN -1 ELSE hand[v]
    BY <1>1
<1>3. RunnerTypeOK'
    BY <1>1 DEF RunnerTypeOK
<1>4. DOMAIN queue = {} /\ \A j \in DOMAIN results : results[j][1] \in Tests
    BY <1>1 DEF RunnerTypeOK
<1>5. InOnePlace'
    BY <1>1, <1>2, <1>4 DEF InOnePlace
<1>6. InSomePlace' /\ OwnVerdict' /\ ReportExact'
    BY <1>1, <1>2 DEF InSomePlace, OwnVerdict, ReportExact
<1>7. Through'
    BY <1>1, <1>2 DEF Through
<1> QED
    BY <1>3, <1>5, <1>6, <1>7 DEF RunnerInv

LEMMA CoordinatorKeeps ==
    ASSUME RunnerInv, Join \/ Report
    PROVE  RunnerInv'
<1>1. CASE Join
  <2>1. joined' \in 0 .. Min({Threads, NumTests}) /\ joined + 1 \in Workers /\ joined \in Nat
    BY <1>1, WorkerCount DEF Join, RunnerInv, RunnerTypeOK, Workers
  <2>2. \A w \in 1 .. joined' : hand[w] = -1
    BY <1>1, <2>1 DEF Join, RunnerInv, Through
  <2> QED
    BY <1>1, <2>1, <2>2 DEF Join, RunnerInv, RunnerTypeOK, InOnePlace, InSomePlace, OwnVerdict,
                            Through, ReportExact
<1>2. CASE Report
  <2>1. \A w \in Workers : hand[w] = -1
    BY <1>2, WorkerCount DEF Report, RunnerInv, Through, Workers
  <2>2. queue = <<>>
    <3>1. NumTests > 0
      BY <1>2, RunnerAssumption DEF Report, RunnerInv, RunnerTypeOK, Tests
    <3>2. 1 \in Workers
      BY <3>1, WorkerCount DEF Workers
    <3> QED
      BY <2>1, <3>2 DEF RunnerInv, Through
  <2>3. ReportExact'
    BY <1>2, <2>1, <2>2, OrderIsExact DEF Report, ReportExact
  <2> QED
    BY <1>2, <2>3 DEF Report, RunnerInv, RunnerTypeOK, InOnePlace, InSomePlace, OwnVerdict, Through
<1> QED
    BY <1>1, <1>2

\* Every test is in one place at any time.
THEOREM RunnerInvariance == RunnerSpec => []RunnerInv
<1>1. RunnerInv /\ [RunnerNext]_runnerVars => RunnerInv'
  <2> SUFFICES ASSUME RunnerInv, [RunnerNext]_runnerVars PROVE RunnerInv'
    OBVIOUS
  <2>1. CASE UNCHANGED runnerVars
    BY <2>1 DEF runnerVars, RunnerInv, RunnerTypeOK, InOnePlace, InSomePlace, OwnVerdict, Through,
                ReportExact
  <2>2. CASE RunnerNext
    BY <2>2, TakeKeeps, StoreKeeps, EndKeeps, CoordinatorKeeps DEF RunnerNext
  <2> QED
    BY <2>1, <2>2
<1> QED
    BY <1>1, RunnerStarts, PTL DEF RunnerSpec

\* The report names each test once, in discovery order and with its own
\* verdict, for any number of tests and threads (order_results).
THEOREM RunnerReportsAll == RunnerSpec => []ReportExact
<1>1. RunnerInv => ReportExact
    BY DEF RunnerInv
<1> QED
    BY <1>1, RunnerInvariance, PTL

-----------------------------------------------------------------------------
(***************************************************************************)
(* That the run ends, without its fairness: somebody can always go on, and *)
(* nobody goes on for ever.                                                *)
(***************************************************************************)

\* While tests remain to be reported somebody can go on: a worker that has a
\* test or asks for one, or the coordinator, which joins the workers in turn
\* and never waits for one that has ended.
RunnerNeverStuck ==
    report = <<>> /\ NumTests > 0 =>
        \/ \E w \in Workers : hand[w] # -1
        \/ joined + 1 \in Workers /\ hand[joined + 1] = -1
        \/ joined = Cardinality(Workers) /\ results # <<>>

\* Workers that run a test, and workers that have not ended.
AtWork  == {w \in Workers : hand[w] > 0}
NotDone == {w \in Workers : hand[w] # -1}

\* How many steps the run may still take.
RunnerLeft ==
    2 * Len(queue) + Cardinality(AtWork) + Cardinality(NotDone)
    + (Cardinality(Workers) - joined) + (IF report = <<>> THEN 1 ELSE 0)

-----------------------------------------------------------------------------
\* The coordinator's last step is possible when all workers have ended.
THEOREM RunnerNeverWaits == RunnerSpec => []RunnerNeverStuck
<1>1. RunnerInv => RunnerNeverStuck
  <2> SUFFICES ASSUME RunnerInv, NumTests > 0, \A w \in Workers : hand[w] = -1,
                      ~(joined + 1 \in Workers)
               PROVE  joined = Cardinality(Workers) /\ results # <<>>
    BY DEF RunnerNeverStuck
  <2>1. joined = Cardinality(Workers) /\ 1 \in Workers
    BY WorkerCount DEF RunnerInv, RunnerTypeOK, Workers
  <2>2. queue = <<>> /\ 1 \in Tests /\ -1 \notin Tests
    BY <2>1, RunnerAssumption DEF RunnerInv, Through, Tests
  <2>3. \E j \in DOMAIN results : results[j][1] = 1
    BY <2>2 DEF RunnerInv, InSomePlace
  <2> QED
    BY <2>1, <2>3
<1> QED
    BY <1>1, RunnerInvariance, PTL

\* The sets that RunnerLeft counts are finite, and so the sum is a number.
LEMMA RunnerCounts ==
    ASSUME RunnerInv
    PROVE  /\ IsFiniteSet(AtWork) /\ Cardinality(AtWork) \in Nat
           /\ IsFiniteSet(NotDone) /\ Cardinality(NotDone) \in Nat
           /\ Cardinality(Workers) - joined \in Nat /\ Len(queue) \in Nat
<1>1. IsFiniteSet(Workers) /\ AtWork \subseteq Workers /\ NotDone \subseteq Workers
    BY FS_Interval, WorkerCount DEF Workers, AtWork, NotDone
<1>2. IsFiniteSet(AtWork) /\ IsFiniteSet(NotDone)
    BY <1>1, FS_Subset
<1>3. Cardinality(AtWork) \in Nat /\ Cardinality(NotDone) \in Nat
    BY <1>2, FS_CardinalityType
<1>4. Cardinality(Workers) - joined \in Nat /\ Len(queue) \in Nat
    BY WorkerCount DEF RunnerInv, RunnerTypeOK
<1> QED
    BY <1>2, <1>3, <1>4

LEMMA TakeUses ==
    ASSUME RunnerInv, NEW w \in Workers, Take(w)
    PROVE  RunnerLeft' < RunnerLeft
<1>1. /\ queue \in Seq(Tests) /\ queue # <<>> /\ hand[w] = 0 /\ Head(queue) \in Tests
      /\ hand \in [Workers -> {-1, 0} \cup Tests] /\ hand' = [hand EXCEPT ![w] = Head(queue)]
      /\ UNCHANGED <<joined, report>>
    BY Popped DEF Take, RunnerInv, RunnerTypeOK
<1>2. Len(queue') = Len(queue) - 1
    BY <1>1 DEF Take, QueuePopped
<1>3. NotDone' = NotDone
    BY <1>1, RunnerAssumption DEF NotDone, Tests
<1>4. AtWork' = AtWork \cup {w} /\ w \notin AtWork
    BY <1>1, RunnerAssumption DEF AtWork, Tests
<1>5. Cardinality(AtWork') = Cardinality(AtWork) + 1
    BY <1>4, RunnerCounts, FS_AddElement
<1>6. PICK q \in Nat, a \in Nat, d \in Nat, c \in Nat, e \in Nat :
          /\ q = Len(queue) /\ a = Cardinality(AtWork) /\ d = Cardinality(NotDone)
          /\ c = Cardinality(Workers) - joined /\ e = IF report = <<>> THEN 1 ELSE 0
    BY RunnerCounts
<1>7. RunnerLeft = 2 * q + a + d + c + e
    BY <1>6 DEF RunnerLeft
<1>8. RunnerLeft' = 2 * (q - 1) + (a + 1) + d + c + e
  <2>1. Len(queue') = q - 1 /\ Cardinality(AtWork)' = a + 1 /\ Cardinality(NotDone)' = d
    BY <1>2, <1>3, <1>5, <1>6
  <2>2. (Cardinality(Workers) - joined)' = c /\ (IF report = <<>> THEN 1 ELSE 0)' = e
    BY <1>1, <1>6
  <2> QED
    BY <2>1, <2>2 DEF RunnerLeft
<1>9. 2 * (q - 1) + (a + 1) + d + c + e < 2 * q + a + d + c + e
    OBVIOUS
<1> QED
    BY <1>7, <1>8, <1>9

LEMMA WorkerUses ==
    ASSUME RunnerInv, NEW w \in Workers, Store(w) \/ End(w)
    PROVE  RunnerLeft' < RunnerLeft
<1>1. /\ hand \in [Workers -> {-1, 0} \cup Tests] /\ UNCHANGED <<queue, joined, report>>
      /\ 0 \notin Tests /\ -1 \notin Tests
    BY RunnerAssumption DEF Store, End, RunnerInv, RunnerTypeOK, Tests
<1> DEFINE c == Cardinality(Workers) - joined
           e == IF report = <<>> THEN 1 ELSE 0
           q == Len(queue)
<1>2. c \in Nat /\ e \in Nat /\ q \in Nat /\ c' = c /\ e' = e /\ q' = q
    BY <1>1, RunnerCounts
<1>3. PICK a \in Nat, d \in Nat : a = Cardinality(AtWork) /\ d = Cardinality(NotDone)
    BY RunnerCounts
<1>4. RunnerLeft = 2 * q + a + d + c + e
    BY <1>3 DEF RunnerLeft
<1>5. CASE Store(w)
  <2>1. hand[w] > 0 /\ hand' = [hand EXCEPT ![w] = 0]
    BY <1>5 DEF Store
  <2>2. NotDone' = NotDone
    BY <1>1, <2>1 DEF NotDone
  <2>3. AtWork' = AtWork \ {w} /\ w \in AtWork
    BY <1>1, <2>1 DEF AtWork
  <2>4. Cardinality(AtWork') = Cardinality(AtWork) - 1
    BY <2>3, RunnerCounts, FS_RemoveElement
  <2>5. RunnerLeft' = 2 * q + (a - 1) + d + c + e
    BY <1>2, <1>3, <2>2, <2>4 DEF RunnerLeft
  <2> HIDE DEF c, e, q
  <2> QED
    BY <1>2, <1>3, <1>4, <2>5
<1>6. CASE End(w)
  <2>1. hand[w] = 0 /\ hand' = [hand EXCEPT ![w] = -1]
    BY <1>6 DEF End
  <2>2. AtWork' = AtWork
    BY <1>1, <2>1 DEF AtWork
  <2>3. NotDone' = NotDone \ {w} /\ w \in NotDone
    BY <1>1, <2>1 DEF NotDone
  <2>4. Cardinality(NotDone') = Cardinality(NotDone) - 1
    BY <2>3, RunnerCounts, FS_RemoveElement
  <2>5. RunnerLeft' = 2 * q + a + (d - 1) + c + e
    BY <1>2, <1>3, <2>2, <2>4 DEF RunnerLeft
  <2> HIDE DEF c, e, q
  <2> QED
    BY <1>2, <1>3, <1>4, <2>5
<1> QED
    BY <1>5, <1>6

LEMMA CoordinatorUses ==
    ASSUME RunnerInv, Join \/ Report
    PROVE  RunnerLeft' < RunnerLeft
<1>1. UNCHANGED <<queue, hand>>
    BY DEF Join, Report
<1> DEFINE a == Cardinality(AtWork)
           d == Cardinality(NotDone)
           q == Len(queue)
           k == Cardinality(Workers)
<1>2. a \in Nat /\ d \in Nat /\ q \in Nat /\ a' = a /\ d' = d /\ q' = q
    BY <1>1, RunnerCounts DEF AtWork, NotDone
<1>3. k \in Nat /\ joined \in Nat
    BY WorkerCount DEF RunnerInv, RunnerTypeOK
<1>4. CASE Join
  <2>1. joined' = joined + 1 /\ UNCHANGED report
    BY <1>4 DEF Join
  <2>2. PICK e \in Nat : e = IF report = <<>> THEN 1 ELSE 0
    OBVIOUS
  <2>3. RunnerLeft = 2 * q + a + d + (k - joined) + e
    BY <2>2 DEF RunnerLeft
  <2>4. RunnerLeft' = 2 * q + a + d + (k - (joined + 1)) + e
    BY <1>2, <2>1, <2>2 DEF RunnerLeft
  <2> HIDE DEF a, d, q, k
  <2> QED
    BY <1>2, <1>3, <2>2, <2>3, <2>4
<1>5. CASE Report
  <2>1. report = <<>> /\ joined' = joined /\ results # <<>> /\ report' = OrderResults(results)
    BY <1>5 DEF Report
  <2>2. report' # <<>>
    <3>1. DOMAIN OrderResults(results) = DOMAIN results
      BY Zenon DEF OrderResults
    <3>2. results \in Seq(Tests \X BOOLEAN)
      BY DEF RunnerInv, RunnerTypeOK
    <3>3. 1 \in DOMAIN results
      BY <2>1, <3>2
    <3>4. 1 \in DOMAIN report'
      BY <2>1, <3>1, <3>3
    <3> QED
      BY <3>4
  <2>3. RunnerLeft = 2 * q + a + d + (k - joined) + 1
    BY <2>1 DEF RunnerLeft
  <2>4. RunnerLeft' = 2 * q + a + d + (k - joined) + 0
    BY <1>2, <2>1, <2>2 DEF RunnerLeft
  <2> HIDE DEF a, d, q, k
  <2> QED
    BY <1>2, <1>3, <2>3, <2>4
<1> QED
    BY <1>4, <1>5

\* Each step of a worker or of the coordinator uses up some of a store of
\* steps that is finite from the start (the worker loop and the joins).
THEOREM RunnerUsesSteps ==
    RunnerSpec => [](RunnerLeft \in Nat) /\ [][RunnerLeft' < RunnerLeft]_runnerVars
<1>1. RunnerInv => RunnerLeft \in Nat
    BY RunnerCounts DEF RunnerLeft
<1>2. RunnerInv /\ [RunnerNext]_runnerVars => [RunnerLeft' < RunnerLeft]_runnerVars
    BY TakeUses, WorkerUses, CoordinatorUses DEF RunnerNext
<1> QED
    BY <1>1, <1>2, RunnerInvariance, PTL DEF RunnerSpec

-----------------------------------------------------------------------------
(***************************************************************************)
(* The dependency commands, for any number of processes, commands,         *)
(* dependencies, revisions and files: the inductive invariant.             *)
(***************************************************************************)

Steps == {"idle", "next", "stage", "replace", "remove", "create", "copy", "write"}

\* The steps of the loop that have a git dependency in hand.
InHand == {"stage", "replace", "remove", "create", "copy"}

Trees == {Missing} \cup SUBSET Files

Process == [cmd : Commands \cup {"none"}, at : Steps, todo : SUBSET Names,
            entries : Pins, rev : Revs, left : SUBSET Files, alone : BOOLEAN]

DepsTypeOK ==
  /\ current \in [Names -> Revs] /\ wanted \in SUBSET Names
  /\ lockfile \in Pins \cup {Missing, Torn}
  /\ cache \in [Git -> [Revs -> Trees]]
  /\ run \in [Procs -> Process]
  /\ last \in Commands \cup {"none"} /\ broken \in BOOLEAN

\* What a process has in hand is what it still has to do, and lock never
\* comes to the steps that remove.
Orderly(u) ==
  /\ u.at # "idle" => u.cmd # "none"
  /\ u.at = "idle" => ~u.alone
  /\ u.cmd \notin Locks => u.todo \subseteq Git \cap DOMAIN u.entries
  /\ u.at \in InHand => u.todo # {} /\ First(u.todo) \in Git
  /\ u.at = "stage" => u.cmd \in Locks
  /\ u.at \in {"replace", "remove"} => u.cmd \notin Locks
  /\ u.at = "write" => u.cmd \in {"lock", "relock"} /\ u.todo = {}

Typed == DepsTypeOK /\ \A p \in Procs : Orderly(run[p])

\* The directory is there, with every file that was copied.
Copied(p) == Tree(p) # Missing /\ Files \ run[p].left \subseteq Tree(p)

\* A process changes the files of a directory.
Works(p, d, r) == run[p].at \in {"copy", "remove"} /\ Dep(p) = d /\ run[p].rev = r

Others(p) == \E q \in Procs \ {p} : Busy(q)

\* A directory with a part of a tree is one that some process works on, and a
\* process that removes one is the only one.
Worked ==
  ~broken =>
    /\ \A p \in Procs :
         /\ run[p].at = "remove" => ~Others(p) /\ Tree(p) = run[p].left
         /\ run[p].at = "copy" => Copied(p)
    /\ \A d \in Git, r \in Revs :
         cache[d][r] \notin {Missing, Files} => \E p \in Procs : Works(p, d, r)

\* A command that counts as alone is.
Alone ==
  /\ \A p \in Procs : run[p].alone => ~Others(p)
  /\ last # "none" => Quiet

\* What fetch --update alone has been through is whole.
Repairing(p) ==
  run[p].alone /\ run[p].cmd = "update" =>
    /\ lockfile = run[p].entries
    /\ \A d \in (Git \cap DOMAIN lockfile) \ run[p].todo : cache[d][lockfile[d]] = Files
    /\ run[p].at \in InHand => run[p].rev = run[p].entries[Dep(p)]
    /\ run[p].at = "copy" => Copied(p)

\* Mind.lock, as it will be written, names what is wanted, as it is now.
Pinned(pins) ==
  /\ \A d \in DOMAIN pins \ Git : pins[d] = current[d]
  /\ \A d \in DOMAIN pins \cap Git : cache[d][pins[d]] # Missing

\* What lock alone has been through is pinned.
Locking(p) ==
  run[p].alone /\ run[p].cmd = "lock" =>
    /\ wanted = DOMAIN run[p].entries \cup run[p].todo
    /\ Pinned(run[p].entries)

Locked ==
  last = "lock" => lockfile \in Pins /\ DOMAIN lockfile = wanted /\ Pinned(lockfile)

DepsInv ==
  /\ Typed /\ Worked /\ Alone /\ UpdateRepairs /\ Locked
  /\ \A p \in Procs : Repairing(p) /\ Locking(p)

-----------------------------------------------------------------------------

(***************************************************************************)
(* The dependency at hand, and the types.                                  *)
(***************************************************************************)

\* The first of some dependencies is one of them.
LEMMA FirstIn ==
  ASSUME NEW S \in SUBSET Names, S # {}
  PROVE  First(S) \in S
<1> DEFINE at == {i \in DOMAIN Deps : Deps[i] \in S}
<1>1. DOMAIN Deps = 1 .. Len(Deps) /\ Len(Deps) \in Nat
  BY DepsAssumption
<1>2. at # {} /\ at \subseteq Nat
  BY <1>1 DEF Names, ToSet
<1>3. PICK i \in at : \A j \in at : <<j, i>> \notin OpToRel(<, Nat)
  <2> HIDE DEF at
  <2> QED BY <1>2, NatLessThanWellFounded, WFMin, Zenon
<1>4. \A j \in at : ~(j < i)
  BY <1>2, <1>3 DEF OpToRel
<1>5. \A j \in 1 .. i - 1 : Deps[j] \notin S
  BY <1>1, <1>4
<1> QED BY <1>3, <1>5 DEF First

\* An entry joins the others.
LEMMA PinType ==
  ASSUME NEW pins \in Pins, NEW d \in Names, NEW r \in Revs
  PROVE  With(pins, d, r) \in Pins
<1> DEFINE new == With(pins, d, r)
<1>1. PICK D \in SUBSET Names : pins \in [D -> Revs]
  BY DEF Pins
<1>2. new = [e \in D \cup {d} |-> IF e = d THEN r ELSE pins[e]]
  BY <1>1 DEF With
<1> HIDE DEF new
<1>3. new \in [D \cup {d} -> Revs] /\ D \cup {d} \in SUBSET Names
  BY <1>1, <1>2
<1> QED BY <1>1, <1>2, <1>3 DEF Pins, new

\* What a revision is pinned to.
LEMMA PinnedRev ==
  ASSUME NEW pins \in Pins
  PROVE  /\ DOMAIN pins \subseteq Names
         /\ \A d \in DOMAIN pins : pins[d] \in Revs
  BY DEF Pins

LEMMA IdleType == Idle \in Process /\ Orderly(Idle)
<1>1. NoLock \in [{} -> Revs] /\ {} \in SUBSET Names
  BY DEF NoLock
<1>2. NoLock \in Pins
  BY <1>1 DEF Pins
<1>3. 1 \in Revs
  BY DepsAssumption DEF Revs
<1> QED BY <1>2, <1>3 DEF Idle, Commands, Steps, Process, Orderly, InHand

\* A process at work has a git dependency and a revision in hand.
LEMMA AtHand ==
  ASSUME Typed, NEW p \in Procs, run[p].at \in InHand
  PROVE  /\ Dep(p) \in Git /\ Dep(p) \in run[p].todo /\ run[p].rev \in Revs
         /\ Tree(p) \in Trees
<1>1. Dep(p) \in run[p].todo
  BY FirstIn DEF Typed, DepsTypeOK, Orderly, Dep, Process
<1> QED BY <1>1 DEF Typed, DepsTypeOK, Orderly, Tree, Dep, Process

\* A process goes on, and the others stay where they are.
LEMMA Goes ==
  ASSUME Typed, NEW p \in Procs, NEW new \in Process, Orderly(new), Go(p, new)
  PROVE  /\ run' \in [Procs -> Process] /\ \A q \in Procs : Orderly(run'[q])
         /\ run'[p] = new /\ \A q \in Procs \ {p} : run'[q] = run[q]
  BY DEF Typed, DepsTypeOK, Go

\* The next process state of each step of the loop.
LEMMA FurtherType ==
  ASSUME Typed, NEW p \in Procs, run[p].at # "idle", run[p].cmd # "none"
  PROVE  /\ Further(p) \in Process /\ Orderly(Further(p))
         /\ Further(p).at = "next" /\ Further(p).todo = run[p].todo \ {Dep(p)}
         /\ Further(p).cmd = run[p].cmd /\ Further(p).entries = run[p].entries
         /\ Further(p).alone = run[p].alone
<1>1. run[p] \in Process /\ Orderly(run[p])
  BY DEF Typed, DepsTypeOK
<1>2. /\ Further(p) \in Process
      /\ Further(p).at = "next" /\ Further(p).todo = run[p].todo \ {Dep(p)}
      /\ Further(p).cmd = run[p].cmd /\ Further(p).entries = run[p].entries
      /\ Further(p).alone = run[p].alone
  BY <1>1 DEF Further, Process, Steps
<1>3. Orderly(Further(p))
  BY <1>1, <1>2 DEF Orderly, InHand
<1> QED BY <1>2, <1>3

LEMMA ResolvedType ==
  ASSUME Typed, NEW p \in Procs, run[p].at # "idle", run[p].cmd \in Locks,
         NEW d \in Names, NEW r \in Revs
  PROVE  LET new == [Further(p) EXCEPT !.entries = With(@, d, r)]
         IN  new \in Process /\ Orderly(new)
<1>1. run[p].cmd # "none"
  BY DEF Locks
<1>2. Further(p) \in Process /\ Further(p).at = "next" /\ Further(p).cmd = run[p].cmd
      /\ Orderly(Further(p))
  BY <1>1, FurtherType DEF Typed, DepsTypeOK, Process
<1>3. With(Further(p).entries, d, r) \in Pins
  BY <1>2, PinType DEF Process
<1> QED BY <1>2, <1>3 DEF Process, Orderly, InHand

\* No process that runs is alone any more; the rest stays.
LEMMA DisturbedType ==
  ASSUME Typed, NEW q \in Procs
  PROVE  /\ Disturbed[q] \in Process /\ Orderly(Disturbed[q]) /\ ~Disturbed[q].alone
         /\ Disturbed[q].cmd = run[q].cmd /\ Disturbed[q].at = run[q].at
         /\ Disturbed[q].todo = run[q].todo /\ Disturbed[q].rev = run[q].rev
         /\ Disturbed[q].left = run[q].left
  BY ZenonT(30) DEF Typed, DepsTypeOK, Disturbed, Process, Orderly

\* What a command starts with.
LEMMA Begun ==
  ASSUME Typed, NEW p \in Procs, NEW c \in Commands, NEW d \in Names, Start(p, c, d),
         c \in Locks \/ lockfile \notin {Missing, Torn}
  PROVE  LET kept == IF c \in Locks THEN Kept(c, d) ELSE lockfile
         IN  /\ kept \in Pins
             /\ run' \in [Procs -> Process] /\ Orderly(run'[p])
             /\ \A q \in Procs \ {p} : run'[q] = Disturbed[q]
             /\ run'[p].cmd = c /\ run'[p].at = "next" /\ run'[p].entries = kept
             /\ run'[p].todo = Todo(c, kept) /\ run'[p].alone = Quiet
<1> DEFINE kept == IF c \in Locks THEN Kept(c, d) ELSE lockfile
           new == [Idle EXCEPT !.cmd = c, !.at = "next", !.entries = kept,
                               !.todo = Todo(c, kept), !.alone = Quiet]
<1>1. NoLock \in Pins
  BY IdleType DEF Idle, Process
<1>2. Kept(c, d) \in Pins
  <2>1. CASE c # "relock" \/ lockfile \in {Missing, Torn}
    BY <1>1, <2>1 DEF Kept
  <2>2. CASE ~(c # "relock" \/ lockfile \in {Missing, Torn})
    <3>1. lockfile \in Pins
      BY <2>2 DEF Typed, DepsTypeOK
    <3>2. DOMAIN lockfile \subseteq Names /\ \A e \in DOMAIN lockfile : lockfile[e] \in Revs
      BY <3>1, PinnedRev
    <3> DEFINE D == (DOMAIN lockfile \cap wanted) \ {d}
    <3>3. Kept(c, d) = [e \in D |-> lockfile[e]]
      BY <2>2 DEF Kept
    <3>4. D \in SUBSET Names /\ [e \in D |-> lockfile[e]] \in [D -> Revs]
      BY <3>2
    <3> QED BY <3>3, <3>4 DEF Pins
  <2> QED BY <2>1, <2>2
<1>3. kept \in Pins
  BY <1>2 DEF Typed, DepsTypeOK
<1>4. run' = [Disturbed EXCEPT ![p] = new]
  BY DEF Start
<1> HIDE DEF kept
<1>5. /\ Todo(c, kept) \in SUBSET Names
      /\ c \notin Locks => Todo(c, kept) \subseteq Git \cap DOMAIN kept
  BY <1>3, DepsAssumption DEF Todo, Typed, DepsTypeOK
<1>6. /\ new.cmd = c /\ new.at = "next" /\ new.entries = kept
      /\ new.todo = Todo(c, kept) /\ new.alone = Quiet
      /\ new \in Process
  BY <1>3, <1>5, IdleType DEF Steps, Idle, Quiet, Process
<1>7. Orderly(new)
  BY <1>5, <1>6 DEF Orderly, Commands, InHand
<1> HIDE DEF new
<1>8. run'[p] = new /\ \A q \in Procs \ {p} : run'[q] = Disturbed[q]
  BY <1>4 DEF Disturbed
<1>9. run' \in [Procs -> Process]
  BY <1>4, <1>6, DisturbedType DEF Disturbed
<1> QED BY <1>3, <1>6, <1>7, <1>8, <1>9 DEF kept

\* A process state that differs in place, revision or files left.
LEMMA MovedType ==
  ASSUME NEW u \in Process, Orderly(u), NEW r \in Revs, NEW left \in SUBSET Files,
         NEW at \in {"stage", "replace", "remove", "create", "copy", "write"}
  PROVE  LET new == [u EXCEPT !.at = at, !.rev = r, !.left = left]
         IN  /\ new \in Process
             /\ /\ u.at # "idle"
                /\ at = "write" => u.cmd \in {"lock", "relock"} /\ u.todo = {}
                /\ at # "write" => u.todo # {} /\ First(u.todo) \in Git
                /\ at = "stage" => u.cmd \in Locks
                /\ at \in {"replace", "remove"} => u.cmd \notin Locks
                => Orderly(new)
  BY DEF Process, Orderly, InHand, Steps

\* Every step keeps the types and the order of the loop.
LEMMA TypedStep ==
  ASSUME Typed, [DepsNext]_depsVars
  PROVE  Typed'
<1>0. ASSUME NEW p \in Procs
      PROVE  run[p] \in Process /\ Orderly(run[p])
  BY DEF Typed, DepsTypeOK
<1>1. ASSUME NEW p \in Procs, NEW c \in Commands, NEW d \in Names, Start(p, c, d)
      PROVE  Typed'
  <2>1. CASE c \in Locks \/ lockfile \notin {Missing, Torn}
    <3>1. /\ run' \in [Procs -> Process] /\ Orderly(run'[p])
          /\ \A q \in Procs \ {p} : run'[q] = Disturbed[q]
      BY <1>1, <2>1, Begun
    <3> QED BY <1>1, <3>1, DisturbedType DEF Start, Typed, DepsTypeOK
  <2>2. CASE ~(c \in Locks \/ lockfile \notin {Missing, Torn})
    BY <1>1, <2>2 DEF Start, Typed, DepsTypeOK
  <2> QED BY <2>1, <2>2
<1>2. ASSUME NEW p \in Procs, ResolvePath(p)
      PROVE  Typed'
  <2>1. Dep(p) \in run[p].todo /\ Dep(p) \in Names
    BY <1>0, <1>2, FirstIn DEF ResolvePath, Dep, Process
  <2>2. run[p].cmd \in Locks /\ current[Dep(p)] \in Revs
    BY <1>0, <1>2, <2>1 DEF ResolvePath, Orderly, Typed, DepsTypeOK
  <2>3. run' \in [Procs -> Process] /\ \A q \in Procs : Orderly(run'[q])
    BY <1>2, <2>1, <2>2, ResolvedType, Goes DEF ResolvePath
  <2> QED BY <1>2, <2>3 DEF ResolvePath, Typed, DepsTypeOK
<1>3. ASSUME NEW p \in Procs, BeginGit(p)
      PROVE  Typed'
  <2>1. run[p].todo # {} /\ Dep(p) \in run[p].todo /\ Dep(p) \in Git
    BY <1>0, <1>3, FirstIn DEF BeginGit, Dep, Process
  <2> DEFINE r == IF run[p].cmd \in Locks THEN current[Dep(p)] ELSE run[p].entries[Dep(p)]
             at == IF run[p].cmd \in Locks THEN "stage" ELSE "replace"
  <2>2. r \in Revs
    BY <1>0, <2>1, PinnedRev, DepsAssumption DEF Typed, DepsTypeOK, Orderly, Process
  <2>3. run[p].at = "next" /\ run[p].cmd # "none"
    BY <1>0, <1>3 DEF BeginGit, Orderly
  <2>4. CASE UNCHANGED last /\ Go(p, Further(p))
    BY <1>3, <2>3, <2>4, FurtherType, Goes DEF BeginGit, Typed, DepsTypeOK
  <2>5. CASE Ends(p, FALSE)
    BY <1>3, <2>5, IdleType, Goes DEF BeginGit, Ends, Typed, DepsTypeOK
  <2>6. CASE UNCHANGED last /\ Go(p, [run[p] EXCEPT !.rev = r, !.at = at])
    <3> DEFINE new == [run[p] EXCEPT !.at = at, !.rev = r, !.left = run[p].left]
    <3>1. new = [run[p] EXCEPT !.rev = r, !.at = at]
      BY <1>0 DEF Process
    <3>2. /\ at \in {"stage", "replace"}
          /\ at = "stage" => run[p].cmd \in Locks
          /\ at = "replace" => run[p].cmd \notin Locks
          /\ run[p].left \in SUBSET Files /\ First(run[p].todo) \in Git
      BY <1>0, <2>1 DEF Process, Dep
    <3> HIDE DEF r, at
    <3>3. new \in Process /\ Orderly(new)
      BY <1>0, <2>1, <2>2, <2>3, <3>2, MovedType
    <3> HIDE DEF new
    <3> QED BY <1>3, <2>6, <3>1, <3>3, Goes DEF BeginGit, Typed, DepsTypeOK
  <2> QED BY <1>3, <2>4, <2>5, <2>6 DEF BeginGit
<1>4. ASSUME NEW p \in Procs, Stage(p)
      PROVE  Typed'
  <2>1. /\ Dep(p) \in Names /\ run[p].rev \in Revs /\ run[p].cmd \in Locks
        /\ run[p].todo # {} /\ First(run[p].todo) \in Git /\ run[p].left \in SUBSET Files
    BY <1>0, <1>4, AtHand, DepsAssumption DEF Stage, InHand, Orderly, Process
  <2>2. Resolved(p) \in Process /\ Orderly(Resolved(p))
    BY <1>4, <2>1, ResolvedType DEF Stage, Resolved
  <2>3. [run[p] EXCEPT !.at = "create"] \in Process /\ Orderly([run[p] EXCEPT !.at = "create"])
    <3> DEFINE new == [run[p] EXCEPT !.at = "create", !.rev = run[p].rev, !.left = run[p].left]
    <3>1. new \in Process /\ Orderly(new)
      BY <1>0, <1>4, <2>1, MovedType DEF Stage
    <3> QED BY <1>0, <3>1 DEF Process
  <2> QED BY <1>4, <2>2, <2>3, Goes DEF Stage, StageNext, Typed, DepsTypeOK
<1>5. ASSUME NEW p \in Procs, run[p].at \in {"replace", "remove", "create", "copy"},
             \/ Go(p, Further(p)) \/ Go(p, Idle)
             \/ run[p].cmd \in Locks /\ Go(p, Resolved(p))
             \/ \E at \in {"remove", "create", "copy"}, left \in SUBSET Files :
                  /\ at = "remove" => run[p].at \in {"replace", "remove"}
                  /\ Go(p, [run[p] EXCEPT !.at = at, !.left = left])
      PROVE  run' \in [Procs -> Process] /\ \A q \in Procs : Orderly(run'[q])
  <2>1. /\ Dep(p) \in Names /\ run[p].rev \in Revs /\ run[p].cmd # "none"
        /\ run[p].todo # {} /\ First(run[p].todo) \in Git
    BY <1>0, <1>5, AtHand, DepsAssumption DEF InHand, Orderly, Process
  <2>2. CASE Go(p, Further(p))
    BY <1>5, <2>1, <2>2, FurtherType, Goes
  <2>3. CASE Go(p, Idle)
    BY <2>3, IdleType, Goes
  <2>4. CASE run[p].cmd \in Locks /\ Go(p, Resolved(p))
    BY <1>5, <2>1, <2>4, ResolvedType, Goes DEF Resolved
  <2>5. ASSUME NEW at \in {"remove", "create", "copy"}, NEW left \in SUBSET Files,
               at = "remove" => run[p].at \in {"replace", "remove"},
               Go(p, [run[p] EXCEPT !.at = at, !.left = left])
        PROVE  run' \in [Procs -> Process] /\ \A q \in Procs : Orderly(run'[q])
    <3> DEFINE new == [run[p] EXCEPT !.at = at, !.rev = run[p].rev, !.left = left]
    <3>1. at = "remove" => run[p].cmd \notin Locks
      BY <1>0, <2>5 DEF Orderly
    <3>2. new \in Process /\ Orderly(new)
      BY ZenonT(30), <1>0, <1>5, <2>1, <3>1, MovedType
    <3>3. new = [run[p] EXCEPT !.at = at, !.left = left]
      BY <1>0 DEF Process
    <3> HIDE DEF new
    <3> QED BY <2>5, <3>2, <3>3, Goes
  <2> QED BY <1>5, <2>2, <2>3, <2>4, <2>5
<1>6. ASSUME NEW p \in Procs, NEW files \in Trees, run[p].at \in InHand, InTree(p, files)
      PROVE  cache' \in [Git -> [Revs -> Trees]]
  BY <1>6, AtHand DEF InTree, Typed, DepsTypeOK
<1>7. ASSUME NEW p \in Procs, run[p].at \in InHand
      PROVE  /\ Tree(p) \in Trees
             /\ Tree(p) # Missing => Tree(p) \in SUBSET Files
             /\ run[p].left \in SUBSET Files /\ run[p].cmd \in Commands
  BY <1>0, <1>7, AtHand DEF Trees, Process, Orderly, InHand
<1>8. ASSUME NEW p \in Procs, Replace(p)
      PROVE  Typed'
  <2>1. run' \in [Procs -> Process] /\ \A q \in Procs : Orderly(run'[q])
    <3>1. CASE Tree(p) # Missing
      BY <1>5, <1>7, <1>8, <3>1 DEF Replace, InHand
    <3>2. CASE Tree(p) = Missing /\ run[p].cmd # "clean"
      <4>1. [run[p] EXCEPT !.at = "create"] =
              [run[p] EXCEPT !.at = "create", !.left = run[p].left]
        BY <1>0 DEF Process
      <4> QED BY <1>5, <1>7, <1>8, <3>2, <4>1 DEF Replace, InHand
    <3>3. CASE Tree(p) = Missing /\ run[p].cmd = "clean"
      BY <1>5, <1>8, <3>3 DEF Replace
    <3> QED BY <3>1, <3>2, <3>3
  <2> QED BY <1>8, <2>1 DEF Replace, Typed, DepsTypeOK
<1>9. ASSUME NEW p \in Procs, RemoveFile(p)
      PROVE  Typed'
  <2>1. PICK f \in run[p].left :
          /\ InTree(p, IF Tree(p) = Missing THEN Missing ELSE Tree(p) \ {f})
          /\ Go(p, [run[p] EXCEPT !.left = @ \ {f}])
    BY <1>9 DEF RemoveFile
  <2>2. cache' \in [Git -> [Revs -> Trees]]
    BY <1>6, <1>7, <1>9, <2>1 DEF RemoveFile, InHand, Trees
  <2>3. [run[p] EXCEPT !.left = @ \ {f}] =
          [run[p] EXCEPT !.at = "remove", !.left = run[p].left \ {f}]
    BY <1>0, <1>9 DEF Process, RemoveFile
  <2>4. run' \in [Procs -> Process] /\ \A q \in Procs : Orderly(run'[q])
    BY <1>5, <1>7, <1>9, <2>1, <2>3 DEF RemoveFile, InHand
  <2> QED BY <1>9, <2>2, <2>4 DEF RemoveFile, Typed, DepsTypeOK
<1>10. ASSUME NEW p \in Procs, RemoveDir(p)
       PROVE  Typed'
  <2>1. cache' \in [Git -> [Revs -> Trees]]
    BY <1>6, <1>10 DEF RemoveDir, InHand, Trees, Typed, DepsTypeOK
  <2>2. [run[p] EXCEPT !.at = "create"] =
          [run[p] EXCEPT !.at = "create", !.left = run[p].left]
    BY <1>0 DEF Process
  <2>3. run' \in [Procs -> Process] /\ \A q \in Procs : Orderly(run'[q])
    BY <1>5, <1>7, <1>10, <2>2 DEF RemoveDir, InHand, Ends
  <2>4. last' \in Commands \cup {"none"}
    BY <1>10 DEF RemoveDir, Ends, Typed, DepsTypeOK
  <2> QED BY <1>10, <2>1, <2>3, <2>4 DEF RemoveDir, Typed, DepsTypeOK
<1>11. ASSUME NEW p \in Procs, Create(p)
       PROVE  Typed'
  <2>1. cache' \in [Git -> [Revs -> Trees]]
    BY <1>6, <1>7, <1>11 DEF Create, InHand, Trees
  <2>2. run' \in [Procs -> Process] /\ \A q \in Procs : Orderly(run'[q])
    BY <1>5, <1>11 DEF Create
  <2> QED BY <1>11, <2>1, <2>2 DEF Create, Typed, DepsTypeOK
<1>12. ASSUME NEW p \in Procs, CopyFile(p)
       PROVE  Typed'
  <2>1. CASE Ends(p, FALSE) /\ broken' = TRUE /\ UNCHANGED cache
    BY <1>5, <1>12, <2>1 DEF CopyFile, Ends, Typed, DepsTypeOK
  <2>2. ASSUME NEW f \in run[p].left, Tree(p) # Missing, InTree(p, Tree(p) \cup {f}),
               Go(p, [run[p] EXCEPT !.left = @ \ {f}]), UNCHANGED <<last, broken>>
        PROVE  Typed'
    <3>1. cache' \in [Git -> [Revs -> Trees]]
      BY <1>6, <1>7, <1>12, <2>2 DEF CopyFile, InHand, Trees
    <3>2. [run[p] EXCEPT !.left = @ \ {f}] =
            [run[p] EXCEPT !.at = "copy", !.left = run[p].left \ {f}]
      BY <1>0, <1>12 DEF Process, CopyFile
    <3>3. run' \in [Procs -> Process] /\ \A q \in Procs : Orderly(run'[q])
      BY <1>5, <1>7, <1>12, <2>2, <3>2 DEF CopyFile, InHand
    <3> QED BY <1>12, <2>2, <3>1, <3>3 DEF CopyFile, Typed, DepsTypeOK
  <2> QED BY <1>12, <2>1, <2>2 DEF CopyFile
<1>13. ASSUME NEW p \in Procs, Staged(p)
       PROVE  Typed'
  <2>1. run' \in [Procs -> Process] /\ \A q \in Procs : Orderly(run'[q])
    BY <1>5, <1>13 DEF Staged, Ends
  <2> QED BY <1>13, <2>1 DEF Staged, Ends, Typed, DepsTypeOK
<1>14. ASSUME NEW p \in Procs, BeginWrite(p)
       PROVE  Typed'
  <2> DEFINE new == [run[p] EXCEPT !.at = "write", !.rev = run[p].rev, !.left = run[p].left]
  <2>1. new \in Process /\ Orderly(new)
    <3>1. run[p].rev \in Revs /\ run[p].left \in SUBSET Files /\ run[p].at # "idle"
      BY <1>0, <1>14 DEF Process, BeginWrite
    <3> QED BY ZenonT(30), <1>0, <1>14, <3>1, MovedType DEF BeginWrite
  <2>2. new = [run[p] EXCEPT !.at = "write"]
    BY <1>0 DEF Process
  <2> HIDE DEF new
  <2>3. run' \in [Procs -> Process] /\ \A q \in Procs : Orderly(run'[q])
    BY <1>14, <2>1, <2>2, Goes DEF BeginWrite
  <2> QED BY <1>14, <2>3 DEF BeginWrite, Typed, DepsTypeOK
<1>15. ASSUME NEW p \in Procs, NEW ok \in BOOLEAN, Ends(p, ok)
       PROVE  /\ run' \in [Procs -> Process] /\ \A q \in Procs : Orderly(run'[q])
              /\ last' \in Commands \cup {"none"}
  BY <1>0, <1>15, IdleType, Goes DEF Ends, Process, Typed, DepsTypeOK
<1>16. ASSUME NEW p \in Procs, EndWrite(p)
       PROVE  Typed'
  <2>1. run[p].entries \in Pins
    BY <1>0 DEF Process
  <2> QED BY <1>15, <1>16, <2>1 DEF EndWrite, Typed, DepsTypeOK
<1>17. ASSUME NEW p \in Procs, Finish(p)
       PROVE  Typed'
  BY <1>15, <1>17 DEF Finish, Typed, DepsTypeOK
<1>18. ASSUME NEW p \in Procs, Kill(p)
       PROVE  Typed'
  BY <1>15, <1>18 DEF Kill, Typed, DepsTypeOK
<1>19. CASE Commit
  BY <1>19, DepsAssumption DEF Commit, Typed, DepsTypeOK, Revs
<1>20. CASE Edit
  <2>1. run' \in [Procs -> Process] /\ \A q \in Procs : Orderly(run'[q])
    BY <1>20, DisturbedType DEF Edit, Disturbed
  <2>2. current' \in [Names -> Revs] /\ wanted' \in SUBSET Names
    BY <1>20, DepsAssumption DEF Edit, Typed, DepsTypeOK, Revs
  <2> QED BY <1>20, <2>1, <2>2 DEF Edit, Typed, DepsTypeOK
<1>21. CASE UNCHANGED depsVars
  BY <1>21 DEF depsVars, Typed, DepsTypeOK
<1> QED BY <1>1, <1>2, <1>3, <1>4, <1>8, <1>9, <1>10, <1>11, <1>12, <1>13, <1>14, <1>16,
           <1>17, <1>18, <1>19, <1>20, <1>21 DEF DepsNext, Step

-----------------------------------------------------------------------------
(***************************************************************************)
(* Directories of the cache.                                               *)
(***************************************************************************)

\* A change to the directory at hand changes no other.
LEMMA Put ==
  ASSUME Typed, NEW p \in Procs, run[p].at \in InHand, NEW files, InTree(p, files),
         NEW d \in Git, NEW r \in Revs
  PROVE  cache'[d][r] = IF d = Dep(p) /\ r = run[p].rev THEN files ELSE cache[d][r]
  BY AtHand DEF InTree, Typed, DepsTypeOK

\* A step that touches no files, of a process that does not.
LEMMA Aside ==
  ASSUME Typed, Worked, NEW p \in Procs, NEW new \in Process, Go(p, new),
         UNCHANGED <<cache, broken>>, Busy(p),
         run[p].at \notin {"copy", "remove"}, new.at \notin {"copy", "remove"}
  PROVE  Worked'
<1> SUFFICES ASSUME ~broken PROVE Worked'
  BY DEF Worked
<1>1. run'[p] = new /\ \A q \in Procs \ {p} : run'[q] = run[q]
  BY DEF Go, Typed, DepsTypeOK
<1>2. ASSUME NEW q \in Procs
      PROVE  /\ run'[q].at = "remove" => ~Others(q)' /\ Tree(q)' = run'[q].left
             /\ run'[q].at = "copy" => Copied(q)'
  BY <1>1 DEF Worked, Others, Busy, Tree, Dep, Copied
<1>3. ASSUME NEW d \in Git, NEW r \in Revs, cache'[d][r] \notin {Missing, Files}
      PROVE  \E q \in Procs : Works(q, d, r)'
  BY <1>1, <1>3 DEF Worked, Works, Dep
<1> QED BY <1>2, <1>3 DEF Worked

\* Disturbed processes go on as before.
LEMMA DisturbedWorked ==
  ASSUME Typed, Worked, run' = Disturbed, UNCHANGED <<cache, broken>>
  PROVE  Worked'
<1> SUFFICES ASSUME ~broken PROVE Worked'
  BY DEF Worked
<1>1. ASSUME NEW q \in Procs
      PROVE  /\ run'[q].at = run[q].at /\ run'[q].todo = run[q].todo
             /\ run'[q].rev = run[q].rev /\ run'[q].left = run[q].left
  BY DisturbedType
<1>2. ASSUME NEW q \in Procs
      PROVE  /\ run'[q].at = "remove" => ~Others(q)' /\ Tree(q)' = run'[q].left
             /\ run'[q].at = "copy" => Copied(q)'
  BY <1>1 DEF Worked, Others, Busy, Tree, Dep, Copied
<1>3. ASSUME NEW d \in Git, NEW r \in Revs, cache'[d][r] \notin {Missing, Files}
      PROVE  \E q \in Procs : Works(q, d, r)'
  BY <1>1, <1>3 DEF Worked, Works, Dep
<1> QED BY <1>2, <1>3 DEF Worked

\* A step of one process on the directory it has in hand, while no other
\* removes one.
LEMMA StepBusy ==
  ASSUME Typed, Worked, ~broken, NEW p \in Procs, run[p].at \in InHand,
         NEW new \in Process, Go(p, new), NEW files, InTree(p, files),
         new.at = "remove" => run[p].at = "remove" /\ files = new.left,
         new.at = "copy" => files # Missing /\ Files \ new.left \subseteq files,
         new.at \in {"copy", "remove"} => First(new.todo) = Dep(p) /\ new.rev = run[p].rev,
         new.at \notin {"copy", "remove"} => files \in {Missing, Files},
         run[p].at \in {"create", "copy"} => Tree(p) \subseteq files \/ Tree(p) = Missing,
         run[p].at \in {"create", "copy"} => files # Missing,
         run[p].at \in {"create", "copy", "remove"}
  PROVE  Worked'
<1>1. run'[p] = new /\ \A q \in Procs \ {p} : run'[q] = run[q]
  BY DEF Go, Typed, DepsTypeOK
<1>2. ASSUME NEW q \in Procs, run'[q].at = "remove"
      PROVE  ~Others(q)' /\ Tree(q)' = run'[q].left
  <2>1. q = p
    BY <1>1, <1>2 DEF Worked, Others, Busy, InHand
  <2>2. ~Others(p)'
    BY <1>1, <1>2, <2>1 DEF Worked, Others, Busy
  <2>3. Tree(p)' = files
    BY <1>1, <1>2, <2>1, AtHand, Put DEF Tree, Dep
  <2> QED BY <1>1, <1>2, <2>1, <2>2, <2>3
<1>3. ASSUME NEW q \in Procs, run'[q].at = "copy"
      PROVE  Copied(q)'
  <2>1. CASE q = p
    <3>1. Tree(p)' = files
      BY <1>1, <1>3, <2>1, AtHand, Put DEF Tree, Dep
    <3> QED BY <1>1, <1>3, <2>1, <3>1 DEF Copied
  <2>2. CASE q # p
    <3>1. Copied(q) /\ run[q].at \in InHand /\ run'[q] = run[q]
      BY <1>1, <1>3, <2>2 DEF Worked, InHand
    <3>2. run[p].at # "remove"
      BY <2>2, <3>1 DEF Worked, Others, Busy, InHand
    <3>3. Dep(q) \in Git /\ run[q].rev \in Revs
      BY <3>1, AtHand
    <3>4. Tree(q)' = Tree(q) \/ (Tree(q) = Tree(p) /\ Tree(q)' = files)
      BY <3>1, <3>3, Put DEF Tree, Dep
    <3> QED BY <3>1, <3>2, <3>4 DEF Copied
  <2> QED BY <2>1, <2>2
<1>4. ASSUME NEW d \in Git, NEW r \in Revs, cache'[d][r] \notin {Missing, Files}
      PROVE  \E q \in Procs : Works(q, d, r)'
  <2>1. CASE d = Dep(p) /\ r = run[p].rev
    <3>1. files \notin {Missing, Files}
      BY <1>4, <2>1, Put
    <3>2. Works(p, d, r)'
      BY <1>1, <2>1, <3>1 DEF Works, Dep
    <3> QED BY <3>2
  <2>2. CASE ~(d = Dep(p) /\ r = run[p].rev)
    <3>1. cache[d][r] \notin {Missing, Files}
      BY <1>4, <2>2, Put
    <3>2. PICK q \in Procs : Works(q, d, r)
      BY <3>1 DEF Worked
    <3>3. q # p
      BY <2>2, <3>2 DEF Works
    <3> QED BY <1>1, <3>2, <3>3 DEF Works, Dep
  <2> QED BY <2>1, <2>2
<1> QED BY <1>2, <1>3, <1>4 DEF Worked

\* Every directory that holds a part of a tree is one somebody works on.
LEMMA WorkedStep ==
  ASSUME Typed, Worked, [DepsNext]_depsVars
  PROVE  Worked'
<1>0. ASSUME NEW p \in Procs
      PROVE  run[p] \in Process /\ Orderly(run[p])
  BY DEF Typed, DepsTypeOK
<1>t. Typed' /\ \A p \in Procs : run'[p] \in Process
  BY TypedStep DEF Typed, DepsTypeOK
<1>g. ASSUME NEW p \in Procs, NEW new, Go(p, new)
      PROVE  new = run'[p]
  BY <1>g DEF Go, Typed, DepsTypeOK
<1>s. ASSUME UNCHANGED <<run, cache, broken>>
      PROVE  Worked'
  <2> SUFFICES ASSUME ~broken PROVE Worked'
    BY <1>s DEF Worked
  <2>1. \A q \in Procs : /\ run'[q].at = "remove" => ~Others(q)' /\ Tree(q)' = run'[q].left
                         /\ run'[q].at = "copy" => Copied(q)'
    BY <1>s DEF Worked, Others, Busy, Tree, Dep, Copied
  <2>2. \A q \in Procs, d \in Git, r \in Revs : Works(q, d, r)' = Works(q, d, r)
    BY <1>s DEF Works, Dep
  <2> QED BY <1>s, <2>1, <2>2 DEF Worked
<1>a. ASSUME NEW p \in Procs, Ends(p, TRUE) \/ Ends(p, FALSE) \/ Go(p, Idle),
             UNCHANGED <<cache, broken>>, Busy(p), run[p].at \notin {"copy", "remove"}
      PROVE  Worked'
  BY <1>a, Aside, IdleType DEF Ends, Idle
<1>1. ASSUME NEW p \in Procs, NEW c \in Commands, NEW d \in Names, Start(p, c, d)
      PROVE  Worked'
  <2>1. CASE c \in Locks \/ lockfile \notin {Missing, Torn}
    <3> SUFFICES ASSUME ~broken' PROVE Worked'
      BY DEF Worked
    <3>1. /\ run'[p].at = "next" /\ run[p].at = "idle"
          /\ \A q \in Procs \ {p} : run'[q] = Disturbed[q]
      BY <1>1, <2>1, Begun DEF Start, Busy
    <3>2. ~broken /\ \A q \in Procs : run[q].at # "remove"
      BY <1>0, <1>1, <2>1 DEF Start, Removes, Orderly
    <3>3. UNCHANGED cache
      BY <1>1 DEF Start
    <3>4. ASSUME NEW q \in Procs \ {p}
          PROVE  /\ run'[q].at = run[q].at /\ run'[q].todo = run[q].todo
                 /\ run'[q].rev = run[q].rev /\ run'[q].left = run[q].left
      BY <3>1, DisturbedType
    <3>5. ASSUME NEW q \in Procs
          PROVE  run'[q].at # "remove" /\ (run'[q].at = "copy" => Copied(q)')
      BY <3>1, <3>2, <3>3, <3>4 DEF Worked, Tree, Dep, Copied
    <3>6. ASSUME NEW e \in Git, NEW r \in Revs, cache'[e][r] \notin {Missing, Files}
          PROVE  \E q \in Procs : Works(q, e, r)'
      BY <3>1, <3>2, <3>3, <3>4, <3>6 DEF Worked, Works, Dep
    <3> QED BY <3>5, <3>6 DEF Worked
  <2>2. CASE ~(c \in Locks \/ lockfile \notin {Missing, Torn})
    BY <1>1, <1>s, <2>2 DEF Start, Typed, DepsTypeOK
  <2> QED BY <2>1, <2>2
<1>2. ASSUME NEW p \in Procs, ResolvePath(p)
      PROVE  Worked'
  <2>1. run'[p].at = "next"
    BY <1>0, <1>2, <1>g DEF ResolvePath, Further, Process
  <2> QED BY <1>2, <1>t, <1>g, <2>1, Aside DEF ResolvePath, Busy
<1>3. ASSUME NEW p \in Procs, BeginGit(p)
      PROVE  Worked'
  <2>1. CASE Go(p, Further(p))
    BY <1>0, <1>3, <1>t, <1>g, <2>1, Aside DEF BeginGit, Busy, Further, Process
  <2>2. CASE Ends(p, FALSE)
    BY <1>3, <1>a, <2>2 DEF BeginGit, Busy
  <2>3. CASE \E r, at : at \in {"stage", "replace"} /\ Go(p, [run[p] EXCEPT !.rev = r, !.at = at])
    BY <1>0, <1>3, <1>t, <1>g, <2>3, Aside DEF BeginGit, Busy, Process
  <2> QED BY <1>3, <2>1, <2>2, <2>3 DEF BeginGit
<1>4. ASSUME NEW p \in Procs, Stage(p)
      PROVE  Worked'
  <2>1. run'[p].at \in {"next", "create"}
    BY <1>0, <1>4, <1>g DEF Stage, StageNext, Resolved, Further, Process
  <2> QED BY <1>4, <1>t, <1>g, <2>1, Aside DEF Stage, Busy
<1>5. ASSUME NEW p \in Procs, Replace(p)
      PROVE  Worked'
  <2>1. CASE Tree(p) = Missing
    <3>1. run'[p].at \in {"next", "create"}
      BY <1>0, <1>5, <1>g, <2>1 DEF Replace, Further, Process
    <3> QED BY <1>5, <1>t, <1>g, <2>1, <3>1, Aside DEF Replace, Busy, Typed, DepsTypeOK
  <2>2. CASE Tree(p) # Missing
    <3> SUFFICES ASSUME ~broken' PROVE Worked'
      BY DEF Worked
    <3>1. ~broken /\ ~Others(p)
      BY <1>0, <1>5, <2>2 DEF Replace, Others, Removes, Orderly
    <3>2. /\ run'[p].at = "remove" /\ run'[p].left = Tree(p) /\ Tree(p)' = Tree(p)
          /\ run'[p].todo = run[p].todo /\ run'[p].rev = run[p].rev
          /\ \A q \in Procs \ {p} : run'[q] = run[q]
      BY <1>0, <1>5, <2>2 DEF Replace, Go, Process, Tree, Dep, Typed, DepsTypeOK
    <3>3. \A q \in Procs \ {p} : run'[q].at = "idle"
      BY <3>1, <3>2 DEF Others, Busy
    <3>4. \A q \in Procs : ~Works(q, Dep(p), run[p].rev) /\ run[q].at \notin {"copy", "remove"}
      BY <1>5, <3>1 DEF Works, Others, Busy, Replace
    <3>5. \A d \in Git, r \in Revs : cache'[d][r] \in {Missing, Files}
      BY <1>5, <3>1, <3>4 DEF Worked, Works, Replace
    <3> QED BY <3>2, <3>3, <3>5 DEF Worked, Others, Busy
  <2> QED BY <2>1, <2>2
<1>6. ASSUME NEW p \in Procs, RemoveFile(p), ~broken
      PROVE  Worked'
  <2>1. PICK f \in run[p].left :
          /\ InTree(p, IF Tree(p) = Missing THEN Missing ELSE Tree(p) \ {f})
          /\ Go(p, [run[p] EXCEPT !.left = @ \ {f}])
    BY <1>6 DEF RemoveFile
  <2>2. Tree(p) = run[p].left /\ Tree(p) # Missing
    BY <1>0, <1>6, DepsAssumption DEF RemoveFile, Worked, Process
  <2> DEFINE new == [run[p] EXCEPT !.left = @ \ {f}]
  <2>3. /\ new.at = "remove" /\ new.left = run[p].left \ {f} /\ new.todo = run[p].todo
        /\ new.rev = run[p].rev /\ new \in Process
    BY <1>0, <1>6 DEF RemoveFile, Process
  <2>4. Go(p, new) /\ InTree(p, Tree(p) \ {f})
    BY <2>1, <2>2
  <2> HIDE DEF new
  <2> QED BY <1>6, <2>2, <2>3, <2>4, StepBusy DEF RemoveFile, InHand, Dep
<1>7. ASSUME NEW p \in Procs, RemoveDir(p), ~broken
      PROVE  Worked'
  <2>1. Tree(p) = {}
    BY <1>7 DEF RemoveDir, Worked
  <2>2. InTree(p, Missing) /\ \E new : Go(p, new)
    BY <1>7, <2>1 DEF RemoveDir
  <2>3. run'[p].at \in {"next", "create"} /\ Go(p, run'[p])
    BY ZenonT(30), <1>0, <1>7, <1>g, <2>1 DEF RemoveDir, Further, Process
  <2> QED BY <1>7, <1>t, <2>2, <2>3, StepBusy DEF RemoveDir, InHand
<1>8. ASSUME NEW p \in Procs, Create(p), ~broken
      PROVE  Worked'
  <2> DEFINE files == IF Tree(p) = Missing THEN {} ELSE Tree(p)
  <2>1. /\ run'[p].at = "copy" /\ run'[p].left = Files /\ run'[p].todo = run[p].todo
        /\ run'[p].rev = run[p].rev /\ Go(p, run'[p]) /\ InTree(p, files)
    BY <1>0, <1>8, <1>g DEF Create, Process
  <2>2. files # Missing /\ (Tree(p) \subseteq files \/ Tree(p) = Missing)
    BY DepsAssumption
  <2> HIDE DEF files
  <2> QED BY <1>8, <1>t, <2>1, <2>2, StepBusy DEF Create, InHand, Dep
<1>9. ASSUME NEW p \in Procs, CopyFile(p), ~broken
      PROVE  Worked'
  <2>1. CASE broken' = TRUE
    BY <2>1 DEF Worked
  <2>2. ASSUME NEW f \in run[p].left, Tree(p) # Missing, InTree(p, Tree(p) \cup {f}),
               Go(p, [run[p] EXCEPT !.left = @ \ {f}])
        PROVE  Worked'
    <3>1. /\ run'[p].at = "copy" /\ run'[p].left = run[p].left \ {f}
          /\ run'[p].todo = run[p].todo /\ run'[p].rev = run[p].rev /\ Go(p, run'[p])
      BY <1>0, <1>9, <1>g, <2>2 DEF CopyFile, Process
    <3>2. Files \ run[p].left \subseteq Tree(p) /\ Tree(p) \in SUBSET Files
      BY <1>9, <2>2, AtHand DEF CopyFile, Worked, Copied, InHand, Trees
    <3>3. Tree(p) \cup {f} # Missing /\ Files \ run'[p].left \subseteq Tree(p) \cup {f}
      BY <1>0, <3>1, <3>2, DepsAssumption DEF Process
    <3> QED BY <1>9, <1>t, <2>2, <3>1, <3>3, StepBusy DEF CopyFile, InHand, Dep
  <2> QED BY <1>9, <2>1, <2>2 DEF CopyFile
<1>10. ASSUME NEW p \in Procs, Staged(p), ~broken
       PROVE  Worked'
  <2>1. Tree(p) = Files /\ Tree(p) # Missing
    BY <1>10, AtHand DEF Staged, Worked, Copied, InHand, Trees
  <2>2. InTree(p, Files)
    <3>1. cache' = cache /\ Dep(p) \in Git /\ run[p].rev \in Revs
      BY <1>10, AtHand DEF Staged, InHand
    <3>2. cache \in [Git -> [Revs -> Trees]]
      BY DEF Typed, DepsTypeOK
    <3> QED BY <2>1, <3>1, <3>2 DEF InTree, Tree
  <2>3. run'[p].at = "next" /\ Go(p, run'[p])
    BY <1>0, <1>10, <1>g, <2>1 DEF Staged, Resolved, Further, Process
  <2> QED BY <1>10, <1>t, <2>1, <2>2, <2>3, StepBusy DEF Staged, InHand
<1>11. ASSUME NEW p \in Procs, BeginWrite(p)
       PROVE  Worked'
  BY <1>0, <1>11, <1>t, <1>g, Aside DEF BeginWrite, Busy, Process
<1>12. ASSUME NEW p \in Procs, EndWrite(p) \/ Finish(p)
       PROVE  Worked'
  <2>1. Go(p, Idle) /\ UNCHANGED <<cache, broken>> /\ Busy(p) /\ run[p].at \in {"write", "next"}
    BY <1>12 DEF EndWrite, Finish, Ends, Busy
  <2> QED BY <1>a, <2>1
<1>13. ASSUME NEW p \in Procs, Kill(p)
       PROVE  Worked'
  <2>1. CASE run[p].at \in {"copy", "remove"}
    BY <1>13, <2>1 DEF Kill, Worked
  <2>2. CASE run[p].at \notin {"copy", "remove"}
    BY <1>13, <1>a, <2>2 DEF Kill, Typed, DepsTypeOK
  <2> QED BY <2>1, <2>2
<1>14. CASE Commit
  BY <1>14, <1>s DEF Commit
<1>15. CASE Edit
  BY <1>15, DisturbedWorked DEF Edit
<1>16. CASE UNCHANGED depsVars
  BY <1>16, <1>s DEF depsVars
<1>18. ASSUME NEW p \in Procs, broken,
              RemoveFile(p) \/ RemoveDir(p) \/ Create(p) \/ CopyFile(p) \/ Staged(p)
       PROVE  broken'
  BY <1>18 DEF RemoveFile, RemoveDir, Create, CopyFile, Staged
<1>19. ASSUME NEW p \in Procs,
              RemoveFile(p) \/ RemoveDir(p) \/ Create(p) \/ CopyFile(p) \/ Staged(p)
       PROVE  Worked'
  <2>1. CASE broken
    BY <1>18, <1>19, <2>1 DEF Worked
  <2>2. CASE ~broken
    BY <1>6, <1>7, <1>8, <1>9, <1>10, <1>19, <2>2
  <2> QED BY <2>1, <2>2
<1> QED BY <1>1, <1>2, <1>3, <1>4, <1>5, <1>11, <1>12, <1>13, <1>14, <1>15, <1>16, <1>19
        DEF DepsNext, Step

-----------------------------------------------------------------------------
(***************************************************************************)
(* Commands that have the project for themselves.                          *)
(***************************************************************************)

\* Every step of a process that runs leaves the others alone, and does not
\* begin to count as alone.
LEMMA OwnStep ==
  ASSUME Typed, NEW p \in Procs, Step(p),
         \A c \in Commands, d \in Names : ~Start(p, c, d)
  PROVE  /\ Busy(p) /\ \A q \in Procs \ {p} : run'[q] = run[q]
         /\ run'[p].alone => run[p].alone /\ run'[p].cmd = run[p].cmd
         /\ UNCHANGED <<current, wanted>>
         /\ \/ Busy(p)' /\ UNCHANGED last
            \/ ~Busy(p)' /\ last' \in {last, IF run[p].alone THEN run[p].cmd ELSE last}
<1>0. run[p] \in Process /\ Orderly(run[p]) /\ run \in [Procs -> Process]
  BY DEF Typed, DepsTypeOK
<1>1. ASSUME NEW new, Go(p, new)
      PROVE  run'[p] = new /\ \A q \in Procs \ {p} : run'[q] = run[q]
  BY <1>0, <1>1 DEF Go
<1>2. Idle.at = "idle" /\ ~Idle.alone
  BY DEF Idle
<1>3. ASSUME \E ok \in BOOLEAN : Ends(p, ok)
      PROVE  /\ \A q \in Procs \ {p} : run'[q] = run[q]
             /\ ~run'[p].alone /\ ~Busy(p)'
             /\ last' \in {last, IF run[p].alone THEN run[p].cmd ELSE last}
  <2>1. PICK ok \in BOOLEAN : Ends(p, ok)
    BY <1>3
  <2> QED BY <1>1, <1>2, <2>1 DEF Ends, Busy
<1>4. /\ Further(p).at = "next" /\ Further(p).alone = run[p].alone
      /\ Further(p).cmd = run[p].cmd /\ Further(p) \in Process
      /\ Resolved(p).at = "next" /\ Resolved(p).alone = run[p].alone
      /\ Resolved(p).cmd = run[p].cmd
  <2>1. /\ Further(p).at = "next" /\ Further(p).alone = run[p].alone
        /\ Further(p).cmd = run[p].cmd /\ Further(p) \in Process
    BY <1>0 DEF Further, Process, Steps
  <2> QED BY <2>1 DEF Resolved, Process
<1>5. CASE ResolvePath(p)
  <2>1. run'[p] = [Further(p) EXCEPT !.entries = With(@, Dep(p), current[Dep(p)])]
    BY <1>1, <1>5 DEF ResolvePath
  <2>2. run'[p].at = "next" /\ run'[p].alone = run[p].alone /\ run'[p].cmd = run[p].cmd
    BY <1>4, <2>1 DEF Process
  <2> QED BY <1>1, <1>5, <2>2 DEF ResolvePath, Busy
<1>6. CASE BeginGit(p)
  <2>1. CASE Ends(p, FALSE)
    BY <1>3, <1>6, <2>1 DEF BeginGit, Busy
  <2>2. CASE UNCHANGED last /\ Go(p, Further(p))
    BY <1>1, <1>4, <1>6, <2>2 DEF BeginGit, Busy
  <2>3. ASSUME NEW r, NEW at, at # "idle", UNCHANGED last,
               Go(p, [run[p] EXCEPT !.rev = r, !.at = at])
        PROVE  /\ run'[p].at # "idle" /\ run'[p].alone = run[p].alone
               /\ run'[p].cmd = run[p].cmd /\ \A q \in Procs \ {p} : run'[q] = run[q]
    BY <1>0, <2>3 DEF Go, Process
  <2> QED BY <1>6, <2>1, <2>2, <2>3 DEF BeginGit, Busy
<1>7. CASE Stage(p)
  BY <1>0, <1>1, <1>4, <1>7 DEF Stage, StageNext, Busy, Process
<1>8. CASE Replace(p)
  <2>1. /\ run'[p].at # "idle" /\ run'[p].alone = run[p].alone /\ run'[p].cmd = run[p].cmd
        /\ \A q \in Procs \ {p} : run'[q] = run[q]
    BY <1>0, <1>4, <1>8 DEF Replace, Process, Go
  <2> QED BY <1>8, <2>1 DEF Replace, Busy
<1>9. CASE RemoveFile(p)
  BY <1>0, <1>1, <1>9 DEF RemoveFile, Busy, Process
<1>10. CASE RemoveDir(p)
  <2>1. CASE Ends(p, FALSE)
    BY <1>3, <1>10, <2>1 DEF RemoveDir, Busy
  <2>2. CASE UNCHANGED last /\ (Go(p, Further(p)) \/ Go(p, [run[p] EXCEPT !.at = "create"]))
    BY <1>0, <1>1, <1>4, <1>10, <2>2 DEF RemoveDir, Busy, Process
  <2> QED BY <1>10, <2>1, <2>2 DEF RemoveDir
<1>11. CASE Create(p)
  <2>1. /\ run'[p].at # "idle" /\ run'[p].alone = run[p].alone /\ run'[p].cmd = run[p].cmd
        /\ \A q \in Procs \ {p} : run'[q] = run[q]
    BY <1>0, <1>11 DEF Create, Process, Go
  <2> QED BY <1>11, <2>1 DEF Create, Busy
<1>12. CASE CopyFile(p)
  <2>1. CASE Ends(p, FALSE)
    BY <1>3, <1>12, <2>1 DEF CopyFile, Busy
  <2>2. ASSUME NEW f, Go(p, [run[p] EXCEPT !.left = @ \ {f}]), UNCHANGED last
        PROVE  /\ run'[p].at # "idle" /\ run'[p].alone = run[p].alone
               /\ run'[p].cmd = run[p].cmd /\ \A q \in Procs \ {p} : run'[q] = run[q]
    BY <1>0, <1>12, <2>2 DEF Go, Process, CopyFile
  <2> QED BY <1>12, <2>1, <2>2 DEF CopyFile, Busy
<1>13. CASE Staged(p)
  <2>1. CASE Ends(p, FALSE)
    BY <1>3, <1>13, <2>1 DEF Staged, Busy
  <2>2. CASE UNCHANGED last /\ (Go(p, Further(p)) \/ Go(p, Resolved(p)))
    BY <1>0, <1>1, <1>4, <1>13, <2>2 DEF Staged, Busy, Process
  <2> QED BY <1>13, <2>1, <2>2 DEF Staged
<1>14. CASE BeginWrite(p)
  BY <1>0, <1>1, <1>14 DEF BeginWrite, Busy, Process
<1>15. CASE EndWrite(p)
  BY <1>3, <1>15 DEF EndWrite, Busy
<1>16. CASE Finish(p)
  BY <1>3, <1>16 DEF Finish, Busy
<1>17. CASE Kill(p)
  BY <1>3, <1>17 DEF Kill
<1> QED BY <1>5, <1>6, <1>7, <1>8, <1>9, <1>10, <1>11, <1>12, <1>13, <1>14, <1>15, <1>16,
           <1>17 DEF Step

\* A command that counts as alone stays alone, and the last one to end so was.
LEMMA AloneStep ==
  ASSUME Typed, Alone, [DepsNext]_depsVars
  PROVE  Alone'
<1>1. ASSUME NEW p \in Procs, NEW c \in Commands, NEW d \in Names, Start(p, c, d)
      PROVE  Alone'
  <2>1. CASE c \in Locks \/ lockfile \notin {Missing, Torn}
    <3>1. /\ run'[p].alone = Quiet /\ \A q \in Procs \ {p} : run'[q] = Disturbed[q]
      BY <1>1, <2>1, Begun
    <3>2. \A q \in Procs \ {p} : ~run'[q].alone /\ run'[q].at = run[q].at
      BY <3>1, DisturbedType
    <3>3. run'[p].alone => ~Others(p)'
      BY <3>1, <3>2 DEF Others, Quiet, Busy
    <3> QED BY <1>1, <3>2, <3>3 DEF Alone, Start
  <2>2. CASE ~(c \in Locks \/ lockfile \notin {Missing, Torn})
    BY <1>1, <2>2 DEF Start, Alone, Others, Busy
  <2> QED BY <2>1, <2>2
<1>2. ASSUME NEW p \in Procs, Step(p), \A c \in Commands, d \in Names : ~Start(p, c, d)
      PROVE  Alone'
  <2>1. /\ Busy(p) /\ \A q \in Procs \ {p} : run'[q] = run[q]
        /\ run'[p].alone => run[p].alone
        /\ \/ UNCHANGED last
           \/ ~Busy(p)' /\ last' \in {last, IF run[p].alone THEN run[p].cmd ELSE last}
    BY <1>2, OwnStep
  <2>2. \A q \in Procs : run'[q].alone => ~Others(q)'
    BY <2>1 DEF Alone, Others, Busy
  <2>3. last = "none"
    BY <2>1 DEF Alone, Quiet
  <2>4. last' # "none" => Quiet'
    BY <2>1, <2>3 DEF Alone, Others, Quiet, Busy
  <2> QED BY <2>2, <2>4 DEF Alone
<1>3. CASE Commit
  BY <1>3 DEF Commit, Alone, Others, Quiet, Busy
<1>4. CASE Edit
  BY <1>4, DisturbedType DEF Edit, Alone, Others, Quiet, Busy
<1>5. CASE UNCHANGED depsVars
  BY <1>5 DEF depsVars, Alone, Others, Quiet, Busy
<1> QED BY <1>1, <1>2, <1>3, <1>4, <1>5 DEF DepsNext, Step

\* fetch --update alone, step by step.
LEMMA RepairOwn ==
  ASSUME Typed, NEW p \in Procs, Repairing(p), run[p].alone, run[p].cmd = "update",
         last = "none", Step(p), \A c \in Commands, d \in Names : ~Start(p, c, d)
  PROVE  Repairing(p)' /\ UpdateRepairs'
<1>0. run[p] \in Process /\ Orderly(run[p]) /\ run \in [Procs -> Process]
  BY DEF Typed, DepsTypeOK
<1>1. /\ lockfile = run[p].entries /\ lockfile \in Pins
      /\ \A d \in (Git \cap DOMAIN lockfile) \ run[p].todo : cache[d][lockfile[d]] = Files
      /\ run[p].at \in InHand => run[p].rev = lockfile[Dep(p)]
      /\ run[p].at = "copy" => Copied(p)
      /\ run[p].todo \subseteq Git \cap DOMAIN lockfile
      /\ run[p].todo # {} => Dep(p) \in run[p].todo
      /\ run[p].cmd \notin Locks
  BY <1>0, FirstIn DEF Repairing, Process, Orderly, Locks, Dep
<1>2. \A d \in DOMAIN lockfile : lockfile[d] \in Revs
  BY <1>1, PinnedRev
<1>3. ASSUME NEW new, Go(p, new)
      PROVE  run'[p] = new
  BY <1>0, <1>3 DEF Go
<1>4. ASSUME Ends(p, FALSE) \/ (Go(p, Idle) /\ UNCHANGED last)
      PROVE  Repairing(p)' /\ UpdateRepairs'
  BY <1>3, <1>4 DEF Ends, Idle, Repairing, UpdateRepairs
\* The next dependency is due, or a step within the one at hand.
<1>5. ASSUME UNCHANGED <<lockfile, last>>, run'[p].entries = run[p].entries,
             \/ /\ run'[p].at = "next" /\ run'[p].todo = run[p].todo \ {Dep(p)}
                /\ run[p].at \in InHand /\ UNCHANGED cache /\ Tree(p) = Files
             \/ /\ run'[p].at \in InHand /\ run'[p].todo = run[p].todo
                /\ run'[p].rev = lockfile[Dep(p)]
                /\ \A d \in Git, r \in Revs : d # Dep(p) => cache'[d][r] = cache[d][r]
                /\ run'[p].at = "copy" => Copied(p)'
                /\ run[p].todo # {}
      PROVE  Repairing(p)' /\ UpdateRepairs'
  <2>1. UpdateRepairs'
    BY <1>5 DEF UpdateRepairs
  <2>2. CASE /\ run'[p].at = "next" /\ run'[p].todo = run[p].todo \ {Dep(p)}
             /\ run[p].at \in InHand /\ UNCHANGED cache /\ Tree(p) = Files
    <3>1. cache[Dep(p)][lockfile[Dep(p)]] = Files
      BY <1>1, <2>2 DEF Tree
    <3>2. \A d \in (Git \cap DOMAIN lockfile) \ run'[p].todo : cache[d][lockfile[d]] = Files
      BY <1>1, <2>2, <3>1
    <3> QED BY <1>1, <1>5, <2>1, <2>2, <3>2 DEF Repairing, InHand
  <2>3. CASE /\ run'[p].at \in InHand /\ run'[p].todo = run[p].todo
             /\ run'[p].rev = lockfile[Dep(p)]
             /\ \A d \in Git, r \in Revs : d # Dep(p) => cache'[d][r] = cache[d][r]
             /\ run'[p].at = "copy" => Copied(p)'
             /\ run[p].todo # {}
    <3>1. \A d \in (Git \cap DOMAIN lockfile) \ run[p].todo : cache'[d][lockfile[d]] = Files
      BY <1>1, <1>2, <2>3
    <3>2. Dep(p)' = Dep(p)
      BY <2>3 DEF Dep
    <3> QED BY <1>1, <1>5, <2>1, <2>3, <3>1, <3>2 DEF Repairing
  <2> QED BY <1>5, <2>2, <2>3
<1>6. ASSUME run[p].at \in InHand, NEW files, InTree(p, files), UNCHANGED <<lockfile, last>>,
             run'[p].at \in InHand, run'[p].todo = run[p].todo, run'[p].rev = run[p].rev,
             run'[p].entries = run[p].entries,
             run'[p].at = "copy" => files # Missing /\ Files \ run'[p].left \subseteq files
      PROVE  Repairing(p)' /\ UpdateRepairs'
  <2>1. Dep(p) \in Git /\ run[p].rev \in Revs /\ run[p].todo # {}
    BY <1>6, AtHand
  <2>2. Tree(p)' = files
    BY <1>6, <2>1, Put DEF Tree, Dep
  <2>3. \A d \in Git, r \in Revs : d # Dep(p) => cache'[d][r] = cache[d][r]
    BY <1>6, Put
  <2> QED BY <1>1, <1>5, <1>6, <2>1, <2>2, <2>3 DEF Copied
<1>7. CASE ResolvePath(p)
  BY <1>1, <1>7 DEF ResolvePath
<1>8. CASE BeginGit(p)
  <2>1. CASE Ends(p, FALSE)
    BY <1>4, <2>1
  <2>2. CASE Go(p, [run[p] EXCEPT !.rev = lockfile[Dep(p)], !.at = "replace"])
    <3>1. /\ run'[p].at = "replace" /\ run'[p].todo = run[p].todo
          /\ run'[p].rev = lockfile[Dep(p)] /\ run'[p].entries = run[p].entries
      BY <1>0, <2>2 DEF Go, Process
    <3> QED BY <1>5, <1>8, <2>2, <3>1 DEF BeginGit, InHand, Ends
  <2> QED BY <1>1, <1>8, <2>1, <2>2 DEF BeginGit, Skips
<1>9. CASE Stage(p)
  BY <1>0, <1>1, <1>9 DEF Stage, Orderly
<1>10. CASE Replace(p)
  <2>1. /\ run'[p].at \in {"remove", "create"} /\ run'[p].todo = run[p].todo
        /\ run'[p].rev = run[p].rev /\ run'[p].entries = run[p].entries
    BY <1>0, <1>10 DEF Replace, Go, Process
  <2>2. run[p].todo # {}
    BY <1>0, <1>10 DEF Replace, Orderly, InHand
  <2> QED BY <1>1, <1>5, <1>10, <2>1, <2>2 DEF Replace, InHand
<1>11. CASE RemoveFile(p)
  <2>1. /\ run'[p].at = "remove" /\ run'[p].todo = run[p].todo
        /\ run'[p].rev = run[p].rev /\ run'[p].entries = run[p].entries
    BY <1>0, <1>11 DEF RemoveFile, Go, Process
  <2>2. \E files : InTree(p, files)
    BY <1>11 DEF RemoveFile
  <2> QED BY <1>6, <1>11, <2>1, <2>2 DEF RemoveFile, InHand
<1>12. CASE RemoveDir(p)
  <2>1. CASE Ends(p, FALSE)
    BY <1>4, <2>1
  <2>2. CASE Tree(p) = {} /\ Go(p, [run[p] EXCEPT !.at = "create"])
    <3>1. /\ run'[p].at = "create" /\ run'[p].todo = run[p].todo
          /\ run'[p].rev = run[p].rev /\ run'[p].entries = run[p].entries
      BY <1>0, <2>2 DEF Go, Process
    <3> QED BY <1>6, <1>12, <2>2, <3>1 DEF RemoveDir, InHand
  <2> QED BY <1>12, <2>1, <2>2 DEF RemoveDir
<1>13. CASE Create(p)
  <2>1. /\ run'[p].at = "copy" /\ run'[p].todo = run[p].todo /\ run'[p].left = Files
        /\ run'[p].rev = run[p].rev /\ run'[p].entries = run[p].entries
    BY <1>0, <1>13 DEF Create, Go, Process
  <2> DEFINE files == IF Tree(p) = Missing THEN {} ELSE Tree(p)
  <2>2. InTree(p, files) /\ files # Missing
    BY <1>13, DepsAssumption DEF Create
  <2> HIDE DEF files
  <2> QED BY <1>6, <1>13, <2>1, <2>2 DEF Create, InHand
<1>14. CASE CopyFile(p)
  <2>1. CASE Ends(p, FALSE)
    BY <1>4, <2>1
  <2>2. ASSUME NEW f \in run[p].left, Tree(p) # Missing, InTree(p, Tree(p) \cup {f}),
               Go(p, [run[p] EXCEPT !.left = @ \ {f}])
        PROVE  Repairing(p)' /\ UpdateRepairs'
    <3>1. /\ run'[p].at = "copy" /\ run'[p].todo = run[p].todo
          /\ run'[p].left = run[p].left \ {f}
          /\ run'[p].rev = run[p].rev /\ run'[p].entries = run[p].entries
      BY <1>0, <1>14, <2>2 DEF CopyFile, Go, Process
    <3>2. Files \ run[p].left \subseteq Tree(p) /\ Tree(p) \in SUBSET Files
      BY <1>1, <1>14, <2>2, AtHand DEF CopyFile, Copied, InHand, Trees
    <3>3. Tree(p) \cup {f} # Missing /\ Files \ run'[p].left \subseteq Tree(p) \cup {f}
      BY <1>0, <3>1, <3>2, DepsAssumption DEF Process
    <3>4. UNCHANGED <<lockfile, last>>
      BY <1>14, <2>2, <3>1 DEF CopyFile, Ends, Go
    <3> QED BY <1>6, <1>14, <2>2, <3>1, <3>3, <3>4 DEF CopyFile, InHand
  <2> QED BY <1>14, <2>1, <2>2 DEF CopyFile
<1>15. CASE Staged(p)
  <2>1. Tree(p) = Files /\ Tree(p) # Missing
    BY <1>1, <1>15, AtHand DEF Staged, Copied, InHand, Trees
  <2>2. /\ run'[p].at = "next" /\ run'[p].todo = run[p].todo \ {Dep(p)}
        /\ run'[p].entries = run[p].entries
    <3>1. run' = [run EXCEPT ![p] = Further(p)]
      BY <1>1, <1>15, <2>1 DEF Staged, Go
    <3> QED BY <1>0, <3>1 DEF Further, Process
  <2> QED BY <1>1, <1>5, <1>15, <2>1, <2>2 DEF Staged, InHand
<1>16. CASE BeginWrite(p) \/ EndWrite(p)
  BY <1>0, <1>16 DEF BeginWrite, EndWrite, Orderly
<1>17. CASE Finish(p)
  <2>1. \A d \in Git \cap DOMAIN lockfile : cache[d][lockfile[d]] = Files
    BY <1>1, <1>17 DEF Finish
  <2>2. ~run'[p].alone
    BY <1>3, <1>17 DEF Finish, Ends, Idle
  <2> QED BY <1>17, <2>1, <2>2 DEF Finish, Repairing, UpdateRepairs
<1>18. CASE Kill(p)
  BY <1>4, <1>18 DEF Kill
<1> QED BY <1>7, <1>8, <1>9, <1>10, <1>11, <1>12, <1>13, <1>14, <1>15, <1>16, <1>17, <1>18
        DEF Step

\* What fetch --update alone leaves stays, until the next command.
LEMMA RepairStep ==
  ASSUME Typed, Alone, UpdateRepairs, \A p \in Procs : Repairing(p), [DepsNext]_depsVars
  PROVE  UpdateRepairs' /\ \A p \in Procs : Repairing(p)'
<1>0. Typed'
  BY TypedStep
<1>1. ASSUME NEW p \in Procs, NEW c \in Commands, NEW d \in Names, Start(p, c, d)
      PROVE  UpdateRepairs' /\ \A q \in Procs : Repairing(q)'
  <2>1. UpdateRepairs'
    BY <1>1 DEF Start, UpdateRepairs
  <2>2. CASE c \in Locks \/ lockfile \notin {Missing, Torn}
    <3> DEFINE kept == IF c \in Locks THEN Kept(c, d) ELSE lockfile
    <3>1. /\ run'[p].cmd = c /\ run'[p].at = "next" /\ run'[p].entries = kept
          /\ run'[p].todo = Todo(c, kept) /\ \A q \in Procs \ {p} : run'[q] = Disturbed[q]
      BY <1>1, <2>2, Begun
    <3>2. \A q \in Procs \ {p} : Repairing(q)'
      BY <3>1, DisturbedType DEF Repairing
    <3>3. Repairing(p)'
      BY <1>1, <3>1 DEF Repairing, Start, Todo, Locks, InHand
    <3> QED BY <2>1, <3>2, <3>3
  <2>3. CASE ~(c \in Locks \/ lockfile \notin {Missing, Torn})
    BY <1>1, <2>1, <2>3 DEF Start, Repairing, Copied, Tree, Dep
  <2> QED BY <2>2, <2>3
<1>2. ASSUME NEW p \in Procs, Step(p), \A c \in Commands, d \in Names : ~Start(p, c, d)
      PROVE  UpdateRepairs' /\ \A q \in Procs : Repairing(q)'
  <2>1. /\ Busy(p) /\ \A q \in Procs \ {p} : run'[q] = run[q]
        /\ run'[p].alone => run[p].alone /\ run'[p].cmd = run[p].cmd
        /\ last' \in {last, IF run[p].alone THEN run[p].cmd ELSE last}
    BY <1>2, OwnStep
  <2>2. last = "none"
    BY <2>1 DEF Alone, Quiet
  <2>3. \A q \in Procs \ {p} : Repairing(q)'
    BY <2>1 DEF Repairing, Alone, Others
  <2>4. CASE run[p].alone /\ run[p].cmd = "update"
    BY <1>2, <2>2, <2>3, <2>4, RepairOwn
  <2>5. CASE ~(run[p].alone /\ run[p].cmd = "update")
    <3>1. Repairing(p)'
      BY <2>1, <2>5 DEF Repairing
    <3>2. last' # "update"
      BY <2>1, <2>2, <2>5
    <3> QED BY <2>3, <3>1, <3>2 DEF UpdateRepairs
  <2> QED BY <2>4, <2>5
<1>3. CASE Commit \/ UNCHANGED depsVars
  BY <1>3 DEF Commit, depsVars, UpdateRepairs, Repairing, Copied, Tree, Dep
<1>4. CASE Edit
  BY <1>4, DisturbedType DEF Edit, UpdateRepairs, Repairing
<1> QED BY <1>1, <1>2, <1>3, <1>4 DEF DepsNext, Step

\* lock alone, step by step.
LEMMA LockOwn ==
  ASSUME Typed, NEW p \in Procs, Locking(p), run[p].alone, run[p].cmd = "lock",
         last = "none", Step(p), \A c \in Commands, d \in Names : ~Start(p, c, d)
  PROVE  Locking(p)' /\ Locked'
<1>0. run[p] \in Process /\ Orderly(run[p]) /\ run \in [Procs -> Process]
  BY DEF Typed, DepsTypeOK
<1>1. /\ wanted = DOMAIN run[p].entries \cup run[p].todo /\ Pinned(run[p].entries)
      /\ run[p].todo # {} => Dep(p) \in run[p].todo
      /\ run[p].entries \in Pins /\ run[p].cmd \in Locks
      /\ UNCHANGED <<current, wanted>>
  BY <1>0, FirstIn, OwnStep DEF Locking, Process, Locks, Dep
<1>2. ASSUME NEW new, Go(p, new)
      PROVE  run'[p] = new
  BY <1>0, <1>2 DEF Go
<1>3. ASSUME Ends(p, FALSE)
      PROVE  Locking(p)' /\ Locked'
  BY <1>2, <1>3 DEF Ends, Idle, Locking, Locked
\* Nothing is resolved, and no directory goes.
<1>4. ASSUME run'[p].todo = run[p].todo, run'[p].entries = run[p].entries, UNCHANGED last,
             \A d \in Git, r \in Revs : cache[d][r] # Missing => cache'[d][r] # Missing
      PROVE  Locking(p)' /\ Locked'
  <2>1. Pinned(run[p].entries)'
    BY <1>1, <1>4, PinnedRev DEF Pinned
  <2> QED BY <1>1, <1>4, <2>1 DEF Locking, Locked
\* The dependency at hand is resolved.
<1>5. ASSUME NEW r \in Revs, run[p].todo # {}, UNCHANGED <<last, cache>>,
             Go(p, [Further(p) EXCEPT !.entries = With(@, Dep(p), r)]),
             IF Dep(p) \in Git THEN cache[Dep(p)][r] # Missing ELSE r = current[Dep(p)]
      PROVE  Locking(p)' /\ Locked'
  <2> DEFINE new == With(run[p].entries, Dep(p), r)
  <2>1. Dep(p) \in Names
    BY <1>0, <1>1, <1>5 DEF Process
  <2>2. /\ Further(p).entries = run[p].entries /\ Further(p).todo = run[p].todo \ {Dep(p)}
        /\ Further(p) \in Process
    BY <1>0 DEF Further, Process, Steps
  <2>3. run'[p].entries = new /\ run'[p].todo = run[p].todo \ {Dep(p)}
    <3>1. run' = [run EXCEPT ![p] = [Further(p) EXCEPT !.entries = With(@, Dep(p), r)]]
      BY <1>5 DEF Go
    <3> QED BY <1>0, <2>2, <3>1 DEF Process
  <2>4. /\ DOMAIN new = DOMAIN run[p].entries \cup {Dep(p)}
        /\ new[Dep(p)] = r
        /\ \A e \in DOMAIN run[p].entries \ {Dep(p)} : new[e] = run[p].entries[e]
    BY DEF With
  <2> HIDE DEF new
  <2>5. Pinned(new)
    BY <1>1, <1>5, <2>4 DEF Pinned
  <2>6. wanted = DOMAIN new \cup run'[p].todo
    BY <1>1, <1>5, <2>3, <2>4
  <2> QED BY <1>1, <1>5, <2>3, <2>5, <2>6 DEF Locking, Locked, Pinned
<1>6. CASE ResolvePath(p)
  <2>1. current[Dep(p)] \in Revs
    BY <1>0, <1>1, <1>6 DEF ResolvePath, Typed, DepsTypeOK, Process
  <2> QED BY <1>5, <1>6, <2>1 DEF ResolvePath
<1>7. CASE BeginGit(p)
  <2>1. CASE Ends(p, FALSE)
    BY <1>3, <2>1
  <2>2. ASSUME NEW r, Go(p, [run[p] EXCEPT !.rev = r, !.at = "stage"]), UNCHANGED last
        PROVE  Locking(p)' /\ Locked'
    <3>1. run'[p].todo = run[p].todo /\ run'[p].entries = run[p].entries
      BY <1>0, <2>2 DEF Go, Process
    <3> QED BY <1>4, <1>7, <2>2, <3>1 DEF BeginGit
  <2> QED BY <1>1, <1>7, <2>1, <2>2 DEF BeginGit, Skips
<1>8. CASE Stage(p)
  <2>1. Dep(p) \in Git /\ run[p].rev \in Revs /\ run[p].todo # {}
    BY <1>8, AtHand DEF Stage, InHand
  <2>2. CASE Tree(p) # Missing
    BY <1>5, <1>8, <2>1, <2>2 DEF Stage, StageNext, Resolved, Tree
  <2>3. CASE Tree(p) = Missing
    <3>1. run'[p].todo = run[p].todo /\ run'[p].entries = run[p].entries
      BY <1>0, <1>8, <2>3 DEF Stage, StageNext, Go, Process
    <3> QED BY <1>4, <1>8, <3>1 DEF Stage
  <2> QED BY <2>2, <2>3
<1>9. CASE Replace(p) \/ RemoveFile(p) \/ RemoveDir(p)
  BY <1>0, <1>1, <1>9 DEF Replace, RemoveFile, RemoveDir, Orderly
<1>10. CASE Create(p)
  <2>1. run'[p].todo = run[p].todo /\ run'[p].entries = run[p].entries
    BY <1>0, <1>10 DEF Create, Go, Process
  <2> DEFINE files == IF Tree(p) = Missing THEN {} ELSE Tree(p)
  <2>2. InTree(p, files) /\ files # Missing
    BY <1>10, DepsAssumption DEF Create
  <2> HIDE DEF files
  <2>3. \A d \in Git, r \in Revs : cache[d][r] # Missing => cache'[d][r] # Missing
    BY <1>10, <2>2, Put DEF Create, InHand
  <2> QED BY <1>4, <1>10, <2>1, <2>3 DEF Create
<1>11. CASE CopyFile(p)
  <2>1. CASE Ends(p, FALSE)
    BY <1>3, <2>1
  <2>2. ASSUME NEW f \in run[p].left, Tree(p) # Missing, InTree(p, Tree(p) \cup {f}),
               Go(p, [run[p] EXCEPT !.left = @ \ {f}]), UNCHANGED last
        PROVE  Locking(p)' /\ Locked'
    <3>1. run'[p].todo = run[p].todo /\ run'[p].entries = run[p].entries
      BY <1>0, <1>11, <2>2 DEF CopyFile, Go, Process
    <3>2. Tree(p) \in SUBSET Files /\ f \in Files
      BY <1>0, <1>11, <2>2, AtHand DEF CopyFile, InHand, Trees, Process
    <3>3. Tree(p) \cup {f} # Missing
      BY <3>2, DepsAssumption
    <3>4. \A d \in Git, r \in Revs : cache[d][r] # Missing => cache'[d][r] # Missing
      BY <1>11, <2>2, <3>3, Put DEF CopyFile, InHand
    <3> QED BY <1>4, <2>2, <3>1, <3>4
  <2> QED BY <1>11, <2>1, <2>2 DEF CopyFile
<1>12. CASE Staged(p)
  <2>1. Dep(p) \in Git /\ run[p].rev \in Revs /\ run[p].todo # {}
    BY <1>12, AtHand DEF Staged, InHand
  <2>2. CASE Tree(p) # Missing
    BY <1>1, <1>5, <1>12, <2>1, <2>2 DEF Staged, Resolved, Tree
  <2>3. CASE Tree(p) = Missing
    BY <1>3, <1>12, <2>3 DEF Staged
  <2> QED BY <2>2, <2>3
<1>13. CASE BeginWrite(p)
  <2>1. run'[p].todo = run[p].todo /\ run'[p].entries = run[p].entries
    BY <1>0, <1>13 DEF BeginWrite, Go, Process
  <2> QED BY <1>4, <1>13, <2>1 DEF BeginWrite
<1>14. CASE EndWrite(p)
  <2>1. lockfile' = run[p].entries /\ UNCHANGED cache /\ DOMAIN run[p].entries = wanted
    BY <1>0, <1>1, <1>14 DEF EndWrite, Orderly
  <2>2. ~run'[p].alone
    BY <1>2, <1>14 DEF EndWrite, Ends, Idle
  <2> QED BY <1>1, <2>1, <2>2 DEF Locking, Locked, Pinned
<1>15. CASE Finish(p)
  BY <1>15 DEF Finish
<1>16. CASE Kill(p)
  BY <1>3, <1>16 DEF Kill
<1> QED BY <1>6, <1>7, <1>8, <1>9, <1>10, <1>11, <1>12, <1>13, <1>14, <1>15, <1>16 DEF Step

\* What lock alone wrote stays as it was found, until the next command or edit.
LEMMA LockStep ==
  ASSUME Typed, Alone, Locked, \A p \in Procs : Locking(p), [DepsNext]_depsVars
  PROVE  Locked' /\ \A p \in Procs : Locking(p)'
<1>0. Typed'
  BY TypedStep
<1>1. ASSUME NEW p \in Procs, NEW c \in Commands, NEW d \in Names, Start(p, c, d)
      PROVE  Locked' /\ \A q \in Procs : Locking(q)'
  <2>1. Locked'
    BY <1>1 DEF Start, Locked
  <2>2. CASE c \in Locks \/ lockfile \notin {Missing, Torn}
    <3> DEFINE kept == IF c \in Locks THEN Kept(c, d) ELSE lockfile
    <3>1. /\ run'[p].cmd = c /\ run'[p].entries = kept
          /\ run'[p].todo = Todo(c, kept) /\ \A q \in Procs \ {p} : run'[q] = Disturbed[q]
      BY <1>1, <2>2, Begun
    <3>2. \A q \in Procs \ {p} : Locking(q)'
      BY <3>1, DisturbedType DEF Locking
    <3>3. ASSUME c = "lock"
          PROVE  run'[p].entries = NoLock /\ run'[p].todo = wanted /\ DOMAIN NoLock = {}
      BY <3>1, <3>3 DEF Kept, Todo, Locks, NoLock
    <3>4. Locking(p)'
      BY <1>1, <3>1, <3>3 DEF Locking, Pinned, Start
    <3> QED BY <2>1, <3>2, <3>4
  <2>3. CASE ~(c \in Locks \/ lockfile \notin {Missing, Torn})
    BY <1>1, <2>1, <2>3 DEF Start, Locking, Pinned
  <2> QED BY <2>2, <2>3
<1>2. ASSUME NEW p \in Procs, Step(p), \A c \in Commands, d \in Names : ~Start(p, c, d)
      PROVE  Locked' /\ \A q \in Procs : Locking(q)'
  <2>1. /\ Busy(p) /\ \A q \in Procs \ {p} : run'[q] = run[q]
        /\ run'[p].alone => run[p].alone /\ run'[p].cmd = run[p].cmd
        /\ last' \in {last, IF run[p].alone THEN run[p].cmd ELSE last}
    BY <1>2, OwnStep
  <2>2. last = "none"
    BY <2>1 DEF Alone, Quiet
  <2>3. \A q \in Procs \ {p} : Locking(q)'
    BY <2>1 DEF Locking, Alone, Others
  <2>4. CASE run[p].alone /\ run[p].cmd = "lock"
    BY <1>2, <2>2, <2>3, <2>4, LockOwn
  <2>5. CASE ~(run[p].alone /\ run[p].cmd = "lock")
    <3>1. Locking(p)'
      BY <2>1, <2>5 DEF Locking
    <3>2. last' # "lock"
      BY <2>1, <2>2, <2>5
    <3> QED BY <2>3, <3>1, <3>2 DEF Locked
  <2> QED BY <2>4, <2>5
<1>3. CASE Commit
  <2>1. \A pins \in Pins : Pinned(pins)' = Pinned(pins)
    <3>1. \A d \in Names \ Git : current'[d] = current[d]
      BY <1>3 DEF Commit, Typed, DepsTypeOK
    <3> QED BY <1>3, <3>1, PinnedRev DEF Commit, Pinned
  <2>2. \A p \in Procs : run[p].entries \in Pins
    BY DEF Typed, DepsTypeOK, Process
  <2> QED BY <1>3, <2>1, <2>2 DEF Commit, Locked, Locking
<1>4. CASE Edit
  BY <1>4, DisturbedType DEF Edit, Locked, Locking
<1>5. CASE UNCHANGED depsVars
  BY <1>5 DEF depsVars, Locked, Locking, Pinned
<1> QED BY <1>1, <1>2, <1>3, <1>4, <1>5 DEF DepsNext, Step

-----------------------------------------------------------------------------
(***************************************************************************)
(* The theorems.                                                           *)
(***************************************************************************)

\* The inductive invariant holds.
THEOREM DepsInvariance == DepsSpec => []DepsInv
<1>1. DepsInit => DepsInv
  <2> SUFFICES ASSUME DepsInit PROVE DepsInv
    OBVIOUS
  <2>1. Typed
    <3>1. 1 \in Revs
      BY DepsAssumption DEF Revs
    <3>2. current \in [Names -> Revs] /\ wanted \in SUBSET Names
      BY <3>1 DEF DepsInit
    <3>3. cache \in [Git -> [Revs -> Trees]]
      BY DEF DepsInit, Trees
    <3> QED BY <3>2, <3>3, IdleType DEF DepsInit, Typed, DepsTypeOK
  <2>2. \A p \in Procs : run[p].at = "idle" /\ ~run[p].alone
    BY DEF DepsInit, Idle
  <2> QED BY <2>1, <2>2 DEF DepsInit, DepsInv, Worked, Alone, UpdateRepairs, Locked, Repairing,
                            Locking, Others, Busy, Quiet
<1>2. DepsInv /\ [DepsNext]_depsVars => DepsInv'
  BY TypedStep, WorkedStep, AloneStep, RepairStep, LockStep DEF DepsInv
<1> QED BY <1>1, <1>2, PTL DEF DepsSpec

\* Any number of lock, fetch and clean commands may stage the same trees in
\* the shared cache: none is left in part, but for the histories excepted.
THEOREM CacheIsWhole == DepsSpec => []CacheWhole
<1>1. DepsInv => CacheWhole
  BY DEF DepsInv, Worked, CacheWhole, Quiet, Busy, Partial, Works
<1> QED BY <1>1, DepsInvariance, PTL

\* fetch --update alone leaves every tree Mind.lock names whole (run_fetch).
THEOREM UpdateRestores == DepsSpec => []UpdateRepairs
<1>1. DepsInv => UpdateRepairs
  BY DEF DepsInv
<1> QED BY <1>1, DepsInvariance, PTL

\* What lock alone wrote verifies (run_lock, resolve_and_verify_deps).
THEOREM LockedVerifies == DepsSpec => []LockVerifies
<1>1. DepsInv => LockVerifies
  <2> SUFFICES ASSUME DepsInv, last = "lock", ~Partial PROVE Verdict = "ok"
    BY DEF LockVerifies
  <2>1. lockfile \in Pins /\ DOMAIN lockfile = wanted /\ Pinned(lockfile)
    BY DEF DepsInv, Locked
  <2>2. lockfile \notin {Missing, Torn}
    BY <2>1, DepsAssumption
  <2>3. \A d \in wanted : EntryVerdict(d) = "ok"
    BY <2>1, PinnedRev DEF Pinned, Partial, EntryVerdict
  <2> QED BY <2>1, <2>2, <2>3 DEF Verdict
<1> QED BY <1>1, DepsInvariance, PTL
=============================================================================
