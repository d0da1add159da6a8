----------------------------- MODULE RunCommand -----------------------------
(***************************************************************************)
(* run_command (src/src/eval/mlir_build.rs): a tool is spawned, fed its    *)
(* input and watched under a timeout while two threads drain its output.   *)
(* Pipes are bounded; bytes are counted.  The child decides what to do     *)
(* next and then does it, waiting for as long as a pipe makes it wait.  It *)
(* may hang, and leave a process behind that keeps its outputs open; the   *)
(* child and the pipes are external.                                       *)
(***************************************************************************)
EXTENDS Integers

CONSTANTS
    PipeSize,   \* bytes a pipe holds
    InputSize,  \* bytes of input
    MaxOutput   \* bound: bytes the child writes to each output

ASSUME CommandAssumption ==
    PipeSize \in Nat \ {0} /\ InputSize \in Nat /\ MaxOutput \in Nat

Outputs == {"stdout", "stderr"}

VARIABLES
    pc,         \* where the caller is
    result,     \* what it returned
    unsent,     \* input not yet written
    stdin,      \* bytes in the pipe to the child, or -1 once it is closed
    next,       \* what the child is about to do
    wrote,      \* bytes the child wrote to each output
    pipe,       \* bytes in each output's pipe
    got,        \* bytes in each drain thread's buffer
    drained,    \* drain threads that have seen the end of their pipe
    orphan      \* a descendant of the child holds its outputs open

commandVars == <<pc, result, unsent, stdin, next, wrote, pipe, got, drained, orphan>>

Alive == next \notin {"none", "exited"}

Nothing == [s \in Outputs |-> 0]

CommandInit ==
    /\ pc = "spawn" /\ result = "none"
    /\ unsent \in {0, InputSize} /\ stdin = 0
    /\ next = "none"
    /\ wrote = Nothing /\ pipe = Nothing /\ got = Nothing
    /\ drained = {}
    /\ orphan = FALSE

\* What the child may choose, having written w; at the end of its input it
\* does not read again.
Plans(w) == {"read", "exit", "hang"} \cup {s \in Outputs : w[s] < MaxOutput}

-----------------------------------------------------------------------------
Return(r) == pc' = "done" /\ result' = r

Spawn ==
    /\ pc = "spawn"
    /\ \/ \E r \in {"missing", "io"} : Return(r) /\ UNCHANGED next
       \/ pc' = "write" /\ next' \in Plans(wrote) /\ UNCHANGED result
    /\ UNCHANGED <<unsent, stdin, wrote, pipe, got, drained, orphan>>

\* A pipe takes a byte only while it is not full.
HasRoom(bytes) == bytes < PipeSize

\* write_all: a byte, or a broken pipe, which ends the call at once.
WriteStdin ==
    /\ pc = "write" /\ unsent > 0
    /\ \/ /\ Alive /\ HasRoom(stdin)
          /\ stdin' = stdin + 1 /\ unsent' = unsent - 1
          /\ UNCHANGED <<pc, result>>
       \/ ~Alive /\ Return("io") /\ UNCHANGED <<stdin, unsent>>
    /\ UNCHANGED <<next, wrote, pipe, got, drained, orphan>>

\* The input is written and the caller drops its end of the pipe.
CloseStdin ==
    /\ pc = "write" /\ unsent = 0
    /\ pc' = "poll"
    /\ stdin' = IF stdin = 0 THEN -1 ELSE stdin
    /\ UNCHANGED <<result, unsent, next, wrote, pipe, got, drained, orphan>>

\* try_wait reports the exit.
SeeExit ==
    /\ pc = "poll" /\ next = "exited"
    /\ pc' = "join"
    /\ UNCHANGED <<result, unsent, stdin, next, wrote, pipe, got, drained, orphan>>

\* try_wait fails.
PollFails ==
    /\ pc = "poll" /\ Return("io")
    /\ UNCHANGED <<unsent, stdin, next, wrote, pipe, got, drained, orphan>>

\* The timeout has passed: kill, wait, return without the drain threads.
TimeOut ==
    /\ pc = "poll" /\ Alive
    /\ next' = "exited"
    /\ Return("timeout")
    /\ UNCHANGED <<unsent, stdin, wrote, pipe, got, drained, orphan>>

\* Mutant: the buffers are taken without joining the drain threads.
JoinedUnchecked == TRUE

\* Both drain threads have ended.
Joined == drained = Outputs

Collect ==
    /\ pc = "join" /\ Joined
    /\ Return("ok")
    /\ UNCHANGED <<unsent, stdin, next, wrote, pipe, got, drained, orphan>>

\* Mutant: draining starts when the input is written.
MayDrainLate == pc \notin {"spawn", "write"}

\* The drain threads run from the moment the child does.
MayDrain == pc # "spawn"

\* read_to_end: a byte, or the end of the pipe once nobody holds it open.
Drain(s) ==
    /\ MayDrain /\ s \notin drained
    /\ \/ /\ pipe[s] > 0
          /\ pipe' = [pipe EXCEPT ![s] = @ - 1] /\ got' = [got EXCEPT ![s] = @ + 1]
          /\ UNCHANGED drained
       \/ /\ pipe[s] = 0 /\ ~Alive /\ ~orphan
          /\ drained' = drained \cup {s}
          /\ UNCHANGED <<pipe, got>>
    /\ UNCHANGED <<pc, result, unsent, stdin, next, wrote, orphan>>

-----------------------------------------------------------------------------
ChildReads ==
    /\ next = "read"
    /\ \/ stdin > 0 /\ next' \in Plans(wrote)
          /\ stdin' = IF stdin = 1 /\ pc # "write" THEN -1 ELSE stdin - 1
       \/ stdin = -1 /\ next' \in Plans(wrote) \ {"read"} /\ UNCHANGED stdin
    /\ UNCHANGED <<pc, result, unsent, wrote, pipe, got, drained, orphan>>

ChildWrites(s) ==
    /\ next = s /\ HasRoom(pipe[s])
    /\ pipe' = [pipe EXCEPT ![s] = @ + 1] /\ wrote' = [wrote EXCEPT ![s] = @ + 1]
    /\ next' \in Plans(wrote')
    /\ UNCHANGED <<pc, result, unsent, stdin, got, drained, orphan>>

ChildExits ==
    /\ next = "exit"
    /\ next' = "exited" /\ orphan' \in BOOLEAN
    /\ UNCHANGED <<pc, result, unsent, stdin, wrote, pipe, got, drained>>

OrphanEnds ==
    /\ orphan /\ orphan' = FALSE
    /\ UNCHANGED <<pc, result, unsent, stdin, next, wrote, pipe, got, drained>>

Caller == Spawn \/ WriteStdin \/ CloseStdin \/ SeeExit \/ PollFails \/ TimeOut \/ Collect
Child  == ChildReads \/ (\E s \in Outputs : ChildWrites(s)) \/ ChildExits

CommandNext == Caller \/ (\E s \in Outputs : Drain(s)) \/ Child \/ OrphanEnds

\* Threads are scheduled, time passes, and a child that is not hung goes on
\* whenever its pipes let it.  A descendant owes nothing.
CommandFairness ==
    /\ WF_commandVars(Caller)
    /\ \A s \in Outputs : WF_commandVars(Drain(s))
    /\ WF_commandVars(Child)

CommandSpec == CommandInit /\ [][CommandNext]_commandVars /\ CommandFairness

-----------------------------------------------------------------------------
\* A call that succeeds returns all the tool wrote to both outputs, however
\* the exit, the last writes and the drain threads interleave.
OutputComplete == result = "ok" => got = wrote

\* The call returns although input and output exceed the pipes, also when the
\* tool hangs after its input was written.  It may wait for ever in two cases
\* only: the tool hangs while its input is being written, for the timeout
\* starts afterwards; or it exits and leaves a process that keeps its outputs
\* open, for the joins have no timeout.
CallEnds ==
    \/ <>(pc = "done")
    \/ <>[](pc = "write" /\ next = "hang")
    \/ <>[](pc = "join" /\ orphan)
=============================================================================
