----------------------------- MODULE ParallelFor -----------------------------
(***************************************************************************)
(* What __mind_blas_mt_dispatch promises a kernel: every band of the call  *)
(* runs exactly once, in any order and possibly interleaved with the bands *)
(* of other callers, and the call returns only after its last band ran.    *)
(* The pool, its mutexes and its condition variables do not appear.        *)
(***************************************************************************)
EXTENDS Naturals

CONSTANTS Callers, MaxThreads

VARIABLES
  phase,   \* "idle", "called" (band count not fixed yet) or "busy"
  want,    \* bands of the caller's latest call
  done     \* how often each of them has run

vars == <<phase, want, done>>

Bands == 0 .. MaxThreads - 1

Init ==
  /\ phase = [c \in Callers |-> "idle"]
  /\ want = [c \in Callers |-> 0]
  /\ done = [c \in Callers |-> [b \in Bands |-> 0]]

Call(c) ==
  /\ phase[c] = "idle"
  /\ phase' = [phase EXCEPT ![c] = "called"]
  /\ done' = [done EXCEPT ![c] = [b \in Bands |-> 0]]
  /\ UNCHANGED want

FixBands(c) ==
  /\ phase[c] = "called"
  /\ \E k \in 1 .. MaxThreads : want' = [want EXCEPT ![c] = k]
  /\ phase' = [phase EXCEPT ![c] = "busy"]
  /\ UNCHANGED done

RunBand(c, b) ==
  /\ phase[c] = "busy"
  /\ b < want[c]
  /\ done[c][b] = 0
  /\ done' = [done EXCEPT ![c][b] = 1]
  /\ UNCHANGED <<phase, want>>

Return(c) ==
  /\ phase[c] = "busy"
  /\ \A b \in Bands : b < want[c] => done[c][b] = 1
  /\ phase' = [phase EXCEPT ![c] = "idle"]
  /\ UNCHANGED <<want, done>>

Next ==
  \E c \in Callers :
    \/ Call(c) \/ FixBands(c) \/ Return(c)
    \/ \E b \in Bands : RunBand(c, b)

Spec == Init /\ [][Next]_vars
=============================================================================
