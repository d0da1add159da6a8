------------------------------- MODULE Arena -------------------------------
(***************************************************************************)
(* The bump allocator of the standard library (src/std/arena.mind): blocks *)
(* are cut from one region of fixed size and all given back at once.       *)
(* Addresses are offsets into the region.  Using a block after a reset, or *)
(* the handle after arena_free, is the caller's error and not modelled.    *)
(***************************************************************************)
EXTENDS Integers, Sequences

CONSTANTS
    ArenaMaxCap,    \* arena_max_cap
    ArenaCaps,      \* the capacities callers ask for
    ArenaSizes      \* the sizes callers ask for

ASSUME ArenaAssumption ==
    ArenaMaxCap \in Nat /\ ArenaCaps \subseteq Int /\ ArenaSizes \subseteq Int

VARIABLES
    arena,      \* [cap, off, high]; cap is 0 while there is no arena
    blocks      \* history: [at, size] of the blocks given since the last reset

arenaVars == <<arena, blocks>>

NoArena == [cap |-> 0, off |-> 0, high |-> 0]

ArenaInit == arena = NoArena /\ blocks = <<>>

\* Mutant: a size is rounded down.
AlignDown(n) == IF n < 8 THEN 8 ELSE (n \div 8) * 8

Align8(n) == ((n + 7) \div 8) * 8

\* arena_new; refused capacities and failed allocations change nothing.
ArenaNew(n) ==
    /\ arena = NoArena /\ 0 < n /\ n <= ArenaMaxCap
    /\ arena' = [cap |-> n, off |-> 0, high |-> 0]
    /\ UNCHANGED blocks

\* The tests of arena_alloc, in their order.
Fits(n) == 0 < n /\ n <= arena.cap /\ Align8(n) <= arena.cap - arena.off

ArenaAlloc(n) ==
    LET off == arena.off + Align8(n) IN
    /\ arena # NoArena /\ Fits(n)
    /\ arena' = [arena EXCEPT !.off = off, !.high = IF off > @ THEN off ELSE @]
    /\ blocks' = Append(blocks, [at |-> arena.off, size |-> n])

ArenaReset ==
    /\ arena # NoArena
    /\ arena' = [arena EXCEPT !.off = 0]
    /\ blocks' = <<>>

ArenaFree == arena # NoArena /\ arena' = NoArena /\ blocks' = <<>>

ArenaNext ==
    \/ \E n \in ArenaCaps : ArenaNew(n)
    \/ \E n \in ArenaSizes : ArenaAlloc(n)
    \/ ArenaReset \/ ArenaFree

ArenaSpec == ArenaInit /\ [][ArenaNext]_arenaVars

-----------------------------------------------------------------------------
\* Blocks given since the last reset are aligned, inside the region, whose
\* size need not be a multiple of 8, and do not overlap, with every byte that
\* was asked for; the high-water mark covers them and stays in the region too
\* (arena_alloc).
BlocksApart ==
    /\ \A i \in DOMAIN blocks : /\ blocks[i].at % 8 = 0
                                /\ blocks[i].at + blocks[i].size <= arena.off
    /\ \A i, j \in DOMAIN blocks : i < j => blocks[i].at + blocks[i].size <= blocks[j].at
    /\ arena.off <= arena.high /\ arena.high <= arena.cap
=============================================================================
