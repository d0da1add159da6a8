------------------------------- MODULE Regions -------------------------------
(***************************************************************************)
(* Region-interior allocation (RFC 0010 Phase J-A): the calls the MLIR     *)
(* lowering emits around a `region { }` block, and the runtime's stack of  *)
(* allocation frames they act on.                                          *)
(*                                                                         *)
(* A program is represented by the lexical scopes it is in: functions,     *)
(* regions, and inner blocks (loop or branch bodies).  The lowering emits  *)
(* __mind_region_enter before a region's body and __mind_region_exit after *)
(* it, and __mind_region_track after each allocation that is a direct      *)
(* instruction of the body.  `return` and `break` branch away without an   *)
(* exit call.  malloc is external: it returns any address not allocated.   *)
(***************************************************************************)
EXTENDS Naturals, Sequences, SequencesExt, FiniteSets

CONSTANTS
  Addrs,          \* heap addresses
  StackDepth,     \* MIND_REGION_STACK_DEPTH
  MaxScopes       \* bound: nesting of lexical scopes

ASSUME RegionsAssumption ==
  /\ StackDepth \in Nat \ {0}
  /\ MaxScopes \in Nat \ {0}

VARIABLES
  frames,     \* mind_region_stack[0 .. mind_region_depth - 1], as lists
  heap,       \* the addresses malloc has handed out and not got back
  scopes,     \* the lexical scopes, outermost first, each with the addresses
              \*   of its allocations
  free_error, \* free() was passed an address that is not allocated
  aborted,    \* abort() was called
  strayed     \* history: "exit" if a region was left by a branch, "inner" if
              \*   an allocation was made in a block inside a region

vars == <<frames, heap, scopes, free_error, aborted, strayed>>

Kinds == {"fn", "region", "block"}
Scope(k) == [kind |-> k, own |-> {}]

Init ==
  /\ frames = <<>>
  /\ heap = {}
  /\ scopes = <<Scope("fn")>>
  /\ free_error = FALSE
  /\ aborted = FALSE
  /\ strayed = {}

Inside(kind) == scopes # <<>> /\ Last(scopes).kind = kind

\* The innermost scope of a kind; 0 if there is none.
Innermost(kind) ==
  LET at == {i \in DOMAIN scopes : scopes[i].kind = kind} IN
    IF at = {} THEN 0 ELSE CHOOSE i \in at : \A j \in at : j <= i

\* The current function is inside a region of its own.
InRegion == Innermost("region") > Innermost("fn")

\* The scope that owns an allocation made now: the innermost region of the
\* current function, else the function.
Owner == IF InRegion THEN Innermost("region") ELSE Innermost("fn")

-----------------------------------------------------------------------------
\* A call, or the start of a loop or branch body.
Push(kind) ==
  /\ ~aborted
  /\ scopes # <<>>
  /\ kind \in {"fn", "block"}
  /\ Len(scopes) < MaxScopes
  /\ scopes' = Append(scopes, Scope(kind))
  /\ UNCHANGED <<frames, heap, free_error, aborted, strayed>>

Overflows == Len(frames) >= StackDepth

\* __mind_region_enter: nesting beyond the stack aborts.
EnterRegion ==
  /\ ~aborted
  /\ scopes # <<>>
  /\ Len(scopes) < MaxScopes
  /\ IF Overflows
     THEN aborted' = TRUE /\ UNCHANGED <<frames, scopes>>
     ELSE /\ frames' = Append(frames, <<>>)
          /\ scopes' = Append(scopes, Scope("region"))
          /\ UNCHANGED aborted
  /\ UNCHANGED <<heap, free_error, strayed>>

\* Mutant: the first frame, not the top one, gets the address.
TrackedAtBottom(a) == [frames EXCEPT ![1] = Append(@, a)]

\* __mind_region_track appends to the top frame; it does nothing outside any.
Tracked(a) == IF frames = <<>> THEN frames
              ELSE [frames EXCEPT ![Len(frames)] = Append(@, a)]

\* __mind_alloc, and the track call when the allocation is a direct instruction
\* of a region body.
Alloc(a) ==
  /\ ~aborted
  /\ scopes # <<>>
  /\ a \notin heap
  /\ heap' = heap \cup {a}
  /\ frames' = IF Inside("region") THEN Tracked(a) ELSE frames
  /\ scopes' = [scopes EXCEPT ![Owner].own = @ \cup {a}]
  /\ strayed' = IF Inside("block") /\ InRegion THEN strayed \cup {"inner"}
                ELSE strayed
  /\ UNCHANGED <<free_error, aborted>>

\* A function frees what it allocated outside any region.
Release(a) ==
  /\ ~aborted
  /\ \E i \in DOMAIN scopes :
       /\ scopes[i].kind = "fn"
       /\ a \in scopes[i].own
       /\ scopes' = [scopes EXCEPT ![i].own = @ \ {a}]
  /\ heap' = heap \ {a}
  /\ UNCHANGED <<frames, free_error, aborted, strayed>>

\* Mutant: the frame is freed but not popped.
Unpopped == frames

\* Mutant: the oldest frame is freed.
BottomFrame == Head(frames)

TopFrame == Last(frames)

\* mind_region_depth after an exit.
Popped == Front(frames)

\* __mind_region_exit frees the top frame's addresses, last first, and pops it.
ExitRegion ==
  /\ ~aborted
  /\ Inside("region")
  /\ IF frames = <<>> THEN UNCHANGED <<frames, heap, free_error>>
     ELSE LET top == TopFrame IN
            /\ heap' = heap \ ToSet(top)
            /\ free_error' = (free_error \/ ~(ToSet(top) \subseteq heap)
                                         \/ ~IsInjective(top))
            /\ frames' = Popped
  /\ scopes' = Front(scopes)
  /\ UNCHANGED <<aborted, strayed>>

\* The end of an inner block.
EndBlock ==
  /\ ~aborted
  /\ Inside("block")
  /\ scopes' = Front(scopes)
  /\ UNCHANGED <<frames, heap, free_error, aborted, strayed>>

\* `break` and `continue` leave every region opened in the body of the loop: a
\* branch, without an exit call.  `continue` stays in the loop.
Break ==
  /\ ~aborted
  /\ \E loop \in DOMAIN scopes :
       /\ scopes[loop].kind = "block"
       /\ loop > Innermost("fn")
       /\ loop < Innermost("region")
       /\ \E top \in {loop - 1, loop} : scopes' = SubSeq(scopes, 1, top)
  /\ strayed' = strayed \cup {"exit"}
  /\ UNCHANGED <<frames, heap, free_error, aborted>>

\* The addresses a returning function did not free become its caller's.
Returned ==
  LET f == Innermost("fn")
      rest == SubSeq(scopes, 1, f - 1)
      passed == {a \in scopes[f].own : a \in heap} IN
    IF rest = <<>> THEN rest
    ELSE LET callers == {i \in DOMAIN rest : rest[i].kind = "fn"}
             caller == CHOOSE i \in callers : \A j \in callers : j <= i IN
           [rest EXCEPT ![caller].own = @ \cup passed]

\* `return`: outside any region, or, without an exit call, from inside one.
Return ==
  /\ ~aborted
  /\ scopes # <<>>
  /\ scopes' = Returned
  /\ strayed' = IF InRegion THEN strayed \cup {"exit"} ELSE strayed
  /\ UNCHANGED <<frames, heap, free_error, aborted>>

Next ==
  \/ \E kind \in Kinds : Push(kind)
  \/ EnterRegion
  \/ \E a \in Addrs : Alloc(a) \/ Release(a)
  \/ ExitRegion
  \/ EndBlock
  \/ Break
  \/ Return

Spec == Init /\ [][Next]_vars

-----------------------------------------------------------------------------
Open == {i \in DOMAIN scopes : scopes[i].kind = "region"}

\* While a region is open, what it allocated stays allocated, however the
\* regions inside it were left: no exit frees an allocation of an enclosing
\* region early.
OpenRegionsLive == \A i \in Open : scopes[i].own \subseteq heap

\* No exit passes free() an address that is not allocated, or one twice, and
\* no frame is written beyond the fixed stack of frames, whatever branches
\* left behind on it.
NoMemoryError == ~free_error /\ Len(frames) <= StackDepth

\* Whatever is allocated belongs to an open region or to a function that is
\* still running.  At the end of the program nothing is claimed.
NothingLeaked ==
  scopes # <<>> => heap \subseteq UNION {scopes[i].own : i \in DOMAIN scopes}

\* A program that leaves its regions at their end, and allocates only directly
\* in them, leaks nothing: each __mind_region_exit frees all that its region
\* owned.
RegionFreesAll == strayed = {} => NothingLeaked

\* In a program that leaves its regions at their end, the runtime's frames are
\* the open regions, in order, each with that region's allocations.
FramesMatchRegions ==
  strayed = {} =>
    /\ Len(frames) = Cardinality(Open)
    /\ \A i \in Open :
         LET nth == Cardinality({j \in Open : j <= i}) IN ToSet(frames[nth]) = scopes[i].own
=============================================================================
