----------------------------- MODULE Containers -----------------------------
(***************************************************************************)
(* The growable vector and the insertion-ordered map of the standard       *)
(* library (src/std/vec.mind, src/std/map.mind) on one heap: an append     *)
(* that finds its arrays full reallocates them, which may move them and    *)
(* makes the old block available to others.  A value is used only until    *)
(* the next append to it: the old one may name a block that is gone.       *)
(***************************************************************************)
EXTENDS Integers, Sequences

CONSTANTS
    NumBlocks,  \* addresses the allocator has
    FirstCap,   \* entries of a first allocation, 4
    Items,      \* the integers stored, as keys and as values
    MaxItems,   \* bound: entries of a container
    Blank       \* a cell that was never written

ASSUME ContainersAssumption ==
    /\ NumBlocks \in Nat /\ FirstCap \in Nat \ {0} /\ Items \subseteq Int /\ MaxItems \in Nat
    /\ Blank \notin Int

VARIABLES
    heap,       \* the cells of the block at each address, <<>> where none is
    vec,        \* [addr, len, cap], with address 0 before the first push
    map,        \* [keys, vals, len, cap]
    vecStands,  \* history: the elements pushed and set
    mapStands   \* history: the pairs inserted, in order

containerVars == <<heap, vec, map, vecStands, mapStands>>

Blocks == 1 .. NumBlocks

VecNew == [addr |-> 0, len |-> 0, cap |-> 0]
MapNew == [keys |-> 0, vals |-> 0, len |-> 0, cap |-> 0]

ContainersInit ==
    /\ heap = [b \in Blocks |-> <<>>]
    /\ vec = VecNew /\ vecStands = <<>>
    /\ map = MapNew /\ mapStands = <<>>

\* What realloc keeps.
Resized(cells, n) == [i \in 1 .. n |-> IF i <= Len(cells) THEN cells[i] ELSE Blank]

\* __mind_realloc: in place, or at any free address, the old one being freed.
Realloc(h, old, n) ==
    LET cells == IF old = 0 THEN <<>> ELSE h[old]
        gone  == IF old = 0 THEN h ELSE [h EXCEPT ![old] = <<>>]
    IN  {[addr |-> b, heap |-> [gone EXCEPT ![b] = Resized(cells, n)]] :
            b \in {c \in Blocks : gone[c] = <<>>}}

\* Mutant: the last entry is taken to be free although it is not.
GrownLate(len, cap) == IF cap = 0 THEN FirstCap ELSE IF len <= cap THEN cap ELSE cap * 2

Grown(len, cap) == IF cap = 0 THEN FirstCap ELSE IF len < cap THEN cap ELSE cap * 2

\* Mutant: a larger array is allocated and nothing is copied.
RoomAllocated(h, old, cap, n) ==
    IF n = cap THEN {[addr |-> old, heap |-> h]} ELSE Realloc(h, 0, n)

\* The array itself, or reallocated when the capacity changes.
Room(h, old, cap, n) ==
    IF n = cap THEN {[addr |-> old, heap |-> h]} ELSE Realloc(h, old, n)

\* A store; one past the end of its block lands where it can be seen.
Stored(h, b, i, v) ==
    [h EXCEPT ![b] = [k \in DOMAIN @ \cup {i} |-> IF k = i THEN v ELSE @[k]]]

VecPush(v) ==
    LET n == Grown(vec.len, vec.cap) IN
    /\ vec.len < MaxItems
    /\ \E r \in Room(heap, vec.addr, vec.cap, n) :
         /\ heap' = Stored(r.heap, r.addr, vec.len + 1, v)
         /\ vec' = [addr |-> r.addr, len |-> vec.len + 1, cap |-> n]
    /\ vecStands' = Append(vecStands, v)
    /\ UNCHANGED <<map, mapStands>>

VecSet(i, v) ==
    /\ i \in 1 .. vec.len
    /\ heap' = Stored(heap, vec.addr, i, v)
    /\ vecStands' = [vecStands EXCEPT ![i] = v]
    /\ UNCHANGED <<vec, map, mapStands>>

\* vec_free, after which the caller starts with a new one.
VecFree ==
    /\ vec # VecNew
    /\ heap' = [heap EXCEPT ![vec.addr] = <<>>]
    /\ vec' = VecNew /\ vecStands' = <<>>
    /\ UNCHANGED <<map, mapStands>>

\* The keys are reallocated before the values, which may move to where the
\* keys were.
MapInsert(k, v) ==
    LET n == Grown(map.len, map.cap) IN
    /\ map.len < MaxItems
    /\ \E r \in Room(heap, map.keys, map.cap, n) :
         \E s \in Room(r.heap, map.vals, map.cap, n) :
           /\ heap' = Stored(Stored(s.heap, r.addr, map.len + 1, k), s.addr, map.len + 1, v)
           /\ map' = [keys |-> r.addr, vals |-> s.addr, len |-> map.len + 1, cap |-> n]
    /\ mapStands' = Append(mapStands, <<k, v>>)
    /\ UNCHANGED <<vec, vecStands>>

ContainersNext ==
    \/ \E v \in Items : VecPush(v) \/ \E i \in 1 .. vec.len : VecSet(i, v)
    \/ VecFree
    \/ \E k, v \in Items : MapInsert(k, v)

ContainersSpec == ContainersInit /\ [][ContainersNext]_containerVars

-----------------------------------------------------------------------------
\* vec_get at every index.
VecElements == [i \in 1 .. vec.len |-> heap[vec.addr][i]]

\* map_get: the value of the first equal key, or 0.
MapGet(k) ==
    LET hits == {i \in 1 .. map.len : heap[map.keys][i] = k}
    IN  IF hits = {} THEN 0
        ELSE heap[map.vals][CHOOSE i \in hits : \A m \in hits : i <= m]

Pairs == [i \in 1 .. map.len |-> <<heap[map.keys][i], heap[map.vals][i]>>]

\* Every block is the array of one container and has its capacity: nothing is
\* leaked, shared, or written past its end, however the arrays move.
BlocksOwned ==
    LET Owners == {<<"vec", vec.addr, vec.cap>>, <<"keys", map.keys, map.cap>>,
                   <<"vals", map.vals, map.cap>>}
    IN  \A b \in Blocks :
          LET mine == {o \in Owners : o[2] = b}
          IN  IF heap[b] = <<>> THEN mine = {}
              ELSE \E o \in mine : mine = {o} /\ DOMAIN heap[b] = 1 .. o[3]

\* A vector is what was pushed and set, and a map the pairs inserted, in their
\* order, through every reallocation of either; a lookup finds the first value
\* of a key, also when the key was inserted again (vec_push, map_insert,
\* map_get).
ContainersExact ==
    /\ VecElements = vecStands
    /\ Pairs = mapStands
    /\ \A k \in Items :
         LET n == {i \in DOMAIN mapStands : mapStands[i][1] = k}
         IN  MapGet(k) = IF n = {} THEN 0
                         ELSE mapStands[CHOOSE i \in n : \A j \in n : i <= j][2]
=============================================================================
