----------------------------- MODULE StdProofs -----------------------------
(***************************************************************************)
(* Proofs about the standard library: the arena (Arena), the vector and    *)
(* the map (Containers), the byte ring (ByteRing), and senders with the    *)
(* replay log (Senders).                                                   *)
(***************************************************************************)
EXTENDS Arena, Containers, ByteRing, Senders, SequenceTheorems, WellFoundedInduction, TLAPS

-----------------------------------------------------------------------------
(***************************************************************************)
(* The arena.                                                              *)
(***************************************************************************)

Given == [at : Nat, size : Nat]

ArenaTypeOK ==
    /\ arena \in [cap : Nat, off : Nat, high : Nat]
    /\ blocks \in Seq(Given)

\* The next block starts at a multiple of 8, although neither the sizes asked
\* for nor the capacity are multiples.
Aligned == arena.off % 8 = 0

ArenaInv == ArenaTypeOK /\ Aligned /\ BlocksApart

\* Rounding up covers what was asked for and keeps the alignment.
LEMMA AlignUp ==
    \A n \in Nat : /\ Align8(n) \in Nat /\ n <= Align8(n)
                   /\ \A m \in Nat : m % 8 = 0 => (m + Align8(n)) % 8 = 0
<1> SUFFICES ASSUME NEW n \in Nat
             PROVE  /\ Align8(n) \in Nat /\ n <= Align8(n)
                    /\ \A m \in Nat : m % 8 = 0 => (m + Align8(n)) % 8 = 0
    OBVIOUS
<1>1. Align8(n) \in Nat /\ n <= Align8(n)
    BY DEF Align8
<1>2. ASSUME NEW m \in Nat, m % 8 = 0 PROVE (m + Align8(n)) % 8 = 0
    BY <1>2 DEF Align8
<1> QED
    BY <1>1, <1>2

LEMMA ArenaStarts == ArenaInit => ArenaInv
BY DEF ArenaInit, NoArena, ArenaInv, ArenaTypeOK, Aligned, BlocksApart

LEMMA ArenaAllocKeeps == \A n \in Int : ArenaInv /\ ArenaAlloc(n) => ArenaInv'
<1> SUFFICES ASSUME NEW n \in Int, ArenaInv, ArenaAlloc(n) PROVE ArenaInv'
    OBVIOUS
<1> DEFINE off == arena.off + Align8(n)
<1>1. /\ n \in Nat /\ n <= arena.cap /\ Align8(n) <= arena.cap - arena.off
      /\ arena' = [arena EXCEPT !.off = off, !.high = IF off > arena.high THEN off ELSE arena.high]
      /\ blocks' = Append(blocks, [at |-> arena.off, size |-> n])
    BY DEF ArenaAlloc, Fits
<1>2. /\ arena \in [cap : Nat, off : Nat, high : Nat]
      /\ blocks \in Seq(Given)
    BY DEF ArenaInv, ArenaTypeOK
<1>3. /\ Align8(n) \in Nat /\ n <= Align8(n) /\ off % 8 = 0 /\ off \in Nat
  <2>1. arena.off \in Nat /\ arena.off % 8 = 0
    BY <1>2 DEF ArenaInv, Aligned
  <2>2. Align8(n) \in Nat /\ n <= Align8(n)
    BY <1>1, AlignUp
  <2>3. (arena.off + Align8(n)) % 8 = 0
    BY <1>1, <2>1, AlignUp
  <2> QED
    BY <2>1, <2>2, <2>3
<1> HIDE DEF off
<1>4. /\ arena'.cap = arena.cap /\ arena'.off = off
      /\ arena'.high = IF off > arena.high THEN off ELSE arena.high
    BY <1>1, <1>2
<1>5. ArenaTypeOK'
  <2>1. arena' \in [cap : Nat, off : Nat, high : Nat]
    BY <1>1, <1>2, <1>3
  <2>2. arena.off \in Nat /\ [at |-> arena.off, size |-> n] \in Given
    BY <1>1, <1>2 DEF Given
  <2>3. blocks' \in Seq(Given)
    BY <1>1, <1>2, <2>2
  <2> QED
    BY <2>1, <2>3 DEF ArenaTypeOK
<1>6. Aligned'
    BY <1>3, <1>4 DEF Aligned
<1>7. /\ DOMAIN blocks' = 1 .. Len(blocks) + 1 /\ DOMAIN blocks = 1 .. Len(blocks)
      /\ \A i \in 1 .. Len(blocks) : blocks'[i] = blocks[i]
      /\ blocks'[Len(blocks) + 1] = [at |-> arena.off, size |-> n]
      /\ Len(blocks) \in Nat
    BY <1>1, <1>2
<1>8. off = arena.off + Align8(n)
    BY DEF off
<1>9. /\ arena.off <= arena.high /\ arena.high <= arena.cap
      /\ \A i \in 1 .. Len(blocks) : /\ blocks[i] \in Given
                                     /\ blocks[i].at % 8 = 0
                                     /\ blocks[i].at + blocks[i].size <= arena.off
      /\ \A i, j \in 1 .. Len(blocks) : i < j => blocks[i].at + blocks[i].size <= blocks[j].at
  <2>1. \A i \in 1 .. Len(blocks) : blocks[i] \in Given
    BY <1>2
  <2> QED
    BY <2>1, <1>7 DEF ArenaInv, BlocksApart
<1>10. ASSUME NEW i \in DOMAIN blocks'
       PROVE blocks'[i].at % 8 = 0 /\ blocks'[i].at + blocks'[i].size <= arena'.off
  <2>1. CASE i = Len(blocks) + 1
    BY SMTT(30), <2>1, <1>1, <1>2, <1>3, <1>4, <1>7, <1>8 DEF ArenaInv, Aligned
  <2>2. CASE i \in 1 .. Len(blocks)
    <3>1. /\ blocks'[i] = blocks[i] /\ blocks[i].at \in Nat /\ blocks[i].size \in Nat
          /\ blocks[i].at % 8 = 0 /\ blocks[i].at + blocks[i].size <= arena.off
      BY <2>2, <1>7, <1>9 DEF Given
    <3>2. arena.off \in Nat /\ arena.off <= arena'.off
      BY <1>2, <1>3, <1>4, <1>8
    <3> QED
      BY <3>1, <3>2, <1>3, <1>4
  <2> QED
    BY <2>1, <2>2, <1>7
<1>11. ASSUME NEW i \in DOMAIN blocks', NEW j \in DOMAIN blocks', i < j
       PROVE blocks'[i].at + blocks'[i].size <= blocks'[j].at
  <2>1. i \in 1 .. Len(blocks)
    BY <1>7, <1>11
  <2>2. CASE j = Len(blocks) + 1
    BY <2>1, <2>2, <1>7, <1>9
  <2>3. CASE j \in 1 .. Len(blocks)
    BY <2>1, <2>3, <1>7, <1>9, <1>11
  <2> QED
    BY <2>2, <2>3, <1>7
<1>12. arena'.off <= arena'.high /\ arena'.high <= arena'.cap
    BY SMTT(30), <1>1, <1>2, <1>3, <1>4, <1>8, <1>9
<1> QED
    BY <1>5, <1>6, <1>10, <1>11, <1>12 DEF ArenaInv, BlocksApart

LEMMA ArenaNextKeeps == ArenaInv /\ [ArenaNext]_arenaVars => ArenaInv'
<1> SUFFICES ASSUME ArenaInv, [ArenaNext]_arenaVars PROVE ArenaInv'
    OBVIOUS
<1>1. ASSUME NEW n \in ArenaCaps, ArenaNew(n) PROVE ArenaInv'
    BY <1>1, ArenaAssumption DEF ArenaNew, NoArena, ArenaInv, ArenaTypeOK, Aligned, BlocksApart
<1>2. ASSUME NEW n \in ArenaSizes, ArenaAlloc(n) PROVE ArenaInv'
    BY <1>2, ArenaAssumption, ArenaAllocKeeps
<1>3. CASE ArenaReset
    BY <1>3 DEF ArenaReset, ArenaInv, ArenaTypeOK, Aligned, BlocksApart
<1>4. CASE ArenaFree
    BY <1>4 DEF ArenaFree, NoArena, ArenaInv, ArenaTypeOK, Aligned, BlocksApart
<1>5. CASE UNCHANGED arenaVars
    BY <1>5 DEF arenaVars, ArenaInv, ArenaTypeOK, Aligned, BlocksApart
<1> QED
    BY <1>1, <1>2, <1>3, <1>4, <1>5 DEF ArenaNext

\* Blocks given since the last reset are aligned, whole, apart and inside the
\* region, for every capacity and every sequence of sizes (arena_alloc,
\* arena_reset).
THEOREM ArenaBlocksApart == ArenaSpec => []BlocksApart
<1>1. ArenaSpec => []ArenaInv
    BY ArenaStarts, ArenaNextKeeps, PTL DEF ArenaSpec
<1>2. ArenaInv => BlocksApart
    BY DEF ArenaInv
<1> QED
    BY <1>1, <1>2, PTL

-----------------------------------------------------------------------------
(***************************************************************************)
(* The vector and the map.                                                 *)
(***************************************************************************)

Cells == Int \cup {Blank}

Heaps == [Blocks -> Seq(Cells)]

\* An array of cap entries at addr: none of either, or a block of that length.
IsArray(h, addr, cap) ==
    \/ addr = 0 /\ cap = 0
    \/ addr \in Blocks /\ cap \in Nat \ {0} /\ Len(h[addr]) = cap

ContainersTypeOK ==
    /\ heap \in Heaps
    /\ vec \in [addr : Int, len : Nat, cap : Nat]
    /\ map \in [keys : Int, vals : Int, len : Nat, cap : Nat]
    /\ vecStands \in Seq(Int)
    /\ mapStands \in Seq(Int \X Int)

\* The arrays have their container's capacity and hold its entries.
Backed ==
    /\ IsArray(heap, vec.addr, vec.cap) /\ vec.len <= vec.cap
    /\ IsArray(heap, map.keys, map.cap) /\ IsArray(heap, map.vals, map.cap)
    /\ map.len <= map.cap

\* No two arrays share a block.
Separate ==
    /\ vec.addr \in Blocks => vec.addr # map.keys /\ vec.addr # map.vals
    /\ map.keys \in Blocks => map.keys # map.vals

\* A block that holds anything is somebody's array.
NoLeak == \A b \in Blocks : heap[b] # <<>> => b \in {vec.addr, map.keys, map.vals}

\* The first entries of the arrays are what was stored.
VecHolds ==
    /\ Len(vecStands) = vec.len
    /\ \A i \in 1 .. vec.len : heap[vec.addr][i] = vecStands[i]

MapHolds ==
    /\ Len(mapStands) = map.len
    /\ \A i \in 1 .. map.len : mapStands[i] = <<heap[map.keys][i], heap[map.vals][i]>>

ContainersInv ==
    ContainersTypeOK /\ Backed /\ Separate /\ NoLeak /\ VecHolds /\ MapHolds

-----------------------------------------------------------------------------
\* A capacity that grows has room for one more entry and keeps the old ones.
LEMMA GrownHolds ==
    \A len, cap \in Nat :
        len <= cap => /\ Grown(len, cap) \in Nat \ {0}
                      /\ cap <= Grown(len, cap) /\ len + 1 <= Grown(len, cap)
BY ContainersAssumption DEF Grown

LEMMA ResizedHolds ==
    \A cells \in Seq(Cells), n \in Nat :
        /\ Resized(cells, n) \in Seq(Cells) /\ Len(Resized(cells, n)) = n
        /\ \A i \in 1 .. n : i <= Len(cells) => Resized(cells, n)[i] = cells[i]
<1> SUFFICES ASSUME NEW cells \in Seq(Cells), NEW n \in Nat
             PROVE  /\ Resized(cells, n) \in Seq(Cells) /\ Len(Resized(cells, n)) = n
                    /\ \A i \in 1 .. n : i <= Len(cells) => Resized(cells, n)[i] = cells[i]
    OBVIOUS
<1>1. \A i \in 1 .. n : (IF i <= Len(cells) THEN cells[i] ELSE Blank) \in Cells
    BY DEF Cells
<1>2. Resized(cells, n) \in [1 .. n -> Cells]
    BY <1>1 DEF Resized
<1>3. Resized(cells, n) \in Seq(Cells) /\ Len(Resized(cells, n)) = n
    BY <1>2
<1> QED
    BY <1>3 DEF Resized

\* What an append gets before it stores: a block of the new capacity with the
\* old entries, and every other block as it was.
RoomFor(h, old, cap, n, r) ==
    /\ r.addr \in Blocks /\ r.heap \in Heaps
    /\ Len(r.heap[r.addr]) = n
    /\ \A i \in 1 .. cap : r.heap[r.addr][i] = h[old][i]
    /\ r.addr # old => h[r.addr] = <<>> /\ (old \in Blocks => r.heap[old] = <<>>)
    /\ \A b \in Blocks \ {old, r.addr} : r.heap[b] = h[b]

LEMMA RoomHolds ==
    ASSUME NEW h \in Heaps, NEW old \in Int, NEW cap \in Nat, NEW n \in Nat \ {0},
           IsArray(h, old, cap), cap <= n, NEW r \in Room(h, old, cap, n)
    PROVE  RoomFor(h, old, cap, n, r)
<1>1. CASE n = cap
  <2>1. r = [addr |-> old, heap |-> h]
    BY <1>1 DEF Room
  <2> QED
    BY <1>1, <2>1 DEF IsArray, RoomFor
<1>2. CASE n # cap
  <2> DEFINE cells == IF old = 0 THEN <<>> ELSE h[old]
             gone  == IF old = 0 THEN h ELSE [h EXCEPT ![old] = <<>>]
  <2>1. PICK b \in Blocks :
           /\ gone[b] = <<>>
           /\ r = [addr |-> b, heap |-> [gone EXCEPT ![b] = Resized(cells, n)]]
    BY <1>2 DEF Room, Realloc
  <2>2. cells \in Seq(Cells) /\ Len(cells) = cap /\ gone \in Heaps
    BY DEF IsArray, Heaps, Blocks
  <2>3. \A c \in Blocks : gone[c] = IF c = old THEN <<>> ELSE h[c]
    BY DEF IsArray, Heaps, Blocks
  <2>4. /\ Resized(cells, n) \in Seq(Cells) /\ Len(Resized(cells, n)) = n
        /\ \A i \in 1 .. n : i <= Len(cells) => Resized(cells, n)[i] = cells[i]
    BY <2>2, ResizedHolds
  <2>5. cap > 0 => cells = h[old]
    BY DEF IsArray, Blocks
  <2> HIDE DEF cells, gone
  <2>6. /\ r.addr = b /\ r.heap = [gone EXCEPT ![b] = Resized(cells, n)]
    BY <2>1
  <2>7. /\ r.heap \in Heaps /\ r.heap[b] = Resized(cells, n)
        /\ \A c \in Blocks \ {b} : r.heap[c] = gone[c]
    BY <2>2, <2>4, <2>6 DEF Heaps
  <2>8. \A i \in 1 .. cap : r.heap[b][i] = h[old][i]
    BY <2>2, <2>4, <2>5, <2>7
  <2>9. b # old => h[b] = <<>> /\ (old \in Blocks => r.heap[old] = <<>>)
    BY <2>1, <2>3, <2>7
  <2>10. \A c \in Blocks \ {old, b} : r.heap[c] = h[c]
    BY <2>3, <2>7
  <2> QED
    BY <2>4, <2>6, <2>7, <2>8, <2>9, <2>10 DEF RoomFor
<1> QED
    BY <1>1, <1>2

\* A store inside its block changes that entry and nothing else.
IsStored(h, b, i, v, g) ==
    /\ g \in Heaps
    /\ Len(g[b]) = Len(h[b]) /\ g[b][i] = v
    /\ \A k \in 1 .. Len(h[b]) : k # i => g[b][k] = h[b][k]
    /\ \A c \in Blocks \ {b} : g[c] = h[c]

LEMMA StoredHolds ==
    \A h \in Heaps, b \in Blocks, i \in Int, v \in Int :
        i \in 1 .. Len(h[b]) => IsStored(h, b, i, v, Stored(h, b, i, v))
<1> SUFFICES ASSUME NEW h \in Heaps, NEW b \in Blocks, NEW i \in Int, NEW v \in Int,
                    i \in 1 .. Len(h[b])
             PROVE  IsStored(h, b, i, v, Stored(h, b, i, v))
    OBVIOUS
<1> DEFINE g == Stored(h, b, i, v)
           new == [k \in DOMAIN h[b] \cup {i} |-> IF k = i THEN v ELSE h[b][k]]
<1>1. h[b] \in Seq(Cells) /\ DOMAIN h[b] = 1 .. Len(h[b]) /\ Len(h[b]) \in Nat
    BY DEF Heaps
<1>2. DOMAIN h[b] \cup {i} = 1 .. Len(h[b])
    BY <1>1
<1>3. new \in [1 .. Len(h[b]) -> Cells]
    BY <1>1, <1>2 DEF Cells
<1>4. new \in Seq(Cells) /\ Len(new) = Len(h[b])
    BY <1>1, <1>3
<1>5. g = [h EXCEPT ![b] = new]
    BY DEF Stored
<1>6. new[i] = v /\ \A k \in 1 .. Len(h[b]) : k # i => new[k] = h[b][k]
    BY <1>2
<1> HIDE DEF new
<1>7. g \in Heaps /\ g[b] = new /\ \A c \in Blocks \ {b} : g[c] = h[c]
    BY <1>4, <1>5 DEF Heaps
<1> QED
    BY <1>4, <1>6, <1>7 DEF IsStored

-----------------------------------------------------------------------------
\* Storing an entry behind the len that there are, in the room an append got.
IsAppended(h, old, len, n, r, v, g) ==
    /\ r.addr \in Blocks /\ g \in Heaps
    /\ Len(g[r.addr]) = n /\ g[r.addr][len + 1] = v
    /\ \A i \in 1 .. len : g[r.addr][i] = h[old][i]
    /\ \A b \in Blocks \ {r.addr} : g[b] = r.heap[b]

LEMMA AppendStores ==
    ASSUME NEW h \in Heaps, NEW old \in Int, NEW len \in Nat, NEW cap \in Nat,
           NEW n \in Nat \ {0}, NEW r, NEW v \in Int,
           len <= cap, cap <= n, len + 1 <= n, RoomFor(h, old, cap, n, r)
    PROVE  IsAppended(h, old, len, n, r, v, Stored(r.heap, r.addr, len + 1, v))
<1> DEFINE g == Stored(r.heap, r.addr, len + 1, v)
<1>1. /\ r.addr \in Blocks /\ r.heap \in Heaps /\ Len(r.heap[r.addr]) = n
      /\ \A i \in 1 .. cap : r.heap[r.addr][i] = h[old][i]
    BY DEF RoomFor
<1>2. len + 1 \in 1 .. Len(r.heap[r.addr])
    BY <1>1
<1>3. /\ g \in Heaps
      /\ Len(g[r.addr]) = Len(r.heap[r.addr]) /\ g[r.addr][len + 1] = v
      /\ \A k \in 1 .. Len(r.heap[r.addr]) : k # len + 1 => g[r.addr][k] = r.heap[r.addr][k]
      /\ \A c \in Blocks \ {r.addr} : g[c] = r.heap[c]
  <2>1. r.heap \in Heaps /\ r.addr \in Blocks /\ len + 1 \in Int
    BY <1>1
  <2>2. IsStored(r.heap, r.addr, len + 1, v, Stored(r.heap, r.addr, len + 1, v))
    BY ONLY <2>1, <1>2, StoredHolds, v \in Int, Zenon
  <2> QED
    BY <2>2 DEF IsStored
<1> HIDE DEF g
<1>4. ASSUME NEW i \in 1 .. len PROVE g[r.addr][i] = h[old][i]
  <2>1. i \in 1 .. n /\ i \in 1 .. cap /\ i # len + 1
    OBVIOUS
  <2> QED
    BY <2>1, <1>1, <1>3
<1> QED
    BY <1>1, <1>3, <1>4 DEF g, IsAppended

\* A block in use is not one an append moves another array to.
Undisturbed(h, r, other, size) ==
    /\ other \in Blocks => other # r.addr /\ r.heap[other] = h[other]
    /\ IsArray(r.heap, other, size)

LEMMA OthersStay ==
    ASSUME NEW h \in Heaps, NEW old \in Int, NEW cap \in Nat, NEW n \in Nat \ {0}, NEW r,
           RoomFor(h, old, cap, n, r),
           NEW other \in Int, NEW size \in Nat, IsArray(h, other, size),
           other \in Blocks => other # old
    PROVE  Undisturbed(h, r, other, size)
<1> USE DEF Undisturbed
<1>1. CASE other \in Blocks
  <2>1. h[other] \in Seq(Cells) /\ Len(h[other]) # 0
    BY <1>1 DEF IsArray, Heaps, Blocks
  <2>2. other # r.addr
    BY <2>1, <1>1 DEF RoomFor
  <2> QED
    BY <1>1, <2>2 DEF RoomFor, IsArray
<1>2. CASE other \notin Blocks
    BY <1>2 DEF IsArray
<1> QED
    BY <1>1, <1>2

\* What the invariant says of the parts, in the form the steps below use it.
LEMMA ContainersFacts ==
    ContainersInv =>
      /\ heap \in Heaps /\ vecStands \in Seq(Int) /\ mapStands \in Seq(Int \X Int)
      /\ vec.addr \in Int /\ vec.len \in Nat /\ vec.cap \in Nat /\ vec.len <= vec.cap
      /\ map.keys \in Int /\ map.vals \in Int /\ map.cap \in Nat /\ map.len \in Nat
      /\ map.len <= map.cap
      /\ IsArray(heap, vec.addr, vec.cap)
      /\ IsArray(heap, map.keys, map.cap) /\ IsArray(heap, map.vals, map.cap)
BY DEF ContainersInv, ContainersTypeOK, Backed

\* A map none of whose blocks changed is as it was.
LEMMA MapStays ==
    ASSUME ContainersInv, UNCHANGED <<map, mapStands>>,
           map.keys \in Blocks => heap'[map.keys] = heap[map.keys],
           map.vals \in Blocks => heap'[map.vals] = heap[map.vals]
    PROVE  /\ IsArray(heap', map.keys, map.cap) /\ IsArray(heap', map.vals, map.cap)
           /\ MapHolds'
<1>1. /\ map.cap \in Nat /\ map.len \in Nat /\ map.len <= map.cap
      /\ IsArray(heap, map.keys, map.cap) /\ IsArray(heap, map.vals, map.cap)
    BY ContainersFacts
<1>2. IsArray(heap', map.keys, map.cap) /\ IsArray(heap', map.vals, map.cap)
    BY <1>1 DEF IsArray
<1>3. ASSUME NEW i \in 1 .. map.len
      PROVE  mapStands[i] = <<heap'[map.keys][i], heap'[map.vals][i]>>
  <2>1. map.keys \in Blocks /\ map.vals \in Blocks
    BY <1>1 DEF IsArray
  <2>2. heap'[map.keys] = heap[map.keys] /\ heap'[map.vals] = heap[map.vals]
    BY <2>1
  <2> QED
    BY <2>2 DEF ContainersInv, MapHolds
<1> QED
    BY <1>2, <1>3 DEF ContainersInv, MapHolds

LEMMA VecPushKeeps == \A v \in Int : ContainersInv /\ VecPush(v) => ContainersInv'
<1> SUFFICES ASSUME NEW v \in Int, ContainersInv, VecPush(v) PROVE ContainersInv'
    OBVIOUS
<1> DEFINE n == Grown(vec.len, vec.cap)
<1>1. /\ heap \in Heaps /\ vecStands \in Seq(Int) /\ mapStands \in Seq(Int \X Int)
      /\ vec.addr \in Int /\ vec.len \in Nat /\ vec.cap \in Nat /\ vec.len <= vec.cap
      /\ map.keys \in Int /\ map.vals \in Int /\ map.cap \in Nat /\ map.len \in Nat
      /\ map.len <= map.cap
      /\ IsArray(heap, vec.addr, vec.cap)
      /\ IsArray(heap, map.keys, map.cap) /\ IsArray(heap, map.vals, map.cap)
    BY ContainersFacts
<1>2. n \in Nat \ {0} /\ vec.cap <= n /\ vec.len + 1 <= n
    BY <1>1, GrownHolds
<1>3. /\ UNCHANGED <<map, mapStands>>
      /\ vecStands' = Append(vecStands, v)
      /\ \E r \in Room(heap, vec.addr, vec.cap, n) :
           /\ heap' = Stored(r.heap, r.addr, vec.len + 1, v)
           /\ vec' = [addr |-> r.addr, len |-> vec.len + 1, cap |-> n]
    BY DEF VecPush
<1> HIDE DEF n
<1>4. PICK r \in Room(heap, vec.addr, vec.cap, n) :
           /\ heap' = Stored(r.heap, r.addr, vec.len + 1, v)
           /\ vec' = [addr |-> r.addr, len |-> vec.len + 1, cap |-> n]
    BY <1>3
<1>5. RoomFor(heap, vec.addr, vec.cap, n, r)
    BY <1>1, <1>2, RoomHolds
<1>6. /\ r.addr \in Blocks /\ heap' \in Heaps
      /\ Len(heap'[r.addr]) = n /\ heap'[r.addr][vec.len + 1] = v
      /\ \A i \in 1 .. vec.len : heap'[r.addr][i] = heap[vec.addr][i]
      /\ \A b \in Blocks \ {r.addr} : heap'[b] = r.heap[b]
  <2>1. IsAppended(heap, vec.addr, vec.len, n, r, v, heap')
    BY <1>1, <1>2, <1>4, <1>5, AppendStores
  <2> QED
    BY <2>1 DEF IsAppended
<1>7. /\ map.keys \in Blocks => map.keys # r.addr /\ r.heap[map.keys] = heap[map.keys]
      /\ map.vals \in Blocks => map.vals # r.addr /\ r.heap[map.vals] = heap[map.vals]
  <2>1. /\ map.keys \in Blocks => map.keys # vec.addr
        /\ map.vals \in Blocks => map.vals # vec.addr
    BY DEF ContainersInv, Separate
  <2>2. Undisturbed(heap, r, map.keys, map.cap)
    BY <2>1, <1>1, <1>2, <1>5, OthersStay
  <2>3. Undisturbed(heap, r, map.vals, map.cap)
    BY <2>1, <1>1, <1>2, <1>5, OthersStay
  <2> QED
    BY <2>2, <2>3 DEF Undisturbed
<1>8. /\ map.keys \in Blocks => heap'[map.keys] = heap[map.keys]
      /\ map.vals \in Blocks => heap'[map.vals] = heap[map.vals]
    BY <1>6, <1>7
<1>9. vec'.addr = r.addr /\ vec'.len = vec.len + 1 /\ vec'.cap = n
    BY <1>4
<1>10. ContainersTypeOK'
  <2>1. vec' \in [addr : Int, len : Nat, cap : Nat]
    BY SMTT(30), <1>1, <1>2, <1>4, <1>6 DEF Blocks
  <2>2. vecStands' \in Seq(Int)
    BY <1>1, <1>3
  <2> QED
    BY <2>1, <2>2, <1>3, <1>6 DEF ContainersInv, ContainersTypeOK
<1>11. /\ IsArray(heap', map.keys, map.cap) /\ IsArray(heap', map.vals, map.cap)
       /\ MapHolds'
    BY <1>3, <1>8, MapStays
<1>12. Separate'
    BY <1>3, <1>7, <1>9 DEF ContainersInv, Separate
<1>13. NoLeak'
  <2> SUFFICES ASSUME NEW b \in Blocks, heap'[b] # <<>>, b # r.addr
               PROVE  b \in {map.keys, map.vals}
    BY <1>3, <1>9 DEF NoLeak
  <2>1. r.heap[b] # <<>>
    BY <1>6
  <2>2. b # vec.addr
    BY <2>1, <1>5 DEF RoomFor
  <2>3. heap[b] # <<>>
    BY <2>1, <2>2, <1>5 DEF RoomFor
  <2> QED
    BY <2>2, <2>3 DEF ContainersInv, NoLeak
<1>14. VecHolds'
  <2>1. /\ Len(vecStands) = vec.len
        /\ \A i \in 1 .. vec.len : heap[vec.addr][i] = vecStands[i]
    BY DEF ContainersInv, VecHolds
  <2>2. /\ Len(vecStands') = vec.len + 1 /\ vecStands'[vec.len + 1] = v
        /\ \A i \in 1 .. vec.len : vecStands'[i] = vecStands[i]
    <3>1. vecStands \in Seq(Int) /\ vecStands' = Append(vecStands, v)
      BY <1>1, <1>3
    <3> QED
      BY <2>1, <3>1
  <2>3. ASSUME NEW i \in 1 .. vec.len + 1 PROVE heap'[r.addr][i] = vecStands'[i]
    <3>1. i \in 1 .. vec.len \/ i = vec.len + 1
      BY SMTT(30), <1>1
    <3> QED
      BY <3>1, <2>1, <2>2, <1>6
  <2> QED
    BY <2>2, <2>3, <1>9 DEF VecHolds
<1>15. Backed'
    BY <1>1, <1>2, <1>3, <1>6, <1>9, <1>11 DEF Backed, IsArray
<1> QED
    BY <1>10, <1>11, <1>12, <1>13, <1>14, <1>15 DEF ContainersInv

LEMMA VecSetKeeps ==
    \A i, v \in Int : ContainersInv /\ VecSet(i, v) => ContainersInv'
<1> SUFFICES ASSUME NEW i \in Int, NEW v \in Int, ContainersInv, VecSet(i, v)
             PROVE  ContainersInv'
    OBVIOUS
<1>1. /\ i \in 1 .. vec.len /\ heap' = Stored(heap, vec.addr, i, v)
      /\ vecStands' = [vecStands EXCEPT ![i] = v]
      /\ UNCHANGED <<vec, map, mapStands>>
    BY DEF VecSet
<1>2. /\ heap \in Heaps /\ vecStands \in Seq(Int)
      /\ vec.len \in Nat /\ vec.cap \in Nat /\ vec.len <= vec.cap
      /\ IsArray(heap, vec.addr, vec.cap)
    BY ContainersFacts
<1>3. vec.addr \in Blocks /\ Len(heap[vec.addr]) = vec.cap /\ i \in 1 .. Len(heap[vec.addr])
    BY <1>1, <1>2 DEF IsArray
<1>4. IsStored(heap, vec.addr, i, v, heap')
  <2>1. IsStored(heap, vec.addr, i, v, Stored(heap, vec.addr, i, v))
    BY ONLY <1>2, <1>3, StoredHolds, i \in Int, v \in Int, Zenon
  <2> QED
    BY <2>1, <1>1
<1>5. /\ heap' \in Heaps /\ Len(heap'[vec.addr]) = vec.cap /\ heap'[vec.addr][i] = v
      /\ \A k \in 1 .. vec.cap : k # i => heap'[vec.addr][k] = heap[vec.addr][k]
      /\ \A c \in Blocks \ {vec.addr} : heap'[c] = heap[c]
    BY <1>3, <1>4 DEF IsStored
<1>6. /\ map.keys \in Blocks => heap'[map.keys] = heap[map.keys]
      /\ map.vals \in Blocks => heap'[map.vals] = heap[map.vals]
    BY <1>3, <1>5 DEF ContainersInv, Separate
<1>7. /\ IsArray(heap', map.keys, map.cap) /\ IsArray(heap', map.vals, map.cap)
      /\ MapHolds'
    BY <1>1, <1>6, MapStays
<1>8. vecStands' \in Seq(Int) /\ Len(vecStands') = Len(vecStands)
  <2>1. i \in 1 .. Len(vecStands)
    BY <1>1 DEF ContainersInv, VecHolds
  <2> QED
    BY <2>1, <1>1, <1>2, ExceptSeq
<1>9. ContainersTypeOK'
    BY <1>1, <1>5, <1>8 DEF ContainersInv, ContainersTypeOK
<1>10. Backed'
    BY <1>1, <1>2, <1>3, <1>5, <1>7 DEF ContainersInv, Backed, IsArray
<1>11. Separate'
    BY <1>1 DEF ContainersInv, Separate
<1>12. NoLeak'
    BY <1>1, <1>5 DEF ContainersInv, NoLeak
<1>13. VecHolds'
  <2>1. /\ Len(vecStands) = vec.len
        /\ \A k \in 1 .. vec.len : heap[vec.addr][k] = vecStands[k]
    BY DEF ContainersInv, VecHolds
  <2>2. vecStands'[i] = v /\ \A k \in 1 .. vec.len : k # i => vecStands'[k] = vecStands[k]
    BY <2>1, <1>1, <1>2
  <2>3. ASSUME NEW k \in 1 .. vec.len PROVE heap'[vec.addr][k] = vecStands'[k]
    <3>1. k \in 1 .. vec.cap
      BY <1>2
    <3> QED
      BY <3>1, <2>1, <2>2, <1>5
  <2> QED
    BY <2>1, <2>3, <1>1, <1>8 DEF VecHolds
<1> QED
    BY <1>7, <1>9, <1>10, <1>11, <1>12, <1>13 DEF ContainersInv

LEMMA VecFreeKeeps == ContainersInv /\ VecFree => ContainersInv'
<1> SUFFICES ASSUME ContainersInv, VecFree PROVE ContainersInv'
    OBVIOUS
<1>1. /\ vec # VecNew /\ heap' = [heap EXCEPT ![vec.addr] = <<>>]
      /\ vec' = VecNew /\ vecStands' = <<>> /\ UNCHANGED <<map, mapStands>>
    BY DEF VecFree
<1>2. /\ heap \in Heaps /\ vec.len \in Nat /\ vec.len <= vec.cap
      /\ IsArray(heap, vec.addr, vec.cap)
    BY ContainersFacts
<1>3. vec.addr \in Blocks
  <2> SUFFICES ASSUME vec.addr = 0, vec.cap = 0 PROVE FALSE
    BY <1>2 DEF IsArray
  <2>1. vec \in [addr : Int, len : Nat, cap : Nat] /\ vec.len = 0
    BY <1>2 DEF ContainersInv, ContainersTypeOK
  <2> QED
    BY <2>1, <1>1 DEF VecNew
<1>4. /\ heap' \in Heaps /\ heap'[vec.addr] = <<>>
      /\ \A c \in Blocks \ {vec.addr} : heap'[c] = heap[c]
    BY <1>1, <1>2, <1>3 DEF Heaps
<1>5. /\ map.keys \in Blocks => heap'[map.keys] = heap[map.keys]
      /\ map.vals \in Blocks => heap'[map.vals] = heap[map.vals]
    BY <1>3, <1>4 DEF ContainersInv, Separate
<1>6. /\ IsArray(heap', map.keys, map.cap) /\ IsArray(heap', map.vals, map.cap)
      /\ MapHolds'
    BY <1>1, <1>5, MapStays
<1>7. ContainersTypeOK'
    BY <1>1, <1>4 DEF ContainersInv, ContainersTypeOK, VecNew
<1>8. Backed'
    BY <1>1, <1>6 DEF ContainersInv, Backed, IsArray, VecNew
<1>9. Separate'
    BY <1>1 DEF ContainersInv, Separate, VecNew, Blocks
<1>10. NoLeak'
    BY <1>1, <1>4 DEF ContainersInv, NoLeak
<1>11. VecHolds'
    BY <1>1 DEF VecHolds, VecNew
<1> QED
    BY <1>6, <1>7, <1>8, <1>9, <1>10, <1>11 DEF ContainersInv

\* The values may move to where the keys were; the vector's block is never
\* taken by either.
LEMMA MapInsertKeeps ==
    \A k, v \in Int : ContainersInv /\ MapInsert(k, v) => ContainersInv'
<1> SUFFICES ASSUME NEW k \in Int, NEW v \in Int, ContainersInv, MapInsert(k, v)
             PROVE  ContainersInv'
    OBVIOUS
<1> DEFINE n == Grown(map.len, map.cap)
<1>1. /\ heap \in Heaps /\ vecStands \in Seq(Int) /\ mapStands \in Seq(Int \X Int)
      /\ vec.addr \in Int /\ vec.len \in Nat /\ vec.cap \in Nat /\ vec.len <= vec.cap
      /\ map.keys \in Int /\ map.vals \in Int /\ map.cap \in Nat /\ map.len \in Nat
      /\ map.len <= map.cap
      /\ IsArray(heap, vec.addr, vec.cap)
      /\ IsArray(heap, map.keys, map.cap) /\ IsArray(heap, map.vals, map.cap)
    BY ContainersFacts
<1>2. n \in Nat \ {0} /\ map.cap <= n /\ map.len + 1 <= n
    BY <1>1, GrownHolds
<1>3. /\ UNCHANGED <<vec, vecStands>>
      /\ mapStands' = Append(mapStands, <<k, v>>)
      /\ \E r \in Room(heap, map.keys, map.cap, n) :
           \E s \in Room(r.heap, map.vals, map.cap, n) :
             /\ heap' = Stored(Stored(s.heap, r.addr, map.len + 1, k), s.addr, map.len + 1, v)
             /\ map' = [keys |-> r.addr, vals |-> s.addr, len |-> map.len + 1, cap |-> n]
    BY DEF MapInsert
<1> HIDE DEF n
<1>0. PICK r \in Room(heap, map.keys, map.cap, n) :
           \E s \in Room(r.heap, map.vals, map.cap, n) :
             /\ heap' = Stored(Stored(s.heap, r.addr, map.len + 1, k), s.addr, map.len + 1, v)
             /\ map' = [keys |-> r.addr, vals |-> s.addr, len |-> map.len + 1, cap |-> n]
    BY <1>3
<1>4. PICK s \in Room(r.heap, map.vals, map.cap, n) :
           /\ heap' = Stored(Stored(s.heap, r.addr, map.len + 1, k), s.addr, map.len + 1, v)
           /\ map' = [keys |-> r.addr, vals |-> s.addr, len |-> map.len + 1, cap |-> n]
    BY <1>0
<1>5. RoomFor(heap, map.keys, map.cap, n, r)
    BY <1>1, <1>2, RoomHolds
<1>6. /\ vec.addr \in Blocks => vec.addr # map.keys /\ vec.addr # map.vals
      /\ map.vals \in Blocks => map.vals # map.keys
    BY DEF ContainersInv, Separate
<1>7. Undisturbed(heap, r, map.vals, map.cap) /\ Undisturbed(heap, r, vec.addr, vec.cap)
  <2>1. Undisturbed(heap, r, map.vals, map.cap)
    BY <1>1, <1>2, <1>5, <1>6, OthersStay
  <2>2. Undisturbed(heap, r, vec.addr, vec.cap)
    BY <1>1, <1>2, <1>5, <1>6, OthersStay
  <2> QED
    BY <2>1, <2>2
<1>8. /\ r.addr \in Blocks /\ r.addr \in Int /\ r.heap \in Heaps
      /\ IsArray(r.heap, map.vals, map.cap) /\ IsArray(r.heap, vec.addr, vec.cap)
      /\ IsArray(r.heap, r.addr, n) /\ r.addr # map.vals /\ r.addr # vec.addr
    BY <1>2, <1>5, <1>7 DEF RoomFor, Undisturbed, IsArray, Blocks
<1>9. RoomFor(r.heap, map.vals, map.cap, n, s)
    BY <1>1, <1>2, <1>8, RoomHolds
<1>10. Undisturbed(r.heap, s, r.addr, n) /\ Undisturbed(r.heap, s, vec.addr, vec.cap)
  <2>1. Undisturbed(r.heap, s, r.addr, n)
    BY <1>1, <1>2, <1>8, <1>9, OthersStay
  <2>2. Undisturbed(r.heap, s, vec.addr, vec.cap)
    BY <1>1, <1>2, <1>6, <1>8, <1>9, OthersStay
  <2> QED
    BY <2>1, <2>2
<1>11. /\ s.addr \in Blocks /\ s.heap \in Heaps /\ s.addr # r.addr
       /\ s.heap[r.addr] = r.heap[r.addr] /\ Len(s.heap[r.addr]) = n
       /\ Len(s.heap[s.addr]) = n
       /\ vec.addr \in Blocks =>
            s.addr # vec.addr /\ r.addr # vec.addr /\ s.heap[vec.addr] = heap[vec.addr]
    BY <1>5, <1>7, <1>8, <1>9, <1>10 DEF RoomFor, Undisturbed
<1> DEFINE m == map.len + 1
           g == Stored(s.heap, r.addr, m, k)
<1>12. IsStored(s.heap, r.addr, m, k, g)
  <2>1. m \in Int /\ m \in 1 .. Len(s.heap[r.addr])
    BY SMTT(30), <1>1, <1>2, <1>11
  <2> QED
    BY ONLY <2>1, <1>8, <1>11, StoredHolds, k \in Int, Zenon
<1>13. IsStored(g, s.addr, m, v, heap')
  <2>1. g \in Heaps /\ g[s.addr] = s.heap[s.addr]
    BY <1>11, <1>12 DEF IsStored
  <2>2. m \in Int /\ m \in 1 .. Len(g[s.addr])
    <3>1. Len(g[s.addr]) = n
      BY <2>1, <1>11
    <3>2. m \in Int /\ m \in 1 .. n
      BY SMTT(30), <1>1, <1>2
    <3> QED
      BY <3>1, <3>2
  <2>3. IsStored(g, s.addr, m, v, Stored(g, s.addr, m, v))
    BY ONLY <2>1, <2>2, <1>11, StoredHolds, v \in Int, Zenon
  <2> QED
    BY <2>3, <1>4
<1>14. m = map.len + 1
    OBVIOUS
<1> HIDE DEF g, m
<1>15. /\ heap' \in Heaps
       /\ Len(heap'[r.addr]) = n /\ heap'[r.addr][m] = k
       /\ Len(heap'[s.addr]) = n /\ heap'[s.addr][m] = v
       /\ \A b \in Blocks \ {r.addr, s.addr} : heap'[b] = s.heap[b]
  <2>1. heap'[r.addr] = g[r.addr] /\ g[s.addr] = s.heap[s.addr]
    BY <1>8, <1>11, <1>12, <1>13 DEF IsStored
  <2>2. /\ Len(g[r.addr]) = n /\ g[r.addr][m] = k
        /\ Len(heap'[s.addr]) = Len(g[s.addr]) /\ heap'[s.addr][m] = v /\ heap' \in Heaps
    BY <1>11, <1>12, <1>13 DEF IsStored
  <2>3. \A b \in Blocks \ {r.addr, s.addr} : heap'[b] = s.heap[b]
    BY <1>12, <1>13 DEF IsStored
  <2> QED
    BY <2>1, <2>2, <2>3, <1>11
<1>16. ASSUME NEW i \in 1 .. map.len
       PROVE  /\ heap'[r.addr][i] = heap[map.keys][i]
              /\ heap'[s.addr][i] = heap[map.vals][i]
  <2>1. i \in 1 .. n /\ i \in 1 .. map.cap /\ i # m
    BY SMTT(30), <1>1, <1>2, <1>14
  <2>2. r.heap[r.addr][i] = heap[map.keys][i] /\ s.heap[s.addr][i] = r.heap[map.vals][i]
    BY <2>1, <1>5, <1>9 DEF RoomFor
  <2>3. map.vals \in Blocks
    BY <2>1, <1>1 DEF IsArray
  <2>4. r.heap[map.vals] = heap[map.vals]
    BY <2>3, <1>7 DEF Undisturbed
  <2>5. g[r.addr][i] = s.heap[r.addr][i] /\ heap'[r.addr] = g[r.addr]
    BY <2>1, <1>8, <1>11, <1>12, <1>13 DEF IsStored
  <2>6. g[s.addr] = s.heap[s.addr]
    BY <1>11, <1>12 DEF IsStored
  <2>7. heap'[s.addr][i] = g[s.addr][i]
    BY <2>1, <2>6, <1>11, <1>13 DEF IsStored
  <2> QED
    BY <2>2, <2>4, <2>5, <2>6, <2>7, <1>11
<1>17. map'.keys = r.addr /\ map'.vals = s.addr /\ map'.len = m /\ map'.cap = n
    BY <1>4, <1>14
<1>18. vec.addr \in Blocks => heap'[vec.addr] = heap[vec.addr]
    BY <1>11, <1>15
<1>19. ContainersTypeOK'
  <2>1. map' \in [keys : Int, vals : Int, len : Nat, cap : Nat]
    BY SMTT(30), <1>1, <1>2, <1>4, <1>8, <1>11 DEF Blocks
  <2>2. <<k, v>> \in Int \X Int
    OBVIOUS
  <2>3. mapStands' \in Seq(Int \X Int)
    BY <2>2, <1>1, <1>3
  <2> QED
    BY <2>1, <2>3, <1>3, <1>15 DEF ContainersInv, ContainersTypeOK
<1>20. Backed'
    BY <1>1, <1>2, <1>3, <1>8, <1>11, <1>14, <1>15, <1>17, <1>18 DEF Backed, IsArray
<1>21. Separate'
    BY <1>3, <1>11, <1>17 DEF Separate
<1>22. NoLeak'
  <2> SUFFICES ASSUME NEW b \in Blocks, heap'[b] # <<>>, b # r.addr, b # s.addr
               PROVE  b = vec.addr
    BY <1>3, <1>17 DEF NoLeak
  <2>1. s.heap[b] # <<>>
    BY <1>15
  <2>2. b # map.vals /\ r.heap[b] # <<>>
    BY <2>1, <1>9 DEF RoomFor
  <2>3. b # map.keys /\ heap[b] # <<>>
    BY <2>2, <1>5 DEF RoomFor
  <2> QED
    BY <2>2, <2>3 DEF ContainersInv, NoLeak
<1>23. VecHolds'
  <2>1. ASSUME NEW i \in 1 .. vec.len PROVE heap'[vec.addr][i] = vecStands[i]
    <3>1. vec.addr \in Blocks
      BY <1>1 DEF IsArray
    <3> QED
      BY <3>1, <1>18 DEF ContainersInv, VecHolds
  <2> QED
    BY <2>1, <1>3 DEF ContainersInv, VecHolds
<1>24. MapHolds'
  <2>1. /\ Len(mapStands) = map.len
        /\ \A i \in 1 .. map.len : mapStands[i] = <<heap[map.keys][i], heap[map.vals][i]>>
    BY DEF ContainersInv, MapHolds
  <2>2. /\ Len(mapStands') = m /\ mapStands'[m] = <<k, v>>
        /\ \A i \in 1 .. map.len : mapStands'[i] = mapStands[i]
    <3>1. mapStands \in Seq(Int \X Int) /\ mapStands' = Append(mapStands, <<k, v>>)
      BY <1>1, <1>3
    <3> QED
      BY SMTT(30), <3>1, <2>1, <1>14
  <2>3. ASSUME NEW i \in 1 .. m PROVE mapStands'[i] = <<heap'[r.addr][i], heap'[s.addr][i]>>
    <3>1. i \in 1 .. map.len \/ i = m
      BY <1>1, <1>14
    <3>2. CASE i = m
      BY <3>2, <2>2, <1>15
    <3>3. CASE i \in 1 .. map.len
      BY <3>3, <2>1, <2>2, <1>16
    <3> QED
      BY <3>1, <3>2, <3>3
  <2> QED
    BY <2>2, <2>3, <1>17 DEF MapHolds
<1> QED
    BY <1>19, <1>20, <1>21, <1>22, <1>23, <1>24 DEF ContainersInv

\* A set of numbers that is not empty has a least element.
LEMMA LeastIs == \A S \in SUBSET Nat : S # {} => \E i \in S : \A j \in S : i <= j
<1> SUFFICES ASSUME NEW S \in SUBSET Nat, S # {} PROVE \E i \in S : \A j \in S : i <= j
    OBVIOUS
<1>1. PICK i \in S : \A j \in S : <<j, i>> \notin OpToRel(<, Nat)
    BY WFMin, NatLessThanWellFounded, Zenon
<1>2. ASSUME NEW j \in S PROVE i <= j
  <2>1. ~(j < i)
    BY <1>1 DEF OpToRel
  <2> QED
    BY <2>1
<1> QED
    BY <1>2

\* Each step leads from one set to the next.
Leads(n, S, step, init) ==
    init \in S[0] /\ \A k \in 1 .. n : \A x \in S[k - 1] : step[k][x] \in S[k]

\* A function that takes the steps.
Follows(n, S, step, init, g) ==
    /\ g[0] = init /\ \A k \in 1 .. n : g[k] = step[k][g[k - 1]]
    /\ \A k \in 0 .. n : g[k] \in S[k]

\* A function defined by recursion over 0 .. n exists, and its values stay in
\* the sets that its steps lead to.
LEMMA Recursion ==
    ASSUME NEW n \in Nat, NEW T, NEW S \in [0 .. n -> SUBSET T], NEW step, NEW init,
           Leads(n, S, step, init)
    PROVE  \E g \in [0 .. n -> T] : Follows(n, S, step, init, g)
<1> USE DEF Leads
<1> DEFINE Upto(g, m) ==
               /\ g \in [0 .. m -> T]
               /\ g[0] = init /\ \A k \in 1 .. m : g[k] = step[k][g[k - 1]]
               /\ \A k \in 0 .. m : g[k] \in S[k]
           Not == {m \in 0 .. n : \A g : ~Upto(g, m)}
<1>1. \E g : Upto(g, 0)
  <2> DEFINE g == [k \in 0 .. 0 |-> init]
  <2>1. init \in T
    OBVIOUS
  <2>2. g \in [0 .. 0 -> T] /\ g[0] = init
    BY <2>1
  <2>3. \A k \in 1 .. 0 : g[k] = step[k][g[k - 1]]
    OBVIOUS
  <2>4. \A k \in 0 .. 0 : g[k] \in S[k]
    OBVIOUS
  <2> QED
    BY <2>2, <2>3, <2>4
<1>2. ASSUME NEW m \in 1 .. n, NEW f, Upto(f, m - 1)
      PROVE  \E g : Upto(g, m)
  <2> DEFINE g == [k \in 0 .. m |-> IF k = m THEN step[m][f[m - 1]] ELSE f[k]]
  <2>1. /\ m - 1 \in 0 .. m - 1 /\ f[m - 1] \in S[m - 1] /\ 0 \in 0 .. m - 1
        /\ f \in [0 .. m - 1 -> T]
    BY <1>2
  <2>2. step[m][f[m - 1]] \in S[m] /\ step[m][f[m - 1]] \in T
    BY <2>1
  <2>3. \A k \in 0 .. m : k = m \/ k \in 0 .. m - 1
    OBVIOUS
  <2>4. g \in [0 .. m -> T]
    BY <2>1, <2>2, <2>3
  <2>5. /\ g[m] = step[m][f[m - 1]]
        /\ \A k \in 0 .. m - 1 : g[k] = f[k]
    OBVIOUS
  <2> HIDE DEF g
  <2>6. ASSUME NEW k \in 1 .. m PROVE g[k] = step[k][g[k - 1]]
    <3>1. CASE k = m
      BY <2>1, <2>5, <3>1
    <3>2. CASE k # m
      <4>1. k \in 1 .. m - 1 /\ k \in 0 .. m - 1 /\ k - 1 \in 0 .. m - 1
        BY <3>2
      <4> QED
        BY <1>2, <2>5, <4>1
    <3> QED
      BY <3>1, <3>2
  <2>7. ASSUME NEW k \in 0 .. m PROVE g[k] \in S[k]
    BY <1>2, <2>2, <2>3, <2>5
  <2>8. g[0] = init
    BY <1>2, <2>1, <2>5
  <2> QED
    BY <2>4, <2>6, <2>7, <2>8
<1> HIDE DEF Upto
<1>3. Not = {}
  <2> SUFFICES ASSUME Not # {} PROVE FALSE
    OBVIOUS
  <2>1. PICK m \in Not : \A k \in Not : m <= k
    <3>1. Not \in SUBSET Nat
      OBVIOUS
    <3> HIDE DEF Not
    <3> QED
      BY <3>1, LeastIs
  <2>2. m # 0
    BY <1>1
  <2>3. m \in 1 .. n /\ m - 1 \in 0 .. n /\ m - 1 \notin Not
    BY <2>1, <2>2
  <2>4. PICK f : Upto(f, m - 1)
    BY <2>3
  <2>5. \E g : Upto(g, m)
    BY <1>2, <2>3, <2>4
  <2> QED
    BY <2>5
<1>4. PICK g : Upto(g, n)
  <2>1. n \in 0 .. n
    OBVIOUS
  <2> QED
    BY <1>3, <2>1
<1> QED
    BY <1>4 DEF Upto, Follows

\* Where the steps of a function lead, its values are.
LEMMA Induction ==
    ASSUME NEW n \in Nat, NEW S, NEW f, f[0] \in S[0],
           \A k \in 1 .. n : f[k - 1] \in S[k - 1] => f[k] \in S[k]
    PROVE  \A k \in 0 .. n : f[k] \in S[k]
<1> DEFINE Not == {k \in 0 .. n : f[k] \notin S[k]}
<1> SUFFICES ASSUME Not # {} PROVE FALSE
    OBVIOUS
<1>1. PICK m \in Not : \A k \in Not : m <= k
  <2>1. Not \in SUBSET Nat
    OBVIOUS
  <2> HIDE DEF Not
  <2> QED
    BY <2>1, LeastIs
<1>2. m \in 1 .. n /\ m - 1 \in 0 .. n /\ m - 1 \notin Not
    BY <1>1
<1> QED
    BY <1>2

LEMMA ContainersStart == ContainersInit => ContainersInv
<1> SUFFICES ASSUME ContainersInit PROVE ContainersInv
    OBVIOUS
<1>1. heap \in Heaps /\ \A b \in Blocks : heap[b] = <<>>
    BY DEF ContainersInit, Heaps
<1>2. ContainersTypeOK
    BY <1>1 DEF ContainersInit, ContainersTypeOK, VecNew, MapNew
<1>3. Backed /\ Separate
    BY DEF ContainersInit, Backed, Separate, IsArray, VecNew, MapNew, Blocks
<1>4. NoLeak /\ VecHolds /\ MapHolds
    BY <1>1 DEF ContainersInit, NoLeak, VecHolds, MapHolds, VecNew, MapNew
<1> QED
    BY <1>2, <1>3, <1>4 DEF ContainersInv

\* Through every sequence of appends, stores, moves and frees each array is a
\* block of its own with its container's capacity, and holds what was stored
\* (vec_push, vec_set, vec_free, map_insert).
THEOREM ContainersInvariance == ContainersSpec => []ContainersInv
<1>1. ContainersInv /\ [ContainersNext]_containerVars => ContainersInv'
  <2> SUFFICES ASSUME ContainersInv, [ContainersNext]_containerVars PROVE ContainersInv'
    OBVIOUS
  <2>1. ASSUME NEW v \in Items, VecPush(v) PROVE ContainersInv'
    BY <2>1, VecPushKeeps, ContainersAssumption
  <2>2. ASSUME NEW v \in Items, NEW i \in 1 .. vec.len, VecSet(i, v) PROVE ContainersInv'
    BY <2>2, VecSetKeeps, ContainersAssumption
  <2>3. ASSUME NEW k \in Items, NEW v \in Items, MapInsert(k, v) PROVE ContainersInv'
    BY <2>3, MapInsertKeeps, ContainersAssumption
  <2>4. CASE UNCHANGED containerVars
    BY <2>4 DEF containerVars, ContainersInv, ContainersTypeOK, Backed, Separate, NoLeak,
                VecHolds, MapHolds
  <2> QED
    BY <2>1, <2>2, <2>3, <2>4, VecFreeKeeps DEF ContainersNext
<1> QED
    BY <1>1, ContainersStart, PTL DEF ContainersSpec

\* Nothing is leaked, shared, or written past its end, for every number of
\* addresses and however the arrays move (__mind_realloc under vec_push and
\* map_insert).
THEOREM ContainersOwnBlocks == ContainersSpec => []BlocksOwned
<1>1. ContainersInv => BlocksOwned
  <2> SUFFICES ASSUME ContainersInv PROVE BlocksOwned
    OBVIOUS
  <2> DEFINE ov == <<"vec", vec.addr, vec.cap>>
             ok == <<"keys", map.keys, map.cap>>
             oa == <<"vals", map.vals, map.cap>>
             Mine(b) == {o \in {ov, ok, oa} : o[2] = b}
  <2>1. /\ heap \in Heaps /\ IsArray(heap, vec.addr, vec.cap)
        /\ IsArray(heap, map.keys, map.cap) /\ IsArray(heap, map.vals, map.cap)
    BY ContainersFacts
  <2>2. /\ ov[2] = vec.addr /\ ov[3] = vec.cap /\ ok[2] = map.keys /\ ok[3] = map.cap
        /\ oa[2] = map.vals /\ oa[3] = map.cap
    OBVIOUS
  <2> HIDE DEF ov, ok, oa
  <2>3. ASSUME NEW b \in Blocks, heap[b] = <<>> PROVE Mine(b) = {}
    <3>1. b # vec.addr /\ b # map.keys /\ b # map.vals
      BY <2>1, <2>3 DEF IsArray, Blocks
    <3> QED
      BY <3>1, <2>2
  <2>4. ASSUME NEW b \in Blocks, heap[b] # <<>>
        PROVE  \E o \in Mine(b) : Mine(b) = {o} /\ DOMAIN heap[b] = 1 .. o[3]
    <3>1. b \in {vec.addr, map.keys, map.vals}
      BY <2>4 DEF ContainersInv, NoLeak
    <3>2. DOMAIN heap[b] = 1 .. Len(heap[b])
      BY <2>1 DEF Heaps
    <3>3. CASE b = vec.addr
      <4>1. b # map.keys /\ b # map.vals /\ DOMAIN heap[b] = 1 .. vec.cap
        BY <3>2, <3>3, <2>1 DEF ContainersInv, Separate, IsArray, Blocks
      <4> QED
        BY <4>1, <3>3, <2>2
    <3>4. CASE b = map.keys
      <4>1. b # vec.addr /\ b # map.vals /\ DOMAIN heap[b] = 1 .. map.cap
        BY <3>2, <3>4, <2>1 DEF ContainersInv, Separate, IsArray, Blocks
      <4> QED
        BY <4>1, <3>4, <2>2
    <3>5. CASE b = map.vals
      <4>1. b # vec.addr /\ b # map.keys /\ DOMAIN heap[b] = 1 .. map.cap
        BY <3>2, <3>5, <2>1 DEF ContainersInv, Separate, IsArray, Blocks
      <4> QED
        BY <4>1, <3>5, <2>2
    <3> QED
      BY <3>1, <3>3, <3>4, <3>5
  <2>5. \A b \in Blocks : IF heap[b] = <<>> THEN Mine(b) = {}
                          ELSE \E o \in Mine(b) : Mine(b) = {o} /\ DOMAIN heap[b] = 1 .. o[3]
    BY <2>3, <2>4
  <2> QED
    BY <2>5 DEF BlocksOwned, ov, ok, oa
<1> QED
    BY <1>1, ContainersInvariance, PTL

\* A vector is what was pushed and set, a map the pairs inserted, and a lookup
\* finds the first value of its key, through every reallocation of either
\* (vec_get, map_get).
THEOREM ContainersHoldAll == ContainersSpec => []ContainersExact
<1>1. ContainersInv => ContainersExact
  <2> SUFFICES ASSUME ContainersInv PROVE ContainersExact
    OBVIOUS
  <2>1. /\ vecStands \in Seq(Int) /\ mapStands \in Seq(Int \X Int)
        /\ vec.len \in Nat /\ map.len \in Nat
    BY ContainersFacts
  <2>2. /\ Len(vecStands) = vec.len /\ Len(mapStands) = map.len
        /\ DOMAIN vecStands = 1 .. vec.len /\ DOMAIN mapStands = 1 .. map.len
    BY <2>1 DEF ContainersInv, VecHolds, MapHolds
  <2>3. VecElements = vecStands
    BY <2>1, <2>2 DEF ContainersInv, VecHolds, VecElements
  <2>4. \A i \in 1 .. map.len : mapStands[i] = <<heap[map.keys][i], heap[map.vals][i]>>
    BY DEF ContainersInv, MapHolds
  <2>5. Pairs = mapStands
    BY SMTT(30), <2>1, <2>2, <2>4 DEF Pairs
  <2>6. ASSUME NEW k \in Items
        PROVE  LET n == {i \in DOMAIN mapStands : mapStands[i][1] = k}
               IN  MapGet(k) = IF n = {} THEN 0
                               ELSE mapStands[CHOOSE i \in n : \A j \in n : i <= j][2]
    <3> DEFINE n == {i \in DOMAIN mapStands : mapStands[i][1] = k}
               hits == {i \in 1 .. map.len : heap[map.keys][i] = k}
               least == CHOOSE i \in n : \A j \in n : i <= j
    <3>1. \A i \in 1 .. map.len : /\ mapStands[i][1] = heap[map.keys][i]
                                  /\ mapStands[i][2] = heap[map.vals][i]
      BY <2>4
    <3>2. hits = n
      BY <3>1, <2>2
    <3>3. n # {} => least \in n
      <4> SUFFICES ASSUME n # {} PROVE \E i \in n : \A j \in n : i <= j
        OBVIOUS
      <4>1. n \in SUBSET Nat
        BY <2>1, <2>2
      <4> HIDE DEF n
      <4> QED
        BY <4>1, LeastIs
    <3>4. n # {} => mapStands[least][2] = heap[map.vals][least]
      BY <3>1, <3>3, <2>2
    <3>5. MapGet(k) = IF hits = {} THEN 0
                      ELSE heap[map.vals][CHOOSE i \in hits : \A j \in hits : i <= j]
      BY DEF MapGet
    <3> HIDE DEF n, hits
    <3> QED
      BY <3>2, <3>4, <3>5 DEF n
  <2> QED
    BY <2>3, <2>5, <2>6 DEF ContainersExact
<1> QED
    BY <1>1, ContainersInvariance, PTL

-----------------------------------------------------------------------------
(***************************************************************************)
(* The byte ring.                                                          *)
(***************************************************************************)

\* What a byte of the block may be.
Stuff == Int \cup {Junk}

\* A ring that exists: the block has cap bytes, and no more than that are in
\* use, however far the positions have run.
IsRing(r) ==
    /\ r = [cap |-> r.cap, head |-> r.head, tail |-> r.tail, mem |-> r.mem]
    /\ r.cap \in Nat \ {0} /\ r.head \in Nat /\ r.tail \in Nat
    /\ r.mem \in [0 .. r.cap - 1 -> Stuff]
    /\ r.head <= r.tail /\ r.tail - r.head <= r.cap

RingInv == ring = NoRing \/ IsRing(ring)

\* Positions less than cap apart have slots of their own: what makes the ring
\* right when it wraps.
LEMMA SlotsApart ==
    ASSUME NEW c \in Nat \ {0}, NEW a \in Nat, NEW b \in Nat, a < b, b - a < c
    PROVE  a % c # b % c
<1> SUFFICES ASSUME a % c = b % c PROVE FALSE
    OBVIOUS
<1> DEFINE p == a \div c
           q == b \div c
           m == a % c
<1>1. p \in Int /\ q \in Int /\ m \in Int /\ a = c * p + m /\ b = c * q + m
    OBVIOUS
<1> HIDE DEF p, q, m
<1>2. b - a = c * q - c * p
    BY <1>1
<1>3. c * q - c * p = c * (q - p)
    BY <1>1
<1>4. q - p >= 1
  <2> SUFFICES ASSUME q - p < 1 PROVE FALSE
    BY <1>1
  <2>1. \A d \in Int : d < 1 => c * d <= 0
    OBVIOUS
  <2> QED
    BY <2>1, <1>1, <1>2, <1>3
<1>5. \A d \in Nat \ {0} : c * d >= c
    OBVIOUS
<1> QED
    BY <1>1, <1>2, <1>3, <1>4, <1>5

LEMMA SlotIn == \A a \in Nat, c \in Nat \ {0} : a % c \in 0 .. c - 1
OBVIOUS

\* The content is a sequence of the bytes in use.
LEMMA ContentIs ==
    ASSUME NEW r, IsRing(r)
    PROVE  /\ Content(r) \in Seq(Stuff) /\ Len(Content(r)) = r.tail - r.head
           /\ \A k \in 1 .. r.tail - r.head : Content(r)[k] = r.mem[(r.head + k - 1) % r.cap]
<1> DEFINE n == r.tail - r.head
<1>1. n \in Nat
    BY DEF IsRing
<1>2. Content(r) = [k \in 1 .. n |-> r.mem[(r.head + k - 1) % r.cap]]
    BY DEF Content, RingLen, Slot
<1>3. ASSUME NEW k \in 1 .. n PROVE r.mem[(r.head + k - 1) % r.cap] \in Stuff
  <2>1. r.head + k - 1 \in Nat /\ r.cap \in Nat \ {0}
    BY <1>1 DEF IsRing
  <2>2. (r.head + k - 1) % r.cap \in 0 .. r.cap - 1
    BY <2>1, SlotIn
  <2> QED
    BY <2>2 DEF IsRing
<1> HIDE DEF n
<1>4. Content(r) \in [1 .. n -> Stuff]
    BY <1>2, <1>3
<1>5. Content(r) \in Seq(Stuff) /\ Len(Content(r)) = n
    BY <1>1, <1>4
<1> QED
    BY <1>2, <1>5 DEF n

\* A push that finds room: the ring stays one, and its content gains the byte.
LEMMA PushedIs ==
    ASSUME NEW r, NEW v \in Int, IsRing(r), ~IsFull(r)
    PROVE  /\ IsRing(Pushed(r, v)) /\ Pushed(r, v).cap = r.cap
           /\ Content(Pushed(r, v)) = Append(Content(r), v % ByteBase)
<1> DEFINE new == Pushed(r, v)
           n == r.tail - r.head
           at == r.tail % r.cap
           byte == v % ByteBase
<1>1. /\ r.cap \in Nat \ {0} /\ r.head \in Nat /\ r.tail \in Nat
      /\ r.mem \in [0 .. r.cap - 1 -> Stuff]
      /\ r.head <= r.tail /\ n < r.cap /\ n \in Nat
    BY DEF IsRing, IsFull, RingLen
<1>2. at \in 0 .. r.cap - 1 /\ byte \in Stuff
  <2>1. byte \in Int
    BY RingAssumption
  <2> QED
    BY <2>1, <1>1, SlotIn DEF Stuff
<1>3. new = [r EXCEPT !.mem[at] = byte, !.tail = @ + 1]
    BY DEF Pushed, Slot
<1>4. /\ new.cap = r.cap /\ new.head = r.head /\ new.tail = r.tail + 1
      /\ new.mem = [r.mem EXCEPT ![at] = byte]
      /\ new = [cap |-> new.cap, head |-> new.head, tail |-> new.tail, mem |-> new.mem]
    BY <1>3 DEF IsRing
<1> HIDE DEF new, at, byte
<1>5. /\ new.mem \in [0 .. r.cap - 1 -> Stuff] /\ new.mem[at] = byte
      /\ \A i \in 0 .. r.cap - 1 : i # at => new.mem[i] = r.mem[i]
    BY <1>1, <1>2, <1>4
<1>6. IsRing(new)
    BY <1>1, <1>4, <1>5 DEF IsRing
<1>7. /\ Content(r) \in Seq(Stuff) /\ Len(Content(r)) = n
      /\ \A k \in 1 .. n : Content(r)[k] = r.mem[(r.head + k - 1) % r.cap]
    BY ContentIs
<1>8. /\ Content(new) \in Seq(Stuff) /\ Len(Content(new)) = n + 1
      /\ \A k \in 1 .. n + 1 : Content(new)[k] = new.mem[(r.head + k - 1) % r.cap]
  <2>1. new.tail - new.head = n + 1
    BY <1>1, <1>4
  <2>2. /\ Content(new) \in Seq(Stuff) /\ Len(Content(new)) = new.tail - new.head
        /\ \A k \in 1 .. new.tail - new.head :
             Content(new)[k] = new.mem[(new.head + k - 1) % new.cap]
    BY <1>6, ContentIs
  <2> QED
    BY <2>1, <2>2, <1>4
<1>9. Content(new)[n + 1] = byte
  <2>1. n + 1 \in 1 .. n + 1 /\ r.head + (n + 1) - 1 = r.tail
    BY <1>1
  <2> QED
    BY <2>1, <1>5, <1>8 DEF at
<1>10. ASSUME NEW k \in 1 .. n PROVE Content(new)[k] = Content(r)[k]
  <2> DEFINE pos == r.head + k - 1
  <2>1. pos \in Nat /\ pos < r.tail /\ r.tail - pos < r.cap /\ k \in 1 .. n + 1
    BY SMTT(30), <1>1
  <2>2. pos % r.cap # at
    <3> HIDE DEF pos
    <3> QED
      BY <2>1, <1>1, SlotsApart DEF at
  <2>3. pos % r.cap \in 0 .. r.cap - 1
    BY <2>1, <1>1, SlotIn
  <2> QED
    BY <2>1, <2>2, <2>3, <1>5, <1>7, <1>8
<1>11. /\ Append(Content(r), byte) \in Seq(Stuff)
       /\ Len(Append(Content(r), byte)) = n + 1
       /\ Append(Content(r), byte)[n + 1] = byte
       /\ \A k \in 1 .. n : Append(Content(r), byte)[k] = Content(r)[k]
    BY <1>2, <1>7, AppendProperties
<1>12. Content(new) = Append(Content(r), byte)
  <2>1. \A k \in 1 .. n + 1 : Content(new)[k] = Append(Content(r), byte)[k]
    BY <1>1, <1>9, <1>10, <1>11
  <2> QED
    BY <2>1, <1>8, <1>11, SeqEqual
<1> QED
    BY <1>4, <1>6, <1>12 DEF new, byte

\* A pop that finds a byte: the oldest leaves.
LEMMA PoppedIs ==
    ASSUME NEW r, IsRing(r), r.head < r.tail
    PROVE  /\ IsRing(Popped(r)) /\ Popped(r).cap = r.cap
           /\ Content(r) # <<>> /\ Byte(r) = Head(Content(r))
           /\ Content(Popped(r)) = Tail(Content(r))
<1> DEFINE new == Popped(r)
           n == r.tail - r.head
<1>1. /\ r.cap \in Nat \ {0} /\ r.head \in Nat /\ r.tail \in Nat
      /\ n \in Nat \ {0} /\ n <= r.cap
    BY DEF IsRing
<1>2. new = [r EXCEPT !.head = @ + 1]
    BY <1>1 DEF Popped
<1>3. /\ new.cap = r.cap /\ new.head = r.head + 1 /\ new.tail = r.tail
      /\ new.mem = r.mem
      /\ new = [cap |-> new.cap, head |-> new.head, tail |-> new.tail, mem |-> new.mem]
    BY <1>2 DEF IsRing
<1> HIDE DEF new
<1>4. IsRing(new)
    BY <1>1, <1>3 DEF IsRing
<1>5. /\ Content(r) \in Seq(Stuff) /\ Len(Content(r)) = n
      /\ \A k \in 1 .. n : Content(r)[k] = r.mem[(r.head + k - 1) % r.cap]
    BY ContentIs
<1>6. /\ Content(new) \in Seq(Stuff) /\ Len(Content(new)) = n - 1
      /\ \A k \in 1 .. n - 1 : Content(new)[k] = r.mem[(r.head + 1 + k - 1) % r.cap]
  <2>1. new.tail - new.head = n - 1
    BY <1>1, <1>3
  <2> QED
    BY <2>1, <1>3, <1>4, ContentIs
<1>7. Content(r) # <<>> /\ Byte(r) = Head(Content(r))
  <2>1. 1 \in 1 .. n /\ r.head + 1 - 1 = r.head
    BY <1>1
  <2>2. Content(r)[1] = r.mem[r.head % r.cap]
    BY <2>1, <1>5
  <2>3. Byte(r) = r.mem[r.head % r.cap]
    BY <1>1 DEF Byte, Slot
  <2>4. Content(r) # <<>> /\ Head(Content(r)) = Content(r)[1]
    BY <1>1, <1>5, EmptySeq, HeadTailProperties
  <2> QED
    BY <2>2, <2>3, <2>4
<1>8. /\ Tail(Content(r)) \in Seq(Stuff) /\ Len(Tail(Content(r))) = n - 1
      /\ \A k \in 1 .. n - 1 : Tail(Content(r))[k] = Content(r)[k + 1]
    BY <1>1, <1>5, <1>7, HeadTailProperties
<1>9. ASSUME NEW k \in 1 .. n - 1 PROVE Content(new)[k] = Tail(Content(r))[k]
  <2>1. k + 1 \in 1 .. n /\ r.head + 1 + k - 1 = r.head + (k + 1) - 1
    BY <1>1
  <2> QED
    BY <2>1, <1>5, <1>6, <1>8
<1>10. Content(new) = Tail(Content(r))
    BY <1>6, <1>8, <1>9, SeqEqual
<1> QED
    BY <1>3, <1>4, <1>7, <1>10 DEF new

LEMMA NoContent ==
    /\ Content(NoRing) = <<>>
    /\ \A r : IsRing(r) /\ r.head = r.tail => Content(r) = <<>>
<1>1. Content(NoRing) = <<>>
    BY DEF Content, NoRing, RingLen
<1>2. ASSUME NEW r, IsRing(r), r.head = r.tail PROVE Content(r) = <<>>
  <2>1. r.tail - r.head = 0
    BY <1>2 DEF IsRing
  <2>2. Content(r) \in Seq(Stuff) /\ Len(Content(r)) = 0
    BY <2>1, <1>2, ContentIs
  <2> QED
    BY <2>2, EmptySeq
<1> QED
    BY <1>1, <1>2

\* One call of the ring is one call of the queue.
LEMMA RingStep ==
    ASSUME RingInv, [RingNext]_ringVars
    PROVE  RingInv' /\ [Fifo!Next]_<<Content(ring), ring.cap, answer>>
<1>0. NoRing.cap = 0 /\ (IsRing(ring) => ring.cap > 0)
    BY DEF NoRing, IsRing
<1>1. ASSUME NEW n \in Asked, RingNew(n) PROVE RingInv' /\ Fifo!Next
  <2>1. ring = NoRing /\ ring.cap = 0 /\ Content(ring) = <<>>
    BY <1>0, <1>1, NoContent DEF RingNew
  <2>2. CASE UNCHANGED ring /\ answer' = <<0>>
    <3>1. RingInv'
      BY <2>1, <2>2 DEF RingInv
    <3> QED
      BY <3>1, <2>1, <2>2 DEF Fifo!Refuse, Fifo!Next
  <2>3. CASE /\ 0 < n /\ n <= MaxCap /\ answer' = <<1>>
             /\ ring' = [cap |-> n, head |-> 0, tail |-> 0, mem |-> [s \in 0 .. n - 1 |-> Junk]]
    <3>1. /\ ring'.cap = n /\ ring'.head = 0 /\ ring'.tail = 0
          /\ ring'.mem = [s \in 0 .. n - 1 |-> Junk] /\ n \in Nat \ {0}
      BY <2>3, RingAssumption
    <3>2. ring'.mem \in [0 .. n - 1 -> Stuff]
      BY <3>1 DEF Stuff
    <3>3. IsRing(ring')
      BY <2>3, <3>1, <3>2 DEF IsRing
    <3>4. Content(ring') = <<>>
      BY <3>1, <3>3, NoContent
    <3> QED
      BY <3>1, <3>3, <3>4, <2>1, <2>3 DEF RingInv, Fifo!New, Fifo!Next
  <2> QED
    BY <1>1, <2>2, <2>3 DEF RingNew
<1>2. ASSUME ring # NoRing
      PROVE  /\ IsRing(ring) /\ ring.cap > 0 /\ ring.cap \in Nat
             /\ Content(ring) \in Seq(Stuff) /\ Len(Content(ring)) = ring.tail - ring.head
    BY <1>0, <1>2, ContentIs DEF RingInv, IsRing
<1>3. ASSUME NEW v \in Inputs, RingPush(v) PROVE RingInv' /\ Fifo!Push(v)
  <2>1. /\ ring' = Pushed(ring, v) /\ answer' = <<IF IsFull(ring) THEN 0 ELSE 1>>
        /\ ring # NoRing /\ v \in Int
    BY <1>3, RingAssumption DEF RingPush
  <2>2. CASE IsFull(ring)
    <3>1. ring' = ring /\ answer' = <<0>> /\ ~(Len(Content(ring)) < ring.cap)
      BY <2>1, <2>2, <1>2 DEF Pushed, IsFull, RingLen, IsRing
    <3> QED
      BY <3>1, <2>1, <1>2 DEF Fifo!Push, RingInv
  <2>3. CASE ~IsFull(ring)
    <3>1. answer' = <<1>> /\ Len(Content(ring)) < ring.cap
      BY <2>1, <2>3, <1>2 DEF IsFull, RingLen, IsRing
    <3>2. /\ IsRing(ring') /\ ring'.cap = ring.cap
          /\ Content(ring') = Append(Content(ring), v % ByteBase)
      BY <2>1, <2>3, <1>2, PushedIs
    <3> QED
      BY <3>1, <3>2, <2>1, <1>2 DEF Fifo!Push, RingInv
  <2> QED
    BY <2>2, <2>3
<1>4. CASE RingPop
  <2>1. ring' = Popped(ring) /\ answer' = <<Byte(ring)>> /\ ring # NoRing
    BY <1>4 DEF RingPop
  <2>2. CASE ring.head < ring.tail
    <3>1. /\ IsRing(ring') /\ ring'.cap = ring.cap
          /\ Content(ring) # <<>> /\ Byte(ring) = Head(Content(ring))
          /\ Content(ring') = Tail(Content(ring))
      BY <2>1, <2>2, <1>2, PoppedIs
    <3> QED
      BY <3>1, <2>1, <1>2 DEF RingInv, Fifo!Pop, Fifo!Next
  <2>3. CASE ~(ring.head < ring.tail)
    <3>1. ring.head = ring.tail /\ ring.head >= ring.tail
      BY <2>1, <2>3, <1>2 DEF IsRing
    <3>2. ring' = ring /\ answer' = <<-1>> /\ Content(ring) = <<>>
      BY <3>1, <2>1, <1>2, NoContent DEF Popped, Byte
    <3> QED
      BY <3>2, <2>1, <1>2 DEF RingInv, Fifo!Pop, Fifo!Next
  <2> QED
    BY <2>2, <2>3
<1>5. CASE RingClear
  <2>1. ring' = [ring EXCEPT !.head = 0, !.tail = 0] /\ answer' = <<0>> /\ ring # NoRing
    BY <1>5 DEF RingClear
  <2>2. /\ ring'.cap = ring.cap /\ ring'.head = 0 /\ ring'.tail = 0 /\ ring'.mem = ring.mem
        /\ ring' = [cap |-> ring'.cap, head |-> ring'.head, tail |-> ring'.tail, mem |-> ring'.mem]
    BY <2>1, <1>2 DEF IsRing
  <2>3. IsRing(ring')
    BY <2>1, <2>2, <1>2 DEF IsRing
  <2>4. Content(ring') = <<>>
    BY <2>2, <2>3, NoContent
  <2> QED
    BY <2>1, <2>2, <2>3, <2>4, <1>2 DEF RingInv, Fifo!Clear, Fifo!Next
<1>6. CASE RingFree
  <2>1. ring' = NoRing /\ answer' = <<0>> /\ ring # NoRing
    BY <1>6 DEF RingFree
  <2>2. Content(ring') = <<>> /\ ring'.cap = 0
    BY <2>1, <1>0, NoContent
  <2> QED
    BY <2>1, <2>2, <1>2 DEF RingInv, Fifo!Free, Fifo!Next
<1>7. CASE UNCHANGED ringVars
    BY <1>7 DEF ringVars, RingInv
<1> QED
    BY <1>1, <1>3, <1>4, <1>5, <1>6, <1>7 DEF RingNext, Fifo!Next

Bytes == 0 .. ByteBase - 1

\* The rings of a capacity.
RingsOf(c) == {r \in [cap : {c}, head : Nat, tail : Nat, mem : [0 .. c - 1 -> Stuff]] : IsRing(r)}

\* The first bytes of vs, as many as there are.
Bytewise(vs, m) == [k \in 1 .. m |-> vs[k] % ByteBase]

LEMMA RingIn == ASSUME NEW r, IsRing(r) PROVE r \in RingsOf(r.cap)
<1>1. /\ r = [cap |-> r.cap, head |-> r.head, tail |-> r.tail, mem |-> r.mem]
      /\ r.head \in Nat /\ r.tail \in Nat /\ r.mem \in [0 .. r.cap - 1 -> Stuff]
    BY DEF IsRing
<1>2. r \in [cap : {r.cap}, head : Nat, tail : Nat, mem : [0 .. r.cap - 1 -> Stuff]]
    BY <1>1
<1> QED
    BY <1>2 DEF RingsOf

LEMMA AppendToConcat ==
    \A a, b \in Seq(Stuff) : \A e \in Stuff : Append(a \o b, e) = a \o Append(b, e)
<1> SUFFICES ASSUME NEW a \in Seq(Stuff), NEW b \in Seq(Stuff), NEW e \in Stuff
             PROVE  Append(a \o b, e) = a \o Append(b, e)
    OBVIOUS
<1> DEFINE l == Append(a \o b, e)
           r == a \o Append(b, e)
           n == Len(a) + Len(b)
<1>1. /\ a \o b \in Seq(Stuff) /\ Len(a \o b) = n /\ n \in Nat
      /\ \A i \in 1 .. n : (a \o b)[i] = IF i <= Len(a) THEN a[i] ELSE b[i - Len(a)]
    BY ConcatProperties
<1>2. /\ l \in Seq(Stuff) /\ Len(l) = n + 1 /\ l[n + 1] = e
      /\ \A i \in 1 .. n : l[i] = (a \o b)[i]
    BY <1>1, AppendProperties
<1>3. /\ Append(b, e) \in Seq(Stuff) /\ Len(Append(b, e)) = Len(b) + 1
      /\ Append(b, e)[Len(b) + 1] = e /\ \A i \in 1 .. Len(b) : Append(b, e)[i] = b[i]
    BY AppendProperties
<1>4. /\ r \in Seq(Stuff) /\ Len(r) = n + 1
      /\ \A i \in 1 .. n + 1 : r[i] = IF i <= Len(a) THEN a[i] ELSE Append(b, e)[i - Len(a)]
  <2> DEFINE c == Append(b, e)
  <2> HIDE DEF c
  <2>1. /\ a \o c \in Seq(Stuff) /\ Len(a \o c) = Len(a) + Len(c)
        /\ \A i \in 1 .. Len(a) + Len(c) : (a \o c)[i] = IF i <= Len(a) THEN a[i] ELSE c[i - Len(a)]
    BY <1>3, ConcatProperties DEF c
  <2>2. Len(a) + Len(c) = n + 1
    BY <1>3 DEF c
  <2> QED
    BY <2>1, <2>2 DEF c
<1>5. Len(a) \in Nat /\ Len(b) \in Nat
    OBVIOUS
<1> HIDE DEF l, r
<1>6. ASSUME NEW i \in 1 .. n + 1 PROVE l[i] = r[i]
  <2>1. CASE i = n + 1
    <3>1. ~(i <= Len(a)) /\ i - Len(a) = Len(b) + 1
      BY <1>5, <2>1
    <3> QED
      BY <1>2, <1>3, <1>4, <2>1, <3>1
  <2>2. CASE i \in 1 .. n
    <3>1. CASE i <= Len(a)
      BY <1>1, <1>2, <1>4, <2>2, <3>1
    <3>2. CASE ~(i <= Len(a))
      <4>1. i - Len(a) \in 1 .. Len(b)
        BY <1>5, <2>2, <3>2
      <4> QED
        BY <1>1, <1>2, <1>3, <1>4, <2>2, <3>2, <4>1
    <3> QED
      BY <3>1, <3>2
  <2>3. i = n + 1 \/ i \in 1 .. n
    BY <1>5
  <2> QED
    BY <2>1, <2>2, <2>3
<1>7. l = r
  <2>1. Len(l) = Len(r) /\ \A i \in 1 .. Len(l) : l[i] = r[i]
    BY <1>2, <1>4, <1>6
  <2> QED
    BY <1>2, <1>4, <2>1, SeqEqual
<1> QED
    BY <1>7 DEF l, r

LEMMA FilledIs ==
    ASSUME NEW r, IsRing(r), NEW vs \in Seq(Int)
    PROVE  LET left == r.cap - Len(Content(r))
               m    == IF Len(vs) < left THEN Len(vs) ELSE left
               new  == Filled(r, vs)
           IN  /\ IsRing(new) /\ new.cap = r.cap /\ new.tail = r.tail + m
               /\ Content(new) = Content(r) \o Bytewise(vs, m)
<1> DEFINE n == Len(vs)
           len == Len(Content(r))
           left == r.cap - len
           M(k) == IF k < left THEN k ELSE left
           Good(x, k) == /\ x.tail = r.tail + M(k) /\ x.head = r.head
                         /\ Content(x) = Content(r) \o Bytewise(vs, M(k))
           S == [k \in 0 .. n |-> {x \in RingsOf(r.cap) : Good(x, k)}]
           step == [k \in 1 .. n |-> [x \in RingsOf(r.cap) |-> Pushed(x, vs[k])]]
           After == CHOOSE f : f = [k \in 0 .. Len(vs) |->
                        IF k = 0 THEN r ELSE Pushed(f[k - 1], vs[k])]
<1>1. Filled(r, vs) = After[n]
    BY DEF Filled
<1>2. /\ n \in Nat /\ len \in Nat /\ left \in Nat /\ r.cap \in Nat \ {0}
      /\ r.tail \in Nat /\ r.head \in Nat /\ r.tail - r.head = len
      /\ Content(r) \in Seq(Stuff)
  <2>1. /\ r.cap \in Nat \ {0} /\ r.tail \in Nat /\ r.head \in Nat
        /\ r.head <= r.tail /\ r.tail - r.head <= r.cap
    BY DEF IsRing
  <2>2. Content(r) \in Seq(Stuff) /\ len = r.tail - r.head
    BY ContentIs
  <2>3. n \in Nat
    OBVIOUS
  <2> HIDE DEF n, len
  <2> QED
    BY <2>1, <2>2, <2>3
<1>3. n = Len(vs) /\ len = Len(Content(r)) /\ \A i \in 1 .. n : vs[i] \in Int
    OBVIOUS
<1> HIDE DEF n, len, left
<1>4. \A k \in 0 .. n : M(k) \in Nat /\ M(k) <= k /\ M(k) <= left
    BY <1>2
<1>5. \A k \in 0 .. n : /\ Bytewise(vs, M(k)) \in Seq(Stuff) /\ Len(Bytewise(vs, M(k))) = M(k)
                        /\ \A i \in 1 .. M(k) : Bytewise(vs, M(k))[i] = vs[i] % ByteBase
  <2> SUFFICES ASSUME NEW k \in 0 .. n
               PROVE  /\ Bytewise(vs, M(k)) \in Seq(Stuff) /\ Len(Bytewise(vs, M(k))) = M(k)
                      /\ \A i \in 1 .. M(k) : Bytewise(vs, M(k))[i] = vs[i] % ByteBase
    OBVIOUS
  <2>1. M(k) \in Nat /\ M(k) <= n
    BY <1>2, <1>4
  <2> HIDE DEF M
  <2>2. ASSUME NEW i \in 1 .. M(k) PROVE vs[i] % ByteBase \in Stuff
    <3>1. vs[i] \in Int
      BY <1>3, <2>1
    <3> QED
      BY <3>1, RingAssumption DEF Stuff
  <2> QED
    BY <2>1, <2>2 DEF Bytewise
<1>6. ASSUME NEW k \in 1 .. n, NEW x \in RingsOf(r.cap), Good(x, k - 1)
      PROVE  Pushed(x, vs[k]) \in RingsOf(r.cap) /\ Good(Pushed(x, vs[k]), k)
  <2>1. /\ IsRing(x) /\ x.cap = r.cap /\ vs[k] \in Int /\ k - 1 \in 0 .. n /\ k \in 0 .. n
        /\ x.tail = r.tail + M(k - 1) /\ x.head = r.head
        /\ Content(x) = Content(r) \o Bytewise(vs, M(k - 1))
    BY <1>2, <1>3, <1>6 DEF RingsOf
  <2>2. RingLen(x) = len + M(k - 1)
    <3>1. M(k - 1) \in Nat
      BY <1>4, <2>1
    <3>2. x.tail = r.tail + M(k - 1) /\ x.head = r.head
      BY <2>1
    <3>3. r.tail \in Nat /\ r.head \in Nat /\ len \in Nat /\ r.tail - r.head = len
      BY <1>2
    <3> HIDE DEF M
    <3> QED
      BY <3>1, <3>2, <3>3 DEF RingLen
  <2>3. CASE IsFull(x)
    <3>1. M(k - 1) = left /\ M(k) = left
      <4>1. k - 1 \in Nat /\ M(k - 1) \in Nat /\ r.cap = len + left
        BY <1>2, <1>4, <2>1 DEF left
      <4>2. len + M(k - 1) >= r.cap
        BY <2>1, <2>2, <2>3 DEF IsFull
      <4> QED
        BY <1>2, <4>1, <4>2
    <3>2. Pushed(x, vs[k]) = x
      BY <2>3 DEF Pushed
    <3> HIDE DEF M
    <3> QED
      BY <2>1, <3>1, <3>2
  <2>4. CASE ~IsFull(x)
    <3>1. M(k - 1) = k - 1 /\ M(k) = k
      BY <1>2, <1>4, <2>1, <2>2, <2>4 DEF IsFull, left
    <3> HIDE DEF M
    <3>2. /\ IsRing(Pushed(x, vs[k])) /\ Pushed(x, vs[k]).cap = r.cap
          /\ Content(Pushed(x, vs[k])) = Append(Content(x), vs[k] % ByteBase)
      BY <2>1, <2>4, PushedIs
    <3>3. Pushed(x, vs[k]).tail = x.tail + 1 /\ Pushed(x, vs[k]).head = x.head
      BY <2>1, <2>4 DEF Pushed, IsRing
    <3>4. Append(Content(r) \o Bytewise(vs, k - 1), vs[k] % ByteBase) = Content(r) \o Bytewise(vs, k)
      <4> DEFINE old == Bytewise(vs, k - 1)
                 now == Bytewise(vs, k)
                 byte == vs[k] % ByteBase
      <4>1. /\ old \in Seq(Stuff) /\ Len(old) = k - 1 /\ now \in Seq(Stuff) /\ Len(now) = k
            /\ now[k] = byte /\ byte \in Stuff
            /\ \A i \in 1 .. k - 1 : now[i] = old[i]
        <5>1. k \in 1 .. k /\ k \in Nat \ {0} /\ vs[k] \in Int /\ \A i \in 1 .. k - 1 : i \in 1 .. k
          BY <1>2, <2>1
        <5>2. byte \in Stuff
          BY <5>1, RingAssumption DEF Stuff
        <5>3. /\ old \in Seq(Stuff) /\ Len(old) = k - 1
              /\ \A i \in 1 .. k - 1 : old[i] = vs[i] % ByteBase
          BY <1>5, <2>1, <3>1
        <5>4. /\ now \in Seq(Stuff) /\ Len(now) = k
              /\ \A i \in 1 .. k : now[i] = vs[i] % ByteBase
          BY <1>5, <2>1, <3>1
        <5> HIDE DEF old, now
        <5> QED
          BY <5>1, <5>2, <5>3, <5>4
      <4> HIDE DEF old, now, byte
      <4>2. now = Append(old, byte)
        BY <4>1
      <4>3. Append(Content(r) \o old, byte) = Content(r) \o Append(old, byte)
        <5> DEFINE all == Content(r)
        <5>1. all \in Seq(Stuff)
          BY <1>2
        <5> HIDE DEF all
        <5>2. Append(all \o old, byte) = all \o Append(old, byte)
          BY ONLY <4>1, <5>1, AppendToConcat
        <5> QED
          BY <5>2 DEF all
      <4> QED
        BY <4>2, <4>3 DEF old, now, byte
    <3>5. Pushed(x, vs[k]) \in RingsOf(r.cap)
      BY <3>2, RingIn
    <3>6. Pushed(x, vs[k]).tail = r.tail + k
      BY <1>2, <2>1, <3>1, <3>3
    <3>7. Content(Pushed(x, vs[k])) = Content(r) \o Bytewise(vs, k)
      BY <2>1, <3>1, <3>2, <3>4
    <3> QED
      BY <2>1, <3>1, <3>3, <3>5, <3>6, <3>7
  <2> QED
    BY <2>3, <2>4
<1>7. r \in RingsOf(r.cap) /\ Good(r, 0)
  <2>1. M(0) = 0
    BY <1>2
  <2>2. Bytewise(vs, 0) = <<>>
    BY DEF Bytewise
  <2> HIDE DEF M
  <2> QED
    BY <1>2, <2>1, <2>2, RingIn
<1> HIDE DEF Good, M
<1>8. PICK f \in [0 .. n -> RingsOf(r.cap)] :
          /\ f[0] = r /\ \A k \in 1 .. n : f[k] = step[k][f[k - 1]]
          /\ \A k \in 0 .. n : f[k] \in S[k]
  <2>1. r \in S[0]
    BY <1>2, <1>7
  <2>2. \A k \in 1 .. n : \A x \in S[k - 1] : step[k][x] \in S[k]
    BY <1>2, <1>6
  <2>3. S \in [0 .. n -> SUBSET RingsOf(r.cap)]
    OBVIOUS
  <2> HIDE DEF S, step
  <2>4. Leads(n, S, step, r)
    BY <2>1, <2>2 DEF Leads
  <2>5. \E f \in [0 .. n -> RingsOf(r.cap)] : Follows(n, S, step, r, f)
    BY <1>2, <2>3, <2>4, Recursion
  <2> QED
    BY <2>5 DEF Follows
<1>9. f = [k \in 0 .. n |-> IF k = 0 THEN r ELSE Pushed(f[k - 1], vs[k])]
  <2>1. ASSUME NEW k \in 1 .. n PROVE k - 1 \in 0 .. n /\ f[k - 1] \in RingsOf(r.cap)
    <3>1. k - 1 \in 0 .. n
      BY <1>2
    <3>2. f[k - 1] \in S[k - 1]
      BY <1>8, <3>1
    <3> QED
      BY <3>1, <3>2
  <2>2. \A k \in 1 .. n : step[k][f[k - 1]] = Pushed(f[k - 1], vs[k])
    BY <2>1
  <2> HIDE DEF step, S
  <2>3. \A k \in 1 .. n : f[k] = Pushed(f[k - 1], vs[k])
    BY <1>8, <2>2
  <2> QED
    BY <1>2, <1>8, <2>3
<1>10. After = [k \in 0 .. n |-> IF k = 0 THEN r ELSE Pushed(After[k - 1], vs[k])]
    BY <1>9 DEF n
<1> HIDE DEF After
<1>11. After[n] \in S[n]
  <2>1. After[0] \in S[0]
    BY <1>2, <1>7, <1>10
  <2>2. ASSUME NEW k \in 1 .. n, After[k - 1] \in S[k - 1] PROVE After[k] \in S[k]
    <3>1. After[k] = Pushed(After[k - 1], vs[k])
      BY <1>2, <1>10
    <3>2. After[k - 1] \in RingsOf(r.cap) /\ Good(After[k - 1], k - 1)
      BY <1>2, <2>2
    <3> QED
      BY <1>2, <1>6, <3>1, <3>2
  <2> HIDE DEF S
  <2>3. \A k \in 0 .. n : After[k] \in S[k]
    BY <1>2, <2>1, <2>2, Induction
  <2> QED
    BY <1>2, <2>3
<1>12. After[n] \in RingsOf(r.cap) /\ Good(After[n], n)
    BY <1>2, <1>11
<1>13. M(n) = IF n < left THEN n ELSE left
    BY DEF M
<1> QED
    BY <1>1, <1>12, <1>13 DEF Good, RingsOf, n, len, left

\* A byte taken off the front of a rest of q, and put behind what was taken.
LEMMA Cuts ==
    ASSUME NEW q \in Seq(Bytes), NEW k \in 1 .. Len(q)
    PROVE  /\ SubSeq(q, k, Len(q)) # <<>> /\ Head(SubSeq(q, k, Len(q))) = q[k]
           /\ Tail(SubSeq(q, k, Len(q))) = SubSeq(q, k + 1, Len(q))
           /\ Append(SubSeq(q, 1, k - 1), q[k]) = SubSeq(q, 1, k)
<1>1. k \in Nat /\ k <= Len(q) /\ Len(q) \in Nat /\ k \in 1 .. Len(q) + 1
    OBVIOUS
<1>2. SubSeq(q, k, Len(q)) # <<>> /\ Head(SubSeq(q, k, Len(q))) = q[k]
    BY <1>1
<1>3. Tail(SubSeq(q, k, Len(q))) = SubSeq(q, k + 1, Len(q))
    BY <1>1
<1>4. Append(SubSeq(q, 1, k - 1), q[k]) = SubSeq(q, 1, k)
    BY <1>1
<1> QED
    BY <1>2, <1>3, <1>4

\* Reading takes the first bytes in use, at most n.
LEMMA EmptiedIs ==
    ASSUME NEW r, IsRing(r), Content(r) \in Seq(Bytes), NEW n \in Nat
    PROVE  LET q == Content(r)
               m == IF n < Len(q) THEN n ELSE Len(q)
               e == Emptied(r, n)
           IN  /\ IsRing(e.ring) /\ e.ring.cap = r.cap
               /\ Content(e.ring) = SubSeq(q, m + 1, Len(q)) /\ e.bytes = SubSeq(q, 1, m)
<1> DEFINE q == Content(r)
           len == Len(q)
           M(k) == IF k < len THEN k ELSE len
           T == [ring : RingsOf(r.cap), bytes : Seq(Bytes)]
           Good(a, k) == /\ Content(a.ring) = SubSeq(q, M(k) + 1, len)
                         /\ a.bytes = SubSeq(q, 1, M(k))
           S == [k \in 0 .. n |-> {a \in T : Good(a, k)}]
           step == [k \in 1 .. n |-> [a \in T |-> Taken(a)]]
           init == [ring |-> r, bytes |-> <<>>]
           After == CHOOSE f : f = [k \in 0 .. n |->
                        IF k = 0 THEN [ring |-> r, bytes |-> <<>>] ELSE Taken(f[k - 1])]
<1>1. Emptied(r, n) = After[n]
    BY DEF Emptied
<1>2. len \in Nat /\ q \in Seq(Bytes) /\ len = Len(q)
    OBVIOUS
<1>3. \A b \in Bytes : b \in Int /\ b >= 0 /\ b % ByteBase = b
    BY RingAssumption DEF Bytes
<1> HIDE DEF q, len
<1>4. \A k \in 0 .. n : M(k) \in 0 .. len
    BY <1>2
<1>5. \A k \in 0 .. n : SubSeq(q, 1, M(k)) \in Seq(Bytes)
  <2> HIDE DEF M
  <2> QED
    BY <1>2, <1>4
<1>6. ASSUME NEW k \in 1 .. n, NEW a \in T, Good(a, k - 1)
      PROVE  Taken(a) \in T /\ Good(Taken(a), k)
  <2> DEFINE x == a.ring
  <2>1. /\ k - 1 \in 0 .. n /\ k \in 0 .. n /\ k \in Nat \ {0} /\ M(k - 1) \in 0 .. len
        /\ Content(x) = SubSeq(q, M(k - 1) + 1, len)
        /\ x \in RingsOf(r.cap) /\ a.bytes = SubSeq(q, 1, M(k - 1))
    BY <1>4, <1>6
  <2>2. IsRing(x) /\ x.cap = r.cap /\ x.head \in Nat /\ x.tail \in Nat /\ x.head <= x.tail
    BY <2>1 DEF RingsOf, IsRing
  <2> HIDE DEF x
  <2>3. CASE x.head < x.tail
    <3>1. /\ IsRing(Popped(x)) /\ Popped(x).cap = r.cap
          /\ Content(x) # <<>> /\ Byte(x) = Head(Content(x))
          /\ Content(Popped(x)) = Tail(Content(x))
      BY <2>2, <2>3, PoppedIs
    <3>2. M(k - 1) = k - 1 /\ M(k) = k /\ k \in 1 .. len
      <4>1. M(k - 1) # len
        <5> SUFFICES ASSUME M(k - 1) = len PROVE FALSE
          OBVIOUS
        <5>1. Content(x) = SubSeq(q, len + 1, len)
          BY <2>1
        <5>2. SubSeq(q, len + 1, len) = <<>>
          BY <1>2
        <5> QED
          BY <3>1, <5>1, <5>2
      <4> QED
        BY <1>2, <2>1, <4>1
    <3> HIDE DEF M
    <3>3. /\ SubSeq(q, k, len) # <<>> /\ Head(SubSeq(q, k, len)) = q[k]
          /\ Tail(SubSeq(q, k, len)) = SubSeq(q, k + 1, len)
          /\ Append(SubSeq(q, 1, k - 1), q[k]) = SubSeq(q, 1, k)
      BY <1>2, <3>2, Cuts
    <3>4. Content(x) = SubSeq(q, k, len)
      <4>1. M(k - 1) + 1 = k
        BY <2>1, <3>2
      <4> QED
        BY <2>1, <4>1
    <3>5. Byte(x) = q[k] /\ q[k] \in Bytes
      BY <1>2, <3>1, <3>2, <3>3, <3>4
    <3>6. Taken(a) = [ring |-> Popped(x), bytes |-> Append(a.bytes, q[k])]
      <4>1. Byte(a.ring) = q[k] /\ ~(q[k] < 0) /\ q[k] % ByteBase = q[k]
        BY <1>3, <3>5 DEF x
      <4> QED
        BY <4>1 DEF Taken, x
    <3>7. Append(a.bytes, q[k]) = SubSeq(q, 1, k)
      BY <2>1, <3>2, <3>3
    <3>8. Content(Popped(x)) = SubSeq(q, k + 1, len)
      BY <3>1, <3>3, <3>4
    <3>9. Popped(x) \in RingsOf(r.cap)
      BY <3>1, RingIn
    <3>10. SubSeq(q, 1, k) \in Seq(Bytes)
      BY <1>5, <2>1, <3>2
    <3> QED
      BY <3>2, <3>6, <3>7, <3>8, <3>9, <3>10
  <2>4. CASE ~(x.head < x.tail)
    <3>1. x.head = x.tail /\ x.head >= x.tail
      BY <2>2, <2>4
    <3>2. Byte(x) = -1 /\ Content(x) = <<>>
      BY <2>2, <3>1, NoContent DEF Byte
    <3>3. Taken(a) = a
      BY <3>2 DEF Taken, x
    <3>4. M(k - 1) = len
      <4> SUFFICES ASSUME M(k - 1) # len PROVE FALSE
        OBVIOUS
      <4> HIDE DEF M
      <4>1. M(k - 1) + 1 \in 1 .. len
        BY <1>2, <2>1
      <4>2. SubSeq(q, M(k - 1) + 1, len) # <<>>
        BY <1>2, <4>1, Cuts
      <4> QED
        BY <2>1, <3>2, <4>2
    <3>5. M(k) = len
      BY <1>2, <2>1, <3>4
    <3> HIDE DEF M
    <3> QED
      BY <1>6, <3>3, <3>4, <3>5
  <2> QED
    BY <2>3, <2>4
<1>7. init \in T /\ Good(init, 0)
  <2>1. M(0) = 0
    BY <1>2
  <2>2. SubSeq(q, 1, 0) = <<>> /\ SubSeq(q, 1, len) = q
    BY <1>2
  <2>3. init.ring = r /\ init.bytes = <<>> /\ r \in RingsOf(r.cap) /\ <<>> \in Seq(Bytes)
    BY RingIn
  <2>4. init \in T
    BY <2>3
  <2> HIDE DEF M, init, T
  <2> QED
    BY <2>1, <2>2, <2>3, <2>4 DEF q
<1> HIDE DEF Good, M, T, init
<1>8. PICK f \in [0 .. n -> T] : Follows(n, S, step, init, f)
  <2>1. init \in S[0]
    BY <1>7
  <2>2. ASSUME NEW k \in 1 .. n, NEW a \in S[k - 1] PROVE step[k][a] \in S[k]
    <3>1. a \in T /\ Good(a, k - 1) /\ k \in 0 .. n
      OBVIOUS
    <3>2. step[k][a] = Taken(a)
      BY <3>1
    <3> QED
      BY <1>6, <3>1, <3>2
  <2>3. S \in [0 .. n -> SUBSET T]
    OBVIOUS
  <2> HIDE DEF S, step
  <2>4. Leads(n, S, step, init)
    BY <2>1, <2>2 DEF Leads
  <2> QED
    BY <2>3, <2>4, Recursion
<1>9. f = [k \in 0 .. n |-> IF k = 0 THEN init ELSE Taken(f[k - 1])]
  <2>1. ASSUME NEW k \in 1 .. n PROVE f[k] = Taken(f[k - 1])
    <3>1. f[k - 1] \in T
      OBVIOUS
    <3>2. f[k] = step[k][f[k - 1]]
      BY <1>8 DEF Follows
    <3> QED
      BY <3>1, <3>2
  <2>2. f[0] = init
    BY <1>8 DEF Follows
  <2> HIDE DEF S, step
  <2> QED
    BY <2>1, <2>2
<1>10. After = [k \in 0 .. n |-> IF k = 0 THEN init ELSE Taken(After[k - 1])]
    BY <1>9 DEF init
<1> HIDE DEF After
<1>11. After[n] \in S[n]
  <2>1. After[0] \in S[0]
    BY <1>7, <1>10
  <2>2. ASSUME NEW k \in 1 .. n, After[k - 1] \in S[k - 1] PROVE After[k] \in S[k]
    <3>1. After[k] = Taken(After[k - 1])
      BY <1>10
    <3>2. After[k - 1] \in T /\ Good(After[k - 1], k - 1)
      BY <2>2
    <3> QED
      BY <1>6, <3>1, <3>2
  <2> HIDE DEF S
  <2>3. \A k \in 0 .. n : After[k] \in S[k]
    BY <2>1, <2>2, Induction
  <2> QED
    BY <2>3
<1>12. After[n] \in T /\ Good(After[n], n)
    BY <1>11
<1>13. M(n) = IF n < Len(Content(r)) THEN n ELSE Len(Content(r))
    BY DEF M, len, q
<1>14. After[n].ring \in RingsOf(r.cap)
    BY <1>12 DEF T
<1>15. IsRing(After[n].ring) /\ After[n].ring.cap = r.cap
    BY <1>14 DEF RingsOf
<1>16. /\ Content(After[n].ring) = SubSeq(Content(r), M(n) + 1, Len(Content(r)))
       /\ After[n].bytes = SubSeq(Content(r), 1, M(n))
    BY <1>12 DEF Good, q, len
<1> QED
    BY <1>1, <1>13, <1>15, <1>16

\* What is in the ring was put there: no byte of the block that was never
\* written can be read.
BulkInv == RingInv /\ Content(ring) \in Seq(Bytes)

LEMMA RingBulkStep ==
    ASSUME BulkInv, [RingBulkNext]_ringVars
    PROVE  BulkInv' /\ [Fifo!BulkNext]_<<Content(ring), ring.cap, answer>>
<1>1. CASE [RingNext]_ringVars
  <2>1. RingInv' /\ [Fifo!Next]_<<Content(ring), ring.cap, answer>>
    BY <1>1, RingStep DEF BulkInv
  <2> DEFINE old == Content(ring)
             new == Content(ring')
  <2>2. new = old \/ new = <<>> \/ (\E v \in Int : new = Append(old, v % ByteBase))
         \/ (old # <<>> /\ new = Tail(old))
    BY <2>1, RingAssumption DEF Fifo!Next, Fifo!New, Fifo!Refuse, Fifo!Push, Fifo!Pop, Fifo!Clear, Fifo!Free
  <2>3. \A v \in Int : v % ByteBase \in Bytes
    BY RingAssumption DEF Bytes
  <2>4. old \in Seq(Bytes)
    BY DEF BulkInv
  <2> HIDE DEF old, new
  <2>5. new \in Seq(Bytes)
    <3>1. CASE new = old \/ new = <<>>
      <4>1. <<>> \in Seq(Bytes)
        OBVIOUS
      <4> QED
        BY <2>4, <3>1, <4>1
    <3>2. CASE \E v \in Int : new = Append(old, v % ByteBase)
      <4>1. PICK v \in Int : new = Append(old, v % ByteBase)
        BY <3>2
      <4> DEFINE byte == v % ByteBase
      <4>2. byte \in Bytes
        BY <2>3
      <4> HIDE DEF byte
      <4>3. Append(old, byte) \in Seq(Bytes)
        BY <2>4, <4>2
      <4> QED
        BY <4>1, <4>3 DEF byte
    <3>3. CASE old # <<>> /\ new = Tail(old)
      BY <2>4, <3>3
    <3> QED
      BY <2>2, <3>1, <3>2, <3>3
  <2>6. BulkInv'
    BY <2>1, <2>5 DEF BulkInv, new
  <2>7. [Fifo!BulkNext]_<<Content(ring), ring.cap, answer>>
    BY <2>1 DEF Fifo!BulkNext
  <2> QED
    BY <2>6, <2>7
<1>2. ASSUME ring # NoRing
      PROVE  IsRing(ring) /\ ring.cap > 0 /\ ring.cap \in Nat /\ ring.tail \in Nat
    BY <1>2 DEF BulkInv, RingInv, IsRing
<1>3. ASSUME NEW n \in 0 .. MaxBulk, RingRead(n) PROVE BulkInv' /\ Fifo!BulkNext
  <2> DEFINE q == Content(ring)
             m == IF n < Len(q) THEN n ELSE Len(q)
             e == Emptied(ring, n)
  <2>1. ring # NoRing /\ ring' = e.ring /\ answer' = e.bytes /\ q \in Seq(Bytes)
    BY <1>3 DEF RingRead, BulkInv
  <2>2. /\ IsRing(ring') /\ ring'.cap = ring.cap
        /\ Content(ring') = SubSeq(q, m + 1, Len(q)) /\ answer' = SubSeq(q, 1, m)
    <3>1. IsRing(ring) /\ Content(ring) \in Seq(Bytes) /\ n \in Nat
      BY <1>2, <2>1
    <3>2. LET q2 == Content(ring)
              m2 == IF n < Len(q2) THEN n ELSE Len(q2)
              e2 == Emptied(ring, n)
          IN  /\ IsRing(e2.ring) /\ e2.ring.cap = ring.cap
              /\ Content(e2.ring) = SubSeq(q2, m2 + 1, Len(q2)) /\ e2.bytes = SubSeq(q2, 1, m2)
      BY <3>1, EmptiedIs
    <3> QED
      BY <2>1, <3>2
  <2>3. Fifo!Read(n)
    BY <1>2, <2>1, <2>2 DEF Fifo!Read
  <2>4. Content(ring') \in Seq(Bytes)
    <3> HIDE DEF q
    <3>1. m \in Nat /\ m <= Len(q)
      BY <2>1
    <3> HIDE DEF m
    <3> QED
      BY <2>1, <2>2, <3>1
  <2>5. BulkInv'
    BY <2>2, <2>4 DEF BulkInv, RingInv
  <2> QED
    BY <2>3, <2>5 DEF Fifo!BulkNext
<1>4. ASSUME NEW n \in 0 .. MaxBulk, NEW vs \in [1 .. n -> Inputs], RingWrite(vs)
      PROVE  BulkInv' /\ Fifo!BulkNext
  <2> DEFINE q == Content(ring)
             left == ring.cap - Len(q)
             m == IF Len(vs) < left THEN Len(vs) ELSE left
  <2>1. ring # NoRing /\ ring' = Filled(ring, vs) /\ answer' = <<ring'.tail - ring.tail>>
    BY <1>4 DEF RingWrite
  <2>2. vs \in Seq(Int) /\ Len(vs) = n /\ \A k \in 1 .. n : vs[k] \in Int
    <3>1. n \in Nat /\ \A k \in 1 .. n : vs[k] \in Int
      <4>1. Inputs \subseteq Int
        BY RingAssumption
      <4>2. ASSUME NEW k \in 1 .. n PROVE vs[k] \in Int
        <5>1. vs[k] \in Inputs
          OBVIOUS
        <5> QED
          BY <4>1, <5>1, Zenon
      <4>3. n \in Nat
        OBVIOUS
      <4> QED
        BY <4>2, <4>3, Zenon
    <3>2. vs \in [1 .. n -> Int]
      BY <3>1
    <3> QED
      BY <3>1, <3>2
  <2>3. /\ IsRing(ring') /\ ring'.cap = ring.cap /\ ring'.tail = ring.tail + m
        /\ Content(ring') = q \o Bytewise(vs, m)
    BY <1>2, <2>1, <2>2, FilledIs
  <2>4. m \in Nat /\ m <= n /\ q \in Seq(Bytes)
    <3>1. Len(q) = ring.tail - ring.head /\ q \in Seq(Bytes)
      BY <1>2, <2>1, ContentIs DEF BulkInv
    <3> HIDE DEF q
    <3> QED
      BY <1>2, <2>1, <2>2, <3>1 DEF IsRing
  <2>5. answer' = <<m>>
    BY <1>2, <2>1, <2>3, <2>4
  <2>6. Bytewise(vs, m) = [k \in 1 .. m |-> vs[k] % ByteBase]
    BY DEF Bytewise
  <2>7. Fifo!Write(vs)
    BY <1>2, <2>1, <2>3, <2>5, <2>6 DEF Fifo!Write
  <2>8. Bytewise(vs, m) \in Seq(Bytes)
    <3>1. \A k \in 1 .. m : vs[k] \in Int
      BY <2>2, <2>4
    <3>2. \A k \in 1 .. m : vs[k] % ByteBase \in Bytes
      BY <3>1, RingAssumption DEF Bytes
    <3> HIDE DEF m
    <3> QED
      BY <2>4, <2>6, <3>2
  <2>9. BulkInv'
    <3> HIDE DEF m, q
    <3>1. q \o Bytewise(vs, m) \in Seq(Bytes)
      BY <2>4, <2>8
    <3> QED
      BY <2>3, <3>1 DEF BulkInv, RingInv
  <2> QED
    BY <2>7, <2>9 DEF Fifo!BulkNext
<1> QED
    BY <1>1, <1>3, <1>4 DEF RingBulkNext

\* The ring is a first-in first-out queue of at most cap bytes, whatever the
\* mix of pushes, pops, clears and bulk calls, for every capacity and however
\* often its positions wrap around (ring_push, ring_pop, ring_write,
\* ring_read).
THEOREM RingIsFifo == RingSpec => ImplementsFifo
<1>1. RingInit => BulkInv /\ Fifo!Init
  <2> SUFFICES ASSUME RingInit PROVE BulkInv /\ Fifo!Init
    OBVIOUS
  <2>1. ring = NoRing /\ answer = <<>> /\ Content(ring) = <<>> /\ ring.cap = 0
    BY NoContent DEF RingInit, NoRing
  <2> QED
    BY <2>1 DEF BulkInv, RingInv, Fifo!Init
<1>2. BulkInv /\ [RingBulkNext]_ringVars
        => BulkInv' /\ [Fifo!BulkNext]_<<Content(ring), ring.cap, answer>>
    BY RingBulkStep
<1> QED
    BY <1>1, <1>2, PTL DEF RingSpec, Fifo!Spec, ImplementsFifo

-----------------------------------------------------------------------------
(***************************************************************************)
(* Senders and the replay log.                                             *)
(***************************************************************************)

\* What a stage or an event may be.
Values == Int \cup {Unset}

\* An array of cap entries whose first ones are the list.
Holds(mem, cap, list) ==
    /\ cap \in Nat /\ mem \in [1 .. cap -> Values]
    /\ list \in Seq(Values) /\ Len(list) <= cap
    /\ \A i \in 1 .. Len(list) : mem[i] = list[i]

\* A log: what trace_append is given and gives back.
IsLog(t, list) == Holds(t.mem, t.cap, list) /\ t.len = Len(list)

\* The array behind an append holds one entry more, and is the old one but for
\* that entry unless it grew.
LEMMA AppendedHolds ==
    ASSUME NEW mem, NEW cap \in Nat, NEW len \in Nat, mem \in [1 .. cap -> Values],
           len <= cap, NEW v \in Values
    PROVE  LET new == NewCap(len, cap) IN
           /\ new \in Nat \ {0} /\ len + 1 <= new /\ cap <= new
           /\ Appended(mem, len, cap, v) \in [1 .. new -> Values]
           /\ Appended(mem, len, cap, v)[len + 1] = v
           /\ \A i \in 1 .. len : Appended(mem, len, cap, v)[i] = mem[i]
           /\ new = cap => \A i \in 1 .. cap : i # len + 1 => Appended(mem, len, cap, v)[i] = mem[i]
<1> DEFINE new == NewCap(len, cap)
           old == IF new = cap THEN mem ELSE Moved(mem, len, new)
<1>1. new \in Nat \ {0} /\ len + 1 <= new /\ cap <= new
    BY SendersAssumption DEF NewCap
<1>2. Appended(mem, len, cap, v) = [i \in DOMAIN old \cup {len + 1} |-> IF i = len + 1 THEN v ELSE old[i]]
    BY DEF Appended
<1> HIDE DEF new
<1>3. old \in [1 .. new -> Values] /\ \A i \in 1 .. len : old[i] = mem[i]
  <2>1. CASE new = cap
    BY <2>1
  <2>2. CASE new # cap
    <3>1. old = [i \in 1 .. new |-> IF i <= len THEN mem[i] ELSE Unset]
      BY <2>2 DEF Moved
    <3>2. \A i \in 1 .. new : i <= len => i \in 1 .. cap
      BY <1>1
    <3> QED
      BY <1>1, <3>1, <3>2 DEF Values
  <2> QED
    BY <2>1, <2>2
<1>4. new = cap => old = mem
    OBVIOUS
<1> HIDE DEF old
<1>5. DOMAIN old \cup {len + 1} = 1 .. new
    BY <1>1, <1>3
<1>6. Appended(mem, len, cap, v) = [i \in 1 .. new |-> IF i = len + 1 THEN v ELSE old[i]]
    BY <1>2, <1>5
<1>7. /\ Appended(mem, len, cap, v) \in [1 .. new -> Values]
      /\ Appended(mem, len, cap, v)[len + 1] = v
    BY <1>1, <1>3, <1>6
<1>8. \A i \in 1 .. len : Appended(mem, len, cap, v)[i] = mem[i]
    BY <1>1, <1>3, <1>6
<1> QED
    BY <1>1, <1>4, <1>6, <1>7, <1>8 DEF new

LEMMA LogGrows ==
    ASSUME NEW t, NEW list, IsLog(t, list), NEW e \in Values
    PROVE  IsLog(TraceAppend(t, e), Append(list, e))
<1> DEFINE mem == t.mem
           cap == t.cap
           len == Len(list)
           more == Append(list, e)
           u == TraceAppend(t, e)
<1>1. /\ cap \in Nat /\ mem \in [1 .. cap -> Values] /\ list \in Seq(Values)
      /\ t.len = len /\ len <= cap /\ len \in Nat
      /\ \A i \in 1 .. len : mem[i] = list[i]
    BY DEF IsLog, Holds
<1>2. /\ u.mem = Appended(mem, len, cap, e) /\ u.cap = NewCap(len, cap)
      /\ u.len = len + 1
    BY <1>1 DEF TraceAppend
<1>3. /\ more \in Seq(Values) /\ Len(more) = len + 1 /\ more[len + 1] = e
      /\ \A i \in 1 .. len : more[i] = list[i]
    BY <1>1
<1> HIDE DEF len, u, mem, cap, more
<1>4. /\ u.cap \in Nat /\ len + 1 <= u.cap /\ u.mem \in [1 .. u.cap -> Values]
      /\ u.mem[len + 1] = e /\ \A i \in 1 .. len : u.mem[i] = mem[i]
  <2>1. /\ NewCap(len, cap) \in Nat \ {0} /\ len + 1 <= NewCap(len, cap)
        /\ Appended(mem, len, cap, e) \in [1 .. NewCap(len, cap) -> Values]
        /\ Appended(mem, len, cap, e)[len + 1] = e
        /\ \A i \in 1 .. len : Appended(mem, len, cap, e)[i] = mem[i]
    BY <1>1, AppendedHolds
  <2> QED
    BY <1>2, <2>1
<1>5. \A i \in 1 .. len + 1 : u.mem[i] = more[i]
    BY <1>1, <1>3, <1>4
<1>6. IsLog(u, more)
    BY <1>2, <1>3, <1>4, <1>5 DEF IsLog, Holds
<1> QED
    BY <1>6 DEF u, more

\* Recording a list of events appends it to the log.
LEMMA RecordedAll ==
    ASSUME NEW list, IsLog(trace, list), NEW events \in Seq(Values)
    PROVE  IsLog(Recorded(events), list \o events)
<1> DEFINE last == Len(events)
           After == CHOOSE f : f = [n \in 0 .. Len(events) |->
                        IF n = 0 THEN trace ELSE TraceAppend(f[n - 1], events[n])]
           So(n) == list \o SubSeq(events, 1, n)
           Upto(f, m) ==
               /\ f = [n \in 0 .. m |-> IF n = 0 THEN trace ELSE TraceAppend(f[n - 1], events[n])]
               /\ IsLog(f[m], So(m))
           Not == {m \in 0 .. last : \A f : ~Upto(f, m)}
<1>1. Recorded(events) = After[last]
    BY DEF Recorded
<1>2. last \in Nat /\ list \in Seq(Values)
    BY DEF IsLog, Holds
<1>3. So(0) = list /\ So(last) = list \o events
    BY <1>2
<1>4. ASSUME NEW n \in 0 .. last, n > 0 PROVE So(n) = Append(So(n - 1), events[n]) /\ events[n] \in Values
    BY <1>2, <1>4
<1> HIDE DEF So, last
<1>5. ASSUME NEW m \in 0 .. last, NEW f, m > 0, Upto(f, m - 1)
      PROVE  \E g : Upto(g, m)
  <2> DEFINE g == [n \in 0 .. m |-> IF n = m THEN TraceAppend(f[m - 1], events[m]) ELSE f[n]]
  <2>1. \A n \in 0 .. m - 1 : g[n] = f[n]
    BY <1>2
  <2>2. g[m] = TraceAppend(g[m - 1], events[m])
    BY <1>2, <1>5, <2>1
  <2>3. \A n \in 0 .. m : g[n] = IF n = 0 THEN trace ELSE TraceAppend(g[n - 1], events[n])
    <3>1. ASSUME NEW n \in 0 .. m - 1
          PROVE  g[n] = IF n = 0 THEN trace ELSE TraceAppend(g[n - 1], events[n])
      BY <1>2, <1>5, <2>1
    <3> QED
      BY <1>2, <1>5, <2>2, <3>1
  <2>4. IsLog(g[m], So(m))
    <3>1. IsLog(f[m - 1], So(m - 1))
      BY <1>5
    <3>2. events[m] \in Values /\ So(m) = Append(So(m - 1), events[m])
      BY <1>4, <1>5
    <3>3. IsLog(TraceAppend(f[m - 1], events[m]), Append(So(m - 1), events[m]))
      BY <3>1, <3>2, LogGrows
    <3>4. g[m] = TraceAppend(f[m - 1], events[m])
      BY <1>2
    <3> QED
      BY <3>2, <3>3, <3>4
  <2>5. g = [n \in 0 .. m |-> IF n = 0 THEN trace ELSE TraceAppend(g[n - 1], events[n])]
    BY <2>3
  <2> QED
    BY <2>4, <2>5
<1>6. \E f : Upto(f, 0)
  <2> DEFINE f == [n \in 0 .. 0 |-> trace]
  <2>1. f = [n \in 0 .. 0 |-> IF n = 0 THEN trace ELSE TraceAppend(f[n - 1], events[n])]
    OBVIOUS
  <2>2. IsLog(f[0], So(0))
    BY <1>3
  <2> QED
    BY <2>1, <2>2
<1> HIDE DEF Upto
<1>7. ASSUME NEW m \in Not, \A k \in Not : m <= k PROVE FALSE
  <2>1. m \in 0 .. last /\ \A f : ~Upto(f, m)
    OBVIOUS
  <2>2. m # 0
    BY <1>6, <2>1
  <2>3. m - 1 \in 0 .. last /\ m - 1 \notin Not
    BY <1>2, <1>7, <2>1, <2>2
  <2>4. PICK f : Upto(f, m - 1)
    BY <2>3
  <2> QED
    BY <1>2, <1>5, <2>1, <2>2, <2>4
<1>8. Not = {}
  <2> HIDE DEF Not
  <2>1. ASSUME NEW m \in Not PROVE FALSE
    <3>1. Not \subseteq Nat
      BY <1>2 DEF Not
    <3>2. PICK k \in Not : \A j \in Not : k <= j
      BY <2>1, <3>1, LeastIs
    <3> QED
      BY <1>7, <3>2
  <2> QED
    BY <2>1
<1>9. PICK f : Upto(f, last)
  <2>1. last \in 0 .. last
    BY <1>2
  <2> QED
    BY <1>8, <2>1
<1>10. After = [n \in 0 .. last |-> IF n = 0 THEN trace ELSE TraceAppend(After[n - 1], events[n])]
    BY <1>9 DEF last, Upto
<1> HIDE DEF After
<1>11. /\ f = [n \in 0 .. last |-> IF n = 0 THEN trace ELSE TraceAppend(f[n - 1], events[n])]
       /\ IsLog(f[last], So(last))
    BY <1>9 DEF Upto
<1>12. IsLog(After[last], So(last))
  <2>1. \A n \in 0 .. last : After[n] = f[n]
    <3> DEFINE Bad == {n \in 0 .. last : After[n] # f[n]}
    <3>1. ASSUME NEW n \in Bad, \A k \in Bad : n <= k PROVE FALSE
      <4>1. n \in 0 .. last /\ After[n] # f[n]
        OBVIOUS
      <4>2. n # 0
        BY <1>2, <1>11, <1>10, <4>1
      <4>3. n - 1 \in 0 .. last /\ After[n - 1] = f[n - 1]
        BY <1>2, <3>1, <4>1, <4>2
      <4> QED
        BY <1>2, <1>11, <1>10, <4>1, <4>2, <4>3
    <3> HIDE DEF Bad
    <3>2. Bad \subseteq Nat
      BY <1>2 DEF Bad
    <3>3. Bad = {}
      <4>1. ASSUME NEW n \in Bad PROVE FALSE
        BY <3>1, <3>2, LeastIs
      <4> QED
        BY <4>1
    <3> QED
      BY <3>3 DEF Bad
  <2> QED
    BY <1>2, <1>11, <2>1
<1> QED
    BY <1>1, <1>3, <1>12

Record == [thunk : Works, chain : Nat, len : Nat, cap : Nat]
Origin == [line : SUBSET Nat, stages : Seq(Works)]
Arrays == UNION {[1 .. c -> Values] : c \in Nat}

SendersTypeOK ==
    /\ arrays \in Seq(Arrays)
    /\ senders \in Seq(Record)
    /\ lineage \in Seq(Origin)
    /\ Len(lineage) = Len(senders)

\* A sender has no array, or one of its capacity.
Hosted ==
    \A s \in DOMAIN senders :
        \/ senders[s].chain = 0 /\ senders[s].len = 0 /\ senders[s].cap = 0
        \/ /\ senders[s].chain \in DOMAIN arrays
           /\ senders[s].len <= senders[s].cap
           /\ arrays[senders[s].chain] \in [1 .. senders[s].cap -> Values]

\* A sender is of its own line, with senders made before it.
Lines ==
    \A s \in DOMAIN senders : /\ lineage[s].line \subseteq 1 .. s /\ s \in lineage[s].line
                              /\ Len(lineage[s].stages) = senders[s].len

\* Both read the same array.
Sharing(a, b) == senders[a].chain > 0 /\ senders[b].chain = senders[a].chain

\* Of the stages a sender reads in an array, each was written by one of its
\* line or was there when the first sender of the array was made.
Lineal ==
    \A x, y \in DOMAIN senders : Sharing(x, y) =>
        \A k \in senders[y].len + 1 .. senders[x].len :
            \E a \in lineage[x].line : Sharing(x, a) /\ senders[a].len = k

Lost == {a \in DOMAIN senders : Overwritten(a)}

Kept ==
    \A s \in DOMAIN senders : lineage[s].line \cap Lost = {} =>
        \A i \in 1 .. senders[s].len : arrays[senders[s].chain][i] = lineage[s].stages[i]

SendersInv == SendersTypeOK /\ Hosted /\ Lines /\ Lineal /\ Kept /\ IsLog(trace, ran)

LEMMA SendersStart == SendersInit => SendersInv
<1> SUFFICES ASSUME SendersInit PROVE SendersInv
    OBVIOUS
<1>1. arrays = <<>> /\ senders = <<>> /\ lineage = <<>> /\ ran = <<>>
    BY DEF SendersInit
<1>2. SendersTypeOK
    BY <1>1 DEF SendersTypeOK
<1>3. Hosted /\ Lines /\ Lineal /\ Kept
    BY <1>1 DEF Hosted, Lines, Lineal, Kept
<1>4. IsLog(trace, ran)
  <2>1. trace = [mem |-> <<>>, cap |-> 0, len |-> 0]
    BY DEF SendersInit
  <2>2. <<>> \in [1 .. 0 -> Values]
    OBVIOUS
  <2> QED
    BY <1>1, <2>1, <2>2 DEF IsLog, Holds
<1> QED
    BY <1>2, <1>3, <1>4 DEF SendersInv

\* A sequence with one more element.
LEMMA OneMore ==
    ASSUME NEW S, NEW list \in Seq(S), NEW e \in S, NEW longer, longer = Append(list, e)
    PROVE  /\ longer \in Seq(S) /\ Len(longer) = Len(list) + 1
           /\ DOMAIN longer = 1 .. Len(list) + 1 /\ longer[Len(list) + 1] = e
           /\ \A i \in DOMAIN list : longer[i] = list[i] /\ list[i] \in S
OBVIOUS

\* What the sender made last is, and that no other changes.
LEMMA Made ==
    ASSUME SendersInv, NEW o \in Record, NEW l \in Origin,
           senders' = Append(senders, o), lineage' = Append(lineage, l),
           NEW new, new = Len(senders) + 1
    PROVE  /\ DOMAIN senders = 1 .. Len(senders) /\ DOMAIN senders' = 1 .. new
           /\ Len(senders) \in Nat /\ Len(lineage') = Len(senders') /\ Len(senders') = new
           /\ senders' \in Seq(Record) /\ lineage' \in Seq(Origin)
           /\ senders'[new] = o /\ lineage'[new] = l
           /\ \A s \in DOMAIN senders : /\ senders'[s] = senders[s] /\ lineage'[s] = lineage[s]
                                        /\ senders[s] \in Record /\ lineage[s] \in Origin
           /\ \A s \in 1 .. new : s \in DOMAIN senders \/ s = new
           /\ Lost \subseteq Lost'
<1>1. /\ senders \in Seq(Record) /\ lineage \in Seq(Origin) /\ Len(lineage) = Len(senders)
    BY DEF SendersInv, SendersTypeOK
<1>2. /\ DOMAIN senders = 1 .. Len(senders) /\ DOMAIN lineage = 1 .. Len(senders)
      /\ Len(senders) \in Nat
    BY <1>1
<1>3. /\ senders' \in Seq(Record) /\ Len(senders') = Len(senders) + 1
      /\ DOMAIN senders' = 1 .. Len(senders) + 1 /\ senders'[Len(senders) + 1] = o
      /\ \A s \in DOMAIN senders : senders'[s] = senders[s] /\ senders[s] \in Record
    BY <1>1, OneMore
<1>4. /\ lineage' \in Seq(Origin) /\ Len(lineage') = Len(lineage) + 1
      /\ DOMAIN lineage' = 1 .. Len(lineage) + 1 /\ lineage'[Len(lineage) + 1] = l
      /\ \A s \in DOMAIN lineage : lineage'[s] = lineage[s] /\ lineage[s] \in Origin
    BY <1>1, OneMore
<1>5. ASSUME NEW a \in Lost PROVE a \in Lost'
  <2>1. PICK b \in DOMAIN senders : /\ b > a /\ senders[b].chain > 0
                                    /\ senders[b].chain = senders[a].chain
                                    /\ senders[b].len = senders[a].len
    BY DEF Lost, Overwritten
  <2>2. /\ a \in DOMAIN senders' /\ b \in DOMAIN senders'
        /\ senders'[b] = senders[b] /\ senders'[a] = senders[a]
    BY <1>2, <1>3 DEF Lost
  <2> QED
    BY <2>1, <2>2 DEF Lost, Overwritten
<1> QED
    BY <1>1, <1>2, <1>3, <1>4, <1>5

LEMMA SubmitKeeps == ASSUME SendersInv, NEW v \in Works, Submit(v) PROVE SendersInv'
<1> DEFINE new == Len(senders) + 1
           o == [thunk |-> v, chain |-> 0, len |-> 0, cap |-> 0]
           l == [line |-> {Len(senders) + 1}, stages |-> <<>>]
<1>1. o \in Record
    BY DEF Record
<1>2. Len(senders) \in Nat /\ new \in Nat
    BY DEF SendersInv, SendersTypeOK
<1>3. l \in Origin
    BY <1>2 DEF Origin
<1>4. senders' = Append(senders, o) /\ lineage' = Append(lineage, l)
    BY DEF Submit
<1>5. UNCHANGED <<arrays, trace, ran>>
    BY DEF Submit
<1> HIDE DEF o, l, new
<1>6. /\ DOMAIN senders = 1 .. Len(senders) /\ DOMAIN senders' = 1 .. new
      /\ Len(senders) \in Nat /\ Len(lineage') = Len(senders') /\ Len(senders') = new
      /\ senders' \in Seq(Record)
      /\ lineage' \in Seq(Origin)
      /\ senders'[new] = o /\ lineage'[new] = l
      /\ \A s \in DOMAIN senders : /\ senders'[s] = senders[s] /\ lineage'[s] = lineage[s]
                                   /\ senders[s] \in Record
                                   /\ lineage[s] \in Origin
      /\ Lost \subseteq Lost'
    BY <1>1, <1>3, <1>4, Made DEF new
<1>7. /\ senders'[new].chain = 0 /\ senders'[new].len = 0 /\ senders'[new].cap = 0
      /\ lineage'[new].line = {new} /\ lineage'[new].stages = <<>>
    BY <1>6 DEF o, l, new
<1>8. \A s \in 1 .. new : s \in DOMAIN senders \/ s = new
    BY <1>2, <1>6 DEF new
<1>9. SendersTypeOK'
    BY <1>5, <1>6 DEF SendersInv, SendersTypeOK
<1>10. Hosted'
    BY <1>5, <1>6, <1>7, <1>8 DEF SendersInv, Hosted
<1>11. Lines'
    BY <1>6, <1>7, <1>8 DEF SendersInv, Lines
<1>12. \A s \in DOMAIN senders : lineage[s].line \subseteq DOMAIN senders
    BY <1>6 DEF SendersInv, Lines
<1>13. Lineal'
  <2> SUFFICES ASSUME NEW x \in DOMAIN senders', NEW y \in DOMAIN senders', Sharing(x, y)',
                      NEW k \in senders'[y].len + 1 .. senders'[x].len
               PROVE  \E a \in lineage'[x].line : Sharing(x, a)' /\ senders'[a].len = k
    BY DEF Lineal
  <2>1. x \in DOMAIN senders /\ y \in DOMAIN senders
    BY <1>6, <1>7, <1>8 DEF Sharing
  <2>2. PICK a \in lineage[x].line : Sharing(x, a) /\ senders[a].len = k
    BY <1>6, <2>1 DEF SendersInv, Lineal, Sharing
  <2> QED
    BY <1>6, <1>12, <2>1, <2>2 DEF Sharing
<1>14. Kept'
  <2> SUFFICES ASSUME NEW s \in DOMAIN senders', lineage'[s].line \cap Lost' = {},
                      NEW i \in 1 .. senders'[s].len
               PROVE  arrays'[senders'[s].chain][i] = lineage'[s].stages[i]
    BY DEF Kept
  <2>1. s \in DOMAIN senders
    BY <1>6, <1>7, <1>8
  <2>2. lineage[s].line \cap Lost = {}
    BY <1>6, <2>1
  <2>3. i \in 1 .. senders[s].len /\ arrays[senders[s].chain][i] = lineage[s].stages[i]
    BY <1>6, <2>1, <2>2 DEF SendersInv, Kept
  <2> QED
    BY <1>5, <1>6, <2>1, <2>3
<1> QED
    BY <1>5, <1>9, <1>10, <1>11, <1>13, <1>14 DEF SendersInv

\* The lists of entries an array starts with.
LEMMA SameBounds ==
    ASSUME NEW a, NEW m \in Nat, NEW n \in Nat, a \in [1 .. m -> Values], a \in [1 .. n -> Values]
    PROVE  m = n
<1>1. 1 .. m = 1 .. n
    OBVIOUS
<1> QED
    BY <1>1

LEMMA ThenKeeps ==
    ASSUME SendersInv, NEW s0 \in DOMAIN senders, NEW v \in Works, Then(s0, v)
    PROVE  SendersInv'
<1> DEFINE new == Len(senders) + 1
           r == senders[s0]
           cap == NewCap(r.len, r.cap)
           old == IF r.chain = 0 THEN <<>> ELSE arrays[r.chain]
           mem == Appended(old, r.len, r.cap, v)
           at == IF cap = r.cap THEN r.chain ELSE Len(arrays) + 1
           o == [thunk |-> r.thunk, chain |-> at, len |-> r.len + 1, cap |-> cap]
           l == [line |-> lineage[s0].line \cup {Len(senders) + 1},
                 stages |-> Append(lineage[s0].stages, v)]
<1>1. /\ arrays' = IF at = r.chain THEN [arrays EXCEPT ![at] = mem] ELSE Append(arrays, mem)
      /\ senders' = Append(senders, o) /\ lineage' = Append(lineage, l)
      /\ trace' = trace /\ ran' = ran
    BY DEF Then
<1>2. /\ arrays \in Seq(Arrays) /\ Len(senders) \in Nat /\ new \in Nat /\ s0 \in 1 .. Len(senders)
      /\ Len(arrays) \in Nat /\ DOMAIN arrays = 1 .. Len(arrays)
      /\ r \in Record /\ lineage[s0] \in Origin
    BY DEF SendersInv, SendersTypeOK
<1>3. /\ r.chain \in Nat /\ r.len \in Nat /\ r.cap \in Nat /\ r.len <= r.cap
      /\ r.chain = 0 => r.len = 0 /\ r.cap = 0
      /\ r.chain # 0 => r.chain \in DOMAIN arrays /\ arrays[r.chain] \in [1 .. r.cap -> Values]
    BY <1>2 DEF SendersInv, Hosted, Record
<1>4. old \in [1 .. r.cap -> Values]
  <2>1. <<>> \in [1 .. 0 -> Values]
    OBVIOUS
  <2> QED
    BY <1>3, <2>1
<1>5. v \in Values
    BY SendersAssumption DEF Values
<1> HIDE DEF old, r
<1>6. /\ cap \in Nat \ {0} /\ r.len + 1 <= cap /\ mem \in [1 .. cap -> Values]
      /\ mem[r.len + 1] = v /\ \A i \in 1 .. r.len : mem[i] = old[i]
      /\ cap = r.cap => \A i \in 1 .. cap : i # r.len + 1 => mem[i] = old[i]
  <2> DEFINE len == r.len
             room == r.cap
  <2>1. len \in Nat /\ room \in Nat /\ len <= room /\ old \in [1 .. room -> Values]
    BY <1>3, <1>4
  <2> HIDE DEF len, room
  <2>2. /\ NewCap(len, room) \in Nat \ {0} /\ len + 1 <= NewCap(len, room)
        /\ Appended(old, len, room, v) \in [1 .. NewCap(len, room) -> Values]
        /\ Appended(old, len, room, v)[len + 1] = v
        /\ \A i \in 1 .. len : Appended(old, len, room, v)[i] = old[i]
        /\ NewCap(len, room) = room =>
             \A i \in 1 .. room : i # len + 1 => Appended(old, len, room, v)[i] = old[i]
    BY SMTT(30), <1>5, <2>1, AppendedHolds
  <2> QED
    BY <2>2 DEF len, room
<1> HIDE DEF cap, mem
<1>7. /\ mem \in Arrays /\ at \in Nat \ {0}
      /\ at = r.chain => cap = r.cap /\ at \in DOMAIN arrays /\ old = arrays[at]
      /\ at # r.chain => at = Len(arrays) + 1
  <2>1. mem \in Arrays
    BY <1>6 DEF Arrays
  <2>2. CASE cap = r.cap
    <3>1. at = r.chain /\ r.chain # 0
      BY <1>3, <1>6, <2>2
    <3>2. old = arrays[r.chain]
      BY <3>1 DEF old
    <3> QED
      BY <1>3, <2>1, <2>2, <3>1, <3>2
  <2>3. CASE cap # r.cap
    <3>1. at = Len(arrays) + 1
      BY <2>3
    <3>2. at # r.chain
      BY <1>2, <1>3, <3>1
    <3> QED
      BY <1>2, <2>1, <3>1, <3>2
  <2> QED
    BY <2>2, <2>3
<1> HIDE DEF at
<1>8. /\ o \in Record /\ o.chain = at /\ o.len = r.len + 1 /\ o.cap = cap
  <2>1. r.thunk \in Works /\ at \in Nat /\ r.len + 1 \in Nat /\ cap \in Nat
    BY <1>2, <1>3, <1>6, <1>7 DEF Record
  <2> QED
    BY <2>1 DEF Record
<1>9. /\ l \in Origin /\ l.line = lineage[s0].line \cup {new}
      /\ l.stages = Append(lineage[s0].stages, v)
  <2>1. lineage[s0].line \in SUBSET Nat /\ lineage[s0].stages \in Seq(Works)
    BY <1>2 DEF Origin
  <2>2. Append(lineage[s0].stages, v) \in Seq(Works)
    BY <2>1
  <2> QED
    BY <1>2, <2>1, <2>2 DEF Origin
<1>10. /\ arrays' \in Seq(Arrays) /\ at \in DOMAIN arrays' /\ arrays'[at] = mem
       /\ \A p \in DOMAIN arrays : p # at => p \in DOMAIN arrays' /\ arrays'[p] = arrays[p]
  <2>1. CASE at = r.chain
    BY <1>1, <1>2, <1>7, <2>1
  <2>2. CASE at # r.chain
    BY <1>1, <1>2, <1>7, <2>2, OneMore
  <2> QED
    BY <2>1, <2>2
<1> HIDE DEF o, l, new
<1>11. /\ DOMAIN senders = 1 .. Len(senders) /\ DOMAIN senders' = 1 .. new
       /\ Len(senders) \in Nat /\ Len(lineage') = Len(senders') /\ Len(senders') = new
       /\ senders' \in Seq(Record) /\ lineage' \in Seq(Origin)
       /\ senders'[new] = o /\ lineage'[new] = l
       /\ \A s \in DOMAIN senders : /\ senders'[s] = senders[s] /\ lineage'[s] = lineage[s]
                                    /\ senders[s] \in Record /\ lineage[s] \in Origin
       /\ Lost \subseteq Lost'
    BY <1>1, <1>8, <1>9, Made DEF new
<1>12. \A s \in DOMAIN senders' : s \in DOMAIN senders \/ s = new
    BY <1>2, <1>11 DEF new
<1>13. /\ senders'[new].chain = at /\ senders'[new].len = r.len + 1 /\ senders'[new].cap = cap
       /\ lineage'[new].line = lineage[s0].line \cup {new}
       /\ lineage'[new].stages = Append(lineage[s0].stages, v)
    BY <1>8, <1>9, <1>11
<1>14. new \in DOMAIN senders' /\ new \notin DOMAIN senders /\ DOMAIN senders \subseteq DOMAIN senders'
    BY <1>2, <1>11 DEF new
<1>15. \A s \in DOMAIN senders :
          /\ senders[s].chain \in Nat /\ senders[s].len \in Nat /\ senders[s].cap \in Nat
          /\ lineage[s].stages \in Seq(Works)
          /\ Len(lineage[s].stages) = senders[s].len
          /\ lineage[s].line \subseteq 1 .. s /\ s \in lineage[s].line
          /\ lineage[s].line \subseteq DOMAIN senders
    BY <1>11 DEF SendersInv, Lines, Record, Origin
\* A sender that reads the array the stage went to when there was one.
<1>16. ASSUME NEW s \in DOMAIN senders, senders[s].chain = at
       PROVE  /\ at = r.chain /\ cap = r.cap /\ at > 0 /\ senders[s].cap = cap
              /\ senders[s].len <= cap /\ Sharing(s, s0) /\ Sharing(s0, s)
              /\ \A i \in 1 .. cap : i # r.len + 1 => mem[i] = arrays[at][i]
  <2>1. /\ at \in DOMAIN arrays /\ senders[s].len <= senders[s].cap
        /\ arrays[at] \in [1 .. senders[s].cap -> Values]
    BY <1>7, <1>16 DEF SendersInv, Hosted
  <2>2. at = r.chain /\ cap = r.cap /\ old = arrays[at]
    BY <1>2, <1>7, <2>1
  <2>3. senders[s].cap = cap
    BY <1>3, <1>4, <1>15, <2>1, <2>2, SameBounds
  <2>4. senders[s0].chain = at
    BY <2>2 DEF r
  <2>5. Sharing(s, s0) /\ Sharing(s0, s)
    BY <1>7, <1>16, <2>4 DEF Sharing
  <2> QED
    BY <1>6, <1>7, <2>1, <2>2, <2>3, <2>5
<1>17. SendersTypeOK'
    BY <1>10, <1>11 DEF SendersTypeOK
<1>18. Hosted'
  <2> SUFFICES ASSUME NEW s \in DOMAIN senders'
               PROVE  \/ senders'[s].chain = 0 /\ senders'[s].len = 0 /\ senders'[s].cap = 0
                      \/ /\ senders'[s].chain \in DOMAIN arrays'
                         /\ senders'[s].len <= senders'[s].cap
                         /\ arrays'[senders'[s].chain] \in [1 .. senders'[s].cap -> Values]
    BY DEF Hosted
  <2>1. CASE s = new
    BY <1>6, <1>10, <1>13, <2>1
  <2>2. CASE s \in DOMAIN senders /\ senders[s].chain = at
    BY <1>6, <1>10, <1>11, <1>16, <2>2
  <2>3. CASE s \in DOMAIN senders /\ senders[s].chain # at
    BY <1>10, <1>11, <2>3 DEF SendersInv, Hosted
  <2> QED
    BY <1>12, <2>1, <2>2, <2>3
<1>19. Lines'
  <2> SUFFICES ASSUME NEW s \in DOMAIN senders'
               PROVE  /\ lineage'[s].line \subseteq 1 .. s /\ s \in lineage'[s].line
                      /\ Len(lineage'[s].stages) = senders'[s].len
    BY DEF Lines
  <2>1. CASE s = new
    <3>1. Len(Append(lineage[s0].stages, v)) = r.len + 1
      BY <1>15 DEF r
    <3>2. lineage[s0].line \subseteq 1 .. new /\ new \in 1 .. new
      BY <1>2, <1>15 DEF new
    <3> QED
      BY <1>13, <2>1, <3>1, <3>2
  <2>2. CASE s \in DOMAIN senders
    BY <1>11, <1>15, <2>2
  <2> QED
    BY <1>12, <2>1, <2>2
<1>20. Lineal'
  <2> SUFFICES ASSUME NEW x \in DOMAIN senders', NEW y \in DOMAIN senders', Sharing(x, y)',
                      NEW k \in senders'[y].len + 1 .. senders'[x].len
               PROVE  \E a \in lineage'[x].line : Sharing(x, a)' /\ senders'[a].len = k
    BY DEF Lineal
  <2>1. senders'[x].chain > 0 /\ senders'[y].chain = senders'[x].chain
    BY DEF Sharing
  <2> SUFFICES \E a \in lineage'[x].line : /\ senders'[a].chain = senders'[x].chain
                                           /\ senders'[a].len = k
    BY <2>1 DEF Sharing
  <2>2. CASE x \in DOMAIN senders /\ y \in DOMAIN senders
    <3>1. Sharing(x, y) /\ k \in senders[y].len + 1 .. senders[x].len
      BY <1>11, <2>1, <2>2 DEF Sharing
    <3>2. PICK a \in lineage[x].line : Sharing(x, a) /\ senders[a].len = k
      BY <2>2, <3>1 DEF SendersInv, Lineal
    <3> QED
      BY <1>11, <1>15, <2>2, <3>2 DEF Sharing
  <2>3. CASE x = new /\ y \in DOMAIN senders
    <3>1. senders[y].chain = at
      BY <1>11, <1>13, <2>1, <2>3
    <3>2. CASE k = r.len + 1
      BY <1>13, <2>3, <3>2
    <3>3. CASE k # r.len + 1
      <4>1. Sharing(s0, y) /\ k \in senders[y].len + 1 .. senders[s0].len
        <5>1. Sharing(s0, y)
          BY <1>16, <2>3, <3>1
        <5>2. senders[s0].len = r.len
          BY DEF r
        <5>3. senders'[y].len = senders[y].len /\ senders[y].len \in Nat
          BY <1>11, <1>15, <2>3
        <5>4. k \in senders[y].len + 1 .. r.len + 1
          BY <1>13, <2>3, <5>3
        <5> QED
          BY <1>3, <3>3, <5>1, <5>2, <5>3, <5>4
      <4>2. PICK a \in lineage[s0].line : Sharing(s0, a) /\ senders[a].len = k
        BY <2>3, <4>1 DEF SendersInv, Lineal
      <4>3. a \in DOMAIN senders /\ a \in lineage'[x].line
        BY <1>13, <1>15, <2>3
      <4>4. senders'[a].chain = at /\ senders'[a].len = k
        BY <1>11, <1>16, <2>3, <3>1, <4>1, <4>2, <4>3 DEF Sharing
      <4> QED
        BY <1>13, <2>3, <4>3, <4>4
    <3> QED
      BY <3>2, <3>3
  <2>4. CASE x \in DOMAIN senders /\ y = new
    <3>1. senders[x].chain = at
      BY <1>11, <1>13, <2>1, <2>4
    <3>2. Sharing(x, s0) /\ k \in senders[s0].len + 1 .. senders[x].len
      <4>1. Sharing(x, s0)
        BY <1>16, <2>4, <3>1
      <4>2. senders[s0].len = r.len
        BY DEF r
      <4>3. senders'[x].len = senders[x].len /\ senders[x].len \in Nat
        BY <1>11, <1>15, <2>4
      <4>4. k \in r.len + 2 .. senders[x].len
        BY <1>3, <1>13, <2>4, <4>3
      <4> QED
        BY <1>3, <4>1, <4>2, <4>3, <4>4
    <3>3. PICK a \in lineage[x].line : Sharing(x, a) /\ senders[a].len = k
      BY <2>4, <3>2 DEF SendersInv, Lineal
    <3> QED
      BY <1>11, <1>15, <2>4, <3>3 DEF Sharing
  <2>5. CASE x = new /\ y = new
    BY <1>3, <1>13, <2>5
  <2> QED
    BY <1>12, <2>2, <2>3, <2>4, <2>5
<1>21. Kept'
  <2> SUFFICES ASSUME NEW s \in DOMAIN senders', lineage'[s].line \cap Lost' = {},
                      NEW i \in 1 .. senders'[s].len
               PROVE  arrays'[senders'[s].chain][i] = lineage'[s].stages[i]
    BY DEF Kept
  <2>1. CASE s = new
    <3>1. i \in 1 .. r.len + 1
      BY <1>13, <2>1
    <3>2. CASE i = r.len + 1
      <4>1. Append(lineage[s0].stages, v)[r.len + 1] = v
        BY <1>15 DEF r
      <4> QED
        BY <1>6, <1>10, <1>13, <2>1, <3>2, <4>1
    <3>3. CASE i \in 1 .. r.len
      <4>1. lineage[s0].line \cap Lost = {}
        BY <1>11, <1>13, <2>1
      <4>2. arrays[r.chain][i] = lineage[s0].stages[i]
        BY <3>3, <4>1 DEF SendersInv, Kept, r
      <4>3. Append(lineage[s0].stages, v)[i] = lineage[s0].stages[i]
        BY <1>15, <3>3 DEF r
      <4>4. old[i] = arrays[r.chain][i]
        BY <1>3, <3>3 DEF old
      <4> QED
        BY <1>6, <1>10, <1>13, <2>1, <3>3, <4>2, <4>3, <4>4
    <3> QED
      BY <1>3, <3>1, <3>2, <3>3
  <2>2. CASE s \in DOMAIN senders
    <3>1. lineage[s].line \cap Lost = {}
      BY <1>11, <2>2
    <3>2. i \in 1 .. senders[s].len /\ arrays[senders[s].chain][i] = lineage[s].stages[i]
      BY <1>11, <2>2, <3>1 DEF SendersInv, Kept
    <3>3. CASE senders[s].chain # at
      <4>1. senders[s].chain \in DOMAIN arrays
        BY <1>15, <2>2, <3>2 DEF SendersInv, Hosted
      <4> QED
        BY <1>10, <1>11, <2>2, <3>2, <3>3, <4>1
    <3>4. CASE senders[s].chain = at
      <4>1. i # r.len + 1
        <5> SUFFICES ASSUME i = r.len + 1 PROVE FALSE
          OBVIOUS
        <5>1. Sharing(s, s0) /\ i \in senders[s0].len + 1 .. senders[s].len
          BY <1>3, <1>15, <1>16, <2>2, <3>2, <3>4 DEF r
        <5>2. PICK a \in lineage[s].line : Sharing(s, a) /\ senders[a].len = i
          BY <2>2, <5>1 DEF SendersInv, Lineal
        <5>3. a \in DOMAIN senders
          BY <1>15, <2>2
        <5>4. /\ new > a /\ senders'[new].chain > 0 /\ senders'[new].chain = senders'[a].chain
              /\ senders'[new].len = senders'[a].len
          BY <1>2, <1>7, <1>11, <1>13, <2>2, <3>4, <5>2, <5>3 DEF new, Sharing
        <5>5. a \in Lost'
          BY <1>14, <5>3, <5>4 DEF Lost, Overwritten
        <5> QED
          BY <1>11, <2>2, <5>2, <5>5
      <4>2. i \in 1 .. cap /\ arrays'[at][i] = arrays[at][i]
        BY <1>6, <1>10, <1>15, <1>16, <2>2, <3>2, <3>4, <4>1
      <4> QED
        BY <1>11, <2>2, <3>2, <3>4, <4>2
    <3> QED
      BY <3>3, <3>4
  <2> QED
    BY <1>12, <2>1, <2>2
<1>22. IsLog(trace, ran)'
    BY <1>1 DEF SendersInv
<1> QED
    BY <1>17, <1>18, <1>19, <1>20, <1>21, <1>22 DEF SendersInv

LEMMA RunKeeps == ASSUME SendersInv, NEW s \in DOMAIN senders, Run(s) PROVE SendersInv'
<1> DEFINE events == <<senders[s].thunk>> \o Stages(s)
<1>1. trace' = Recorded(events) /\ ran' = ran \o events /\ UNCHANGED <<arrays, senders, lineage>>
    BY DEF Run
<1>2. /\ senders[s] \in Record
      /\ \/ senders[s].chain = 0 /\ senders[s].len = 0
         \/ /\ senders[s].chain \in DOMAIN arrays
            /\ senders[s].len <= senders[s].cap
            /\ arrays[senders[s].chain] \in [1 .. senders[s].cap -> Values]
    BY DEF SendersInv, SendersTypeOK, Hosted
<1>3. Stages(s) \in Seq(Values) /\ <<senders[s].thunk>> \in Seq(Values)
  <2> DEFINE len == senders[s].len
             array == arrays[senders[s].chain]
  <2>1. len \in Nat /\ senders[s].cap \in Nat /\ senders[s].thunk \in Works
    BY <1>2 DEF Record
  <2>2. \A i \in 1 .. len : array[i] \in Values
    BY <1>2, <2>1
  <2>3. Stages(s) = [i \in 1 .. len |-> array[i]]
    BY DEF Stages
  <2> HIDE DEF len, array
  <2>4. Stages(s) \in Seq(Values)
    BY <2>1, <2>2, <2>3
  <2>5. senders[s].thunk \in Values
    BY <2>1, SendersAssumption DEF Values
  <2> QED
    BY <2>4, <2>5
<1>4. events \in Seq(Values)
    BY <1>3
<1> HIDE DEF events
<1>5. IsLog(Recorded(events), ran \o events)
    BY <1>4, RecordedAll DEF SendersInv
<1>6. IsLog(trace, ran)'
    BY <1>1, <1>5
<1>7. SendersTypeOK'
    BY <1>1 DEF SendersInv, SendersTypeOK
<1>8. Hosted' /\ Lines' /\ Lineal'
    BY <1>1 DEF SendersInv, Hosted, Lines, Lineal, Sharing
<1>9. Kept'
    BY <1>1 DEF SendersInv, Kept, Lost, Overwritten
<1> QED
    BY <1>6, <1>7, <1>8, <1>9 DEF SendersInv

LEMMA SendersStep == SendersInv /\ [SendersNext]_senderVars => SendersInv'
<1> SUFFICES ASSUME SendersInv, [SendersNext]_senderVars PROVE SendersInv'
    OBVIOUS
<1>1. CASE \E v \in Works : Submit(v)
    BY <1>1, SubmitKeeps
<1>2. CASE \E v \in Works : \E s \in DOMAIN senders : Then(s, v)
    BY <1>2, ThenKeeps
<1>3. CASE \E s \in DOMAIN senders : Run(s)
    BY <1>3, RunKeeps
<1>4. CASE UNCHANGED senderVars
  <2>1. UNCHANGED <<arrays, senders, trace, lineage, ran>>
    BY <1>4 DEF senderVars
  <2>2. SendersTypeOK' /\ Hosted' /\ Lines' /\ Lineal'
    BY <2>1 DEF SendersInv, SendersTypeOK, Hosted, Lines, Lineal, Sharing
  <2>3. Kept' /\ IsLog(trace, ran)'
    BY <2>1 DEF SendersInv, Kept, Lost, Overwritten
  <2> QED
    BY <2>2, <2>3 DEF SendersInv
<1> QED
    BY <1>1, <1>2, <1>3, <1>4 DEF SendersNext

\* The invariant holds in every reachable state, for any first allocation and
\* any number of senders, chains and runs.
THEOREM SendersInvariance == SendersSpec => []SendersInv
<1>1. SendersInit => SendersInv
    BY SendersStart
<1>2. SendersInv /\ [SendersNext]_senderVars => SendersInv'
    BY SendersStep
<1> QED
    BY <1>1, <1>2, PTL DEF SendersSpec

\* A sender keeps the stages it was made with unless a later `then` took the
\* place of a stage of its line (then, which appends in place).
THEOREM PipelinesKeepStages == SendersSpec => []PipelinesKept
<1>1. SendersInv => PipelinesKept
  <2> SUFFICES ASSUME SendersInv, NEW s \in DOMAIN senders,
                      \A a \in lineage[s].line : ~Overwritten(a)
               PROVE  Stages(s) = lineage[s].stages
    BY DEF PipelinesKept
  <2>1. \A i \in 1 .. senders[s].len : arrays[senders[s].chain][i] = lineage[s].stages[i]
    <3>1. lineage[s].line \cap Lost = {}
      BY DEF Lost
    <3> QED
      BY <3>1 DEF SendersInv, Kept
  <2>2. lineage[s].stages \in Seq(Works) /\ Len(lineage[s].stages) = senders[s].len
    <3>1. lineage[s] \in Origin
      BY DEF SendersInv, SendersTypeOK
    <3> QED
      BY <3>1 DEF SendersInv, Lines, Origin
  <2>3. lineage[s].stages = [i \in 1 .. senders[s].len |-> lineage[s].stages[i]]
    BY <2>2
  <2> QED
    BY <2>1, <2>3 DEF Stages
<1> QED
    BY <1>1, SendersInvariance, PTL

\* The log of the replay scheduler is the events of all runs, in order, over
\* any number of reallocations (trace_append).
THEOREM TraceIsExact == SendersSpec => []TraceExact
<1>1. SendersInv => TraceExact
  <2> SUFFICES ASSUME SendersInv PROVE TraceExact
    OBVIOUS
  <2>1. /\ ran \in Seq(Values) /\ trace.len = Len(ran)
        /\ \A i \in 1 .. Len(ran) : trace.mem[i] = ran[i]
    BY DEF SendersInv, IsLog, Holds
  <2>2. ran = [i \in 1 .. Len(ran) |-> ran[i]]
    BY <2>1
  <2> QED
    BY <2>1, <2>2 DEF TraceExact
<1> QED
    BY <1>1, SendersInvariance, PTL
=============================================================================
