------------------------------ MODULE ByteRing ------------------------------
(***************************************************************************)
(* The byte ring of the standard library (src/std/ring.mind): a block of   *)
(* cap bytes and two positions that only grow, reduced modulo the capacity *)
(* when a byte is stored or loaded.  cap is 0 while there is no ring; the  *)
(* handle is the caller's, and using it after ring_free is not modelled.   *)
(***************************************************************************)
EXTENDS Integers, Sequences

CONSTANTS
    MaxCap,     \* ring_max_cap
    ByteBase,   \* 256: the number of byte values
    Asked,      \* the capacities callers ask for
    Inputs,     \* the integers callers push
    MaxPos,     \* bound: bytes pushed through one ring
    MaxBulk,    \* bound: bytes of one bulk call
    Junk        \* a byte of the block that was never written

ASSUME RingAssumption ==
    /\ MaxCap \in Nat /\ ByteBase \in Nat \ {0} /\ MaxPos \in Nat /\ MaxBulk \in Nat
    /\ Asked \subseteq Int /\ Inputs \subseteq Int
    /\ Junk \notin Int

VARIABLES ring,     \* [cap, head, tail, mem]: the handle's block and the bytes
          answer    \* the results of the last call

ringVars == <<ring, answer>>

NoRing == [cap |-> 0, head |-> 0, tail |-> 0, mem |-> <<>>]

RingInit == ring = NoRing /\ answer = <<>>

RingLen(r) == r.tail - r.head

\* Mutant: the slot is taken modulo one less than the capacity.
SlotShort(r, pos) == pos % (IF r.cap > 1 THEN r.cap - 1 ELSE 1)

Slot(r, pos) == pos % r.cap

IsFull(r) == RingLen(r) >= r.cap

\* The block is left uninitialised.  An allocation may fail.
RingNew(n) ==
    /\ ring = NoRing
    /\ \/ /\ 0 < n /\ n <= MaxCap
          /\ ring' = [cap |-> n, head |-> 0, tail |-> 0, mem |-> [s \in 0 .. n - 1 |-> Junk]]
          /\ answer' = <<1>>
       \/ answer' = <<0>> /\ UNCHANGED ring

\* The ring after ring_push: unchanged when it is full.
Pushed(r, v) ==
    IF IsFull(r) THEN r
    ELSE [r EXCEPT !.mem[Slot(r, r.tail)] = v % ByteBase, !.tail = @ + 1]

\* The ring after ring_pop, and what it returned.
Popped(r) == IF r.head >= r.tail THEN r ELSE [r EXCEPT !.head = @ + 1]
Byte(r)   == IF r.head >= r.tail THEN -1 ELSE r.mem[Slot(r, r.head)]

RingPush(v) ==
    /\ ring # NoRing /\ ring.tail < MaxPos
    /\ ring' = Pushed(ring, v)
    /\ answer' = <<IF IsFull(ring) THEN 0 ELSE 1>>

RingPop == ring # NoRing /\ ring' = Popped(ring) /\ answer' = <<Byte(ring)>>

\* The ring after the bytes vs.  A full ring stays full, so stopping at the
\* first refusal changes nothing.
Filled(r, vs) ==
    LET After[k \in 0 .. Len(vs)] == IF k = 0 THEN r ELSE Pushed(After[k - 1], vs[k])
    IN  After[Len(vs)]

RingWrite(vs) ==
    /\ ring # NoRing /\ ring.tail + Len(vs) <= MaxPos
    /\ ring' = Filled(ring, vs)
    /\ answer' = <<ring'.tail - ring.tail>>

\* One more byte out of a ring, unless ring_pop's result is negative.
Taken(a) ==
    IF Byte(a.ring) < 0 THEN a
    ELSE [ring |-> Popped(a.ring), bytes |-> Append(a.bytes, Byte(a.ring) % ByteBase)]

\* The ring after n of these, and the bytes.  The first negative result is
\* followed by no other, so ending the loop there changes nothing.
Emptied(r, n) ==
    LET After[k \in 0 .. n] ==
            IF k = 0 THEN [ring |-> r, bytes |-> <<>>] ELSE Taken(After[k - 1])
    IN  After[n]

RingRead(n) ==
    ring # NoRing /\ ring' = Emptied(ring, n).ring /\ answer' = Emptied(ring, n).bytes

RingClear ==
    ring # NoRing /\ ring' = [ring EXCEPT !.head = 0, !.tail = 0] /\ answer' = <<0>>

RingFree == ring # NoRing /\ ring' = NoRing /\ answer' = <<0>>

RingNext ==
    \/ \E n \in Asked : RingNew(n)
    \/ \E v \in Inputs : RingPush(v)
    \/ RingPop \/ RingClear \/ RingFree

RingBulkNext ==
    \/ RingNext
    \/ \E n \in 0 .. MaxBulk : RingRead(n) \/ \E vs \in [1 .. n -> Inputs] : RingWrite(vs)

RingSpec == RingInit /\ [][RingBulkNext]_ringVars

-----------------------------------------------------------------------------
\* The bytes in the ring, oldest first.
Content(r) == [k \in 1 .. RingLen(r) |-> r.mem[Slot(r, r.head + k - 1)]]

Fifo == INSTANCE ByteFifo WITH queue <- Content(ring), room <- ring.cap

\* The ring is a first-in first-out queue of at most cap bytes, whatever the
\* mix of pushes, pops, bulk calls and clears, at every wrap-around
\* (ring_push, ring_pop, ring_write, ring_read).
ImplementsFifo == Fifo!Spec
=============================================================================
