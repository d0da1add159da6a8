---------------------------- MODULE GenRefProofs ----------------------------
(***************************************************************************)
(* Proofs about GenRef, for every capacity, generation width and address   *)
(* set.                                                                    *)
(***************************************************************************)
EXTENDS GenRef, TLAPS

(***************************************************************************)
(* Handles.                                                                *)
(***************************************************************************)

\* Multiplication by the generation base is monotonic.
LEMMA TimesMonotonic ==
  ASSUME NEW m \in Nat, NEW n \in Nat, m < n
  PROVE  m * GenBase + GenBase <= n * GenBase
<1>. DEFINE d == n - m
<1>1. d \in Nat /\ d >= 1 /\ n = m + d
  OBVIOUS
<1>2. GenBase \in Nat
  BY GenRefAssumption
<1>. HIDE DEF d
<1>3. (m + d) * GenBase = m * GenBase + d * GenBase
  BY <1>1, <1>2
<1>4. d * GenBase >= GenBase
  BY <1>1, <1>2
<1>. QED
  BY <1>1, <1>2, <1>3, <1>4

\* Unpacking a packed handle gives its slot and generation back.
LEMMA PackUnpack ==
  ASSUME NEW s \in Nat, NEW g \in 0 .. GenBase - 1
  PROVE  /\ genref_pack(s, g) \in Nat
         /\ genref_slot(genref_pack(s, g)) = s
         /\ genref_gen(genref_pack(s, g)) = g
<1>. DEFINE h == genref_pack(s, g)
            q == h \div GenBase
            r == h % GenBase
<1>0. GenBase \in Nat /\ GenBase >= 2
  BY GenRefAssumption
<1>1. h \in Nat /\ h = s * GenBase + g
  BY <1>0 DEF genref_pack
<1>. HIDE DEF h
<1>2. q \in Nat /\ r \in 0 .. GenBase - 1 /\ h = q * GenBase + r
  BY <1>0, <1>1
<1>. HIDE DEF q, r
<1>3. ~(q < s)
  BY <1>0, <1>1, <1>2, TimesMonotonic
<1>4. ~(s < q)
  BY <1>0, <1>1, <1>2, TimesMonotonic
<1>5. q = s
  BY <1>2, <1>3, <1>4
<1>6. r = g
  BY <1>0, <1>1, <1>2, <1>5
<1>. QED
  BY <1>1, <1>5, <1>6 DEF genref_slot, genref_gen, q, r, h

\* Packing the parts of a handle gives the handle back.
LEMMA UnpackPack ==
  ASSUME NEW h \in Nat
  PROVE  /\ genref_slot(h) \in Nat
         /\ genref_gen(h) \in 0 .. GenBase - 1
         /\ h = genref_pack(genref_slot(h), genref_gen(h))
<1>0. GenBase \in Nat /\ GenBase >= 2
  BY GenRefAssumption
<1>. QED
  BY <1>0 DEF genref_pack, genref_slot, genref_gen

(***************************************************************************)
(* What one allocation does to the table.                                  *)
(***************************************************************************)

\* A slot that is filled; the others are left alone.
LEMMA PlacedFacts ==
  ASSUME NEW c \in Nat, NEW t \in [0 .. c - 1 -> Slots], NEW s \in 0 .. c - 1,
         NEW a \in Addrs
  PROVE  /\ Placed(t, s, a) \in [0 .. c - 1 -> Slots]
         /\ Placed(t, s, a)[s] = [ptr |-> a, generation |-> t[s].generation,
                                 in_use |-> TRUE]
         /\ \A i \in 0 .. c - 1 : i # s => Placed(t, s, a)[i] = t[i]
  BY DEF Placed, Slots

\* The table after growing.
LEMMA GrownFacts ==
  ASSUME TypeOK
  PROVE  /\ GrownCap \in Nat /\ len < GrownCap /\ cap <= GrownCap
         /\ GrownTable \in [0 .. GrownCap - 1 -> Slots]
         /\ \A i \in 0 .. cap - 1 : GrownTable[i] = table[i]
         /\ \A i \in cap .. GrownCap - 1 : GrownTable[i] = EmptySlot
<1>1. EmptySlot \in Slots
  BY GenRefAssumption DEF EmptySlot, Slots
<1>2. /\ InitialCap \in Nat \ {0} /\ cap <= InitialCap
      /\ InitialTable \in [0 .. InitialCap - 1 -> Slots]
      /\ \A i \in 0 .. cap - 1 : InitialTable[i] = table[i]
      /\ \A i \in cap .. InitialCap - 1 : InitialTable[i] = EmptySlot
  BY <1>1, GenRefAssumption DEF TypeOK, InitialCap, InitialTable
<1>3. GrownCap \in Nat /\ len < GrownCap /\ InitialCap <= GrownCap
  BY <1>2 DEF GrownCap, TypeOK
<1>. QED
  BY <1>1, <1>2, <1>3 DEF GrownTable, TypeOK

\* Slot s is filled with address a: a slot in use before no longer, or the next
\* one, which has its first generation.
Filled(s, a) ==
  /\ s \in 0 .. len' - 1
  /\ a \in Addrs \ heap
  /\ heap' = heap \cup {a}
  /\ table'[s].in_use /\ table'[s].ptr = a
  /\ answer' = <<"alloc", Null, genref_pack(s, table'[s].generation)>>
  /\ \A i \in 0 .. len - 1 : i # s => table'[i] = table[i]
  /\ \/ /\ len' = len /\ s < len
        /\ ~table[s].in_use
        /\ table'[s].generation = table[s].generation
     \/ /\ len' = len + 1 /\ s = len /\ len < MaxSlots
        /\ table'[s].generation = 1

\* An allocation fills some slot and keeps the table well-formed.
LEMMA AllocFills ==
  ASSUME IInv, Alloc
  PROVE  /\ TypeOK'
         /\ UnusedSlots'
         /\ len' <= MaxSlots
         /\ \E s \in Nat, a \in Addrs : Filled(s, a)
<1>1. PICK a \in Addrs \ heap :
        \/ \E s \in 0 .. len - 1 :
             /\ FirstFree(s)
             /\ Place(table, s, a)
             /\ UNCHANGED <<cap, len>>
        \/ /\ \A s \in 0 .. len - 1 : table[s].in_use
           /\ len < MaxSlots
           /\ Place(GrownTable, len, a)
           /\ cap' = GrownCap
           /\ len' = len + 1
  BY DEF Alloc
<1>2. aborted' = aborted /\ TypeOK /\ UnusedSlots /\ len <= MaxSlots
  BY DEF Alloc, IInv
<1>3. ASSUME NEW c \in Nat, NEW t \in [0 .. c - 1 -> Slots],
             NEW s \in 0 .. c - 1, Place(t, s, a), cap' = c, len' \in 0 .. c
      PROVE  TypeOK'
  <2>1. t[s].generation \in 0 .. GenBase - 1 /\ s \in Nat
    BY DEF Slots
  <2>2. genref_pack(s, t[s].generation) \in Nat
    BY <2>1, PackUnpack
  <2>3. table' \in [0 .. c - 1 -> Slots]
    BY <1>3, PlacedFacts DEF Place
  <2>4. answer' \in {"none", "alloc", "deref", "free"} \X (Probes \cup {Null})
                      \X (Addrs \cup {Null} \cup Nat)
    BY <1>3, <2>2 DEF Place
  <2>. QED
    BY <1>2, <1>3, <2>3, <2>4 DEF TypeOK, Place
<1>4. CASE \E s \in 0 .. len - 1 :
             /\ FirstFree(s)
             /\ Place(table, s, a)
             /\ UNCHANGED <<cap, len>>
  <2>1. PICK s \in 0 .. len - 1 :
             /\ FirstFree(s)
             /\ Place(table, s, a)
             /\ UNCHANGED <<cap, len>>
    BY <1>4
  <2>2. s \in 0 .. cap - 1 /\ s \in Nat /\ cap \in Nat
        /\ table \in [0 .. cap - 1 -> Slots]
    BY <1>2 DEF TypeOK
  <2>. a \in Addrs
    OBVIOUS
  <2>3. /\ table' = Placed(table, s, a)
        /\ table'[s] = [ptr |-> a, generation |-> table[s].generation,
                        in_use |-> TRUE]
        /\ \A i \in 0 .. cap - 1 : i # s => table'[i] = table[i]
    BY SMTT(30), <2>1, <2>2, PlacedFacts DEF Place
  <2>4. TypeOK'
    BY <1>2, <1>3, <2>1, <2>2 DEF TypeOK
  <2>5. UnusedSlots'
    BY <1>2, <2>1, <2>2, <2>3 DEF UnusedSlots, TypeOK
  <2>6. Filled(s, a)
    BY <1>2, <2>1, <2>2, <2>3 DEF Filled, FirstFree, Place, TypeOK
  <2>. QED
    BY <1>2, <2>1, <2>2, <2>4, <2>5, <2>6
<1>5. CASE /\ \A s \in 0 .. len - 1 : table[s].in_use
           /\ len < MaxSlots
           /\ Place(GrownTable, len, a)
           /\ cap' = GrownCap
           /\ len' = len + 1
  <2>1. /\ GrownCap \in Nat /\ len \in 0 .. GrownCap - 1 /\ len \in 0 .. cap
        /\ cap \in Nat /\ cap <= GrownCap
        /\ GrownTable \in [0 .. GrownCap - 1 -> Slots]
        /\ \A i \in 0 .. cap - 1 : GrownTable[i] = table[i]
        /\ \A i \in cap .. GrownCap - 1 : GrownTable[i] = EmptySlot
    BY <1>2, GrownFacts DEF TypeOK
  <2>2. \A i \in len .. GrownCap - 1 : GrownTable[i] = EmptySlot
    BY <1>2, <2>1 DEF UnusedSlots
  <2>. a \in Addrs
    OBVIOUS
  <2>3. /\ table' = Placed(GrownTable, len, a)
        /\ table'[len] = [ptr |-> a, generation |-> 1, in_use |-> TRUE]
        /\ \A i \in 0 .. GrownCap - 1 : i # len => table'[i] = GrownTable[i]
    BY <1>5, <2>1, <2>2, PlacedFacts DEF Place, EmptySlot
  <2>4. TypeOK'
    BY <1>3, <1>5, <2>1
  <2>5. UnusedSlots'
    BY <1>5, <2>1, <2>2, <2>3 DEF UnusedSlots
  <2>6. GrownTable[len].generation = 1
    BY <2>1, <2>2 DEF EmptySlot
  <2>7. Filled(len, a)
    BY <1>5, <2>1, <2>3, <2>6 DEF Filled, Place
  <2>. QED
    BY <1>5, <2>1, <2>4, <2>5, <2>7, GenRefAssumption
<1>. QED
  BY <1>1, <1>4, <1>5

\* Filling a slot keeps the heap exact.
LEMMA FilledHeapExact ==
  ASSUME TypeOK, HeapExact, NEW s \in Nat, NEW a \in Addrs, Filled(s, a)
  PROVE  HeapExact'
<1>1. len \in Nat /\ len' \in Nat
  BY DEF TypeOK, Filled
<1>2. \A i \in 0 .. len' - 1 : i # s => i \in 0 .. len - 1 /\ table'[i] = table[i]
  BY <1>1 DEF Filled
<1>3. \A i \in 0 .. len - 1 : table[i].in_use => i # s
  BY <1>1 DEF Filled
<1>4. \A i \in 0 .. len - 1 : i \in 0 .. len' - 1
  <2>1. len' = len \/ len' = len + 1
    BY DEF Filled
  <2>2. \A m, n \in Nat : n = m \/ n = m + 1 =>
          \A i \in 0 .. m - 1 : i \in 0 .. n - 1
    OBVIOUS
  <2>. QED
    BY <1>1, <2>1, <2>2
<1>5. \A i \in 0 .. len' - 1 : table'[i].in_use => table'[i].ptr \in heap'
  BY <1>2 DEF HeapExact, Filled
<1>6. \A x \in heap' :
        \E i \in 0 .. len' - 1 : table'[i].in_use /\ table'[i].ptr = x
  <2>. SUFFICES ASSUME NEW x \in heap'
                PROVE  \E i \in 0 .. len' - 1 :
                         table'[i].in_use /\ table'[i].ptr = x
    OBVIOUS
  <2>1. CASE x = a
    BY <2>1 DEF Filled
  <2>2. CASE x \in heap
    <3>1. PICK i \in 0 .. len - 1 : table[i].in_use /\ table[i].ptr = x
      BY <2>2 DEF HeapExact
    <3>. QED
      BY <3>1, <1>2, <1>3, <1>4
  <2>. QED
    BY <2>1, <2>2 DEF Filled
<1>7. ASSUME NEW i \in 0 .. len' - 1, NEW j \in 0 .. len' - 1,
             table'[i].in_use, table'[j].in_use, table'[i].ptr = table'[j].ptr
      PROVE  i = j
  <2>1. CASE i # s /\ j # s
    BY <1>2, <1>7, <2>1 DEF HeapExact
  <2>2. CASE i = s /\ j # s
    BY <1>2, <1>7, <2>2 DEF HeapExact, Filled
  <2>3. CASE i # s /\ j = s
    BY <1>2, <1>7, <2>3 DEF HeapExact, Filled
  <2>. QED
    BY <2>1, <2>2, <2>3
<1>. QED
  BY <1>5, <1>6, <1>7 DEF HeapExact

(***************************************************************************)
(* What freeing a live handle does.                                        *)
(***************************************************************************)

\* A live handle names a slot in use, whose generation it carries.
LEMMA MatchedSlot ==
  ASSUME TypeOK, NEW h \in Probes, Matches(h)
  PROVE  /\ genref_slot(h) \in 0 .. len - 1
         /\ genref_slot(h) \in 0 .. cap - 1
         /\ table[genref_slot(h)] \in Slots
         /\ table[genref_slot(h)].in_use
         /\ h = genref_pack(genref_slot(h), table[genref_slot(h)].generation)
<1>1. h \in Nat /\ genref_slot(h) \in Nat
  BY UnpackPack, GenRefAssumption
<1>2. genref_slot(h) \in 0 .. len - 1 /\ genref_slot(h) \in 0 .. cap - 1
  BY <1>1 DEF TypeOK, Matches
<1>. QED
  BY <1>1, <1>2, UnpackPack DEF TypeOK, Matches

\* Freeing empties one slot and leaves the others alone.
LEMMA FreeEmpties ==
  ASSUME IInv, NEW h \in Probes, Free(h)
  PROVE  LET s == genref_slot(h) IN
         /\ TypeOK'
         /\ len' = len /\ cap' = cap
         /\ table'[s] = [ptr |-> Null, generation |-> table[s].generation + 1,
                         in_use |-> FALSE]
         /\ \A i \in 0 .. cap - 1 : i # s => table'[i] = table[i]
         /\ HeapExact'
         /\ UnusedSlots'
<1>. DEFINE s == genref_slot(h)
<1>1. /\ TypeOK /\ HeapExact /\ UnusedSlots
      /\ len \in Nat /\ cap \in Nat /\ table \in [0 .. cap - 1 -> Slots]
  BY DEF IInv, TypeOK
<1>2. s \in 0 .. len - 1 /\ s \in 0 .. cap - 1 /\ table[s] \in Slots
      /\ table[s].in_use
  BY <1>1, MatchedSlot DEF Free
<1>3. /\ len' = len /\ cap' = cap /\ aborted' = aborted
      /\ table' = [table EXCEPT ![s] = Freed(table[s])]
      /\ heap' = heap \ {table[s].ptr}
      /\ answer' = <<"free", h, Null>>
      /\ table[s].generation # GenBase - 1
  BY <1>1, <1>2 DEF Free, Wraps
<1>. HIDE DEF s
<1>4. Freed(table[s]) \in Slots
  BY <1>2, <1>3, GenRefAssumption DEF Freed, Slots
<1>5. /\ table' \in [0 .. cap - 1 -> Slots]
      /\ table'[s] = Freed(table[s])
      /\ \A i \in 0 .. cap - 1 : i # s => table'[i] = table[i]
  BY <1>1, <1>2, <1>3, <1>4
<1>6. TypeOK'
  <2>1. answer' \in {"none", "alloc", "deref", "free"} \X (Probes \cup {Null})
                      \X (Addrs \cup {Null} \cup Nat)
    BY <1>3
  <2>. QED
    BY <1>1, <1>3, <1>5, <2>1 DEF TypeOK
<1>7. ~table'[s].in_use
  BY <1>5 DEF Freed
<1>8. HeapExact'
  <2>0. \A i \in 0 .. len - 1 : i \in 0 .. cap - 1
    BY <1>1 DEF TypeOK
  <2>1. \A i \in 0 .. len - 1 :
          table'[i].in_use => i # s /\ table'[i] = table[i]
    BY <1>5, <1>7, <2>0
  <2>2. \A i \in 0 .. len - 1 : table'[i].in_use => table'[i].ptr \in heap'
    BY <1>1, <1>2, <1>3, <2>1 DEF HeapExact
  <2>3. ASSUME NEW x \in heap'
        PROVE  \E i \in 0 .. len - 1 : table'[i].in_use /\ table'[i].ptr = x
    <3>1. PICK i \in 0 .. len - 1 : table[i].in_use /\ table[i].ptr = x
      BY <1>1, <1>3 DEF HeapExact
    <3>2. i # s
      BY <1>3, <3>1
    <3>. QED
      BY <1>5, <2>0, <3>1, <3>2
  <2>4. \A i, j \in 0 .. len - 1 :
          table'[i].in_use /\ table'[j].in_use /\ table'[i].ptr = table'[j].ptr
            => i = j
    BY <1>1, <2>1 DEF HeapExact
  <2>. QED
    BY <1>3, <2>2, <2>3, <2>4 DEF HeapExact
<1>9. UnusedSlots'
  BY <1>1, <1>2, <1>3, <1>5 DEF UnusedSlots, TypeOK
<1>. QED
  BY <1>3, <1>5, <1>6, <1>8, <1>9 DEF Freed, s

(***************************************************************************)
(* The invariant.                                                          *)
(***************************************************************************)

\* The inductive invariant holds initially and is kept by every step.
THEOREM Invariance == Spec => []IInv
<1>1. Init => IInv
  <2>. SUFFICES ASSUME Init PROVE IInv
    OBVIOUS
  <2>1. 0 .. len - 1 = {} /\ 0 .. cap - 1 = {} /\ len .. cap - 1 = {}
    BY DEF Init
  <2>2. table \in [0 .. cap - 1 -> Slots]
    BY <2>1 DEF Init
  <2>3. answer \in {"none", "alloc", "deref", "free"} \X (Probes \cup {Null})
                     \X (Addrs \cup {Null} \cup Nat)
    BY DEF Init
  <2>4. cap \in Nat /\ len \in 0 .. cap /\ heap \subseteq Addrs
    BY DEF Init
  <2>5. aborted \in BOOLEAN
    BY DEF Init
  <2>6. TypeOK
    BY <2>2, <2>3, <2>4, <2>5 DEF TypeOK
  <2>7. HeapExact /\ UnusedSlots
    BY <2>1 DEF Init, HeapExact, UnusedSlots
  <2>. QED
    BY <2>6, <2>7, GenRefAssumption DEF Init, IInv
<1>2. IInv /\ [Next]_vars => IInv'
  <2>. SUFFICES ASSUME IInv, [Next]_vars PROVE IInv'
    OBVIOUS
  <2>0. TypeOK /\ HeapExact /\ UnusedSlots /\ len <= MaxSlots
    BY DEF IInv
  <2>1. CASE Alloc
    <3>1. PICK s \in Nat, a \in Addrs : Filled(s, a)
      BY <2>1, AllocFills
    <3>. QED
      BY <2>0, <2>1, <3>1, AllocFills, FilledHeapExact DEF IInv
  <2>2. ASSUME UNCHANGED <<table, cap, len, heap>>, aborted' \in BOOLEAN,
               answer' \in {"none", "alloc", "deref", "free"}
                           \X (Probes \cup {Null})
                           \X (Addrs \cup {Null} \cup Nat)
        PROVE  IInv'
    BY <2>0, <2>2 DEF IInv, TypeOK, HeapExact, UnusedSlots
  <2>3. CASE AllocNothing
    BY <2>0, <2>2, <2>3 DEF AllocNothing, TypeOK
  <2>4. CASE OutOfMemory
    BY <2>0, <2>2, <2>4 DEF OutOfMemory, TypeOK
  <2>5. ASSUME NEW h \in Probes, Deref(h) PROVE IInv'
    <3>1. Matches(h) => table[genref_slot(h)].ptr \in Addrs \cup {Null}
      BY <2>0, MatchedSlot DEF Slots
    <3>. QED
      BY <2>0, <2>2, <2>5, <3>1 DEF Deref, TypeOK
  <2>6. ASSUME NEW h \in Probes, Free(h) PROVE IInv'
    BY <2>0, <2>6, FreeEmpties DEF IInv
  <2>7. ASSUME NEW h \in Probes, FreeWraps(h) PROVE IInv'
    BY <2>0, <2>2, <2>7 DEF FreeWraps, TypeOK
  <2>8. ASSUME NEW h \in Probes, FreeIgnored(h) PROVE IInv'
    BY <2>0, <2>2, <2>8 DEF FreeIgnored, TypeOK
  <2>9. CASE UNCHANGED vars
    BY <2>0, <2>2, <2>9 DEF vars, TypeOK
  <2>. QED
    BY <2>1, <2>3, <2>4, <2>5, <2>6, <2>7, <2>8, <2>9 DEF Next
<1>. QED
  BY <1>1, <1>2, PTL DEF Spec

\* The table stays well-formed: generations never leave 1 .. GenBase - 1, so
\* no live handle is 0 and none reaches into the slot bits.
THEOREM TypeCorrect == Spec => []TypeOK
<1>1. IInv => TypeOK
  BY DEF IInv
<1>. QED
  BY <1>1, Invariance, PTL

\* Slots in use and allocated addresses correspond one to one: gen_free never
\* frees an address twice and no allocation is lost.
THEOREM HeapIsExact == Spec => []HeapExact
<1>1. IInv => HeapExact
  BY DEF IInv
<1>. QED
  BY <1>1, Invariance, PTL

(***************************************************************************)
(* Refinement.                                                             *)
(***************************************************************************)

\* Different slots or generations make different handles.
LEMMA PackInjective ==
  ASSUME NEW s \in Nat, NEW g \in 0 .. GenBase - 1,
         NEW t \in Nat, NEW k \in 0 .. GenBase - 1,
         genref_pack(s, g) = genref_pack(t, k)
  PROVE  s = t /\ g = k
  BY PackUnpack

\* A slot in use is reached through its handle.
LEMMA LiveLookup ==
  ASSUME TypeOK, NEW s \in 0 .. len - 1, table[s].in_use
  PROVE  /\ genref_pack(s, table[s].generation) \in LiveHandles
         /\ LiveMap[genref_pack(s, table[s].generation)] = table[s].ptr
<1>1. s \in Nat /\ s \in 0 .. cap - 1 /\ table[s] \in Slots
  BY DEF TypeOK
<1>2. table[s].generation \in 0 .. GenBase - 1
  BY <1>1 DEF Slots
<1>3. genref_slot(genref_pack(s, table[s].generation)) = s
  BY <1>1, <1>2, PackUnpack
<1>4. genref_pack(s, table[s].generation) \in LiveHandles
  BY DEF LiveHandles
<1>. QED
  BY <1>3, <1>4 DEF LiveMap

\* The checks of deref and free accept exactly the live handles.
LEMMA MatchesIffLive ==
  ASSUME TypeOK, NEW h \in Probes
  PROVE  Matches(h) <=> h \in LiveHandles
<1>1. Matches(h) => h \in LiveHandles
  BY MatchedSlot DEF LiveHandles
<1>2. ASSUME h \in LiveHandles PROVE Matches(h)
  <2>1. PICK s \in 0 .. len - 1 :
          table[s].in_use /\ h = genref_pack(s, table[s].generation)
    BY <1>2 DEF LiveHandles
  <2>2. s \in Nat /\ s < len /\ table[s] \in Slots
    BY DEF TypeOK
  <2>3. table[s].generation \in 0 .. GenBase - 1 /\ table[s].generation # 0
    BY <2>2 DEF Slots
  <2>4. genref_slot(h) = s /\ genref_gen(h) = table[s].generation
    BY <2>1, <2>2, <2>3, PackUnpack
  <2>5. h # 0
    <3>1. genref_gen(0) = 0
      BY GenRefAssumption DEF genref_gen
    <3>. QED
      BY <2>3, <2>4, <3>1
  <2>. QED
    BY <2>1, <2>2, <2>4, <2>5 DEF Matches
<1>. QED
  BY <1>1, <1>2

\* Filling a slot is an allocation of HandleMap.
LEMMA FilledMaps ==
  ASSUME IInv, TypeOK', NEW s \in Nat, NEW a \in Addrs, Filled(s, a)
  PROVE  Map!Alloc
<1>. DEFINE g == table'[s].generation
            h == genref_pack(s, g)
<1>1. /\ TypeOK /\ HeapExact
      /\ len \in Nat /\ len' \in Nat /\ len <= MaxSlots
      /\ \A i \in 0 .. len - 1 : i \in Nat /\ table[i] \in Slots
      /\ \A i \in 0 .. len' - 1 : i \in Nat /\ table'[i] \in Slots
  <2>1. /\ TypeOK /\ HeapExact /\ len <= MaxSlots
        /\ cap \in Nat /\ len \in 0 .. cap
        /\ table \in [0 .. cap - 1 -> Slots]
    BY DEF IInv, TypeOK
  <2>2. /\ cap' \in Nat /\ len' \in 0 .. cap'
        /\ table' \in [0 .. cap' - 1 -> Slots]
    BY DEF TypeOK
  <2>3. \A c, n \in Nat : \A t \in [0 .. c - 1 -> Slots] :
          n <= c => \A i \in 0 .. n - 1 : i \in Nat /\ t[i] \in Slots
    OBVIOUS
  <2>4. len \in Nat /\ len' \in Nat /\ len <= cap /\ len' <= cap'
    BY <2>1, <2>2
  <2>5. \A i \in 0 .. len - 1 : i \in Nat /\ table[i] \in Slots
    BY <2>1, <2>3, <2>4
  <2>6. \A i \in 0 .. len' - 1 : i \in Nat /\ table'[i] \in Slots
    BY <2>2, <2>3, <2>4
  <2>. QED
    BY <2>1, <2>4, <2>5, <2>6
<1>2. \A i \in 0 .. len - 1 : /\ table[i].generation \in 1 .. GenBase - 1
                               /\ table[i].generation \in 0 .. GenBase - 1
  BY <1>1 DEF Slots
<1>3. g \in 1 .. GenBase - 1 /\ g \in 0 .. GenBase - 1 /\ s \in 0 .. len' - 1
      /\ s < MaxSlots
  <2>1. s \in 0 .. len' - 1 /\ (len' = len \/ (len < MaxSlots /\ s = len))
    BY DEF Filled
  <2>2. table'[s] \in Slots
    BY <1>1, <2>1
  <2>3. s < MaxSlots
    <3>1. \A m, n, k \in Nat : m <= k /\ n \in 0 .. m - 1 => n < k
      OBVIOUS
    <3>. QED
      BY <1>1, <2>1, <3>1, GenRefAssumption
  <2>. QED
    BY <2>1, <2>2, <2>3, GenRefAssumption DEF Slots
<1>4. /\ \A i \in 0 .. len' - 1 :
           i # s => i \in 0 .. len - 1 /\ table'[i] = table[i]
      /\ \A i \in 0 .. len - 1 : i \in 0 .. len' - 1
  <2>1. len' = len \/ (len' = len + 1 /\ s = len)
    BY DEF Filled
  <2>2. \A m, n \in Nat : n = m \/ (n = m + 1 /\ s = m) =>
          /\ \A i \in 0 .. m - 1 : i \in 0 .. n - 1
          /\ \A i \in 0 .. n - 1 : i # s => i \in 0 .. m - 1
    OBVIOUS
  <2>. QED
    BY <1>1, <2>1, <2>2 DEF Filled
<1>5. s \in 0 .. len - 1 => ~table[s].in_use /\ g = table[s].generation
  BY <1>1 DEF Filled
<1>6. s \notin 0 .. len - 1 => g = 1
  BY <1>1 DEF Filled
<1>7. table'[s].in_use /\ table'[s].ptr = a /\ a \notin heap
      /\ answer' = <<"alloc", Null, h>>
  BY DEF Filled
<1>. HIDE DEF g
<1>8. \A i \in 0 .. len - 1 : \A k \in 0 .. GenBase - 1 :
        h = genref_pack(i, k) => i = s /\ k = g
  BY <1>1, <1>3, PackInjective
<1>9. h \notin LiveHandles
  BY <1>2, <1>5, <1>8 DEF LiveHandles
<1>10. h \notin IssuedHandles
  <2>1. ASSUME NEW i \in 0 .. len - 1, NEW k \in 1 .. table[i].generation - 1,
               h = genref_pack(i, k)
        PROVE  FALSE
    <3>1. k \in 0 .. GenBase - 1 /\ k < table[i].generation
      BY <1>2, GenRefAssumption
    <3>. QED
      BY <1>3, <1>5, <1>8, <2>1, <3>1
  <2>. QED
    BY <1>9, <2>1 DEF IssuedHandles
<1>11. h \in 1 .. MaxSlots * GenBase - 1
  <2>1. h = s * GenBase + g /\ GenBase \in Nat /\ MaxSlots \in Nat
    BY GenRefAssumption DEF genref_pack
  <2>2. s * GenBase + GenBase <= MaxSlots * GenBase
    BY <1>3, <2>1, TimesMonotonic
  <2>3. s * GenBase \in Nat /\ MaxSlots * GenBase \in Nat
    BY <2>1
  <2>. HIDE DEF h
  <2>. QED
    BY <1>3, <2>1, <2>2, <2>3
<1>12. LiveHandles' = LiveHandles \cup {h}
  <2>1. ASSUME NEW x \in LiveHandles' PROVE x \in LiveHandles \cup {h}
    <3>1. PICK i \in 0 .. len' - 1 :
            table'[i].in_use /\ x = genref_pack(i, table'[i].generation)
      BY DEF LiveHandles
    <3>. QED
      BY <1>4, <3>1 DEF LiveHandles, g
  <2>2. ASSUME NEW x \in LiveHandles PROVE x \in LiveHandles'
    <3>1. PICK i \in 0 .. len - 1 :
            table[i].in_use /\ x = genref_pack(i, table[i].generation)
      BY DEF LiveHandles
    <3>2. i \in 0 .. len' - 1 /\ table'[i] = table[i]
      BY <1>4, <1>5, <3>1
    <3>. QED
      BY <3>1, <3>2 DEF LiveHandles
  <2>3. h \in LiveHandles'
    BY <1>3, <1>7 DEF LiveHandles, g
  <2>. QED
    BY <2>1, <2>2, <2>3
<1>13. IssuedHandles' = IssuedHandles \cup {h}
  <2>0. \A i \in 0 .. len - 1 : table'[i].generation = table[i].generation
    BY <1>4, <1>5 DEF g
  <2>1. ASSUME NEW x \in IssuedHandles' PROVE x \in IssuedHandles \cup {h}
    <3>1. CASE x \in LiveHandles'
      BY <1>12, <3>1 DEF IssuedHandles
    <3>2. ASSUME NEW i \in 0 .. len' - 1,
                 NEW k \in 1 .. table'[i].generation - 1, x = genref_pack(i, k)
          PROVE  x \in IssuedHandles
      <4>1. CASE i \in 0 .. len - 1
        BY <2>0, <3>2, <4>1 DEF IssuedHandles
      <4>2. CASE i \notin 0 .. len - 1
        <5>1. i = s /\ table'[i].generation = 1
          BY <1>4, <1>6, <4>2 DEF g
        <5>. QED
          BY <5>1
      <4>. QED
        BY <4>1, <4>2
    <3>. QED
      BY <3>1, <3>2 DEF IssuedHandles
  <2>2. ASSUME NEW x \in IssuedHandles PROVE x \in IssuedHandles'
    <3>1. CASE x \in LiveHandles
      BY <1>12, <3>1 DEF IssuedHandles
    <3>2. ASSUME NEW i \in 0 .. len - 1,
                 NEW k \in 1 .. table[i].generation - 1, x = genref_pack(i, k)
          PROVE  x \in IssuedHandles'
      BY <1>4, <2>0, <3>2 DEF IssuedHandles
    <3>. QED
      BY <3>1, <3>2 DEF IssuedHandles
  <2>. QED
    BY <1>12, <2>1, <2>2 DEF IssuedHandles
<1>14. LiveMap' = [x \in LiveHandles \cup {h} |-> IF x = h THEN a ELSE LiveMap[x]]
  <2>1. genref_slot(h) = s
    BY <1>3, PackUnpack
  <2>2. ASSUME NEW x \in LiveHandles
        PROVE  table'[genref_slot(x)].ptr = LiveMap[x]
    <3>1. PICK i \in 0 .. len - 1 :
            table[i].in_use /\ x = genref_pack(i, table[i].generation)
      BY DEF LiveHandles
    <3>2. genref_slot(x) = i
      BY <1>1, <1>2, <3>1, PackUnpack
    <3>3. table'[i] = table[i]
      BY <1>4, <1>5, <3>1
    <3>. QED
      BY <3>2, <3>3 DEF LiveMap
  <2>. QED
    BY <1>7, <1>9, <1>12, <2>1, <2>2 DEF LiveMap
<1>15. a \notin {LiveMap[x] : x \in DOMAIN LiveMap}
  <2>1. ASSUME NEW x \in LiveHandles PROVE LiveMap[x] \in heap
    <3>1. PICK i \in 0 .. len - 1 :
            table[i].in_use /\ x = genref_pack(i, table[i].generation)
      BY DEF LiveHandles
    <3>. QED
      BY <1>1, <3>1, LiveLookup DEF HeapExact
  <2>2. DOMAIN LiveMap = LiveHandles
    BY DEF LiveMap
  <2>. QED
    BY <1>7, <2>1, <2>2
<1>16. DOMAIN LiveMap = LiveHandles
  BY DEF LiveMap
<1>. HIDE DEF h
<1>. QED
  BY <1>7, <1>10, <1>11, <1>13, <1>14, <1>15, <1>16 DEF Map!Alloc, Map!InUse

\* Freeing a live handle is a free of HandleMap: the handle dies, no other does,
\* and it stays among the ones given out.
LEMMA FreeMaps ==
  ASSUME IInv, NEW h \in Probes, Free(h)
  PROVE  Map!Free(h)
<1>. DEFINE s == genref_slot(h)
<1>1. /\ TypeOK /\ len' = len /\ len \in Nat
      /\ table'[s].generation = table[s].generation + 1
      /\ ~table'[s].in_use
      /\ \A i \in 0 .. cap - 1 : i # s => table'[i] = table[i]
      /\ \A i \in 0 .. len - 1 : i \in 0 .. cap - 1
  <2>1. /\ len' = len
        /\ table'[s] = [ptr |-> Null, generation |-> table[s].generation + 1,
                        in_use |-> FALSE]
        /\ \A i \in 0 .. cap - 1 : i # s => table'[i] = table[i]
    BY FreeEmpties
  <2>2. TypeOK
    BY DEF IInv
  <2>3. len \in Nat /\ \A i \in 0 .. len - 1 : i \in 0 .. cap - 1
    BY <2>2 DEF TypeOK
  <2>. QED
    BY <2>1, <2>2, <2>3
<1>2. s \in 0 .. len - 1 /\ table[s].in_use
      /\ h = genref_pack(s, table[s].generation)
  BY <1>1, MatchedSlot DEF Free
<1>. HIDE DEF s
<1>3. \A i \in 0 .. len - 1 : /\ i \in Nat
                               /\ table[i].generation \in 1 .. GenBase - 1
                               /\ table[i].generation \in 0 .. GenBase - 1
                               /\ table[i].generation \in Nat
  <2>1. \A i \in 0 .. len - 1 : i \in Nat /\ table[i] \in Slots
    BY <1>1 DEF TypeOK
  <2>. QED
    BY <2>1, GenRefAssumption DEF Slots
<1>4. \A i \in 0 .. len - 1 :
        genref_pack(i, table[i].generation) = h => i = s
  BY <1>2, <1>3, PackInjective
<1>5. LiveHandles' = LiveHandles \ {h}
  <2>1. ASSUME NEW x \in LiveHandles' PROVE x \in LiveHandles \ {h}
    <3>1. PICK i \in 0 .. len - 1 :
            table'[i].in_use /\ x = genref_pack(i, table'[i].generation)
      BY <1>1 DEF LiveHandles
    <3>2. i # s /\ table'[i] = table[i]
      BY <1>1, <3>1
    <3>. QED
      BY <1>4, <3>1, <3>2 DEF LiveHandles
  <2>2. ASSUME NEW x \in LiveHandles, x # h PROVE x \in LiveHandles'
    <3>1. PICK i \in 0 .. len - 1 :
            table[i].in_use /\ x = genref_pack(i, table[i].generation)
      BY DEF LiveHandles
    <3>2. table'[i] = table[i]
      BY <1>1, <1>2, <2>2, <3>1
    <3>. QED
      BY <1>1, <3>1, <3>2 DEF LiveHandles
  <2>. QED
    BY <2>1, <2>2
<1>6. h \in LiveHandles
  BY <1>2 DEF LiveHandles
<1>7. IssuedHandles' = IssuedHandles
  <2>1. ASSUME NEW x \in IssuedHandles' PROVE x \in IssuedHandles
    <3>1. CASE x \in LiveHandles'
      BY <1>5, <3>1 DEF IssuedHandles
    <3>2. ASSUME NEW i \in 0 .. len - 1,
                 NEW k \in 1 .. table'[i].generation - 1, x = genref_pack(i, k)
          PROVE  x \in IssuedHandles
      <4>1. CASE i # s
        BY <1>1, <3>2, <4>1 DEF IssuedHandles
      <4>2. CASE i = s /\ k = table[s].generation
        BY <1>2, <1>6, <3>2, <4>2 DEF IssuedHandles
      <4>3. CASE i = s /\ k # table[s].generation
        <5>1. k \in 1 .. table[i].generation - 1
          BY <1>1, <1>3, <4>3
        <5>. QED
          BY <3>2, <5>1 DEF IssuedHandles
      <4>. QED
        BY <4>1, <4>2, <4>3
    <3>. QED
      BY <1>1, <3>1, <3>2 DEF IssuedHandles
  <2>2. ASSUME NEW x \in IssuedHandles PROVE x \in IssuedHandles'
    <3>1. CASE x \in LiveHandles /\ x # h
      BY <1>5, <3>1 DEF IssuedHandles
    <3>2. CASE x = h
      <4>1. table[s].generation \in 1 .. table'[s].generation - 1
        BY <1>1, <1>2, <1>3
      <4>. QED
        BY <1>1, <1>2, <3>2, <4>1 DEF IssuedHandles
    <3>3. ASSUME NEW i \in 0 .. len - 1,
                 NEW k \in 1 .. table[i].generation - 1, x = genref_pack(i, k)
          PROVE  x \in IssuedHandles'
      <4>1. k \in 1 .. table'[i].generation - 1
        BY <1>1, <1>3
      <4>. QED
        BY <1>1, <3>3, <4>1 DEF IssuedHandles
    <3>. QED
      BY <3>1, <3>2, <3>3 DEF IssuedHandles
  <2>. QED
    BY <2>1, <2>2
<1>8. LiveMap' = [x \in LiveHandles \ {h} |-> LiveMap[x]]
  <2>1. ASSUME NEW x \in LiveHandles, x # h
        PROVE  table'[genref_slot(x)].ptr = LiveMap[x]
    <3>1. PICK i \in 0 .. len - 1 :
            table[i].in_use /\ x = genref_pack(i, table[i].generation)
      BY DEF LiveHandles
    <3>2. genref_slot(x) = i
      BY <1>3, <3>1, PackUnpack
    <3>3. table'[i] = table[i]
      BY <1>1, <1>2, <2>1, <3>1
    <3>. QED
      BY <3>2, <3>3 DEF LiveMap
  <2>. QED
    BY <1>5, <2>1 DEF LiveMap
<1>9. DOMAIN LiveMap = LiveHandles
  BY DEF LiveMap
<1>. QED
  BY <1>7, <1>8, <1>9 DEF Map!Free, Free

\* The table implements HandleMap, whatever its capacity, the width of the
\* generation counter and the handles callers pass.
THEOREM Refinement == Spec => ImplementsHandleMap
<1>1. Init => Map!Init
  <2>. SUFFICES ASSUME Init PROVE Map!Init
    OBVIOUS
  <2>1. 0 .. len - 1 = {}
    BY DEF Init
  <2>2. LiveHandles = {} /\ IssuedHandles = {}
    BY <2>1 DEF LiveHandles, IssuedHandles
  <2>3. LiveMap = [h \in {} |-> Null]
    BY <2>2 DEF LiveMap
  <2>. QED
    BY <2>2, <2>3 DEF Init, Map!Init
<1>2. IInv /\ IInv' /\ [Next]_vars
        => [Map!Next]_<<LiveMap, IssuedHandles, answer>>
  <2>. SUFFICES ASSUME IInv, IInv', [Next]_vars
                PROVE  [Map!Next]_<<LiveMap, IssuedHandles, answer>>
    OBVIOUS
  <2>0. TypeOK /\ TypeOK' /\ DOMAIN LiveMap = LiveHandles
    BY DEF IInv, LiveMap
  <2>1. ASSUME UNCHANGED <<table, len>>
        PROVE  LiveMap' = LiveMap /\ IssuedHandles' = IssuedHandles
    BY <2>1 DEF LiveMap, LiveHandles, IssuedHandles
  <2>2. CASE Alloc
    <3>1. PICK s \in Nat, a \in Addrs : Filled(s, a)
      BY <2>2, AllocFills
    <3>. QED
      BY <2>0, <3>1, FilledMaps DEF Map!Next
  <2>3. CASE AllocNothing
    BY <2>1, <2>3 DEF AllocNothing, Map!Refuse, Map!Next
  <2>4. CASE OutOfMemory
    BY <2>1, <2>4 DEF OutOfMemory
  <2>5. ASSUME NEW h \in Probes, Deref(h) PROVE Map!Deref(h)
    <3>1. CASE Matches(h)
      <4>1. h \in LiveHandles /\ LiveMap[h] = table[genref_slot(h)].ptr
        BY <2>0, <3>1, MatchesIffLive DEF LiveMap
      <4>. QED
        BY <2>0, <2>1, <2>5, <3>1, <4>1 DEF Deref, Map!Deref
    <3>2. CASE ~Matches(h)
      <4>1. h \notin LiveHandles
        BY <2>0, <3>2, MatchesIffLive
      <4>. QED
        BY <2>0, <2>1, <2>5, <3>2, <4>1 DEF Deref, Map!Deref
    <3>. QED
      BY <3>1, <3>2
  <2>6. ASSUME NEW h \in Probes, Free(h) PROVE Map!Free(h)
    BY <2>6, FreeMaps
  <2>7. ASSUME NEW h \in Probes, FreeWraps(h)
        PROVE  UNCHANGED <<LiveMap, IssuedHandles, answer>>
    BY <2>1, <2>7 DEF FreeWraps
  <2>8. ASSUME NEW h \in Probes, FreeIgnored(h) PROVE Map!Free(h)
    <3>1. h \notin LiveHandles
      BY <2>0, <2>8, MatchesIffLive DEF FreeIgnored
    <3>2. LiveMap = [g \in LiveHandles \ {h} |-> LiveMap[g]]
      BY <3>1 DEF LiveMap
    <3>. QED
      BY <2>0, <2>1, <2>8, <3>2 DEF FreeIgnored, Map!Free
  <2>9. CASE UNCHANGED vars
    BY <2>1, <2>9 DEF vars
  <2>. QED
    BY <2>2, <2>3, <2>4, <2>5, <2>6, <2>7, <2>8, <2>9 DEF Next, Map!Next
<1>. QED
  BY <1>1, <1>2, Invariance, PTL DEF Spec, ImplementsHandleMap, Map!Spec

-----------------------------------------------------------------------------
(***************************************************************************)
(* What the holder of a handle sees over time.                             *)
(***************************************************************************)

\* A handle once given out stays given out; if its allocation has gone it
\* never comes back, and while it lives it never leads anywhere else.
DeadStayDead ==
  /\ IssuedHandles \subseteq IssuedHandles'
  /\ (IssuedHandles \ LiveHandles) \cap LiveHandles' = {}
  /\ \A h \in LiveHandles \cap LiveHandles' : LiveMap'[h] = LiveMap[h]

\* A stale handle stays stale and a live one keeps its address, however often
\* slots and addresses are reused, for every width of the generation counter
\* (gen_alloc's reuse of slots, gen_free's bump and its abort).
THEOREM StaleForEver == Spec => [][DeadStayDead]_vars
<1>1. DOMAIN LiveMap = LiveHandles /\ (DOMAIN LiveMap)' = LiveHandles'
  BY DEF LiveMap
<1>2. LiveHandles \subseteq IssuedHandles
  BY DEF IssuedHandles
<1>3. Map!Alloc => DeadStayDead
  BY <1>1, <1>2, Zenon DEF Map!Alloc, DeadStayDead
<1>4. UNCHANGED <<LiveMap, IssuedHandles>> => DeadStayDead
  BY <1>1 DEF DeadStayDead
<1>5. ASSUME NEW h \in Probes, Map!Free(h) PROVE DeadStayDead
  <2>1. LiveMap' = [g \in LiveHandles \ {h} |-> LiveMap[g]] /\ IssuedHandles' = IssuedHandles
    BY <1>1, <1>5 DEF Map!Free
  <2>2. LiveHandles' = LiveHandles \ {h}
    BY <1>1, <2>1
  <2>. QED
    BY <2>1, <2>2 DEF DeadStayDead
<1>6. [Map!Next]_<<LiveMap, IssuedHandles, answer>> => [DeadStayDead]_vars
  BY <1>3, <1>4, <1>5 DEF Map!Next, Map!Deref, Map!Refuse
<1>. QED
  BY <1>6, Refinement, PTL DEF ImplementsHandleMap, Map!Spec
=============================================================================
