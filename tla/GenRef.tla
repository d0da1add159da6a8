-------------------------------- MODULE GenRef --------------------------------
(***************************************************************************)
(* Generation-checked references of the runtime (RFC 0010 Phase J-B): a    *)
(* growable table of slots, each with a generation counter, and 64-bit     *)
(* handles that pack a slot index with the generation it had when the      *)
(* handle was made.                                                        *)
(*                                                                         *)
(* malloc is external: it returns any address that is not allocated, an    *)
(* address freed earlier included.  The caller may pass any number as a    *)
(* handle: stale, freed twice, or never given out.                         *)
(***************************************************************************)
EXTENDS Naturals

CONSTANTS
  Addrs,      \* heap addresses
  Null,       \* the null pointer
  InitCap,    \* MIND_GENREF_INIT_CAP
  GenBase,    \* number of generation values (2^32 in the code)
  MaxSlots,   \* bound: slots the table may grow to
  Probes      \* handles a caller may pass

ASSUME GenRefAssumption ==
  /\ Null \notin Addrs
  /\ InitCap \in Nat \ {0}
  /\ GenBase \in Nat \ {0, 1}
  /\ MaxSlots \in Nat
  /\ Probes \subseteq Nat

VARIABLES
  table,    \* genref_table: [0 .. cap - 1 -> slots]; empty before first use
  cap,      \* genref_cap; 0 before first use
  len,      \* genref_len
  heap,     \* the addresses malloc has handed out and not got back
  answer,   \* history: the last call, <<operation, argument, result>>
  aborted   \* abort() was called

vars == <<table, cap, len, heap, answer, aborted>>

Slots == [ptr : Addrs \cup {Null}, generation : 1 .. GenBase - 1,
          in_use : BOOLEAN]

EmptySlot == [ptr |-> Null, generation |-> 1, in_use |-> FALSE]

genref_pack(slot, gen) == slot * GenBase + gen
genref_slot(handle)    == handle \div GenBase
genref_gen(handle)     == handle % GenBase

Init ==
  /\ table = [i \in {} |-> EmptySlot]
  /\ cap = 0 /\ len = 0
  /\ heap = {}
  /\ answer = <<"none", Null, Null>>
  /\ aborted = FALSE

-----------------------------------------------------------------------------
\* genref_ensure_init.
InitialCap   == IF cap = 0 THEN InitCap ELSE cap
InitialTable == IF cap = 0 THEN [i \in 0 .. InitCap - 1 |-> EmptySlot]
                ELSE table

\* The scan reuses the first free slot.
FirstFree(s) == /\ s \in 0 .. len - 1
                /\ ~table[s].in_use
                /\ \A t \in 0 .. s - 1 : table[t].in_use

\* Without one, a slot is appended, doubling a full table; new slots start at
\* generation 1.
GrownCap   == IF len >= InitialCap THEN InitialCap * 2 ELSE InitialCap
GrownTable == [i \in 0 .. GrownCap - 1 |->
                 IF i < InitialCap THEN InitialTable[i] ELSE EmptySlot]

\* The slot keeps its generation.
Placed(t, s, a) ==
  [t EXCEPT ![s] = [ptr |-> a, generation |-> @.generation, in_use |-> TRUE]]

Place(t, s, a) ==
  /\ table' = Placed(t, s, a)
  /\ answer' = <<"alloc", Null, genref_pack(s, t[s].generation)>>
  /\ heap' = heap \cup {a}

\* __mind_gen_alloc with a positive size.
Alloc ==
  /\ ~aborted
  /\ \E a \in Addrs \ heap :
       \/ \E s \in 0 .. len - 1 :
            /\ FirstFree(s)
            /\ Place(table, s, a)
            /\ UNCHANGED <<cap, len>>
       \/ /\ \A s \in 0 .. len - 1 : table[s].in_use
          /\ len < MaxSlots
          /\ Place(GrownTable, len, a)
          /\ cap' = GrownCap
          /\ len' = len + 1
  /\ UNCHANGED aborted

\* __mind_gen_alloc with a size that is not positive.
AllocNothing ==
  /\ ~aborted
  /\ answer' = <<"alloc", Null, Null>>
  /\ UNCHANGED <<table, cap, len, heap, aborted>>

\* malloc or realloc fails inside __mind_gen_alloc.  abort() ends the process
\* and its memory with it, so what it leaves in the table is not modelled.
OutOfMemory ==
  /\ ~aborted
  /\ aborted' = TRUE
  /\ UNCHANGED <<table, cap, len, heap, answer>>

\* Mutant: the generation is not compared.
MatchesSlot(h) ==
  /\ h # 0
  /\ genref_slot(h) < len
  /\ table[genref_slot(h)].in_use

\* The checks deref and free share: a live slot of the handle's generation.
Matches(h) ==
  /\ h # 0
  /\ genref_slot(h) < len
  /\ table[genref_slot(h)].generation = genref_gen(h)
  /\ table[genref_slot(h)].in_use

Deref(h) ==
  /\ ~aborted
  /\ answer' = <<"deref", h, IF Matches(h) THEN table[genref_slot(h)].ptr
                           ELSE Null>>
  /\ UNCHANGED <<table, cap, len, heap, aborted>>

\* Mutant: the generation counter wraps without an abort.
NeverWraps(slot) == FALSE

\* The generation counter is at its last value.
Wraps(slot) == slot.generation = GenBase - 1

\* Mutant: the slot stays in use.
FreedInUse(slot) == [slot EXCEPT !.generation = @ + 1]

\* Mutant: the generation is not bumped.
FreedSameGeneration(slot) ==
  [ptr |-> Null, generation |-> slot.generation, in_use |-> FALSE]

\* A slot after gen_free.
Freed(slot) ==
  [ptr |-> Null, generation |-> slot.generation + 1, in_use |-> FALSE]

\* __mind_gen_free of a live handle.
Free(h) ==
  /\ ~aborted
  /\ Matches(h)
  /\ ~Wraps(table[genref_slot(h)])
  /\ heap' = heap \ {table[genref_slot(h)].ptr}
  /\ table' = [table EXCEPT ![genref_slot(h)] = Freed(@)]
  /\ answer' = <<"free", h, Null>>
  /\ UNCHANGED <<cap, len, aborted>>

\* The last free of a slot ends the process, as above.
FreeWraps(h) ==
  /\ ~aborted
  /\ Matches(h)
  /\ Wraps(table[genref_slot(h)])
  /\ aborted' = TRUE
  /\ UNCHANGED <<table, cap, len, heap, answer>>

\* Any other handle is ignored.
FreeIgnored(h) ==
  /\ ~aborted
  /\ ~Matches(h)
  /\ answer' = <<"free", h, Null>>
  /\ UNCHANGED <<table, cap, len, heap, aborted>>

Next ==
  \/ Alloc
  \/ AllocNothing
  \/ OutOfMemory
  \/ \E h \in Probes : Deref(h) \/ Free(h) \/ FreeWraps(h) \/ FreeIgnored(h)

Spec == Init /\ [][Next]_vars

-----------------------------------------------------------------------------
\* Type invariant.
TypeOK ==
  /\ cap \in Nat /\ len \in 0 .. cap
  /\ table \in [0 .. cap - 1 -> Slots]
  /\ heap \subseteq Addrs
  /\ answer \in {"none", "alloc", "deref", "free"} \X (Probes \cup {Null})
               \X (Addrs \cup {Null} \cup Nat)
  /\ aborted \in BOOLEAN

\* Every allocation is owned by exactly one slot in use and every slot in use
\* owns one: nothing leaks, and gen_free never passes free() an address that is
\* not allocated.
HeapExact ==
  /\ \A s \in 0 .. len - 1 : table[s].in_use => table[s].ptr \in heap
  /\ \A a \in heap : \E s \in 0 .. len - 1 : table[s].in_use /\ table[s].ptr = a
  /\ \A s, t \in 0 .. len - 1 :
       table[s].in_use /\ table[t].in_use /\ table[s].ptr = table[t].ptr => s = t

\* Slots never used yet are as they were created.
UnusedSlots == \A s \in len .. cap - 1 : table[s] = EmptySlot

\* The inductive invariant.
IInv == TypeOK /\ HeapExact /\ UnusedSlots /\ len <= MaxSlots

\* The handles whose allocation lives, and the ones given out so far: a slot
\* has been through every generation below its current one.
LiveHandles == {genref_pack(s, table[s].generation) :
                  s \in {t \in 0 .. len - 1 : table[t].in_use}}
IssuedHandles ==
  LiveHandles \cup
  UNION {{genref_pack(s, g) : g \in 1 .. table[s].generation - 1} :
           s \in 0 .. len - 1}

LiveMap == [h \in LiveHandles |-> table[genref_slot(h)].ptr]

Map == INSTANCE HandleMap WITH
         Handles <- 1 .. MaxSlots * GenBase - 1,
         Asked <- Probes,
         live <- LiveMap,
         issued <- IssuedHandles

\* The table implements the promise of HandleMap: no handle is given out twice
\* or is the null handle 0, a live handle leads to its own allocation, and a
\* stale, doubly freed or made-up one leads nowhere and frees nothing, although
\* slots and addresses are reused.
ImplementsHandleMap == Map!Spec
=============================================================================
