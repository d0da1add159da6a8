--------------------------- MODULE ReactorProofs ---------------------------
(***************************************************************************)
(* Proofs about the reactor (Reactor): its table of connections behaves as *)
(* a map, request numbers identify what is pending, and what is drained    *)
(* depends on nothing but which completions there were.                    *)
(***************************************************************************)
EXTENDS Reactor, FiniteSetTheorems, SequenceTheorems, WellFoundedInduction, TLAPS

Entry == [conn : Int, next : Nat]

\* Bags of operations <<conn, req, op>>, and of events <<conn, req, op, result>>.
OpSize    == 3
EventSize == 4

IsRecord(n, e) == e \in Seq(Int) /\ Len(e) = n

IsBagOf(n, B) == /\ \A e \in DOMAIN B : IsRecord(n, e)
                 /\ B \in [DOMAIN B -> Nat \ {0}]

TypeOK ==
    /\ cap \in Nat
    /\ slots \in Seq(Entry)
    /\ IsBagOf(OpSize, flight) /\ IsBagOf(EventSize, pushed)
    /\ reopened \in BOOLEAN

\* A connection has one slot, and the table is not larger than it was made.
Distinct == \A i, j \in DOMAIN slots : slots[i].conn = slots[j].conn => i = j

Fitting == Len(slots) <= cap

\* What is pending belongs to a tracked connection and was numbered before
\* its next request.
Numbered ==
    ~reopened => \A o \in Pending :
        \E i \in DOMAIN slots : slots[i].conn = o[1] /\ o[2] < slots[i].next

\* Nothing pending shares its key, and nothing is there twice.
KeyOnce ==
    ~reopened => \A o1, o2 \in Pending : o1[1] = o2[1] /\ o1[2] = o2[2] => o1 = o2

Single ==
    ~reopened => /\ \A o \in DOMAIN flight : flight[o] = 1
                 /\ \A e \in DOMAIN pushed : pushed[e] = 1

IInv == TypeOK /\ Distinct /\ Fitting /\ Numbered /\ KeyOnce /\ Single

-----------------------------------------------------------------------------
\* Operations and events are different things, a completion has the key of its
\* operation, and keys are integers.
LEMMA SizesAre == OpSize \in Nat /\ EventSize \in Nat /\ EventSize = OpSize + 1 /\ OpSize >= 2
BY DEF OpSize, EventSize

LEMMA RecordsApart == \A e : ~(IsRecord(OpSize, e) /\ IsRecord(EventSize, e))
BY SizesAre DEF IsRecord

LEMMA RecordKeys ==
    ASSUME NEW e, IsRecord(OpSize, e) \/ IsRecord(EventSize, e)
    PROVE  e[1] \in Int /\ e[2] \in Int
<1>1. e \in Seq(Int) /\ 1 \in 1 .. Len(e) /\ 2 \in 1 .. Len(e)
    BY SizesAre DEF IsRecord
<1> QED
    BY <1>1, ElementOfSeq

LEMMA RecordMade ==
    \A a, b, c \in Int : /\ IsRecord(OpSize, <<a, b, c>>)
                         /\ <<a, b, c>>[1] = a /\ <<a, b, c>>[2] = b
BY DEF IsRecord, OpSize

LEMMA RecordGrows ==
    ASSUME NEW o, IsRecord(OpSize, o), NEW r \in Int
    PROVE  /\ IsRecord(EventSize, Append(o, r))
           /\ Append(o, r)[1] = o[1] /\ Append(o, r)[2] = o[2]
<1>1. o \in Seq(Int) /\ Len(o) = OpSize
    BY DEF IsRecord
<1>2. Append(o, r) \in Seq(Int) /\ Len(Append(o, r)) = EventSize
    BY <1>1, SizesAre, AppendProperties
<1>3. \A i \in 1 .. OpSize : Append(o, r)[i] = o[i]
    BY <1>1, SizesAre, AppendProperties
<1> QED
    BY <1>2, <1>3, SizesAre DEF IsRecord

LEMMA PendingRecords == TypeOK => \A o \in Pending : o[1] \in Int /\ o[2] \in Int
BY RecordKeys DEF TypeOK, IsBagOf, Pending, BagToSet

LEMMA ReactorStarts == ReactorInit => IInv
<1> SUFFICES ASSUME ReactorInit PROVE IInv
    OBVIOUS
<1>1. DOMAIN EmptyBag = {} /\ EmptyBag \in [DOMAIN EmptyBag -> Nat \ {0}]
    BY DEF EmptyBag, SetToBag
<1>2. TypeOK
  <2>1. IsBagOf(OpSize, EmptyBag) /\ IsBagOf(EventSize, EmptyBag)
    BY <1>1 DEF IsBagOf
  <2>2. slots \in Seq(Entry)
    BY EmptySeq DEF ReactorInit
  <2>3. cap \in Nat /\ reopened \in BOOLEAN
    BY DEF ReactorInit
  <2> QED
    BY <2>1, <2>2, <2>3 DEF ReactorInit, TypeOK
<1>3. DOMAIN slots = {} /\ Len(slots) = 0 /\ Pending = {} /\ cap = 0
    BY <1>1 DEF ReactorInit, Pending, BagToSet
<1>4. Distinct /\ Fitting /\ Numbered /\ KeyOnce /\ Single
    BY <1>1, <1>3 DEF ReactorInit, Distinct, Fitting, Numbered, KeyOnce, Single
<1> QED
    BY <1>2, <1>4 DEF IInv

\* A set of numbers that is not empty has a least element.
LEMMA LeastIs ==
    \A S \in SUBSET Nat : S # {} => Min(S) \in S /\ \A j \in S : Min(S) <= j
<1> SUFFICES ASSUME NEW S \in SUBSET Nat, S # {}
             PROVE  Min(S) \in S /\ \A j \in S : Min(S) <= j
    OBVIOUS
<1>1. PICK i \in S : \A j \in S : <<j, i>> \notin OpToRel(<, Nat)
    BY WFMin, NatLessThanWellFounded, Zenon
<1>2. ASSUME NEW j \in S PROVE i =< j
  <2>1. ~(j < i)
    BY <1>1 DEF OpToRel
  <2> QED
    BY <2>1
<1> QED
    BY <1>2 DEF Min

\* reactor_index_of: a slot of the connection, or 0 when there is none.
IndexFound(c) ==
    \/ IndexOf(c) = 0 /\ \A i \in DOMAIN slots : slots[i].conn # c
    \/ IndexOf(c) \in DOMAIN slots /\ slots[IndexOf(c)].conn = c /\ IndexOf(c) > 0

LEMMA IndexIs == slots \in Seq(Entry) => \A c \in Int : IndexFound(c)
<1> SUFFICES ASSUME slots \in Seq(Entry), NEW c \in Int PROVE IndexFound(c)
    OBVIOUS
<1> DEFINE I == {i \in 1 .. Len(slots) : slots[i].conn = c}
<1>1. IndexOf(c) = IF I # {} THEN Min(I) ELSE 0
    BY DEF IndexOf, SelectInSeq
<1>2. DOMAIN slots = 1 .. Len(slots) /\ I \in SUBSET Nat
    OBVIOUS
<1>3. CASE I = {}
    BY <1>1, <1>2, <1>3 DEF IndexFound
<1>4. CASE I # {}
  <2>1. Min(I) \in I
    <3> HIDE DEF I
    <3> QED
      BY <1>2, <1>4, LeastIs
  <2> QED
    BY <2>1, <1>1, <1>2, <1>4 DEF IndexFound
<1> QED
    BY <1>3, <1>4

\* One more copy of an element in a bag.
Gained(n, B, e, C) ==
    /\ IsBagOf(n, C) /\ DOMAIN C = DOMAIN B \cup {e}
    /\ \A d \in DOMAIN B : d # e => C[d] = B[d]
    /\ C[e] = IF e \in DOMAIN B THEN B[e] + 1 ELSE 1

LEMMA BagGains ==
    ASSUME NEW n \in Nat, NEW B, IsBagOf(n, B), NEW e, IsRecord(n, e)
    PROVE  Gained(n, B, e, B (+) SetToBag({e}))
<1> DEFINE T == [x \in {e} |-> 1]
           C == [d \in DOMAIN B \cup DOMAIN T |->
                   (IF d \in DOMAIN B THEN B[d] ELSE 0) + (IF d \in DOMAIN T THEN T[d] ELSE 0)]
<1>1. B (+) SetToBag({e}) = C
    BY DEF (+), SetToBag
<1>2. DOMAIN C = DOMAIN B \cup {e}
    OBVIOUS
<1>3. \A d \in DOMAIN B : B[d] \in Nat \ {0} /\ IsRecord(n, d)
    BY DEF IsBagOf
<1>4. \A d \in DOMAIN B : d # e => C[d] = B[d]
    BY <1>3
<1>5. e \notin DOMAIN B => C[e] = 1
    OBVIOUS
<1>6. e \in DOMAIN B => C[e] = B[e] + 1
    BY <1>3
<1>7. \A d \in DOMAIN C : C[d] \in Nat \ {0}
    BY <1>2, <1>3, <1>4, <1>5, <1>6
<1>8. C \in [DOMAIN C -> Nat \ {0}]
    BY <1>7
<1> HIDE DEF C
<1> QED
    BY <1>1, <1>2, <1>3, <1>4, <1>5, <1>6, <1>8 DEF IsBagOf, Gained

\* One copy less.
Lost(n, B, e, C) ==
    /\ IsBagOf(n, C) /\ DOMAIN C \subseteq DOMAIN B
    /\ \A d \in DOMAIN B : d # e => C[d] = B[d]
    /\ B[e] = 1 => DOMAIN C = DOMAIN B \ {e}

LEMMA BagLoses ==
    ASSUME NEW n \in Nat, NEW B, IsBagOf(n, B), NEW e \in DOMAIN B
    PROVE  Lost(n, B, e, B (-) SetToBag({e}))
<1> DEFINE T == [x \in {e} |-> 1]
           D == [d \in DOMAIN B |-> IF d \in DOMAIN T THEN B[d] - T[d] ELSE B[d]]
           C == [d \in {x \in DOMAIN D : D[x] > 0} |-> D[d]]
<1>1. B (-) SetToBag({e}) = C
    BY DEF (-), SetToBag
<1>2. \A d \in DOMAIN B : B[d] \in Nat \ {0} /\ IsRecord(n, d)
    BY DEF IsBagOf
<1>3. DOMAIN D = DOMAIN B /\ D[e] = B[e] - 1 /\ \A d \in DOMAIN B : d # e => D[d] = B[d]
    OBVIOUS
<1> HIDE DEF D
<1>4. DOMAIN C \subseteq DOMAIN B /\ \A d \in DOMAIN B : d # e => d \in DOMAIN C /\ C[d] = B[d]
    BY <1>2, <1>3
<1>5. B[e] = 1 => e \notin DOMAIN C
    BY <1>3
<1>6. \A d \in DOMAIN C : C[d] \in Nat \ {0}
    BY <1>2, <1>3
<1>7. C \in [DOMAIN C -> Nat \ {0}]
    BY <1>6
<1> HIDE DEF C
<1>8. IsBagOf(n, C)
    BY <1>2, <1>4, <1>7 DEF IsBagOf
<1>9. B[e] = 1 => DOMAIN C = DOMAIN B \ {e}
    BY <1>4, <1>5
<1> QED
    BY <1>1, <1>4, <1>8, <1>9 DEF Lost

-----------------------------------------------------------------------------
\* Closing a connection: the last slot takes the place of the one that goes.
LEMMA WithoutIs ==
    ASSUME slots \in Seq(Entry), NEW i \in DOMAIN slots
    PROVE  /\ Without(i) \in Seq(Entry)
           /\ Len(Without(i)) = Len(slots) - 1
           /\ \A j \in 1 .. Len(slots) - 1 :
                Without(i)[j] = IF j = i THEN slots[Len(slots)] ELSE slots[j]
<1> DEFINE moved == [slots EXCEPT ![i] = slots[Len(slots)]]
<1>1. DOMAIN slots = 1 .. Len(slots) /\ Len(slots) \in Nat /\ Len(slots) >= 1
    OBVIOUS
<1>2. slots[Len(slots)] \in Entry
    BY <1>1
<1>3. /\ moved \in Seq(Entry) /\ Len(moved) = Len(slots)
      /\ \A j \in 1 .. Len(slots) : moved[j] = IF j = i THEN slots[Len(slots)] ELSE slots[j]
    BY <1>1, <1>2, ExceptSeq
<1>4. Without(i) = SubSeq(moved, 1, Len(moved) - 1)
    BY DEF Without, Front
<1> HIDE DEF moved
<1>5. /\ Without(i) \in Seq(Entry) /\ Len(Without(i)) = Len(slots) - 1
      /\ \A j \in 1 .. Len(slots) - 1 : Without(i)[j] = moved[j]
    BY <1>1, <1>3, <1>4
<1> QED
    BY <1>1, <1>3, <1>5

\* Handing out a request number.
LEMMA CountedIs ==
    ASSUME slots \in Seq(Entry), NEW i \in DOMAIN slots
    PROVE  LET new == [slots EXCEPT ![i].next = @ + 1]
           IN  /\ new \in Seq(Entry) /\ Len(new) = Len(slots)
               /\ new[i].conn = slots[i].conn /\ new[i].next = slots[i].next + 1
               /\ \A j \in DOMAIN slots : j # i => new[j] = slots[j]
<1> DEFINE e == [slots[i] EXCEPT !.next = @ + 1]
           new == [slots EXCEPT ![i] = e]
<1>1. DOMAIN slots = 1 .. Len(slots) /\ slots[i] \in Entry
    OBVIOUS
<1>2. e \in Entry /\ e.conn = slots[i].conn /\ e.next = slots[i].next + 1
    BY SMTT(30), <1>1 DEF Entry
<1> HIDE DEF e
<1>3. /\ new \in Seq(Entry) /\ Len(new) = Len(slots)
      /\ \A j \in 1 .. Len(slots) : new[j] = IF j = i THEN e ELSE slots[j]
    BY <1>1, <1>2, ExceptSeq
<1>4. [slots EXCEPT ![i].next = @ + 1] = new
    BY <1>1 DEF e
<1> HIDE DEF new
<1> QED
    BY <1>1, <1>2, <1>3, <1>4

LEMMA AcceptKeeps == \A c \in Int : IInv /\ ReactorAccept(c) => IInv'
<1> SUFFICES ASSUME NEW c \in Int, IInv, ReactorAccept(c) PROVE IInv'
    OBVIOUS
<1>1. slots \in Seq(Entry) /\ cap \in Nat /\ IndexFound(c)
    BY IndexIs DEF IInv, TypeOK
<1>2. UNCHANGED <<cap, flight, pushed, reopened>> /\ Pending' = Pending
    BY DEF ReactorAccept, Pending
<1>3. CASE IndexOf(c) > 0 \/ Len(slots) >= cap
  <2>1. UNCHANGED slots
    BY <1>3 DEF ReactorAccept
  <2> QED
    BY <2>1, <1>2 DEF IInv, TypeOK, Distinct, Fitting, Numbered, KeyOnce, Single
<1>4. CASE ~(IndexOf(c) > 0 \/ Len(slots) >= cap)
  <2>1. slots' = Append(slots, [conn |-> c, next |-> 0]) /\ Len(slots) < cap
    BY <1>1, <1>4 DEF ReactorAccept
  <2>2. [conn |-> c, next |-> 0] \in Entry
    BY DEF Entry
  <2>3. /\ slots' \in Seq(Entry) /\ Len(slots') = Len(slots) + 1
        /\ DOMAIN slots = 1 .. Len(slots) /\ DOMAIN slots' = 1 .. Len(slots) + 1
        /\ \A i \in DOMAIN slots : slots'[i] = slots[i]
        /\ slots'[Len(slots) + 1] = [conn |-> c, next |-> 0]
    BY <2>1, <2>2, <1>1
  <2>4. \A i \in DOMAIN slots : slots[i].conn # c
    BY <1>1, <1>4 DEF IndexFound
  <2>5. TypeOK'
    BY <2>3, <1>2 DEF IInv, TypeOK
  <2>6. Distinct'
    <3> SUFFICES ASSUME NEW i \in DOMAIN slots', NEW j \in DOMAIN slots',
                        slots'[i].conn = slots'[j].conn
                 PROVE  i = j
      BY DEF Distinct
    <3>1. CASE i \in DOMAIN slots /\ j \in DOMAIN slots
      BY <3>1, <2>3 DEF IInv, Distinct
    <3>2. CASE i = Len(slots) + 1 /\ j \in DOMAIN slots
      BY <3>2, <2>3, <2>4
    <3>3. CASE j = Len(slots) + 1 /\ i \in DOMAIN slots
      BY <3>3, <2>3, <2>4
    <3> QED
      BY <3>1, <3>2, <3>3, <2>3
  <2>7. Fitting'
    BY <2>1, <2>3, <1>1, <1>2 DEF Fitting
  <2>8. Numbered'
    <3>1. DOMAIN slots \subseteq DOMAIN slots'
      BY <2>3, <1>1
    <3> QED
      BY <3>1, <2>3, <1>2 DEF IInv, Numbered
  <2>9. KeyOnce' /\ Single'
    BY <1>2 DEF IInv, KeyOnce, Single
  <2> QED
    BY <2>5, <2>6, <2>7, <2>8, <2>9 DEF IInv
<1> QED
    BY <1>3, <1>4

LEMMA CloseKeeps == \A c \in Int : IInv /\ ReactorClose(c) => IInv'
<1> SUFFICES ASSUME NEW c \in Int, IInv, ReactorClose(c) PROVE IInv'
    OBVIOUS
<1> DEFINE i == IndexOf(c)
<1>1. slots \in Seq(Entry) /\ cap \in Nat /\ IndexFound(c)
    BY IndexIs DEF IInv, TypeOK
<1>2. UNCHANGED <<cap, flight, pushed>> /\ Pending' = Pending
    BY DEF ReactorClose, Pending
<1>3. /\ slots' = (IF i = 0 THEN slots ELSE Without(i))
      /\ reopened' = (reopened \/ (i > 0 /\ \E o \in Pending : o[1] = c))
      /\ reopened \in BOOLEAN
    BY DEF ReactorClose, IInv, TypeOK
<1> HIDE DEF i
<1>4. reopened' \in BOOLEAN /\ (~reopened' => ~reopened /\ (i > 0 => \A o \in Pending : o[1] # c))
    BY <1>3
<1>5. KeyOnce' /\ Single'
    BY <1>2, <1>4 DEF IInv, KeyOnce, Single
<1>6. CASE i = 0
    BY <1>2, <1>3, <1>4, <1>5, <1>6 DEF IInv, TypeOK, Distinct, Fitting, Numbered
<1>7. CASE i # 0
  <2>1. i \in DOMAIN slots /\ slots[i].conn = c /\ i > 0
    BY <1>1, <1>7 DEF IndexFound, i
  <2>2. /\ slots' \in Seq(Entry)
        /\ Len(slots') = Len(slots) - 1
        /\ \A j \in 1 .. Len(slots) - 1 :
             slots'[j] = IF j = i THEN slots[Len(slots)] ELSE slots[j]
    BY <2>1, <1>1, <1>3, <1>7, WithoutIs
  <2>3. /\ DOMAIN slots = 1 .. Len(slots) /\ DOMAIN slots' = 1 .. Len(slots) - 1
        /\ Len(slots) \in Nat
    BY <2>2, <1>1
  <2>4. TypeOK'
    BY <2>2, <1>2, <1>4 DEF IInv, TypeOK
  <2>5. Distinct'
    <3> SUFFICES ASSUME NEW j \in DOMAIN slots', NEW k \in DOMAIN slots',
                        slots'[j].conn = slots'[k].conn
                 PROVE  j = k
      BY DEF Distinct
    <3> DEFINE old(x) == IF x = i THEN Len(slots) ELSE x
    <3>1. old(j) \in DOMAIN slots /\ old(k) \in DOMAIN slots
      BY <2>3
    <3>2. slots[old(j)].conn = slots[old(k)].conn
      BY <2>2, <2>3
    <3>3. old(j) = old(k)
      BY <3>1, <3>2 DEF IInv, Distinct
    <3> QED
      BY <3>3, <2>3
  <2>6. Fitting'
    BY <2>2, <2>3, <1>1, <1>2 DEF IInv, Fitting
  <2>7. Numbered'
    <3> SUFFICES ASSUME ~reopened', NEW o \in Pending
                 PROVE  \E j \in DOMAIN slots' : slots'[j].conn = o[1] /\ o[2] < slots'[j].next
      BY <1>2 DEF Numbered
    <3>1. PICK k \in DOMAIN slots : slots[k].conn = o[1] /\ o[2] < slots[k].next
      BY <1>4 DEF IInv, Numbered
    <3>2. k # i
      BY <3>1, <2>1, <1>4
    <3>3. CASE k = Len(slots)
      <4>1. i \in DOMAIN slots' /\ slots'[i] = slots[k]
        BY <3>2, <3>3, <2>1, <2>2, <2>3
      <4> QED
        BY <4>1, <3>1
    <3>4. CASE k # Len(slots)
      <4>1. k \in DOMAIN slots' /\ slots'[k] = slots[k]
        BY <3>2, <3>4, <2>2, <2>3
      <4> QED
        BY <4>1, <3>1
    <3> QED
      BY <3>3, <3>4
  <2> QED
    BY <2>4, <2>5, <2>6, <2>7, <1>5 DEF IInv
<1> QED
    BY <1>6, <1>7

LEMMA NextReqKeeps == \A c, op \in Int : IInv /\ ReactorNextReq(c, op) => IInv'
<1> SUFFICES ASSUME NEW c \in Int, NEW op \in Int, IInv, ReactorNextReq(c, op) PROVE IInv'
    OBVIOUS
<1> DEFINE i == IndexOf(c)
           new == <<c, slots[i].next, op>>
<1>1. slots \in Seq(Entry) /\ cap \in Nat /\ IndexFound(c) /\ IsBagOf(OpSize, flight)
    BY IndexIs DEF IInv, TypeOK
<1>2. UNCHANGED <<cap, pushed, reopened>>
    BY DEF ReactorNextReq
<1>3. CASE i = 0
  <2>1. UNCHANGED <<slots, flight>>
    BY <1>3 DEF ReactorNextReq
  <2> QED
    BY <2>1, <1>2 DEF IInv, TypeOK, Distinct, Fitting, Numbered, KeyOnce, Single, Pending
<1>4. CASE i # 0
  <2>1. /\ slots' = [slots EXCEPT ![i].next = @ + 1]
        /\ flight' = flight (+) SetToBag({new})
    BY <1>4 DEF ReactorNextReq
  <2>2. i \in DOMAIN slots /\ slots[i].conn = c
    BY <1>1, <1>4 DEF IndexFound
  <2>3. /\ slots' \in Seq(Entry) /\ Len(slots') = Len(slots)
        /\ slots'[i].conn = slots[i].conn /\ slots'[i].next = slots[i].next + 1
        /\ \A j \in DOMAIN slots : j # i => slots'[j] = slots[j]
    BY <2>1, <2>2, <1>1, CountedIs
  <2>4. DOMAIN slots' = DOMAIN slots /\ slots[i].next \in Nat
    <3>1. DOMAIN slots' = DOMAIN slots
      BY <2>3, <1>1
    <3>2. slots[i] \in Entry
      BY <2>2, <1>1
    <3> QED
      BY <3>1, <3>2 DEF Entry
  <2>5. IsRecord(OpSize, new) /\ new[1] = c /\ new[2] = slots[i].next
    BY <2>4, RecordMade
  <2> HIDE DEF new, i
  <2>6. /\ IsBagOf(OpSize, flight') /\ DOMAIN flight' = DOMAIN flight \cup {new}
        /\ \A d \in DOMAIN flight : d # new => flight'[d] = flight[d]
        /\ new \notin DOMAIN flight => flight'[new] = 1
    <3>1. Gained(OpSize, flight, new, flight')
      BY <2>1, <2>5, <1>1, SizesAre, BagGains
    <3> QED
      BY <3>1 DEF Gained
  <2>7. Pending' = Pending \cup {new}
    BY <2>6, <1>2 DEF Pending, BagToSet
  <2>8. ASSUME ~reopened, NEW o \in Pending, o[1] = c PROVE o[2] # new[2]
    <3>1. PICK j \in DOMAIN slots : slots[j].conn = o[1] /\ o[2] < slots[j].next
      BY <2>8 DEF IInv, Numbered
    <3>2. j = i
      BY <3>1, <2>2, <2>8 DEF IInv, Distinct
    <3>3. o[2] \in Int
      BY PendingRecords DEF IInv
    <3> QED
      BY <3>1, <3>2, <3>3, <2>4, <2>5
  <2>9. TypeOK'
    BY <2>3, <2>6, <1>2 DEF IInv, TypeOK
  <2>10. Distinct'
    <3>1. \A j \in DOMAIN slots : slots'[j].conn = slots[j].conn
      BY <2>3
    <3> QED
      BY <3>1, <2>4 DEF IInv, Distinct
  <2>11. Fitting'
    BY <2>3, <1>2 DEF IInv, Fitting
  <2>12. Numbered'
    <3> SUFFICES ASSUME ~reopened, NEW o \in Pending \cup {new}
                 PROVE  \E j \in DOMAIN slots : slots'[j].conn = o[1] /\ o[2] < slots'[j].next
      BY <2>4, <2>7, <1>2 DEF Numbered
    <3>1. CASE o = new
      BY <3>1, <2>2, <2>3, <2>4, <2>5
    <3>2. CASE o \in Pending
      <4>1. PICK j \in DOMAIN slots : slots[j].conn = o[1] /\ o[2] < slots[j].next
        BY <3>2 DEF IInv, Numbered
      <4>2. CASE j = i
        <5>1. o[2] \in Int
          BY <3>2, PendingRecords DEF IInv
        <5>2. o[2] < slots[i].next + 1
          BY <5>1, <4>1, <4>2, <2>4
        <5> QED
          BY <5>2, <4>1, <4>2, <2>3
      <4>3. CASE j # i
        BY <4>1, <4>3, <2>3
      <4> QED
        BY <4>2, <4>3
    <3> QED
      BY <3>1, <3>2
  <2>13. KeyOnce'
    <3> SUFFICES ASSUME ~reopened, NEW o1 \in Pending \cup {new}, NEW o2 \in Pending \cup {new},
                        o1[1] = o2[1], o1[2] = o2[2]
                 PROVE  o1 = o2
      BY <2>7, <1>2 DEF KeyOnce
    <3>1. CASE o1 \in Pending /\ o2 \in Pending
      BY <3>1 DEF IInv, KeyOnce
    <3>2. CASE o1 = new /\ o2 \in Pending
      BY <3>2, <2>5, <2>8
    <3>3. CASE o2 = new /\ o1 \in Pending
      BY <3>3, <2>5, <2>8
    <3> QED
      BY <3>1, <3>2, <3>3
  <2>14. Single'
    <3>1. ~reopened => new \notin Pending
      BY <2>5, <2>8
    <3>2. ~reopened => new \notin DOMAIN flight
      BY <3>1 DEF Pending, BagToSet
    <3> QED
      BY <3>2, <2>6, <1>2 DEF IInv, Single
  <2> QED
    BY <2>9, <2>10, <2>11, <2>12, <2>13, <2>14 DEF IInv
<1> QED
    BY <1>3, <1>4

LEMMA CompleteKeeps ==
    \A o \in BagToSet(flight), r \in Int : IInv /\ Complete(o, r) => IInv'
<1> SUFFICES ASSUME NEW o \in BagToSet(flight), NEW r \in Int, IInv, Complete(o, r) PROVE IInv'
    OBVIOUS
<1> DEFINE e == Append(o, r)
<1>1. /\ UNCHANGED <<cap, slots, reopened>>
      /\ flight' = flight (-) SetToBag({o}) /\ pushed' = pushed (+) SetToBag({e})
    BY DEF Complete
<1>2. IsBagOf(OpSize, flight) /\ IsBagOf(EventSize, pushed) /\ o \in DOMAIN flight
    BY DEF IInv, TypeOK, BagToSet
<1>3. IsRecord(OpSize, o)
    BY <1>2 DEF IsBagOf
<1>4. IsRecord(EventSize, e) /\ e[1] = o[1] /\ e[2] = o[2]
    BY <1>3, RecordGrows
<1> HIDE DEF e
<1>5. /\ IsBagOf(OpSize, flight') /\ DOMAIN flight' \subseteq DOMAIN flight
      /\ \A d \in DOMAIN flight : d # o => flight'[d] = flight[d]
      /\ flight[o] = 1 => DOMAIN flight' = DOMAIN flight \ {o}
  <2>1. Lost(OpSize, flight, o, flight')
    BY <1>1, <1>2, SizesAre, BagLoses
  <2> QED
    BY <2>1 DEF Lost
<1>6. /\ IsBagOf(EventSize, pushed') /\ DOMAIN pushed' = DOMAIN pushed \cup {e}
      /\ \A d \in DOMAIN pushed : d # e => pushed'[d] = pushed[d]
      /\ e \notin DOMAIN pushed => pushed'[e] = 1
  <2>1. Gained(EventSize, pushed, e, pushed')
    BY <1>1, <1>2, <1>4, SizesAre, BagGains
  <2> QED
    BY <2>1 DEF Gained
<1>7. o \in Pending /\ o \notin DOMAIN pushed
    BY <1>2, <1>3, RecordsApart DEF Pending, BagToSet, IsBagOf
<1>8. ASSUME ~reopened
      PROVE  flight[o] = 1 /\ e \notin DOMAIN pushed /\ Pending' \subseteq (Pending \ {o}) \cup {e}
  <2>1. flight[o] = 1
    BY <1>2, <1>8 DEF IInv, Single
  <2>2. e \notin DOMAIN pushed
    <3> SUFFICES ASSUME e \in Pending PROVE FALSE
      BY DEF Pending, BagToSet
    <3>1. e = o
      BY <1>4, <1>7, <1>8 DEF IInv, KeyOnce
    <3> QED
      BY <3>1, <1>3, <1>4, RecordsApart
  <2> QED
    BY <2>1, <2>2, <1>5, <1>6, <1>7 DEF Pending, BagToSet
<1>9. TypeOK'
    BY <1>1, <1>5, <1>6 DEF IInv, TypeOK
<1>10. Distinct' /\ Fitting'
    BY <1>1 DEF IInv, Distinct, Fitting
<1>11. Numbered'
  <2> SUFFICES ASSUME ~reopened, NEW p \in (Pending \ {o}) \cup {e}
               PROVE  \E j \in DOMAIN slots : slots[j].conn = p[1] /\ p[2] < slots[j].next
    BY <1>1, <1>8 DEF Numbered
  <2>1. CASE p = e
    BY <2>1, <1>4, <1>7 DEF IInv, Numbered
  <2>2. CASE p \in Pending
    BY <2>2 DEF IInv, Numbered
  <2> QED
    BY <2>1, <2>2
<1>12. KeyOnce'
  <2> SUFFICES ASSUME ~reopened, NEW o1 \in (Pending \ {o}) \cup {e},
                      NEW o2 \in (Pending \ {o}) \cup {e}, o1[1] = o2[1], o1[2] = o2[2]
               PROVE  o1 = o2
    BY <1>1, <1>8 DEF KeyOnce
  <2>1. CASE o1 \in Pending /\ o2 \in Pending
    BY <2>1 DEF IInv, KeyOnce
  <2>2. CASE o1 = e /\ o2 \in Pending \ {o}
    BY <2>2, <1>4, <1>7 DEF IInv, KeyOnce
  <2>3. CASE o2 = e /\ o1 \in Pending \ {o}
    BY <2>3, <1>4, <1>7 DEF IInv, KeyOnce
  <2> QED
    BY <2>1, <2>2, <2>3
<1>13. Single'
    BY <1>1, <1>5, <1>6, <1>8 DEF IInv, Single
<1> QED
    BY <1>9, <1>10, <1>11, <1>12, <1>13 DEF IInv

LEMMA TableStepsKeep ==
    IInv /\ ((\E n \in Int : ReactorNew(n)) \/ ReactorFree) => IInv'
<1> SUFFICES ASSUME IInv, (\E n \in Int : ReactorNew(n)) \/ ReactorFree PROVE IInv'
    OBVIOUS
<1>1. ASSUME NEW n \in Int, ReactorNew(n) PROVE IInv'
  <2>1. UNCHANGED <<slots, flight, pushed, reopened>> /\ cap' \in Nat /\ cap' >= cap
    BY <1>1 DEF ReactorNew, IInv, TypeOK
  <2>2. slots \in Seq(Entry) /\ cap \in Nat
    BY DEF IInv, TypeOK
  <2>3. Fitting'
    BY <2>1, <2>2 DEF IInv, Fitting
  <2> QED
    BY <2>1, <2>3 DEF IInv, TypeOK, Distinct, Numbered, KeyOnce, Single, Pending
<1>2. CASE ReactorFree
  <2>1. /\ UNCHANGED <<flight, pushed>> /\ cap' = 0 /\ slots' = <<>>
        /\ reopened' = (reopened \/ Pending # {}) /\ Pending' = Pending
    BY <1>2 DEF ReactorFree, Pending
  <2>2. reopened' \in BOOLEAN /\ (~reopened' => ~reopened /\ Pending = {})
    BY <2>1 DEF IInv, TypeOK
  <2>3. slots' \in Seq(Entry) /\ Len(slots') = 0 /\ DOMAIN slots' = {}
    BY <2>1, EmptySeq
  <2>4. TypeOK'
    BY <2>1, <2>2, <2>3 DEF IInv, TypeOK
  <2>5. Distinct' /\ Fitting'
    BY <2>1, <2>3 DEF Distinct, Fitting
  <2>6. Numbered' /\ KeyOnce' /\ Single'
    BY <2>1, <2>2 DEF IInv, Numbered, KeyOnce, Single
  <2> QED
    BY <2>4, <2>5, <2>6 DEF IInv
<1> QED
    BY <1>1, <1>2

LEMMA BatchStepsKeep == IInv /\ ((\E n \in Int : CanonDrain(n)) \/ CanonClear) => IInv'
<1> SUFFICES ASSUME IInv, (\E n \in Int : CanonDrain(n)) \/ CanonClear PROVE IInv'
    OBVIOUS
<1>1. ASSUME NEW n \in Int, CanonDrain(n) PROVE IInv'
  <2>1. UNCHANGED <<cap, slots, flight, pushed, reopened>>
    BY <1>1 DEF CanonDrain
  <2> QED
    BY <2>1 DEF IInv, TypeOK, Distinct, Fitting, Numbered, KeyOnce, Single, Pending
<1>2. CASE CanonClear
  <2>1. UNCHANGED <<cap, slots, flight, reopened>> /\ pushed' = EmptyBag
    BY <1>2 DEF CanonClear
  <2>2. DOMAIN pushed' = {} /\ pushed' \in [DOMAIN pushed' -> Nat \ {0}]
    BY <2>1 DEF EmptyBag, SetToBag
  <2>3. IsBagOf(EventSize, pushed') /\ Pending' \subseteq Pending
    BY <2>1, <2>2 DEF IsBagOf, Pending, BagToSet
  <2> QED
    BY <2>1, <2>2, <2>3 DEF IInv, TypeOK, Distinct, Fitting, Numbered, KeyOnce, Single
<1> QED
    BY <1>1, <1>2

\* The table never holds a connection twice nor more than it was made for, and
\* as long as no connection is closed with operations pending, what is pending
\* belongs to a tracked connection, once, under a number handed out before
\* (reactor_accept, reactor_next_req, reactor_close, canon_push).
THEOREM ReactorInvariance == ReactorSpec => []IInv
<1>1. IInv /\ [ReactorNext]_reactorVars => IInv'
  <2> SUFFICES ASSUME IInv, [ReactorNext]_reactorVars PROVE IInv'
    OBVIOUS
  <2> USE ReactorAssumption
  <2>1. ASSUME NEW n \in Sizes, ReactorNew(n) PROVE IInv'
    BY <2>1, TableStepsKeep
  <2>2. CASE ReactorFree
    BY <2>2, TableStepsKeep
  <2>3. ASSUME NEW c \in Conns, ReactorAccept(c) PROVE IInv'
    BY <2>3, AcceptKeeps
  <2>4. ASSUME NEW c \in Conns, ReactorClose(c) PROVE IInv'
    BY <2>4, CloseKeeps
  <2>5. ASSUME NEW c \in Conns, NEW op \in Ops, ReactorNextReq(c, op) PROVE IInv'
    BY <2>5, NextReqKeeps
  <2>6. ASSUME NEW o \in BagToSet(flight), NEW r \in Results, Complete(o, r) PROVE IInv'
    BY <2>6, CompleteKeeps
  <2>7. ASSUME NEW n \in 0 .. Batch, CanonDrain(n) PROVE IInv'
    BY <2>7, BatchStepsKeep
  <2>8. CASE CanonClear
    BY <2>8, BatchStepsKeep
  <2>9. CASE UNCHANGED reactorVars
    BY <2>9 DEF reactorVars, IInv, TypeOK, Distinct, Fitting, Numbered, KeyOnce, Single, Pending
  <2> QED
    BY <2>1, <2>2, <2>3, <2>4, <2>5, <2>6, <2>7, <2>8, <2>9 DEF ReactorNext
<1> QED
    BY <1>1, ReactorStarts, PTL DEF ReactorSpec

\* As long as no connection is closed with operations pending, the key
\* (conn_id, req_id) is unique among those in flight and in the batch, for
\* every number of connections and of requests (reactor_next_req).
THEOREM KeysAreUnique == ReactorSpec => []KeysUnique
<1>1. IInv => KeysUnique
  <2> SUFFICES ASSUME IInv, ~reopened, NEW o1 \in Pending, NEW o2 \in Pending,
                      <<o1[1], o1[2]>> = <<o2[1], o2[2]>>
               PROVE  o1 = o2 /\ Copies(o1, flight (+) pushed) = 1
    BY DEF KeysUnique
  <2>1. o1 = o2
    BY DEF IInv, KeyOnce
  <2> DEFINE both == [d \in DOMAIN flight \cup DOMAIN pushed |->
                        (IF d \in DOMAIN flight THEN flight[d] ELSE 0)
                      + (IF d \in DOMAIN pushed THEN pushed[d] ELSE 0)]
  <2>2. flight (+) pushed = both
    BY DEF (+)
  <2>3. ~(o1 \in DOMAIN flight /\ o1 \in DOMAIN pushed)
    BY RecordsApart DEF IInv, TypeOK, IsBagOf
  <2>4. o1 \in DOMAIN flight \cup DOMAIN pushed
    BY DEF Pending, BagToSet
  <2>5. both[o1] = 1 /\ o1 \in DOMAIN both
    BY <2>3, <2>4 DEF IInv, Single
  <2> HIDE DEF both
  <2> QED
    BY <2>1, <2>2, <2>5 DEF Copies, BagIn, BagToSet
<1> QED
    BY <1>1, ReactorInvariance, PTL

-----------------------------------------------------------------------------
(***************************************************************************)
(* The table behaves as a map.  CountersIn is Counters for any sequence of *)
(* slots, so that what is shown of it holds before and after a step.       *)
(***************************************************************************)

Connections(s) == {s[i].conn : i \in DOMAIN s}

Place(s, c) == SelectInSeq(s, LAMBDA e : e.conn = c)

CountersIn(s) == [c \in Connections(s) |-> s[Place(s, c)].next]

LEMMA CountersAre == Counters = CountersIn(slots) /\ Counters' = CountersIn(slots')
BY DEF Counters, CountersIn, Connections, Place, IndexOf, SelectInSeq

\* No connection has two slots.
Unique(s) == \A i, j \in DOMAIN s : s[i].conn = s[j].conn => i = j

LEMMA PlaceIs ==
    ASSUME NEW s \in Seq(Entry), Unique(s), NEW i \in DOMAIN s
    PROVE  Place(s, s[i].conn) = i
<1> DEFINE c == s[i].conn
           I == {j \in 1 .. Len(s) : s[j].conn = c}
<1>1. DOMAIN s = 1 .. Len(s) /\ Len(s) \in Nat
    OBVIOUS
<1>2. I = {i}
    BY <1>1 DEF Unique
<1>3. Place(s, c) = IF I # {} THEN Min(I) ELSE 0
    BY DEF Place, SelectInSeq
<1>4. Min({i}) \in {i}
  <2>1. {i} \in SUBSET Nat /\ {i} # {}
    BY <1>1
  <2> QED
    BY <2>1, LeastIs
<1> HIDE DEF I
<1> QED
    BY <1>2, <1>3, <1>4

LEMMA CountersInIs ==
    ASSUME NEW s \in Seq(Entry), Unique(s)
    PROVE  /\ DOMAIN CountersIn(s) = Connections(s)
           /\ \A i \in DOMAIN s : CountersIn(s)[s[i].conn] = s[i].next
<1>1. DOMAIN CountersIn(s) = Connections(s)
    BY DEF CountersIn
<1>2. ASSUME NEW i \in DOMAIN s PROVE CountersIn(s)[s[i].conn] = s[i].next
  <2>1. s[i].conn \in Connections(s)
    BY DEF Connections
  <2>2. CountersIn(s)[s[i].conn] = s[Place(s, s[i].conn)].next
    BY <2>1 DEF CountersIn
  <2> QED
    BY <2>2, PlaceIs
<1> QED
    BY <1>1, <1>2

\* A function that agrees with the slots is the table.
LEMMA CountersEqual ==
    ASSUME NEW s \in Seq(Entry), Unique(s), NEW f, f = [c \in Connections(s) |-> f[c]],
           \A i \in DOMAIN s : f[s[i].conn] = s[i].next
    PROVE  CountersIn(s) = f
<1>1. /\ CountersIn(s) = [c \in Connections(s) |-> s[Place(s, c)].next]
      /\ \A i \in DOMAIN s : CountersIn(s)[s[i].conn] = s[i].next
    BY CountersInIs DEF CountersIn
<1>2. ASSUME NEW c \in Connections(s) PROVE CountersIn(s)[c] = f[c]
  <2>1. PICK i \in DOMAIN s : c = s[i].conn
    BY DEF Connections
  <2> QED
    BY <2>1, <1>1
<1> QED
    BY <1>1, <1>2

LEMMA CountersSize ==
    ASSUME NEW s \in Seq(Entry), Unique(s)
    PROVE  Cardinality(Connections(s)) = Len(s)
<1> DEFINE f == [i \in 1 .. Len(s) |-> s[i].conn]
<1>1. DOMAIN s = 1 .. Len(s) /\ Len(s) \in Nat
    OBVIOUS
<1>2. f \in [1 .. Len(s) -> Connections(s)]
    BY <1>1 DEF Connections
<1>3. f \in Bijection(1 .. Len(s), Connections(s))
    BY <1>1, <1>2 DEF Bijection, Injection, Surjection, IsInjective, Unique, Connections
<1>4. ExistsBijection(1 .. Len(s), Connections(s))
    BY <1>3 DEF ExistsBijection
<1> QED
    BY <1>1, <1>4, FS_CountingElements

\* The facts of one state that the steps below use.
LEMMA TableFacts ==
    IInv => /\ slots \in Seq(Entry) /\ Unique(slots) /\ cap \in Nat /\ Len(slots) <= cap
            /\ DOMAIN slots = 1 .. Len(slots) /\ Len(slots) \in Nat
            /\ DOMAIN CountersIn(slots) = Connections(slots)
            /\ \A i \in DOMAIN slots : CountersIn(slots)[slots[i].conn] = slots[i].next
            /\ Cardinality(Connections(slots)) = Len(slots)
<1> SUFFICES ASSUME IInv
             PROVE  /\ slots \in Seq(Entry) /\ Unique(slots) /\ cap \in Nat /\ Len(slots) <= cap
                    /\ DOMAIN slots = 1 .. Len(slots) /\ Len(slots) \in Nat
                    /\ DOMAIN CountersIn(slots) = Connections(slots)
                    /\ \A i \in DOMAIN slots : CountersIn(slots)[slots[i].conn] = slots[i].next
                    /\ Cardinality(Connections(slots)) = Len(slots)
    OBVIOUS
<1>1. slots \in Seq(Entry) /\ Unique(slots) /\ cap \in Nat /\ Len(slots) <= cap
    BY DEF IInv, TypeOK, Distinct, Fitting, Unique
<1>2. DOMAIN slots = 1 .. Len(slots) /\ Len(slots) \in Nat
    BY <1>1
<1> QED
    BY <1>1, <1>2, CountersInIs, CountersSize

LEMMA TrackedIs ==
    ASSUME slots \in Seq(Entry), NEW c \in Int
    PROVE  /\ IndexOf(c) = 0 <=> c \notin Connections(slots)
           /\ IndexOf(c) # 0 => /\ IndexOf(c) \in DOMAIN slots /\ IndexOf(c) > 0
                                /\ slots[IndexOf(c)].conn = c
<1>1. IndexFound(c)
    BY IndexIs
<1>2. DOMAIN slots = 1 .. Len(slots)
    OBVIOUS
<1> QED
    BY <1>1, <1>2 DEF IndexFound, Connections

\* An empty table.
LEMMA NoCountersAre == CountersIn(<<>>) = Table!NoCounters
BY DEF CountersIn, Connections, Table!NoCounters

LEMMA SizesAgree == \A S : Table!Cardinality(S) = Cardinality(S)
BY DEF Table!Cardinality, Cardinality

LEMMA AcceptMaps == \A c \in Int : IInv /\ ReactorAccept(c) => Table!Accept(c)
<1> SUFFICES ASSUME NEW c \in Int, IInv, ReactorAccept(c) PROVE Table!Accept(c)
    OBVIOUS
<1> DEFINE T == CountersIn(slots)
<1>1. /\ slots \in Seq(Entry) /\ Unique(slots) /\ cap \in Nat /\ Len(slots) <= cap
      /\ DOMAIN slots = 1 .. Len(slots) /\ Len(slots) \in Nat
      /\ DOMAIN T = Connections(slots)
      /\ \A i \in DOMAIN slots : T[slots[i].conn] = slots[i].next
      /\ Cardinality(Connections(slots)) = Len(slots)
    BY TableFacts
<1>2. Counters = T /\ Counters' = CountersIn(slots') /\ cap' = cap
    BY CountersAre DEF ReactorAccept
<1>3. IndexOf(c) = 0 <=> c \notin DOMAIN T
    BY <1>1, TrackedIs
<1>4. IndexOf(c) # 0 => IndexOf(c) > 0
    BY <1>1, TrackedIs
<1>5. CASE IndexOf(c) > 0 \/ Len(slots) >= cap
  <2>1. /\ reply' = (IF IndexOf(c) > 0 THEN 1 ELSE 0) /\ slots' = slots
    BY <1>5 DEF ReactorAccept
  <2>2. Counters' = Counters
    BY <2>1, <1>2
  <2>3. CASE IndexOf(c) > 0
    BY <2>1, <2>2, <2>3, <1>2, <1>3 DEF Table!Accept
  <2>4. CASE ~(IndexOf(c) > 0)
    <3>1. Len(slots) = cap
      <4>1. Len(slots) >= cap
        BY <2>4, <1>5
      <4>2. Len(slots) \in Nat /\ cap \in Nat /\ Len(slots) <= cap
        BY <1>1
      <4> QED
        BY <4>1, <4>2
    <3>2. Cardinality(DOMAIN T) = cap
      BY <3>1, <1>1
    <3>3. c \notin DOMAIN T /\ reply' = 0
      BY <2>1, <2>4, <1>3, <1>4
    <3> QED
      BY <3>2, <3>3, <2>2, <1>2, SizesAgree DEF Table!Accept
  <2> QED
    BY <2>3, <2>4
<1>6. CASE ~(IndexOf(c) > 0 \/ Len(slots) >= cap)
  <2> DEFINE U == [d \in DOMAIN T \cup {c} |-> IF d = c THEN 0 ELSE T[d]]
  <2>1. /\ reply' = 1 /\ slots' = Append(slots, [conn |-> c, next |-> 0]) /\ Len(slots) < cap
    BY <1>1, <1>6 DEF ReactorAccept
  <2>2. c \notin DOMAIN T
    BY <1>3, <1>4, <1>6
  <2>3. /\ DOMAIN slots' = 1 .. Len(slots) + 1
        /\ \A i \in DOMAIN slots : slots'[i] = slots[i]
        /\ slots'[Len(slots) + 1] = [conn |-> c, next |-> 0]
    BY <2>1, <1>1
  <2>4. slots' \in Seq(Entry) /\ Unique(slots')
    <3>1. IInv'
      BY AcceptKeeps
    <3> QED
      BY <3>1 DEF IInv, TypeOK, Distinct, Unique
  <2>5. DOMAIN T \cup {c} = Connections(slots')
    BY SMTT(30), <2>3, <1>1 DEF Connections
  <2>6. ASSUME NEW i \in DOMAIN slots' PROVE U[slots'[i].conn] = slots'[i].next
    <3>1. CASE i = Len(slots) + 1
      BY <3>1, <2>3
    <3>2. CASE i \in DOMAIN slots
      <4>1. slots'[i] = slots[i] /\ slots[i].conn \in DOMAIN T /\ slots[i].conn # c
        BY <3>2, <2>2, <2>3, <1>1 DEF Connections
      <4> QED
        BY <4>1, <3>2, <1>1
    <3> QED
      BY <3>1, <3>2, <2>3, <1>1
  <2>7. CountersIn(slots') = U
    <3>1. U = [d \in Connections(slots') |-> U[d]]
      BY <2>5
    <3> HIDE DEF U
    <3> QED
      BY <3>1, <2>4, <2>6, CountersEqual
  <2>8. Cardinality(DOMAIN T) < cap
    BY <2>1, <1>1
  <2> HIDE DEF T
  <2> QED
    BY <2>1, <2>2, <2>7, <2>8, <1>2, SizesAgree DEF Table!Accept
<1> QED
    BY <1>5, <1>6

LEMMA NextReqMaps == \A c, op \in Int : IInv /\ ReactorNextReq(c, op) => Table!NextReq(c)
<1> SUFFICES ASSUME NEW c \in Int, NEW op \in Int, IInv, ReactorNextReq(c, op)
             PROVE  Table!NextReq(c)
    OBVIOUS
<1> DEFINE T == CountersIn(slots)
           i == IndexOf(c)
<1>1. /\ slots \in Seq(Entry) /\ Unique(slots)
      /\ DOMAIN slots = 1 .. Len(slots) /\ Len(slots) \in Nat
      /\ DOMAIN T = Connections(slots)
      /\ \A j \in DOMAIN slots : T[slots[j].conn] = slots[j].next
    BY TableFacts
<1>2. Counters = T /\ Counters' = CountersIn(slots') /\ cap' = cap
    BY CountersAre DEF ReactorNextReq
<1>3. /\ i = 0 <=> c \notin DOMAIN T
      /\ i # 0 => i \in DOMAIN slots /\ slots[i].conn = c
    BY <1>1, TrackedIs
<1>4. CASE i = 0
  <2>1. reply' = -1 /\ slots' = slots
    BY <1>4 DEF ReactorNextReq
  <2> QED
    BY <2>1, <1>2, <1>3, <1>4 DEF Table!NextReq
<1>5. CASE i # 0
  <2> DEFINE U == [T EXCEPT ![c] = @ + 1]
  <2>1. reply' = slots[i].next /\ slots' = [slots EXCEPT ![i].next = @ + 1]
    BY <1>5 DEF ReactorNextReq
  <2> HIDE DEF i
  <2>2. /\ slots' \in Seq(Entry) /\ Len(slots') = Len(slots)
        /\ slots'[i].conn = slots[i].conn /\ slots'[i].next = slots[i].next + 1
        /\ \A j \in DOMAIN slots : j # i => slots'[j] = slots[j]
    BY <2>1, <1>1, <1>3, <1>5, CountedIs
  <2>3. DOMAIN slots' = DOMAIN slots /\ \A j \in DOMAIN slots : slots'[j].conn = slots[j].conn
    BY <2>2, <1>1
  <2>4. Unique(slots')
    BY <2>3, <1>1 DEF Unique
  <2>5. Connections(slots') = DOMAIN T
    BY <2>3, <1>1 DEF Connections
  <2>6. T[c] = slots[i].next /\ c \in DOMAIN T
    BY <1>1, <1>3, <1>5
  <2>7. /\ DOMAIN U = DOMAIN T /\ U[c] = T[c] + 1 /\ \A d \in DOMAIN T : d # c => U[d] = T[d]
        /\ U = [d \in Connections(slots') |-> U[d]]
    <3>1. T = [d \in DOMAIN T |-> T[d]]
      BY DEF CountersIn
    <3> HIDE DEF T
    <3> QED
      BY <3>1, <2>5, <2>6
  <2>8. ASSUME NEW j \in DOMAIN slots' PROVE U[slots'[j].conn] = slots'[j].next
    <3>1. CASE j = i
      BY <3>1, <2>2, <2>6, <2>7, <1>3, <1>5
    <3>2. CASE j # i
      <4>1. slots[j].conn # c /\ slots[j].conn \in DOMAIN T
        BY <3>2, <2>3, <1>1, <1>3, <1>5 DEF Unique, Connections
      <4> QED
        BY <4>1, <3>2, <2>2, <2>3, <2>7, <1>1
    <3> QED
      BY <3>1, <3>2
  <2>9. CountersIn(slots') = U
    <3> HIDE DEF U
    <3> QED
      BY <2>2, <2>4, <2>7, <2>8, CountersEqual
  <2> HIDE DEF T
  <2> QED
    BY <2>1, <2>6, <2>9, <1>2 DEF Table!NextReq
<1> QED
    BY <1>4, <1>5

LEMMA CloseMaps == \A c \in Int : IInv /\ ReactorClose(c) => Table!Close(c)
<1> SUFFICES ASSUME NEW c \in Int, IInv, ReactorClose(c) PROVE Table!Close(c)
    OBVIOUS
<1> DEFINE T == CountersIn(slots)
           U == [d \in DOMAIN T \ {c} |-> T[d]]
           i == IndexOf(c)
<1>1. /\ slots \in Seq(Entry) /\ Unique(slots)
      /\ DOMAIN slots = 1 .. Len(slots) /\ Len(slots) \in Nat
      /\ DOMAIN T = Connections(slots)
      /\ \A j \in DOMAIN slots : T[slots[j].conn] = slots[j].next
    BY TableFacts
<1>2. Counters = T /\ Counters' = CountersIn(slots') /\ cap' = cap
    BY CountersAre DEF ReactorClose
<1>3. /\ i = 0 <=> c \notin DOMAIN T
      /\ i # 0 => i \in DOMAIN slots /\ slots[i].conn = c
    BY <1>1, TrackedIs
<1>4. reply' = (IF i = 0 THEN 0 ELSE 1) /\ slots' = (IF i = 0 THEN slots ELSE Without(i))
    BY DEF ReactorClose
<1>5. reply' = IF c \in DOMAIN T THEN 1 ELSE 0
    BY <1>3, <1>4
<1> HIDE DEF i
<1>6. CountersIn(slots') = U
  <2>1. T = [d \in DOMAIN T |-> T[d]]
    BY DEF CountersIn
  <2>2. CASE i = 0
    <3> HIDE DEF T
    <3>1. DOMAIN T \ {c} = DOMAIN T
      BY <2>2, <1>3
    <3>2. U = T
      BY <3>1, <2>1
    <3> QED
      BY <3>2, <2>2, <1>4 DEF T
  <2>3. CASE i # 0
    <3>1. /\ slots' \in Seq(Entry)
          /\ Len(slots') = Len(slots) - 1
          /\ \A j \in 1 .. Len(slots) - 1 :
               slots'[j] = IF j = i THEN slots[Len(slots)] ELSE slots[j]
      BY <2>3, <1>1, <1>3, <1>4, WithoutIs
    <3>2. DOMAIN slots' = 1 .. Len(slots) - 1
      BY <3>1, <1>1
    <3>3. Unique(slots')
      <4>1. IInv'
        BY CloseKeeps
      <4> QED
        BY <4>1 DEF IInv, Distinct, Unique
    <3> DEFINE old(j) == IF j = i THEN Len(slots) ELSE j
    <3>4. \A j \in DOMAIN slots' : /\ old(j) \in DOMAIN slots /\ old(j) # i
                                   /\ slots'[j] = slots[old(j)]
      BY <3>1, <3>2, <2>3, <1>1, <1>3
    <3>5. \A j \in DOMAIN slots : j # i => slots[j].conn # c
      BY <2>3, <1>1, <1>3 DEF Unique
    <3>6. Connections(slots') \subseteq DOMAIN T \ {c}
      BY <3>4, <3>5, <1>1 DEF Connections
    <3>7. ASSUME NEW d \in DOMAIN T \ {c} PROVE d \in Connections(slots')
      <4>1. PICK k \in DOMAIN slots : d = slots[k].conn
        BY <1>1 DEF Connections
      <4>2. k # i
        BY <4>1, <2>3, <1>3
      <4>3. CASE k = Len(slots)
        <5>1. i \in DOMAIN slots' /\ slots'[i] = slots[k]
          BY <4>2, <4>3, <3>1, <3>2, <2>3, <1>1, <1>3
        <5> QED
          BY <5>1, <4>1 DEF Connections
      <4>4. CASE k # Len(slots)
        <5>1. k \in DOMAIN slots' /\ slots'[k] = slots[k]
          BY <4>2, <4>4, <3>1, <3>2, <1>1
        <5> QED
          BY <5>1, <4>1 DEF Connections
      <4> QED
        BY <4>3, <4>4
    <3>8. DOMAIN T \ {c} = Connections(slots')
      BY <3>6, <3>7
    <3>9. ASSUME NEW j \in DOMAIN slots' PROVE U[slots'[j].conn] = slots'[j].next
      <4>1. /\ old(j) \in DOMAIN slots /\ slots'[j] = slots[old(j)]
            /\ slots[old(j)].conn \in DOMAIN T \ {c}
        BY <3>4, <3>5, <1>1 DEF Connections
      <4> QED
        BY <4>1, <1>1
    <3>10. U = [d \in Connections(slots') |-> U[d]]
      BY <3>8
    <3> HIDE DEF U
    <3> QED
      BY <3>1, <3>3, <3>9, <3>10, CountersEqual
  <2> QED
    BY <2>2, <2>3
<1> HIDE DEF T
<1> QED
    BY <1>2, <1>5, <1>6 DEF Table!Close

\* Closing one connection, which moves another's slot, never loses or changes
\* the counter of any other: the table implements a map from connections to
\* counters, for every size (reactor_accept, reactor_next_req, reactor_close).
THEOREM ReactorIsTable == ReactorSpec => ImplementsTable
<1>1. ReactorInit => Table!Init
    BY CountersAre, NoCountersAre DEF ReactorInit, Table!Init
<1>2. IInv /\ [ReactorNext]_reactorVars => [Table!Next]_<<cap, Counters, reply>>
  <2> SUFFICES ASSUME IInv, [ReactorNext]_reactorVars
               PROVE  [Table!Next]_<<cap, Counters, reply>>
    OBVIOUS
  <2> USE ReactorAssumption
  <2>0. Counters = CountersIn(slots) /\ Counters' = CountersIn(slots')
    BY CountersAre
  <2>1. ASSUME NEW n \in Sizes, ReactorNew(n) PROVE Table!Next
    <3>1. cap = 0 /\ slots = <<>> /\ slots' = slots
      BY <2>1, TableFacts, EmptySeq DEF ReactorNew
    <3>2. Counters' = Table!NoCounters /\ Counters = Table!NoCounters
      BY <3>1, <2>0, NoCountersAre
    <3> QED
      BY <3>1, <3>2, <2>1 DEF ReactorNew, Table!New, Table!Refuse, Table!Next
  <2>2. CASE ReactorFree
    <3>1. Counters' = Table!NoCounters
      BY <2>0, <2>2, NoCountersAre DEF ReactorFree
    <3> QED
      BY <3>1, <2>2 DEF ReactorFree, Table!Free, Table!Next
  <2>3. ASSUME NEW c \in Conns, ReactorAccept(c) PROVE Table!Next
    BY <2>3, AcceptMaps DEF ReactorAccept, Table!Next
  <2>4. ASSUME NEW c \in Conns, ReactorClose(c) PROVE Table!Next
    BY <2>4, CloseMaps DEF ReactorClose, Table!Next
  <2>5. ASSUME NEW c \in Conns, NEW op \in Ops, ReactorNextReq(c, op) PROVE Table!Next
    BY <2>5, NextReqMaps DEF ReactorNextReq, Table!Next
  <2>6. ASSUME UNCHANGED <<cap, slots, reply>> PROVE UNCHANGED <<cap, Counters, reply>>
    BY <2>0, <2>6
  <2>7. ASSUME NEW o \in BagToSet(flight), NEW r \in Results, Complete(o, r)
        PROVE  UNCHANGED <<cap, Counters, reply>>
    BY <2>6, <2>7 DEF Complete
  <2>8. ASSUME NEW n \in 0 .. Batch, CanonDrain(n) PROVE UNCHANGED <<cap, Counters, reply>>
    BY <2>6, <2>8 DEF CanonDrain
  <2>9. CASE CanonClear
    BY <2>6, <2>9 DEF CanonClear
  <2>10. CASE UNCHANGED reactorVars
    BY <2>6, <2>10 DEF reactorVars
  <2> QED
    BY <2>1, <2>2, <2>3, <2>4, <2>5, <2>7, <2>8, <2>9, <2>10 DEF ReactorNext
<1> QED
    BY <1>1, <1>2, ReactorInvariance, PTL DEF ReactorSpec, ImplementsTable, Table!Spec

-----------------------------------------------------------------------------
(***************************************************************************)
(* The batch of completions: sorting moves events and loses none.          *)
(***************************************************************************)

\* Each step leads from one set to the next.
Leads(n, S, step, init) ==
    init \in S[0] /\ \A k \in 1 .. n : \A x \in S[k - 1] : step[k][x] \in S[k]

\* A function that takes the steps.
Follows(n, S, step, init, g) ==
    /\ g[0] = init /\ \A k \in 1 .. n : g[k] = step[k][g[k - 1]]
    /\ \A k \in 0 .. n : g[k] \in S[k]

\* A function defined by recursion over 0 .. n exists, and its values stay in
\* the sets that its steps lead to.
LEMMA Recursion ==
    ASSUME NEW n \in Nat, NEW T, NEW S \in [0 .. n -> SUBSET T], NEW step, NEW init,
           Leads(n, S, step, init)
    PROVE  \E g \in [0 .. n -> T] : Follows(n, S, step, init, g)
<1> USE DEF Leads
<1> DEFINE Upto(g, m) ==
               /\ g \in [0 .. m -> T]
               /\ g[0] = init /\ \A k \in 1 .. m : g[k] = step[k][g[k - 1]]
               /\ \A k \in 0 .. m : g[k] \in S[k]
           Not == {m \in 0 .. n : \A g : ~Upto(g, m)}
<1>1. \E g : Upto(g, 0)
  <2> DEFINE g == [k \in 0 .. 0 |-> init]
  <2>1. init \in T
    OBVIOUS
  <2>2. g \in [0 .. 0 -> T] /\ g[0] = init
    BY <2>1
  <2>3. \A k \in 1 .. 0 : g[k] = step[k][g[k - 1]]
    OBVIOUS
  <2>4. \A k \in 0 .. 0 : g[k] \in S[k]
    OBVIOUS
  <2> QED
    BY <2>2, <2>3, <2>4
<1>2. ASSUME NEW m \in 1 .. n, NEW f, Upto(f, m - 1)
      PROVE  \E g : Upto(g, m)
  <2> DEFINE g == [k \in 0 .. m |-> IF k = m THEN step[m][f[m - 1]] ELSE f[k]]
  <2>1. /\ m - 1 \in 0 .. m - 1 /\ f[m - 1] \in S[m - 1] /\ 0 \in 0 .. m - 1
        /\ f \in [0 .. m - 1 -> T]
    BY <1>2
  <2>2. step[m][f[m - 1]] \in S[m] /\ step[m][f[m - 1]] \in T
    BY <2>1
  <2>3. \A k \in 0 .. m : k = m \/ k \in 0 .. m - 1
    OBVIOUS
  <2>4. g \in [0 .. m -> T]
    BY <2>1, <2>2, <2>3
  <2>5. /\ g[m] = step[m][f[m - 1]]
        /\ \A k \in 0 .. m - 1 : g[k] = f[k]
    OBVIOUS
  <2> HIDE DEF g
  <2>6. ASSUME NEW k \in 1 .. m PROVE g[k] = step[k][g[k - 1]]
    <3>1. CASE k = m
      BY <2>1, <2>5, <3>1
    <3>2. CASE k # m
      <4>1. k \in 1 .. m - 1 /\ k \in 0 .. m - 1 /\ k - 1 \in 0 .. m - 1
        BY <3>2
      <4> QED
        BY <1>2, <2>5, <4>1
    <3> QED
      BY <3>1, <3>2
  <2>7. ASSUME NEW k \in 0 .. m PROVE g[k] \in S[k]
    BY <1>2, <2>2, <2>3, <2>5
  <2>8. g[0] = init
    BY <1>2, <2>1, <2>5
  <2> QED
    BY <2>4, <2>6, <2>7, <2>8
<1> HIDE DEF Upto
<1>3. Not = {}
  <2> SUFFICES ASSUME Not # {} PROVE FALSE
    OBVIOUS
  <2>1. PICK m \in Not : \A k \in Not : m <= k
    <3>1. Not \in SUBSET Nat
      OBVIOUS
    <3> HIDE DEF Not
    <3> QED
      BY <3>1, LeastIs
  <2>2. m # 0
    BY <1>1
  <2>3. m \in 1 .. n /\ m - 1 \in 0 .. n /\ m - 1 \notin Not
    BY <2>1, <2>2
  <2>4. PICK f : Upto(f, m - 1)
    BY <2>3
  <2>5. \E g : Upto(g, m)
    BY <1>2, <2>3, <2>4
  <2> QED
    BY <2>5
<1>4. PICK g : Upto(g, n)
  <2>1. n \in 0 .. n
    OBVIOUS
  <2> QED
    BY <1>3, <2>1
<1> QED
    BY <1>4 DEF Upto, Follows

\* Where the steps of a function lead, its values are.
LEMMA Induction ==
    ASSUME NEW n \in Nat, NEW S, NEW f, f[0] \in S[0],
           \A k \in 1 .. n : f[k - 1] \in S[k - 1] => f[k] \in S[k]
    PROVE  \A k \in 0 .. n : f[k] \in S[k]
<1> DEFINE Not == {k \in 0 .. n : f[k] \notin S[k]}
<1> SUFFICES ASSUME Not # {} PROVE FALSE
    OBVIOUS
<1>1. PICK m \in Not : \A k \in Not : m <= k
  <2>1. Not \in SUBSET Nat
    OBVIOUS
  <2> HIDE DEF Not
  <2> QED
    BY <2>1, LeastIs
<1>2. m \in 1 .. n /\ m - 1 \in 0 .. n /\ m - 1 \notin Not
    BY <1>1
<1> QED
    BY <1>2

-----------------------------------------------------------------------------
Fields == 1 .. EventSize

Evts == [Fields -> Int]

\* How many of the first n places of b hold e.
Places(b, n, e) == {k \in 1 .. n : b[k] = e}

\* The order of all four fields is strict.
LEMMA LessIrreflexive == \A e \in Evts : ~CanonLess(e, e)
BY DEF CanonLess, Evts, Fields, EventSize

LEMMA LessTransitive ==
    ASSUME NEW e \in Evts, NEW f \in Evts, NEW g \in Evts, CanonLess(e, f), CanonLess(f, g)
    PROVE  CanonLess(e, g)
<1>1. \A k \in 1 .. 4 : e[k] \in Int /\ f[k] \in Int /\ g[k] \in Int
    BY DEF Evts, Fields, EventSize
<1>2. PICK k \in 1 .. 4 : e[k] < f[k] /\ \A m \in 1 .. k - 1 : e[m] = f[m]
    BY DEF CanonLess
<1>3. PICK j \in 1 .. 4 : f[j] < g[j] /\ \A m \in 1 .. j - 1 : f[m] = g[m]
    BY DEF CanonLess
<1> DEFINE i == IF k < j THEN k ELSE j
<1>4. i \in 1 .. 4 /\ i <= k /\ i <= j /\ (i = k \/ i = j)
    OBVIOUS
<1> HIDE DEF i
<1>5. \A m \in 1 .. i - 1 : e[m] = g[m]
  <2> SUFFICES ASSUME NEW m \in 1 .. i - 1 PROVE e[m] = g[m]
    OBVIOUS
  <2>1. m \in 1 .. k - 1 /\ m \in 1 .. j - 1
    BY <1>4
  <2> QED
    BY <1>2, <1>3, <2>1
<1>6. e[i] < g[i]
  <2>1. CASE i = k /\ i = j
    BY <1>1, <1>2, <1>3, <2>1
  <2>2. CASE i = k /\ i # j
    <3>1. i \in 1 .. j - 1
      BY <1>4, <2>2
    <3> QED
      BY <1>2, <1>3, <2>2, <3>1
  <2>3. CASE i = j /\ i # k
    <3>1. i \in 1 .. k - 1
      BY <1>4, <2>3
    <3> QED
      BY <1>2, <1>3, <2>3, <3>1
  <2> QED
    BY <1>4, <2>1, <2>2, <2>3
<1> QED
    BY <1>4, <1>5, <1>6 DEF CanonLess

\* The inner loop of canon_sort finds a least event of the rest.
LEMMA MinIs ==
    ASSUME NEW N \in Nat, NEW n \in 0 .. N, NEW b \in [1 .. N -> Evts], NEW i \in 1 .. n
    PROVE  /\ MinFrom(b, i, n) \in i .. n
           /\ \A k \in i .. n : ~CanonLess(b[k], b[MinFrom(b, i, n)])
<1> DEFINE Least[k \in 0 .. n - i] ==
               IF k = 0 THEN i
               ELSE IF CanonLess(b[i + k], b[Least[k - 1]]) THEN i + k ELSE Least[k - 1]
           size == n - i
           Good(k, m) == m \in i .. i + k /\ \A j \in i .. i + k : ~CanonLess(b[j], b[m])
           Next1(k, m) == IF CanonLess(b[i + k], b[m]) THEN i + k ELSE m
           S == [k \in 0 .. size |-> {m \in i .. n : Good(k, m)}]
           step == [k \in 1 .. size |-> [m \in i .. n |-> Next1(k, m)]]
<1>1. MinFrom(b, i, n) = Least[size]
    BY DEF MinFrom
<1>2. size \in Nat /\ i \in Nat /\ n \in Nat /\ n = i + size /\ i \in 1 .. N
    OBVIOUS
<1>3. \A j \in i .. n : b[j] \in Evts
    BY <1>2
<1>4. ASSUME NEW k \in 1 .. size, NEW m \in i .. n, Good(k - 1, m)
      PROVE  Next1(k, m) \in i .. n /\ Good(k, Next1(k, m))
  <2>1. i + k \in i .. n /\ \A j \in i .. i + k : j \in i .. i + (k - 1) \/ j = i + k
    BY <1>2
  <2>2. CASE CanonLess(b[i + k], b[m])
    <3>1. ASSUME NEW j \in i .. i + (k - 1) PROVE ~CanonLess(b[j], b[i + k])
      <4>1. j \in i .. n
        BY <1>2
      <4>2. b[j] \in Evts /\ b[m] \in Evts /\ b[i + k] \in Evts /\ ~CanonLess(b[j], b[m])
        BY <1>3, <1>4, <2>1, <4>1
      <4> QED
        BY <2>2, <4>2, LessTransitive
    <3>2. ~CanonLess(b[i + k], b[i + k])
      BY <1>3, <2>1, LessIrreflexive
    <3>3. Next1(k, m) = i + k
      BY <2>2
    <3> QED
      BY <1>2, <2>1, <3>1, <3>2, <3>3
  <2>3. CASE ~CanonLess(b[i + k], b[m])
    <3>1. Next1(k, m) = m /\ m \in i .. i + k
      BY <1>2, <1>4, <2>3
    <3> QED
      BY <1>4, <2>1, <2>3, <3>1
  <2> QED
    BY <2>2, <2>3
<1>5. i \in i .. n /\ Good(0, i)
  <2>1. i \in i .. n /\ \A j \in i .. i + 0 : j = i
    BY <1>2
  <2> QED
    BY <1>2, <1>3, <2>1, LessIrreflexive
<1> HIDE DEF Good, Next1
<1>6. PICK f \in [0 .. size -> i .. n] : Follows(size, S, step, i, f)
  <2>1. i \in S[0]
    BY <1>2, <1>5
  <2>2. \A k \in 1 .. size : \A x \in S[k - 1] : step[k][x] \in S[k]
    BY <1>2, <1>4
  <2>3. S \in [0 .. size -> SUBSET (i .. n)]
    OBVIOUS
  <2> HIDE DEF S, step, size
  <2>4. Leads(size, S, step, i)
    BY <2>1, <2>2 DEF Leads
  <2> QED
    BY <1>2, <2>3, <2>4, Recursion
<1>7. f = [k \in 0 .. size |-> IF k = 0 THEN i ELSE Next1(k, f[k - 1])]
  <2>1. ASSUME NEW k \in 1 .. size PROVE f[k] = Next1(k, f[k - 1])
    <3>1. k - 1 \in 0 .. size /\ f[k - 1] \in i .. n
      BY <1>2
    <3>2. f[k] = step[k][f[k - 1]]
      BY <1>6 DEF Follows
    <3> QED
      BY <3>1, <3>2
  <2>2. f[0] = i
    BY <1>6 DEF Follows
  <2> HIDE DEF S, step, size
  <2> QED
    BY <1>2, <2>1, <2>2
<1>8. Least = [k \in 0 .. size |-> IF k = 0 THEN i ELSE Next1(k, Least[k - 1])]
    BY <1>7 DEF Next1
<1> HIDE DEF Least
<1>9. Least[size] \in S[size]
  <2>1. Least[0] \in S[0]
    BY <1>2, <1>5, <1>8
  <2>2. ASSUME NEW k \in 1 .. size, Least[k - 1] \in S[k - 1] PROVE Least[k] \in S[k]
    <3>1. Least[k] = Next1(k, Least[k - 1])
      BY <1>2, <1>8
    <3>2. Least[k - 1] \in i .. n /\ Good(k - 1, Least[k - 1])
      BY <1>2, <2>2
    <3> QED
      BY <1>2, <1>4, <3>1, <3>2
  <2> HIDE DEF S, size
  <2>3. \A k \in 0 .. size : Least[k] \in S[k]
    BY <1>2, <2>1, <2>2, Induction
  <2> QED
    BY <1>2, <2>3
<1>10. Least[size] \in i .. n /\ Good(size, Least[size])
    BY <1>2, <1>9
<1> QED
    BY <1>1, <1>2, <1>10 DEF Good

\* Exchanging two places among the first n keeps how often each event is there.
LEMMA SwapIs ==
    ASSUME NEW N \in Nat, NEW n \in 0 .. N, NEW b \in [1 .. N -> Evts],
           NEW i \in 1 .. n, NEW m \in 1 .. n
    PROVE  /\ Swapped(b, i, m) \in [1 .. N -> Evts]
           /\ Swapped(b, i, m)[i] = b[m] /\ Swapped(b, i, m)[m] = b[i]
           /\ \A k \in 1 .. N : k # i /\ k # m => Swapped(b, i, m)[k] = b[k]
           /\ \A e : Cardinality(Places(Swapped(b, i, m), n, e)) = Cardinality(Places(b, n, e))
<1> DEFINE c == Swapped(b, i, m)
<1>1. i \in 1 .. N /\ m \in 1 .. N /\ \A k \in 1 .. n : k \in 1 .. N
    OBVIOUS
<1>2. /\ c \in [1 .. N -> Evts] /\ c[i] = b[m] /\ c[m] = b[i]
      /\ \A k \in 1 .. N : k # i /\ k # m => c[k] = b[k]
    BY <1>1 DEF Swapped
<1> HIDE DEF c
<1>3. ASSUME NEW e PROVE Cardinality(Places(c, n, e)) = Cardinality(Places(b, n, e))
  <2> DEFINE A == Places(b, n, e)
             B == Places(c, n, e)
             f == [k \in A |-> IF k = i THEN m ELSE IF k = m THEN i ELSE k]
             g(k) == IF k = i THEN m ELSE IF k = m THEN i ELSE k
  <2>1. \A k \in 1 .. n : g(k) \in 1 .. n /\ g(g(k)) = k /\ c[g(k)] = b[k] /\ b[g(k)] = c[k]
    BY <1>1, <1>2
  <2>2. \A k \in A : k \in 1 .. n /\ f[k] = g(k)
    BY DEF Places
  <2> HIDE DEF g
  <2>3. f \in [A -> B]
    <3>1. \A k \in A : f[k] \in B
      BY <2>1, <2>2 DEF Places
    <3> HIDE DEF A, B
    <3> QED
      BY <3>1
  <2>4. \A k, j \in A : f[k] = f[j] => k = j
    BY <2>1, <2>2
  <2>5. ASSUME NEW j \in B PROVE \E k \in A : f[k] = j
    <3>1. j \in 1 .. n /\ c[j] = e
      BY DEF Places
    <3>2. g(j) \in A
      BY <2>1, <3>1 DEF Places
    <3>3. f[g(j)] = j
      BY <2>1, <2>2, <3>1, <3>2
    <3> QED
      BY <3>2, <3>3
  <2>6. IsFiniteSet(A)
    <3>1. IsFiniteSet(1 .. n) /\ A \in SUBSET (1 .. n)
      BY FS_Interval DEF Places
    <3> QED
      BY <3>1, FS_Subset
  <2> HIDE DEF A, B, f
  <2>7. f \in Bijection(A, B)
    BY <2>3, <2>4, <2>5 DEF Bijection, Injection, Surjection, IsInjective
  <2>8. ExistsBijection(A, B)
    BY <2>7 DEF ExistsBijection
  <2>9. Cardinality(B) = Cardinality(A)
    BY <2>6, <2>8, FS_Bijection
  <2> QED
    BY <2>9 DEF A, B
<1> QED
    BY <1>2, <1>3 DEF c

\* The first i of n events are in order and not after the rest.
Ordered(b, i, n) == \A p \in 1 .. i : \A q \in p .. n : ~CanonLess(b[q], b[p])

\* canon_sort puts the first n events in order and keeps how often each is there.
LEMMA SortIs ==
    ASSUME NEW N \in Nat, NEW n \in 0 .. N, NEW b \in [1 .. N -> Evts]
    PROVE  /\ CanonSort(b, n) \in [1 .. N -> Evts]
           /\ Ordered(CanonSort(b, n), n, n)
           /\ \A e : Cardinality(Places(CanonSort(b, n), n, e)) = Cardinality(Places(b, n, e))
<1> DEFINE Batches == [1 .. N -> Evts]
           After[i \in 0 .. n] ==
               IF i = 0 THEN b
               ELSE Swapped(After[i - 1], i, MinFrom(After[i - 1], i, n))
           Pass(c, i) == Swapped(c, i, MinFrom(c, i, n))
           Same(c) == \A e : Cardinality(Places(c, n, e)) = Cardinality(Places(b, n, e))
           S == [i \in 0 .. n |-> {c \in Batches : Ordered(c, i, n) /\ Same(c)}]
           step == [i \in 1 .. n |-> [c \in Batches |-> Pass(c, i)]]
<1>1. CanonSort(b, n) = After[n]
    BY DEF CanonSort
<1>2. n \in Nat /\ n <= N
    OBVIOUS
<1>3. ASSUME NEW i \in 1 .. n, NEW c \in Batches, Ordered(c, i - 1, n), Same(c)
      PROVE  Pass(c, i) \in Batches /\ Ordered(Pass(c, i), i, n) /\ Same(Pass(c, i))
  <2> DEFINE m == MinFrom(c, i, n)
             d == Pass(c, i)
  <2>1. m \in i .. n /\ \A k \in i .. n : ~CanonLess(c[k], c[m])
    BY MinIs
  <2>2. m \in 1 .. n
    BY <2>1
  <2>3. /\ d \in Batches /\ d[i] = c[m] /\ d[m] = c[i]
        /\ \A k \in 1 .. N : k # i /\ k # m => d[k] = c[k]
        /\ \A e : Cardinality(Places(d, n, e)) = Cardinality(Places(c, n, e))
    BY <2>2, SwapIs
  <2> HIDE DEF m, d
  <2>4. ASSUME NEW p \in 1 .. i, NEW q \in p .. n PROVE ~CanonLess(d[q], d[p])
    <3> DEFINE r == IF q = i THEN m ELSE IF q = m THEN i ELSE q
    <3>1. p \in 1 .. N /\ q \in 1 .. N /\ r \in p .. n /\ d[q] = c[r]
      BY <1>2, <2>1, <2>3
    <3> HIDE DEF r
    <3>2. CASE p = i
      <4>1. r \in i .. n /\ d[p] = c[m]
        BY <2>3, <3>1, <3>2
      <4> QED
        BY <2>1, <3>1, <4>1
    <3>3. CASE p # i
      <4>1. p \in 1 .. i - 1 /\ d[p] = c[p]
        BY <2>1, <2>3, <3>1, <3>3
      <4> QED
        BY <1>3, <3>1, <4>1 DEF Ordered
    <3> QED
      BY <3>2, <3>3
  <2>5. Ordered(d, i, n)
    BY <2>4 DEF Ordered
  <2> QED
    BY <1>3, <2>3, <2>5 DEF d
<1>4. b \in Batches /\ Ordered(b, 0, n) /\ Same(b)
    BY DEF Ordered
<1> HIDE DEF Pass, Same
<1>5. PICK f \in [0 .. n -> Batches] : Follows(n, S, step, b, f)
  <2>1. b \in S[0]
    BY <1>2, <1>4
  <2>2. \A k \in 1 .. n : \A x \in S[k - 1] : step[k][x] \in S[k]
    BY <1>2, <1>3
  <2>3. S \in [0 .. n -> SUBSET Batches]
    OBVIOUS
  <2> HIDE DEF S, step, Batches
  <2>4. Leads(n, S, step, b)
    BY <2>1, <2>2 DEF Leads
  <2> QED
    BY <1>2, <2>3, <2>4, Recursion
<1>6. f = [i \in 0 .. n |-> IF i = 0 THEN b ELSE Pass(f[i - 1], i)]
  <2>1. ASSUME NEW k \in 1 .. n PROVE f[k] = Pass(f[k - 1], k)
    <3>1. k - 1 \in 0 .. n /\ f[k - 1] \in Batches
      BY <1>2
    <3>2. f[k] = step[k][f[k - 1]]
      BY <1>5 DEF Follows
    <3> QED
      BY <3>1, <3>2
  <2>2. f[0] = b
    BY <1>5 DEF Follows
  <2> HIDE DEF S, step, Batches
  <2> QED
    BY <1>2, <2>1, <2>2
<1>7. After = [i \in 0 .. n |-> IF i = 0 THEN b ELSE Pass(After[i - 1], i)]
    BY <1>6 DEF Pass
<1> HIDE DEF After
<1>8. After[n] \in S[n]
  <2>1. After[0] \in S[0]
    BY <1>2, <1>4, <1>7
  <2>2. ASSUME NEW k \in 1 .. n, After[k - 1] \in S[k - 1] PROVE After[k] \in S[k]
    <3>1. After[k] = Pass(After[k - 1], k)
      BY <1>2, <1>7
    <3>2. /\ After[k - 1] \in Batches /\ Ordered(After[k - 1], k - 1, n)
          /\ Same(After[k - 1])
      BY <1>2, <2>2
    <3>3. After[k] \in Batches /\ Ordered(After[k], k, n) /\ Same(After[k])
      <4> HIDE DEF Batches, S, step
      <4> QED
        BY <1>3, <3>1, <3>2
    <3> QED
      BY <1>2, <3>3
  <2> HIDE DEF S
  <2>3. \A k \in 0 .. n : After[k] \in S[k]
    BY <1>2, <2>1, <2>2, Induction
  <2> QED
    BY <1>2, <2>3
<1>9. After[n] \in Batches /\ Ordered(After[n], n, n) /\ Same(After[n])
    BY <1>2, <1>8
<1> QED
    BY <1>1, <1>9 DEF Same

\* What counts in the batch is what was pushed, and what was drained is what
\* counts, in order.
BatchInv ==
    /\ len \in Nat /\ buf \in Seq(Evts) /\ len <= Len(buf)
    /\ \A e : Cardinality(Places(buf, len, e)) = Copies(e, pushed)
    /\ drained # <<>> => drained = Written(buf, len) /\ Ordered(buf, len, len)

LEMMA PlacesFinite == \A n \in Nat : \A b, e : IsFiniteSet(Places(b, n, e))
<1> SUFFICES ASSUME NEW n \in Nat, NEW b, NEW e PROVE IsFiniteSet(Places(b, n, e))
    OBVIOUS
<1>1. IsFiniteSet(1 .. n) /\ Places(b, n, e) \in SUBSET (1 .. n)
    BY FS_Interval DEF Places
<1> QED
    BY <1>1, FS_Subset

LEMMA NoPlaces == \A b, e : Cardinality(Places(b, 0, e)) = 0 /\ Copies(e, EmptyBag) = 0
<1> SUFFICES ASSUME NEW b, NEW e
             PROVE  Cardinality(Places(b, 0, e)) = 0 /\ Copies(e, EmptyBag) = 0
    OBVIOUS
<1>1. Places(b, 0, e) = {}
    BY DEF Places
<1>2. e \notin DOMAIN EmptyBag
    BY DEF EmptyBag, SetToBag
<1> QED
    BY <1>1, <1>2, FS_EmptySet DEF Copies, BagIn, BagToSet

\* A record of a completion is an event.
LEMMA RecordIsEvent == \A e : IsRecord(EventSize, e) => e \in Evts
BY DEF IsRecord, Evts, Fields

LEMMA CompleteFills ==
    \A o \in BagToSet(flight), r \in Int : IInv /\ BatchInv /\ Complete(o, r) => BatchInv'
<1> SUFFICES ASSUME NEW o \in BagToSet(flight), NEW r \in Int, IInv, BatchInv, Complete(o, r)
             PROVE  BatchInv'
    OBVIOUS
<1> DEFINE new == Append(o, r)
           size == IF Len(buf) > len THEN Len(buf) ELSE len + 1
<1>1. /\ len' = len + 1 /\ drained' = <<>> /\ pushed' = pushed (+) SetToBag({new})
      /\ buf' = [k \in 1 .. size |-> IF k = len + 1 THEN new ELSE buf[k]]
    BY DEF Complete
<1>2. IsRecord(OpSize, o) /\ IsBagOf(EventSize, pushed)
    BY DEF IInv, TypeOK, IsBagOf, BagToSet
<1>3. IsRecord(EventSize, new) /\ new \in Evts
    BY <1>2, RecordGrows, RecordIsEvent
<1> HIDE DEF new
<1>4. /\ len \in Nat /\ buf \in Seq(Evts) /\ len <= Len(buf) /\ Len(buf) \in Nat
      /\ size \in Nat /\ len + 1 <= size /\ \A k \in 1 .. size : k = len + 1 \/ k \in 1 .. Len(buf)
    BY DEF BatchInv
<1>5. buf' \in Seq(Evts) /\ Len(buf') = size
  <2>1. \A k \in 1 .. Len(buf) : buf[k] \in Evts
    BY <1>4, ElementOfSeq
  <2>2. buf' \in [1 .. size -> Evts]
    BY <1>1, <1>3, <1>4, <2>1
  <2> HIDE DEF size
  <2> QED
    BY <1>4, <2>2
<1>6. ASSUME NEW e PROVE Cardinality(Places(buf', len', e)) = Copies(e, pushed')
  <2>1. Cardinality(Places(buf, len, e)) = Copies(e, pushed) /\ IsFiniteSet(Places(buf, len, e))
    BY <1>4, PlacesFinite DEF BatchInv
  <2>2. Gained(EventSize, pushed, new, pushed')
    BY <1>1, <1>2, <1>3, SizesAre, BagGains
  <2>3. \A k \in 1 .. len + 1 : k \in 1 .. len \/ k = len + 1
    BY <1>4
  <2>4. buf'[len + 1] = new /\ \A k \in 1 .. len : buf'[k] = buf[k] /\ k \in 1 .. len + 1
    BY <1>1, <1>4
  <2>5. len + 1 \notin Places(buf, len, e)
    BY <1>4 DEF Places
  <2> HIDE DEF size
  <2>6. CASE e = new
    <3>1. Places(buf', len', e) = Places(buf, len, e) \cup {len + 1}
      BY <1>1, <1>4, <2>3, <2>4, <2>6 DEF Places
    <3>2. Cardinality(Places(buf', len', e)) = Copies(e, pushed) + 1
      BY <2>1, <2>5, <3>1, FS_AddElement
    <3> QED
      BY <2>2, <2>6, <3>2 DEF Gained, Copies, BagIn, BagToSet
  <2>7. CASE e # new
    <3>1. Places(buf', len', e) = Places(buf, len, e)
      BY <1>1, <1>4, <2>3, <2>4, <2>7 DEF Places
    <3> QED
      BY <2>1, <2>2, <2>7, <3>1 DEF Gained, Copies, BagIn, BagToSet
  <2> QED
    BY <2>6, <2>7
<1> QED
  <2>1. len' \in Nat /\ len' <= Len(buf')
    BY <1>1, <1>4, <1>5
  <2> QED
    BY <1>1, <1>5, <1>6, <2>1 DEF BatchInv

LEMMA DrainOrders == \A room \in Nat : BatchInv /\ CanonDrain(room) => BatchInv'
<1> SUFFICES ASSUME NEW room \in Nat, BatchInv, CanonDrain(room) PROVE BatchInv'
    OBVIOUS
<1> DEFINE N == Len(buf)
<1>1. /\ buf' = CanonSort(buf, len) /\ len' = len /\ pushed' = pushed
      /\ drained' = <<>> \/ drained' = Written(buf', len)
    BY DEF CanonDrain
<1>2. N \in Nat /\ len \in 0 .. N /\ buf \in [1 .. N -> Evts]
    BY DEF BatchInv
<1> HIDE DEF N
<1>3. /\ buf' \in [1 .. N -> Evts] /\ Ordered(buf', len, len)
      /\ \A e : Cardinality(Places(buf', len, e)) = Cardinality(Places(buf, len, e))
    BY <1>1, <1>2, SortIs
<1>4. buf' \in Seq(Evts) /\ Len(buf') = N
    BY <1>2, <1>3
<1>5. len' \in Nat /\ len' <= Len(buf')
    BY <1>1, <1>2, <1>4
<1>6. \A e : Cardinality(Places(buf', len', e)) = Copies(e, pushed')
    BY <1>1, <1>3 DEF BatchInv, Copies
<1> QED
    BY <1>1, <1>3, <1>4, <1>5, <1>6 DEF BatchInv, Written

\* The batch holds each completion pushed since the last clear as often as it
\* was pushed, and what was drained is the batch in order, for every capacity
\* and every order of completions (canon_push, canon_sort, canon_clear).
THEOREM BatchInvariance == ReactorSpec => []BatchInv
<1>1. ReactorInit => BatchInv
  <2> SUFFICES ASSUME ReactorInit PROVE BatchInv
    OBVIOUS
  <2>1. len = 0 /\ buf = <<>> /\ pushed = EmptyBag /\ drained = <<>>
    BY DEF ReactorInit
  <2>2. buf \in Seq(Evts) /\ Len(buf) = 0
    BY <2>1
  <2> QED
    BY <2>1, <2>2, NoPlaces DEF BatchInv
<1>2. IInv /\ BatchInv /\ [ReactorNext]_reactorVars => BatchInv'
  <2> SUFFICES ASSUME IInv, BatchInv, [ReactorNext]_reactorVars PROVE BatchInv'
    OBVIOUS
  <2>1. CASE UNCHANGED <<buf, len, pushed, drained>>
    BY <2>1 DEF BatchInv, Copies, Written
  <2>2. ASSUME NEW o \in BagToSet(flight), NEW r \in Results, Complete(o, r) PROVE BatchInv'
    BY <2>2, ReactorAssumption, CompleteFills
  <2>3. ASSUME NEW room \in 0 .. Batch, CanonDrain(room) PROVE BatchInv'
    BY <2>3, ReactorAssumption, DrainOrders
  <2>4. CASE CanonClear
    <3>1. len' = 0 /\ pushed' = EmptyBag /\ drained' = <<>> /\ buf' = buf
      BY <2>4 DEF CanonClear
    <3>2. Len(buf) \in Nat
      BY DEF BatchInv
    <3> QED
      BY <3>1, <3>2, NoPlaces DEF BatchInv
  <2>5. CASE ReactorFree \/ \E n \in Sizes : ReactorNew(n)
    BY <2>1, <2>5 DEF ReactorFree, ReactorNew
  <2>6. ASSUME NEW c \in Conns,
               ReactorAccept(c) \/ ReactorClose(c) \/ \E op \in Ops : ReactorNextReq(c, op)
        PROVE  BatchInv'
    BY <2>1, <2>6 DEF ReactorAccept, ReactorClose, ReactorNextReq
  <2>7. CASE UNCHANGED reactorVars
    BY <2>1, <2>7 DEF reactorVars
  <2> QED
    BY <2>2, <2>3, <2>4, <2>5, <2>6, <2>7 DEF ReactorNext
<1> QED
    BY <1>1, <1>2, ReactorInvariance, PTL DEF ReactorSpec

\* For every number of connections, operations and results and every batch
\* size, the drained sequence is a function of the multiset of completions:
\* each as often as it was pushed since the last clear, in the one order of
\* all four fields (canon_drain).
THEOREM DrainIsCanonical == ReactorSpec => []DrainCanonical
<1>1. BatchInv => DrainCanonical
  <2> SUFFICES ASSUME BatchInv, drained # <<>>
               PROVE  /\ \A e : Cardinality({k \in DOMAIN drained : drained[k] = e})
                                  = Copies(e, pushed)
                      /\ \A k \in 1 .. Len(drained) - 1 :
                           \A m \in 1 .. 4 :
                             /\ drained[k][m] # drained[k + 1][m]
                             /\ \A n \in 1 .. 4 :
                                  drained[k][n] # drained[k + 1][n] => m <= n
                             => drained[k][m] < drained[k + 1][m]
    BY DEF DrainCanonical
  <2>1. /\ len \in Nat /\ buf \in Seq(Evts) /\ len <= Len(buf) /\ Len(buf) \in Nat
        /\ drained = SubSeq(buf, 1, len) /\ Ordered(buf, len, len)
    BY DEF BatchInv, Written
  <2>2. DOMAIN drained = 1 .. len /\ Len(drained) = len /\ \A k \in 1 .. len : drained[k] = buf[k]
    BY <2>1
  <2>3. ASSUME NEW e PROVE Cardinality({k \in DOMAIN drained : drained[k] = e}) = Copies(e, pushed)
    <3>1. {k \in DOMAIN drained : drained[k] = e} = Places(buf, len, e)
      BY <2>2 DEF Places
    <3> QED
      BY <3>1 DEF BatchInv
  <2>4. ASSUME NEW k \in 1 .. Len(drained) - 1, NEW m \in 1 .. 4,
               drained[k][m] # drained[k + 1][m],
               \A n \in 1 .. 4 : drained[k][n] # drained[k + 1][n] => m <= n
        PROVE  drained[k][m] < drained[k + 1][m]
    <3>1. k \in 1 .. len /\ k + 1 \in k .. len /\ k + 1 \in 1 .. len
      BY <2>1, <2>2
    <3>2. ~CanonLess(drained[k + 1], drained[k])
      BY <2>1, <2>2, <3>1 DEF Ordered
    <3>3. drained[k] \in Evts /\ drained[k + 1] \in Evts
      BY <2>1, <2>2, <3>1
    <3>4. drained[k][m] \in Int /\ drained[k + 1][m] \in Int
      BY <3>3 DEF Evts, Fields, EventSize
    <3>5. \A n \in 1 .. m - 1 : drained[k + 1][n] = drained[k][n]
      BY <2>4
    <3>6. ~(drained[k + 1][m] < drained[k][m])
      BY <3>2, <3>5 DEF CanonLess
    <3> QED
      BY <2>4, <3>4, <3>6
  <2> QED
    BY <2>3, <2>4
<1> QED
    BY <1>1, BatchInvariance, PTL
=============================================================================
