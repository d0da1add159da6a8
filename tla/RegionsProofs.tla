---------------------------- MODULE RegionsProofs ----------------------------
(***************************************************************************)
(* Proofs about Regions, for any heap, any depth of the runtime's stack    *)
(* and any nesting of scopes.                                              *)
(***************************************************************************)
EXTENDS Regions, FiniteSetTheorems, SequenceTheorems, WellFoundedInduction, TLAPS

(***************************************************************************)
(* The inductive invariant.                                                *)
(***************************************************************************)

Scopes == [kind : Kinds, own : SUBSET Addrs]

TypeOK ==
  /\ frames \in Seq(Seq(Addrs)) /\ heap \in SUBSET Addrs /\ scopes \in Seq(Scopes)
  /\ free_error \in BOOLEAN /\ aborted \in BOOLEAN /\ strayed \in SUBSET {"exit", "inner"}

\* The regions among some scopes, and how many there are up to one of them.
Regs(s)    == {i \in DOMAIN s : s[i].kind = "region"}
Rank(s, i) == Cardinality({j \in Regs(s) : j <= i})

\* The outermost scope is a function, and no inner block owns anything.
Rooted ==
  /\ scopes # <<>> => scopes[1].kind = "fn"
  /\ \A i \in DOMAIN scopes : scopes[i].kind = "block" => scopes[i].own = {}

\* What a scope owns, or a frame holds, is allocated, and nothing is owned by
\* two scopes, held twice, or owned by a function and held by a frame.
Held ==
  /\ \A i \in DOMAIN scopes : scopes[i].own \subseteq heap
  /\ \A i, j \in DOMAIN scopes : i # j => scopes[i].own \cap scopes[j].own = {}
  /\ \A k \in DOMAIN frames : \A x \in DOMAIN frames[k] :
       /\ frames[k][x] \in heap
       /\ \A i \in DOMAIN scopes : scopes[i].kind = "fn" => frames[k][x] \notin scopes[i].own
       /\ \A l \in DOMAIN frames : \A y \in DOMAIN frames[l] :
            frames[k][x] = frames[l][y] => k = l /\ x = y

\* There is a frame for every open region, and perhaps some left behind by a
\* branch.  What a region owns is held below the frames of the regions inside.
Nested ==
  /\ Cardinality(Regs(scopes)) <= Len(frames) /\ Len(frames) <= StackDepth
  /\ \A i, j \in Regs(scopes) : i < j =>
       \A k \in DOMAIN frames : ToSet(frames[k]) \cap scopes[i].own # {} =>
         k < Rank(scopes, j) + Len(frames) - Cardinality(Regs(scopes))

\* Without strays all that is allocated is owned, and the frames are the open
\* regions with what they own.
Exact ==
  strayed = {} =>
    /\ scopes # <<>> => \A a \in heap : \E i \in DOMAIN scopes : a \in scopes[i].own
    /\ Len(frames) = Cardinality(Regs(scopes))
    /\ \A i \in Regs(scopes) : ToSet(frames[Rank(scopes, i)]) = scopes[i].own

IInv == TypeOK /\ Rooted /\ Held /\ Nested /\ Exact /\ ~free_error

-----------------------------------------------------------------------------

(***************************************************************************)
(* Regions among scopes.                                                   *)
(***************************************************************************)

\* Some numbers up to n have a greatest.
LEMMA Greatest ==
  ASSUME NEW n \in Nat, NEW S \in SUBSET (1 .. n), S # {}
  PROVE  \E i \in S : \A j \in S : j <= i
<1> DEFINE T == {m \in Nat : n - m \in S}
<1>1. T \subseteq Nat /\ T # {}
  <2>1. PICK i \in S : TRUE
    OBVIOUS
  <2>2. n - i \in Nat /\ n - (n - i) = i
    OBVIOUS
  <2> QED BY <2>1, <2>2
<1>2. PICK x \in T : \A y \in T : <<y, x>> \notin OpToRel(<, Nat)
  <2> HIDE DEF T
  <2> QED BY <1>1, NatLessThanWellFounded, WFMin, Zenon
<1>3. \A y \in T : ~(y < x)
  BY <1>1, <1>2 DEF OpToRel
<1>4. n - x \in S
  BY <1>2
<1>5. \A j \in S : n - j \in T /\ j <= n - x
  <2> TAKE j \in S
  <2>1. n - j \in Nat /\ n - (n - j) = j
    OBVIOUS
  <2>2. n - j \in T
    BY <2>1
  <2>3. x \in Nat /\ ~(n - j < x)
    BY <1>2, <1>3, <2>2
  <2> QED BY <2>1, <2>2, <2>3
<1> QED BY <1>4, <1>5

\* There are finitely many, each has a number among them, and the last one has
\* the greatest.
LEMMA Ranks ==
  ASSUME NEW s \in Seq(Scopes)
  PROVE  /\ IsFiniteSet(Regs(s)) /\ Cardinality(Regs(s)) \in Nat
         /\ \A i \in Regs(s) : Rank(s, i) \in 1 .. Cardinality(Regs(s))
         /\ \A i, j \in Regs(s) : i < j => Rank(s, i) < Rank(s, j)
         /\ Len(s) \in Regs(s) => Rank(s, Len(s)) = Cardinality(Regs(s))
<1>1. IsFiniteSet(1 .. Len(s)) /\ Regs(s) \in SUBSET (1 .. Len(s))
  BY FS_Interval DEF Regs
<1>2. IsFiniteSet(Regs(s)) /\ Cardinality(Regs(s)) \in Nat
  BY <1>1, FS_Subset, FS_CardinalityType
<1> DEFINE Upto(i) == {j \in Regs(s) : j <= i}
<1>3. ASSUME NEW i
      PROVE  /\ IsFiniteSet(Upto(i)) /\ Cardinality(Upto(i)) \in Nat
             /\ Cardinality(Upto(i)) <= Cardinality(Regs(s))
  <2>1. Upto(i) \in SUBSET Regs(s)
    OBVIOUS
  <2> HIDE DEF Upto
  <2> QED BY <1>2, <2>1, FS_Subset, FS_CardinalityType
<1>4. ASSUME NEW i \in Regs(s)
      PROVE  Rank(s, i) \in 1 .. Cardinality(Regs(s))
  <2>1. Upto(i) # {} /\ Rank(s, i) = Cardinality(Upto(i))
    BY <1>1 DEF Rank
  <2>2. Cardinality(Upto(i)) # 0
    <3> HIDE DEF Upto
    <3> QED BY <1>3, <2>1, FS_EmptySet
  <2> HIDE DEF Upto
  <2> QED BY <1>2, <1>3, <2>1, <2>2
<1>5. ASSUME NEW i \in Regs(s), NEW j \in Regs(s), i < j
      PROVE  Rank(s, i) < Rank(s, j)
  <2>1. /\ Upto(i) \in SUBSET Upto(j) /\ j \in Upto(j) /\ j \notin Upto(i)
        /\ Rank(s, i) = Cardinality(Upto(i)) /\ Rank(s, j) = Cardinality(Upto(j))
    BY <1>1, <1>5 DEF Rank
  <2> HIDE DEF Upto
  <2>2. Cardinality(Upto(i)) <= Cardinality(Upto(j)) /\ Cardinality(Upto(j)) # Cardinality(Upto(i))
    BY <1>3, <2>1, FS_Subset
  <2> QED BY <1>3, <2>1, <2>2
<1>6. ASSUME Len(s) \in Regs(s)
      PROVE  Rank(s, Len(s)) = Cardinality(Regs(s))
  <2>1. {j \in Regs(s) : j <= Len(s)} = Regs(s)
    BY <1>1
  <2> QED BY <2>1 DEF Rank
<1> QED BY <1>2, <1>4, <1>5, <1>6

\* One scope more.
LEMMA RegsAppend ==
  ASSUME NEW s \in Seq(Scopes), NEW u \in Scopes
  PROVE  /\ Regs(Append(s, u)) = IF u.kind = "region" THEN Regs(s) \cup {Len(s) + 1} ELSE Regs(s)
         /\ Cardinality(Regs(Append(s, u))) =
              IF u.kind = "region" THEN Cardinality(Regs(s)) + 1 ELSE Cardinality(Regs(s))
         /\ \A i \in DOMAIN s : Rank(Append(s, u), i) = Rank(s, i)
<1>1. Regs(Append(s, u)) = IF u.kind = "region" THEN Regs(s) \cup {Len(s) + 1} ELSE Regs(s)
  BY DEF Regs
<1>2. Len(s) + 1 \notin Regs(s) /\ Regs(s) \subseteq 1 .. Len(s)
  BY DEF Regs
<1>3. ASSUME NEW i \in DOMAIN s
      PROVE  Rank(Append(s, u), i) = Rank(s, i)
  <2>1. {j \in Regs(Append(s, u)) : j <= i} = {j \in Regs(s) : j <= i}
    BY <1>1, <1>2
  <2> QED BY <2>1 DEF Rank
<1>4. IsFiniteSet(Regs(s)) /\ Cardinality(Regs(s)) \in Nat
  BY Ranks
<1> QED BY <1>1, <1>2, <1>3, <1>4, FS_AddElement

\* Some scopes less.
LEMMA RegsPrefix ==
  ASSUME NEW s \in Seq(Scopes), NEW t \in 0 .. Len(s)
  PROVE  LET r == SubSeq(s, 1, t)
         IN  /\ r \in Seq(Scopes) /\ Len(r) = t /\ \A i \in 1 .. t : r[i] = s[i]
             /\ Regs(r) = {i \in Regs(s) : i <= t}
             /\ \A i \in 1 .. t : Rank(r, i) = Rank(s, i)
             /\ Cardinality(Regs(r)) <= Cardinality(Regs(s))
             /\ t = Len(s) - 1 /\ Len(s) \in Regs(s) =>
                  Cardinality(Regs(r)) = Cardinality(Regs(s)) - 1
<1> DEFINE r == SubSeq(s, 1, t)
<1>1. r \in Seq(Scopes) /\ Len(r) = t /\ \A i \in 1 .. t : r[i] = s[i]
  OBVIOUS
<1> HIDE DEF r
<1>2. Regs(r) = {i \in Regs(s) : i <= t} /\ Regs(s) \subseteq 1 .. Len(s)
  BY <1>1 DEF Regs
<1>3. ASSUME NEW i \in 1 .. t
      PROVE  Rank(r, i) = Rank(s, i)
  <2>1. {j \in Regs(r) : j <= i} = {j \in Regs(s) : j <= i}
    BY <1>2
  <2> QED BY <2>1 DEF Rank
<1>4. Cardinality(Regs(r)) <= Cardinality(Regs(s))
  <2>1. Regs(r) \in SUBSET Regs(s) /\ IsFiniteSet(Regs(s))
    BY <1>2, Ranks
  <2> QED BY <2>1, FS_Subset
<1>5. ASSUME t = Len(s) - 1, Len(s) \in Regs(s)
      PROVE  Cardinality(Regs(r)) = Cardinality(Regs(s)) - 1
  <2>1. Regs(r) = Regs(s) \ {Len(s)}
    BY <1>2, <1>5
  <2> QED BY <1>5, <2>1, Ranks, FS_RemoveElement
<1> QED BY <1>1, <1>2, <1>3, <1>4, <1>5 DEF r

\* Only kinds matter.
LEMMA RegsSame ==
  ASSUME NEW r, NEW s, DOMAIN r = DOMAIN s, \A i \in DOMAIN s : r[i].kind = s[i].kind
  PROVE  Regs(r) = Regs(s) /\ \A i : Rank(r, i) = Rank(s, i)
<1>1. Regs(r) = Regs(s)
  BY DEF Regs
<1> QED BY <1>1 DEF Rank

\* The innermost scope of a kind.
LEMMA InnermostIs ==
  ASSUME TypeOK, NEW kind
  PROVE  \/ /\ Innermost(kind) = 0
            /\ \A i \in DOMAIN scopes : scopes[i].kind # kind
         \/ /\ Innermost(kind) \in DOMAIN scopes
            /\ scopes[Innermost(kind)].kind = kind
            /\ \A i \in DOMAIN scopes : scopes[i].kind = kind => i <= Innermost(kind)
<1> DEFINE at == {i \in DOMAIN scopes : scopes[i].kind = kind}
<1>1. CASE at = {}
  BY <1>1 DEF Innermost
<1>2. CASE at # {}
  <2>1. Len(scopes) \in Nat /\ at \in SUBSET (1 .. Len(scopes))
    BY DEF TypeOK
  <2>2. \E i \in at : \A j \in at : j <= i
    <3> HIDE DEF at
    <3> QED BY <1>2, <2>1, Greatest
  <2>3. Innermost(kind) = CHOOSE i \in at : \A j \in at : j <= i
    BY <1>2 DEF Innermost
  <2>4. Innermost(kind) \in at /\ \A j \in at : j <= Innermost(kind)
    <3> HIDE DEF at
    <3> QED BY <2>2, <2>3
  <2> QED BY <2>4
<1> QED BY <1>1, <1>2

\* An allocation is owned by a function, or by a region: by the one it is made
\* in directly, or else it counts as strayed.
LEMMA OwnerIs ==
  ASSUME TypeOK, Rooted, scopes # <<>>
  PROVE  /\ Owner \in DOMAIN scopes /\ scopes[Owner].kind \in {"fn", "region"}
         /\ Inside("region") => Owner = Len(scopes) /\ scopes[Owner].kind = "region"
         /\ ~Inside("region") /\ ~(Inside("block") /\ InRegion) => scopes[Owner].kind = "fn"
<1>1. /\ 1 \in DOMAIN scopes /\ scopes[1].kind = "fn" /\ Len(scopes) \in DOMAIN scopes
      /\ DOMAIN scopes = 1 .. Len(scopes) /\ Len(scopes) \in Nat
      /\ \A i \in DOMAIN scopes : scopes[i].kind \in Kinds
  <2>1. Len(scopes) \in Nat /\ Len(scopes) # 0
    BY EmptySeq DEF TypeOK
  <2>2. DOMAIN scopes = 1 .. Len(scopes) /\ \A i \in DOMAIN scopes : scopes[i] \in Scopes
    BY <2>1 DEF TypeOK
  <2> QED BY <2>1, <2>2 DEF Rooted, Scopes
<1>2. /\ Innermost("fn") \in DOMAIN scopes /\ scopes[Innermost("fn")].kind = "fn"
      /\ \A i \in DOMAIN scopes : scopes[i].kind = "fn" => i <= Innermost("fn")
  BY <1>1, InnermostIs
<1>3. \/ /\ Innermost("region") = 0
         /\ \A i \in DOMAIN scopes : scopes[i].kind # "region"
      \/ /\ Innermost("region") \in DOMAIN scopes
         /\ scopes[Innermost("region")].kind = "region"
         /\ \A i \in DOMAIN scopes : scopes[i].kind = "region" => i <= Innermost("region")
  BY InnermostIs
<1>4. Owner \in DOMAIN scopes /\ scopes[Owner].kind = IF InRegion THEN "region" ELSE "fn"
  BY <1>1, <1>2, <1>3 DEF Owner, InRegion
<1>5. ASSUME Inside("region")
      PROVE  Owner = Len(scopes) /\ InRegion
  <2>1. Innermost("region") = Len(scopes)
    BY <1>1, <1>3, <1>5 DEF Inside, Last
  <2>2. Innermost("fn") < Len(scopes)
    BY <1>1, <1>2, <1>5 DEF Inside, Last
  <2> QED BY <2>1, <2>2 DEF Owner, InRegion
<1>6. ASSUME Inside("fn")
      PROVE  ~InRegion
  <2>1. Innermost("fn") = Len(scopes)
    BY <1>1, <1>2, <1>6 DEF Inside, Last
  <2> QED BY <1>1, <1>3, <2>1 DEF InRegion
<1>7. Inside("fn") \/ Inside("region") \/ Inside("block")
  BY <1>1 DEF Inside, Last, Kinds
<1> QED BY <1>4, <1>5, <1>6, <1>7

-----------------------------------------------------------------------------
(***************************************************************************)
(* Steps.                                                                  *)
(***************************************************************************)

\* What the proofs of the steps begin with.
LEMMA Shape ==
  ASSUME TypeOK
  PROVE  /\ Len(scopes) \in Nat /\ DOMAIN scopes = 1 .. Len(scopes)
         /\ \A i \in DOMAIN scopes :
              scopes[i] \in Scopes /\ scopes[i].kind \in Kinds /\ scopes[i].own \in SUBSET Addrs
         /\ scopes # <<>> => Len(scopes) >= 1
         /\ Len(frames) \in Nat /\ DOMAIN frames = 1 .. Len(frames)
         /\ \A k \in DOMAIN frames : frames[k] \in Seq(Addrs)
         /\ Regs(scopes) \subseteq DOMAIN scopes
<1>1. Len(scopes) \in Nat /\ DOMAIN scopes = 1 .. Len(scopes)
  BY DEF TypeOK
<1>2. \A i \in DOMAIN scopes :
        scopes[i] \in Scopes /\ scopes[i].kind \in Kinds /\ scopes[i].own \in SUBSET Addrs
  <2>1. \A i \in DOMAIN scopes : scopes[i] \in Scopes
    BY <1>1 DEF TypeOK
  <2> QED BY <2>1 DEF Scopes
<1>3. scopes # <<>> => Len(scopes) >= 1
  BY EmptySeq DEF TypeOK
<1>4. /\ Len(frames) \in Nat /\ DOMAIN frames = 1 .. Len(frames)
      /\ \A k \in DOMAIN frames : frames[k] \in Seq(Addrs)
  BY DEF TypeOK
<1> QED BY <1>1, <1>2, <1>3, <1>4 DEF Regs

\* A call or a block begins.
LEMMA PushStep ==
  ASSUME IInv, NEW kind \in Kinds, Push(kind)
  PROVE  IInv'
<1> USE DEF IInv
<1>0. TypeOK
  OBVIOUS
<1>1. Scope(kind) \in Scopes /\ Scope(kind).kind \in {"fn", "block"} /\ Scope(kind).own = {}
  BY DEF Push, Scope, Scopes, Kinds
<1>2. scopes' = Append(scopes, Scope(kind)) /\ UNCHANGED <<frames, heap, free_error, aborted, strayed>>
      /\ scopes # <<>>
  BY DEF Push
<1>3. /\ scopes' \in Seq(Scopes) /\ Len(scopes') = Len(scopes) + 1
      /\ \A i \in DOMAIN scopes : scopes'[i] = scopes[i]
      /\ scopes'[Len(scopes) + 1] = Scope(kind)
  BY <1>1, <1>2 DEF TypeOK
<1>4. DOMAIN scopes' = 1 .. Len(scopes) + 1 /\ 1 \in DOMAIN scopes
  BY <1>0, <1>2, <1>3, Shape
<1>5. /\ Regs(scopes') = Regs(scopes) /\ \A i \in DOMAIN scopes : Rank(scopes', i) = Rank(scopes, i)
  BY <1>1, <1>2, RegsAppend DEF TypeOK
<1>6. TypeOK'
  BY <1>2, <1>3 DEF TypeOK
<1>7. Rooted'
  BY <1>0, <1>1, <1>2, <1>3, <1>4, Shape DEF Rooted
<1>8. Held'
  <2>1. \A i \in DOMAIN scopes' :
          (i \in DOMAIN scopes /\ scopes'[i] = scopes[i]) \/ scopes'[i].own = {}
    BY <1>0, <1>1, <1>3, <1>4, Shape
  <2> QED BY <1>2, <2>1 DEF Held
<1>9. Nested'
  BY <1>0, <1>2, <1>3, <1>5, Shape DEF Nested
<1>10. Exact'
  BY <1>0, <1>2, <1>3, <1>4, <1>5, Shape DEF Exact
<1> QED BY <1>2, <1>6, <1>7, <1>8, <1>9, <1>10

\* A region begins, with a frame, or the program aborts.
LEMMA EnterStep ==
  ASSUME IInv, EnterRegion
  PROVE  IInv'
<1> USE DEF IInv
<1>0. TypeOK
  OBVIOUS
<1>a. CASE Overflows
  BY <1>a DEF EnterRegion, TypeOK, Rooted, Held, Nested, Exact
<1>b. CASE ~Overflows
  <2> DEFINE n == Len(scopes)
             m == Len(frames)
  <2>1. Scope("region") \in Scopes /\ Scope("region").kind = "region" /\ Scope("region").own = {}
    BY DEF Scope, Scopes, Kinds
  <2>2. /\ scopes' = Append(scopes, Scope("region")) /\ frames' = Append(frames, <<>>)
        /\ UNCHANGED <<heap, free_error, aborted, strayed>> /\ scopes # <<>>
    BY <1>b DEF EnterRegion
  <2>3. /\ scopes' \in Seq(Scopes) /\ Len(scopes') = n + 1
        /\ \A i \in DOMAIN scopes : scopes'[i] = scopes[i]
        /\ scopes'[n + 1] = Scope("region")
    BY <2>1, <2>2 DEF TypeOK
  <2>4. /\ frames' \in Seq(Seq(Addrs)) /\ Len(frames') = m + 1
        /\ \A k \in DOMAIN frames : frames'[k] = frames[k]
        /\ frames'[m + 1] = <<>>
    <3>1. <<>> \in Seq(Addrs)
      OBVIOUS
    <3> QED BY <2>2, <3>1 DEF TypeOK
  <2>5. /\ DOMAIN scopes' = 1 .. n + 1 /\ 1 \in DOMAIN scopes
        /\ DOMAIN frames' = 1 .. m + 1
    BY <1>0, <2>2, <2>3, <2>4, Shape
  <2>6. /\ Regs(scopes') = Regs(scopes) \cup {n + 1}
        /\ Cardinality(Regs(scopes')) = Cardinality(Regs(scopes)) + 1
        /\ \A i \in DOMAIN scopes : Rank(scopes', i) = Rank(scopes, i)
    BY <2>1, <2>2, RegsAppend DEF TypeOK
  <2>7. Rank(scopes', n + 1) = Cardinality(Regs(scopes')) /\ Cardinality(Regs(scopes)) \in Nat
    BY <2>3, <2>6, Ranks DEF TypeOK
  <2>8. TypeOK'
    BY <2>2, <2>3, <2>4 DEF TypeOK
  <2>9. Rooted'
    BY <1>0, <2>1, <2>2, <2>3, <2>5, Shape DEF Rooted
  <2>10. Held'
    <3>1. \A i \in DOMAIN scopes' :
            (i \in DOMAIN scopes /\ scopes'[i] = scopes[i]) \/ scopes'[i].own = {}
      BY <1>0, <2>1, <2>3, <2>5, Shape
    <3>2. \A k \in DOMAIN frames' : DOMAIN frames'[k] # {} => k \in DOMAIN frames /\ frames'[k] = frames[k]
      BY <1>0, <2>4, <2>5, Shape
    <3> QED BY <2>2, <3>1, <3>2 DEF Held
  <2>11. Nested'
    <3>1. m + 1 <= StackDepth /\ Cardinality(Regs(scopes')) <= m + 1
      BY <1>0, <1>b, <2>6, <2>7, Shape, RegionsAssumption DEF Overflows, Nested
    <3>2. ASSUME NEW i \in Regs(scopes'), NEW j \in Regs(scopes'), i < j, NEW k \in DOMAIN frames',
                 ToSet(frames'[k]) \cap scopes'[i].own # {}
          PROVE  k < Rank(scopes', j) + Len(frames') - Cardinality(Regs(scopes'))
      <4>1. k \in DOMAIN frames /\ frames'[k] = frames[k]
        BY <1>0, <2>4, <2>5, <3>2, Shape DEF ToSet
      <4>2. i \in Regs(scopes) /\ scopes'[i] = scopes[i]
        BY <1>0, <2>3, <2>5, <2>6, <3>2, Shape
      <4>3. CASE j = n + 1
        BY <1>0, <2>4, <2>6, <2>7, <4>1, <4>3, Shape
      <4>4. CASE j # n + 1
        <5>1. j \in Regs(scopes) /\ Rank(scopes', j) = Rank(scopes, j)
          BY <1>0, <2>6, <4>4, Shape
        <5>2. k < Rank(scopes, j) + Len(frames) - Cardinality(Regs(scopes))
          BY <3>2, <4>1, <4>2, <5>1 DEF Nested
        <5>3. Rank(scopes, j) \in Nat
          BY <5>1, Ranks DEF TypeOK
        <5> QED BY <1>0, <2>4, <2>6, <2>7, <4>1, <5>1, <5>2, <5>3, Shape
      <4> QED BY <4>3, <4>4
    <3> QED BY <2>4, <3>1, <3>2 DEF Nested
  <2>12. Exact'
    <3> SUFFICES ASSUME strayed = {} PROVE Exact'
      BY <2>2 DEF Exact
    <3>1. Len(frames') = Cardinality(Regs(scopes'))
      BY <2>4, <2>6 DEF Exact
    <3>2. ASSUME NEW i \in Regs(scopes')
          PROVE  ToSet(frames'[Rank(scopes', i)]) = scopes'[i].own
      <4>1. CASE i = n + 1
        BY <2>1, <2>3, <2>4, <2>7, <3>1, <4>1 DEF ToSet
      <4>2. CASE i # n + 1
        <5>1. i \in Regs(scopes) /\ Rank(scopes', i) = Rank(scopes, i) /\ scopes'[i] = scopes[i]
          BY <1>0, <2>3, <2>6, <4>2, Shape
        <5>2. Rank(scopes, i) \in DOMAIN frames
          BY <1>0, <5>1, Ranks, Shape DEF TypeOK, Exact
        <5> QED BY <2>4, <5>1, <5>2 DEF Exact
      <4> QED BY <4>1, <4>2
    <3>3. \A a \in heap : \E i \in DOMAIN scopes : a \in scopes[i].own
      BY <2>2 DEF Exact
    <3>4. \A a \in heap' : \E i \in DOMAIN scopes' : a \in scopes'[i].own
      BY <1>0, <2>2, <2>3, <2>5, <3>3, Shape
    <3> QED BY <3>1, <3>2, <3>4 DEF Exact
  <2> QED BY <2>2, <2>8, <2>9, <2>10, <2>11, <2>12
<1> QED BY <1>a, <1>b

\* An allocation, tracked in the top frame if it is made directly in a region.
LEMMA AllocStep ==
  ASSUME IInv, NEW a \in Addrs, Alloc(a)
  PROVE  IInv'
<1> USE DEF IInv
<1> DEFINE n == Len(scopes)
           m == Len(frames)
<1>0. TypeOK /\ Rooted
  OBVIOUS
<1>1. /\ a \notin heap /\ heap' = heap \cup {a} /\ scopes # <<>>
      /\ scopes' = [scopes EXCEPT ![Owner].own = @ \cup {a}]
      /\ UNCHANGED <<free_error, aborted>>
  BY DEF Alloc
<1>2. /\ Owner \in DOMAIN scopes /\ scopes[Owner].kind \in {"fn", "region"}
      /\ Inside("region") => Owner = n /\ scopes[Owner].kind = "region"
      /\ ~Inside("region") /\ ~(Inside("block") /\ InRegion) => scopes[Owner].kind = "fn"
  BY <1>0, <1>1, OwnerIs
<1>3. /\ scopes' \in Seq(Scopes) /\ DOMAIN scopes' = DOMAIN scopes
      /\ \A i \in DOMAIN scopes : /\ scopes'[i].kind = scopes[i].kind
                                  /\ i # Owner => scopes'[i].own = scopes[i].own
      /\ scopes'[Owner].own = scopes[Owner].own \cup {a}
  <2>1. \A i \in DOMAIN scopes : scopes[i] \in Scopes
    BY <1>0, Shape
  <2>2. [scopes[Owner] EXCEPT !.own = @ \cup {a}] \in Scopes
    BY <1>2, <2>1 DEF Scopes
  <2>3. scopes' \in Seq(Scopes)
    BY <1>1, <1>2, <2>2 DEF TypeOK
  <2> QED BY <1>1, <1>2, <2>1, <2>3 DEF Scopes
<1>4. Regs(scopes') = Regs(scopes) /\ \A i : Rank(scopes', i) = Rank(scopes, i)
  BY <1>3, RegsSame
<1>5. /\ Cardinality(Regs(scopes)) \in Nat
      /\ \A i \in Regs(scopes) : Rank(scopes, i) \in 1 .. Cardinality(Regs(scopes))
      /\ \A i, j \in Regs(scopes) : i < j => Rank(scopes, i) < Rank(scopes, j)
      /\ n \in Regs(scopes) => Rank(scopes, n) = Cardinality(Regs(scopes))
  BY Ranks DEF TypeOK
<1>6. ASSUME Inside("region")
      PROVE  /\ n \in Regs(scopes) /\ m >= 1
             /\ frames' = [frames EXCEPT ![m] = Append(@, a)]
  <2>1. n \in Regs(scopes)
    BY <1>2, <1>6 DEF Regs
  <2>2. m >= 1
    BY <1>0, <1>5, <2>1, Shape DEF Nested
  <2>3. frames # <<>>
    BY <2>2
  <2> QED BY <1>6, <2>1, <2>2, <2>3 DEF Alloc, Tracked
<1>7. ASSUME ~Inside("region")
      PROVE  UNCHANGED frames
  BY <1>7 DEF Alloc
<1>8. ASSUME Inside("region")
      PROVE  /\ frames' \in Seq(Seq(Addrs)) /\ Len(frames') = m
             /\ \A k \in DOMAIN frames : k # m => frames'[k] = frames[k]
             /\ frames'[m] = Append(frames[m], a) /\ frames[m] \in Seq(Addrs)
             /\ ToSet(frames'[m]) = ToSet(frames[m]) \cup {a}
  <2>1. frames[m] \in Seq(Addrs) /\ m \in DOMAIN frames
    BY <1>0, <1>6, <1>8, Shape
  <2>2. Append(frames[m], a) \in Seq(Addrs)
    BY <2>1
  <2>3. /\ frames' \in Seq(Seq(Addrs)) /\ Len(frames') = m
        /\ \A k \in DOMAIN frames : k # m => frames'[k] = frames[k]
        /\ frames'[m] = Append(frames[m], a)
    <3> DEFINE e == Append(frames[m], a)
    <3>1. frames' = [frames EXCEPT ![m] = e]
      BY <1>6, <1>8
    <3>2. frames \in Seq(Seq(Addrs)) /\ m \in 1 .. Len(frames) /\ e \in Seq(Addrs)
      BY <1>0, <2>1, <2>2, Shape DEF TypeOK
    <3> HIDE DEF e, m
    <3>3. /\ [frames EXCEPT ![m] = e] \in Seq(Seq(Addrs))
          /\ Len([frames EXCEPT ![m] = e]) = Len(frames)
          /\ \A j \in 1 .. Len(frames) : [frames EXCEPT ![m] = e][j] = IF j = m THEN e ELSE frames[j]
      BY <3>2, ExceptSeq
    <3> QED BY <1>0, <3>1, <3>2, <3>3, Shape DEF m, e
  <2>4. ToSet(Append(frames[m], a)) = ToSet(frames[m]) \cup {a}
    BY <2>1 DEF ToSet
  <2> QED BY <2>1, <2>3, <2>4
<1>9. Len(frames') = m /\ DOMAIN frames' = DOMAIN frames /\ frames' \in Seq(Seq(Addrs))
  <2>1. CASE Inside("region")
    BY <1>0, <1>8, <2>1, Shape
  <2>2. CASE ~Inside("region")
    BY <1>7, <2>2 DEF TypeOK
  <2> QED BY <2>1, <2>2
\* What is new in a frame is the address.
<1>10. ASSUME NEW k \in DOMAIN frames
       PROVE  \/ frames'[k] = frames[k]
              \/ /\ k = m /\ Inside("region") /\ frames'[k] = Append(frames[k], a)
                 /\ frames[k] \in Seq(Addrs)
  BY <1>7, <1>8, <1>10
<1>11. TypeOK'
  <2>1. strayed' \in SUBSET {"exit", "inner"}
    BY DEF Alloc, TypeOK
  <2> QED BY <1>1, <1>3, <1>9, <2>1 DEF TypeOK
<1>12. Rooted'
  <2>1. 1 \in DOMAIN scopes /\ scopes'[1].kind = "fn"
    BY <1>0, <1>1, <1>3, Shape DEF Rooted
  <2>2. \A i \in DOMAIN scopes : scopes[i].kind = "block" => i # Owner
    BY <1>2
  <2> QED BY <1>3, <2>1, <2>2 DEF Rooted
<1>13. Held'
  <2>1. \A i \in DOMAIN scopes' : scopes'[i].own \subseteq heap'
    BY <1>1, <1>3 DEF Held
  <2>2. \A i, j \in DOMAIN scopes' : i # j => scopes'[i].own \cap scopes'[j].own = {}
    BY <1>1, <1>3 DEF Held
  <2>3. ASSUME NEW k \in DOMAIN frames', NEW x \in DOMAIN frames'[k]
        PROVE  \/ x \in DOMAIN frames[k] /\ frames'[k][x] = frames[k][x]
               \/ /\ frames'[k][x] = a /\ Inside("region")
                  /\ k = m /\ x = Len(frames[m]) + 1
    <3>1. CASE frames'[k] = frames[k]
      BY <2>3, <3>1
    <3>2. CASE /\ k = m /\ Inside("region") /\ frames'[k] = Append(frames[k], a)
               /\ frames[k] \in Seq(Addrs)
      <4>1. x \in 1 .. Len(frames[k]) + 1 /\ DOMAIN frames[k] = 1 .. Len(frames[k])
            /\ Len(frames[k]) \in Nat
        BY <2>3, <3>2
      <4> HIDE DEF m
      <4> QED BY <3>2, <4>1
    <3> QED BY <1>9, <1>10, <3>1, <3>2
  <2>4. ASSUME NEW k \in DOMAIN frames', NEW x \in DOMAIN frames'[k]
        PROVE  /\ frames'[k][x] \in heap'
               /\ \A i \in DOMAIN scopes' :
                    scopes'[i].kind = "fn" => frames'[k][x] \notin scopes'[i].own
    <3>1. CASE x \in DOMAIN frames[k] /\ frames'[k][x] = frames[k][x]
      BY <1>1, <1>3, <1>9, <3>1 DEF Held
    <3>2. CASE frames'[k][x] = a /\ Inside("region")
      BY <1>1, <1>2, <1>3, <3>2 DEF Held
    <3> QED BY <2>3, <3>1, <3>2
  <2>5. ASSUME NEW k \in DOMAIN frames', NEW x \in DOMAIN frames'[k],
               NEW l \in DOMAIN frames', NEW y \in DOMAIN frames'[l],
               frames'[k][x] = frames'[l][y]
        PROVE  k = l /\ x = y
    <3>1. \A g \in DOMAIN frames : \A z \in DOMAIN frames[g] : frames[g][z] # a
      BY <1>1 DEF Held
    <3> QED BY <1>9, <2>3, <2>5, <3>1 DEF Held
  <2> QED BY <2>1, <2>2, <2>4, <2>5 DEF Held
<1>14. Nested'
  <2>1. ASSUME NEW i \in Regs(scopes), NEW j \in Regs(scopes), i < j, NEW k \in DOMAIN frames,
               ToSet(frames'[k]) \cap scopes'[i].own # {}
        PROVE  ToSet(frames[k]) \cap scopes[i].own # {}
    <3>0. a \notin ToSet(frames[k]) /\ i \in DOMAIN scopes /\ a \notin scopes[i].own
      BY <1>0, <1>1, Shape DEF Held, ToSet
    <3>1. CASE Inside("region")
      <4>1. i # Owner
        BY <1>0, <1>2, <2>1, <3>1, Shape
      <4>2. ToSet(frames'[k]) \subseteq ToSet(frames[k]) \cup {a}
        BY <1>8, <3>1
      <4> QED BY <1>3, <2>1, <3>0, <4>1, <4>2
    <3>2. CASE ~Inside("region")
      BY <1>3, <1>7, <2>1, <3>0, <3>2
    <3> QED BY <3>1, <3>2
  <2> QED BY <1>4, <1>9, <2>1 DEF Nested
<1>15. Exact'
  <2> SUFFICES ASSUME strayed' = {} PROVE Exact'
    BY DEF Exact
  <2>1. strayed = {} /\ ~(Inside("block") /\ InRegion)
    BY DEF Alloc
  <2>2. \A b \in heap' : \E i \in DOMAIN scopes' : b \in scopes'[i].own
    BY <1>1, <1>2, <1>3, <2>1 DEF Exact
  <2>3. Len(frames') = Cardinality(Regs(scopes'))
    BY <1>4, <1>9, <2>1 DEF Exact
  <2>4. ASSUME NEW i \in Regs(scopes)
        PROVE  ToSet(frames'[Rank(scopes, i)]) = scopes'[i].own
    <3>0. /\ ToSet(frames[Rank(scopes, i)]) = scopes[i].own
          /\ Rank(scopes, i) \in DOMAIN frames /\ i \in DOMAIN scopes
          /\ scopes[i].kind = "region" /\ m = Cardinality(Regs(scopes))
      BY <1>0, <1>5, <2>1, Shape DEF Exact, Regs
    <3>1. CASE Inside("region") /\ i = n
      <4>1. Rank(scopes, i) = m
        BY <1>5, <3>0, <3>1
      <4> QED BY <1>2, <1>3, <1>8, <3>0, <3>1, <4>1
    <3>2. CASE Inside("region") /\ i # n
      <4>1. i < n /\ n \in Regs(scopes)
        BY <1>0, <1>6, <3>0, <3>2, Shape
      <4>2. Rank(scopes, i) # m
        BY <1>5, <3>0, <4>1
      <4> QED BY <1>2, <1>3, <1>8, <3>0, <3>2, <4>2
    <3>3. CASE ~Inside("region")
      BY <1>2, <1>3, <1>7, <2>1, <3>0, <3>3
    <3> QED BY <3>1, <3>2, <3>3
  <2> QED BY <1>4, <2>2, <2>3, <2>4 DEF Exact
<1> QED BY <1>1, <1>11, <1>12, <1>13, <1>14, <1>15

\* A function frees what it owns.
LEMMA ReleaseStep ==
  ASSUME IInv, NEW a \in Addrs, Release(a)
  PROVE  IInv'
<1> USE DEF IInv
<1>0. TypeOK
  OBVIOUS
<1>1. PICK f \in DOMAIN scopes :
        /\ scopes[f].kind = "fn" /\ a \in scopes[f].own
        /\ scopes' = [scopes EXCEPT ![f].own = @ \ {a}]
  BY DEF Release
<1>2. heap' = heap \ {a} /\ UNCHANGED <<frames, free_error, aborted, strayed>>
  BY DEF Release
<1>3. /\ scopes' \in Seq(Scopes) /\ DOMAIN scopes' = DOMAIN scopes
      /\ \A i \in DOMAIN scopes : /\ scopes'[i].kind = scopes[i].kind
                                  /\ i # f => scopes'[i].own = scopes[i].own
      /\ scopes'[f].own = scopes[f].own \ {a}
  <2>1. \A i \in DOMAIN scopes : scopes[i] \in Scopes
    BY <1>0, Shape
  <2>2. [scopes[f] EXCEPT !.own = @ \ {a}] \in Scopes
    BY <2>1 DEF Scopes
  <2>3. scopes' \in Seq(Scopes)
    BY <1>1, <2>2 DEF TypeOK
  <2> QED BY <1>1, <2>1, <2>3 DEF Scopes
<1>4. Regs(scopes') = Regs(scopes) /\ \A i : Rank(scopes', i) = Rank(scopes, i)
  BY <1>3, RegsSame
<1>5. TypeOK'
  BY <1>2, <1>3 DEF TypeOK
<1>6. Rooted'
  <2>1. 1 \in DOMAIN scopes /\ scopes'[1].kind = "fn"
    BY <1>0, <1>1, <1>3, EmptySeq, Shape DEF Rooted
  <2> QED BY <1>1, <1>3, <2>1 DEF Rooted
<1>7. Held'
  BY <1>1, <1>2, <1>3 DEF Held
<1>8. \A i \in Regs(scopes) : i \in DOMAIN scopes /\ i # f /\ scopes'[i].own = scopes[i].own
  BY <1>1, <1>3 DEF Regs
<1>9. Nested'
  BY <1>2, <1>4, <1>8 DEF Nested
<1>10. Exact'
  <2>1. \A i \in DOMAIN scopes : scopes[i].own \ {a} \subseteq scopes'[i].own
    BY <1>3
  <2>2. scopes # <<>>
    BY <1>1
  <2> QED BY <1>2, <1>3, <1>4, <1>8, <2>1, <2>2 DEF Exact
<1> QED BY <1>2, <1>5, <1>6, <1>7, <1>9, <1>10

\* Inner scopes end, and no frame goes with them.
LEMMA Cut ==
  ASSUME IInv, NEW t \in 0 .. Len(scopes), scopes' = SubSeq(scopes, 1, t),
         UNCHANGED <<frames, heap>>
  PROVE  /\ scopes' \in Seq(Scopes) /\ DOMAIN scopes' = 1 .. t
         /\ \A i \in 1 .. t : scopes'[i] = scopes[i]
         /\ Regs(scopes') = {i \in Regs(scopes) : i <= t}
         /\ \A i \in 1 .. t : Rank(scopes', i) = Rank(scopes, i)
         /\ Rooted' /\ Held' /\ Nested'
<1> USE DEF IInv
<1>0. TypeOK
  OBVIOUS
<1>1. /\ scopes' \in Seq(Scopes) /\ Len(scopes') = t /\ \A i \in 1 .. t : scopes'[i] = scopes[i]
      /\ Regs(scopes') = {i \in Regs(scopes) : i <= t}
      /\ \A i \in 1 .. t : Rank(scopes', i) = Rank(scopes, i)
      /\ Cardinality(Regs(scopes')) <= Cardinality(Regs(scopes))
  BY RegsPrefix DEF TypeOK
<1>2. DOMAIN scopes' = 1 .. t /\ t \in Nat /\ 1 .. t \subseteq DOMAIN scopes
  BY <1>0, <1>1, Shape
<1>3. Rooted'
  <2>1. scopes' # <<>> => 1 \in 1 .. t /\ scopes # <<>>
    BY <1>0, <1>1, <1>2, EmptySeq, Shape
  <2> QED BY <1>1, <1>2, <2>1 DEF Rooted
<1>4. Held'
  BY <1>1, <1>2 DEF Held
<1>5. /\ Cardinality(Regs(scopes)) \in Nat /\ Cardinality(Regs(scopes')) \in Nat
      /\ \A j \in Regs(scopes) : Rank(scopes, j) \in Nat
  <2>1. scopes \in Seq(Scopes)
    BY DEF TypeOK
  <2>2. Cardinality(Regs(scopes)) \in Nat /\ \A j \in Regs(scopes) : Rank(scopes, j) \in Nat
    BY <2>1, Ranks
  <2>3. Cardinality(Regs(scopes')) \in Nat
    BY <1>1, Ranks
  <2> QED BY <2>2, <2>3
<1>6. Nested'
  <2>1. Cardinality(Regs(scopes')) <= Len(frames') /\ Len(frames') <= StackDepth
    BY <1>0, <1>1, <1>5, Shape DEF Nested
  <2>2. ASSUME NEW i \in Regs(scopes'), NEW j \in Regs(scopes'), i < j, NEW k \in DOMAIN frames,
               ToSet(frames[k]) \cap scopes'[i].own # {}
        PROVE  k < Rank(scopes', j) + Len(frames) - Cardinality(Regs(scopes'))
    <3>1. /\ i \in Regs(scopes) /\ j \in Regs(scopes) /\ scopes'[i] = scopes[i]
          /\ Rank(scopes', j) = Rank(scopes, j)
      BY <1>0, <1>1, Shape
    <3>2. k < Rank(scopes, j) + Len(frames) - Cardinality(Regs(scopes))
      BY <2>2, <3>1 DEF Nested
    <3> QED BY SMTT(30), <1>0, <1>1, <1>5, <3>1, <3>2, Shape
  <2> QED BY <2>1, <2>2 DEF Nested
<1> QED BY <1>1, <1>2, <1>3, <1>4, <1>6

\* A block ends.
LEMMA EndBlockStep ==
  ASSUME IInv, EndBlock
  PROVE  IInv'
<1> USE DEF IInv
<1> DEFINE n == Len(scopes)
<1>0. TypeOK
  OBVIOUS
<1>1. /\ scopes' = SubSeq(scopes, 1, n - 1) /\ scopes # <<>> /\ scopes[n].kind = "block"
      /\ UNCHANGED <<frames, heap, free_error, aborted, strayed>>
  BY DEF EndBlock, Inside, Front, Last
<1>2. n \in Nat /\ n >= 1 /\ n - 1 \in 0 .. n
  BY <1>0, <1>1, Shape
<1> HIDE DEF n
<1>3. /\ scopes' \in Seq(Scopes) /\ DOMAIN scopes' = 1 .. n - 1
      /\ \A i \in 1 .. n - 1 : scopes'[i] = scopes[i]
      /\ Regs(scopes') = {i \in Regs(scopes) : i <= n - 1}
      /\ \A i \in 1 .. n - 1 : Rank(scopes', i) = Rank(scopes, i)
      /\ Rooted' /\ Held' /\ Nested'
  BY <1>1, <1>2, Cut DEF n
<1>4. DOMAIN scopes = 1 .. n /\ scopes[n].own = {}
  BY <1>0, <1>1, <1>2, Shape DEF n, Rooted
<1>5. Regs(scopes') = Regs(scopes) /\ Regs(scopes) \subseteq 1 .. n - 1
  BY <1>1, <1>2, <1>3, <1>4 DEF Regs
<1>6. Exact'
  <2> SUFFICES ASSUME strayed = {} PROVE Exact'
    BY <1>1 DEF Exact
  <2>1. \A a \in heap : \E i \in 1 .. n : a \in scopes[i].own
    BY <1>1, <1>4 DEF Exact
  <2>2. \A a \in heap' : \E i \in DOMAIN scopes' : a \in scopes'[i].own
    <3> TAKE a \in heap'
    <3>1. PICK i \in 1 .. n : a \in scopes[i].own
      BY <1>1, <2>1
    <3>2. i \in 1 .. n - 1
      BY <1>2, <1>4, <3>1
    <3> QED BY <1>3, <3>1, <3>2
  <2> QED BY <1>1, <1>3, <1>5, <2>2 DEF Exact
<1>7. TypeOK'
  BY <1>1, <1>3 DEF TypeOK
<1> QED BY <1>1, <1>3, <1>6, <1>7

\* A loop is left, or its next round begun, from inside a region.
LEMMA BreakStep ==
  ASSUME IInv, Break
  PROVE  IInv'
<1> USE DEF IInv
<1>0. TypeOK
  OBVIOUS
<1>1. PICK t \in 0 .. Len(scopes) : scopes' = SubSeq(scopes, 1, t)
  BY <1>0, Shape DEF Break
<1>2. UNCHANGED <<frames, heap, free_error, aborted>> /\ strayed' = strayed \cup {"exit"}
  BY DEF Break
<1>3. scopes' \in Seq(Scopes) /\ Rooted' /\ Held' /\ Nested'
  BY <1>1, <1>2, Cut
<1> QED BY <1>2, <1>3 DEF TypeOK, Exact

\* A function returns, perhaps from inside a region.
LEMMA ReturnStep ==
  ASSUME IInv, Return
  PROVE  IInv'
<1> USE DEF IInv
<1> DEFINE f == Innermost("fn")
           rest == SubSeq(scopes, 1, f - 1)
<1>0. TypeOK
  OBVIOUS
<1>1. /\ scopes # <<>> /\ scopes' = Returned
      /\ UNCHANGED <<frames, heap, free_error, aborted>>
      /\ strayed' = IF InRegion THEN strayed \cup {"exit"} ELSE strayed
  BY DEF Return
<1>2. /\ f \in DOMAIN scopes /\ scopes[f].kind = "fn"
      /\ \A i \in DOMAIN scopes : scopes[i].kind = "fn" => i <= f
      /\ 1 \in DOMAIN scopes /\ scopes[1].kind = "fn"
  BY <1>0, <1>1, InnermostIs, Shape DEF Rooted
<1>3. DOMAIN scopes = 1 .. Len(scopes) /\ Len(scopes) \in Nat /\ f \in Nat \ {0}
      /\ f - 1 \in 0 .. Len(scopes)
  BY <1>0, <1>2, Shape
\* The scopes that remain are the ones outside the function.
<1>4. /\ rest \in Seq(Scopes) /\ Len(rest) = f - 1 /\ \A i \in 1 .. f - 1 : rest[i] = scopes[i]
      /\ Regs(rest) = {i \in Regs(scopes) : i <= f - 1}
      /\ \A i \in 1 .. f - 1 : Rank(rest, i) = Rank(scopes, i)
  <2> HIDE DEF f
  <2>1. scopes \in Seq(Scopes)
    BY DEF TypeOK
  <2> QED BY <1>3, <2>1, RegsPrefix
<1>5. \E c : /\ c \in 1 .. f - 1 \/ rest = <<>>
             /\ DOMAIN scopes' = 1 .. f - 1 /\ scopes' \in Seq(Scopes)
             /\ \A i \in 1 .. f - 1 :
                  /\ scopes'[i].kind = scopes[i].kind
                  /\ i # c => scopes'[i].own = scopes[i].own
                  /\ i = c => scopes'[i].own = scopes[i].own \cup scopes[f].own
                              /\ scopes[i].kind = "fn"
  <2> HIDE DEF rest, f
  <2>1. CASE rest = <<>>
    <3>1. scopes' = rest /\ f = 1
      BY <1>1, <1>3, <1>4, <2>1 DEF Returned, rest, f
    <3> QED BY <1>4, <2>1, <3>1
  <2>2. CASE rest # <<>>
    <3> DEFINE callers == {i \in DOMAIN rest : rest[i].kind = "fn"}
               caller == CHOOSE i \in callers : \A j \in callers : j <= i
               passed == {a \in scopes[f].own : a \in heap}
    <3>1. f - 1 >= 1 /\ f - 1 \in Nat
      BY <1>3, <1>4, <2>2, EmptySeq
    <3>2. callers \in SUBSET (1 .. f - 1) /\ 1 \in callers
      BY <1>2, <1>4, <3>1
    <3>3. caller \in callers
      <4>1. \E i \in callers : \A j \in callers : j <= i
        <5> HIDE DEF callers
        <5> QED BY <3>1, <3>2, Greatest
      <4> HIDE DEF callers
      <4> QED BY <4>1
    <3>4. passed = scopes[f].own
      BY <1>2 DEF Held
    <3>5. scopes' = [rest EXCEPT ![caller].own = @ \cup passed]
      BY <1>1, <2>2 DEF Returned, rest, f
    <3>6. caller \in 1 .. f - 1 /\ rest[caller].kind = "fn"
      BY <3>2, <3>3
    <3> HIDE DEF caller, passed
    <3>7. \A i \in 1 .. f - 1 : rest[i] \in Scopes
      BY <1>4
    <3>8. [rest[caller] EXCEPT !.own = @ \cup passed] \in Scopes
      <4>1. passed \in SUBSET Addrs
        BY <1>0, <1>2, <3>4, Shape
      <4> QED BY <3>6, <3>7, <4>1 DEF Scopes
    <3>9. scopes' \in Seq(Scopes) /\ DOMAIN scopes' = 1 .. f - 1
      BY <1>4, <3>1, <3>5, <3>6, <3>8
    <3>10. \A i \in 1 .. f - 1 :
             /\ scopes'[i].kind = rest[i].kind
             /\ i # caller => scopes'[i].own = rest[i].own
             /\ i = caller => scopes'[i].own = rest[i].own \cup passed
      BY <1>4, <3>5, <3>6, <3>7 DEF Scopes
    <3> QED BY <1>4, <3>4, <3>6, <3>9, <3>10
  <2> QED BY <2>1, <2>2
<1>6. PICK c : /\ DOMAIN scopes' = 1 .. f - 1 /\ scopes' \in Seq(Scopes)
               /\ c \in 1 .. f - 1 \/ rest = <<>>
               /\ \A i \in 1 .. f - 1 :
                    /\ scopes'[i].kind = scopes[i].kind
                    /\ i # c => scopes'[i].own = scopes[i].own
                    /\ i = c => scopes'[i].own = scopes[i].own \cup scopes[f].own
                                /\ scopes[i].kind = "fn"
  BY <1>5
<1> HIDE DEF f, rest
<1>7. /\ 1 .. f - 1 \subseteq DOMAIN scopes /\ f \notin 1 .. f - 1
      /\ Regs(scopes) \subseteq DOMAIN scopes
  BY <1>3 DEF Regs
<1>8. /\ Regs(scopes') = {i \in Regs(scopes) : i <= f - 1}
      /\ \A i \in 1 .. f - 1 : Rank(scopes', i) = Rank(scopes, i)
  <2>1. DOMAIN rest = DOMAIN scopes' /\ \A i \in DOMAIN rest : scopes'[i].kind = rest[i].kind
    BY <1>4, <1>6
  <2>2. Regs(scopes') = Regs(rest) /\ \A i : Rank(scopes', i) = Rank(rest, i)
    BY <2>1, RegsSame
  <2> QED BY <1>4, <2>2
<1>9. \A i \in Regs(scopes') : /\ i \in Regs(scopes) /\ i \in 1 .. f - 1
                               /\ scopes'[i].own = scopes[i].own
  BY <1>3, <1>6, <1>7, <1>8 DEF Regs
<1>10. /\ Cardinality(Regs(scopes)) \in Nat /\ Cardinality(Regs(scopes')) \in Nat
       /\ Cardinality(Regs(scopes')) <= Cardinality(Regs(scopes))
       /\ \A j \in Regs(scopes) : Rank(scopes, j) \in Nat
  <2>1. IsFiniteSet(Regs(scopes)) /\ Regs(scopes') \in SUBSET Regs(scopes)
    BY <1>8, Ranks DEF TypeOK
  <2> QED BY <1>6, <2>1, Ranks, FS_Subset DEF TypeOK
<1>11. TypeOK'
  <2>1. strayed' \in SUBSET {"exit", "inner"}
    BY <1>1 DEF TypeOK
  <2> QED BY <1>1, <1>6, <2>1 DEF TypeOK
<1>12. Rooted'
  <2>1. scopes' # <<>> => 1 \in 1 .. f - 1
    BY <1>3, <1>6, EmptySeq
  <2> QED BY <1>2, <1>6, <1>7, <2>1 DEF Rooted
<1>13. Held'
  <2>1. \A i \in 1 .. f - 1 : scopes'[i].own \subseteq heap'
    BY <1>1, <1>2, <1>6, <1>7 DEF Held
  <2>2. \A i, j \in 1 .. f - 1 : i # j => scopes'[i].own \cap scopes'[j].own = {}
    <3> TAKE i, j \in 1 .. f - 1
    <3>1. /\ i # j => scopes[i].own \cap scopes[j].own = {}
          /\ scopes[i].own \cap scopes[f].own = {} /\ scopes[j].own \cap scopes[f].own = {}
      BY <1>2, <1>7 DEF Held
    <3>2. /\ scopes'[i].own \in {scopes[i].own, scopes[i].own \cup scopes[f].own}
          /\ i # c => scopes'[i].own = scopes[i].own
          /\ scopes'[j].own \in {scopes[j].own, scopes[j].own \cup scopes[f].own}
          /\ j # c => scopes'[j].own = scopes[j].own
      BY <1>6
    <3> QED BY <3>1, <3>2
  <2>3. ASSUME NEW k \in DOMAIN frames, NEW x \in DOMAIN frames[k], NEW i \in 1 .. f - 1,
               scopes'[i].kind = "fn"
        PROVE  frames[k][x] \notin scopes'[i].own
    BY <1>2, <1>6, <1>7, <2>3 DEF Held
  <2> QED BY <1>1, <1>6, <2>1, <2>2, <2>3 DEF Held
<1>14. Nested'
  <2>1. Cardinality(Regs(scopes')) <= Len(frames') /\ Len(frames') <= StackDepth
    BY <1>0, <1>1, <1>10, Shape DEF Nested
  <2>2. ASSUME NEW i \in Regs(scopes'), NEW j \in Regs(scopes'), i < j, NEW k \in DOMAIN frames,
               ToSet(frames[k]) \cap scopes'[i].own # {}
        PROVE  k < Rank(scopes', j) + Len(frames) - Cardinality(Regs(scopes'))
    <3>1. /\ i \in Regs(scopes) /\ j \in Regs(scopes) /\ scopes'[i].own = scopes[i].own
          /\ Rank(scopes', j) = Rank(scopes, j)
      BY <1>8, <1>9
    <3>2. k < Rank(scopes, j) + Len(frames) - Cardinality(Regs(scopes))
      BY <2>2, <3>1 DEF Nested
    <3> QED BY <1>0, <1>10, <3>1, <3>2, Shape
  <2> QED BY <1>1, <2>1, <2>2 DEF Nested
<1>15. Exact'
  <2> SUFFICES ASSUME strayed' = {} PROVE Exact'
    BY DEF Exact
  <2>1. strayed = {} /\ ~InRegion
    BY <1>1
  <2>2. \A i \in Regs(scopes) : i <= f - 1
    <3> TAKE i \in Regs(scopes)
    <3>1. i \in DOMAIN scopes /\ scopes[i].kind = "region" /\ i # f
      BY <1>2 DEF Regs
    <3>2. i <= Innermost("region") /\ Innermost("region") \in DOMAIN scopes
      BY <1>0, <3>1, InnermostIs
    <3>3. ~(Innermost("region") > f)
      BY <2>1 DEF InRegion, f
    <3> QED BY <1>3, <3>1, <3>2, <3>3
  <2>3. Regs(scopes') = Regs(scopes)
    BY <1>8, <2>2
  <2>4. Len(frames') = Cardinality(Regs(scopes'))
    BY <1>1, <2>1, <2>3 DEF Exact
  <2>5. \A i \in Regs(scopes') : ToSet(frames'[Rank(scopes', i)]) = scopes'[i].own
    BY <1>1, <1>8, <1>9, <2>1 DEF Exact
  <2>6. ASSUME scopes' # <<>>, NEW a \in heap
        PROVE  \E i \in DOMAIN scopes' : a \in scopes'[i].own
    <3>1. PICK i \in DOMAIN scopes : a \in scopes[i].own
      BY <1>1, <2>1 DEF Exact
    <3>2. i <= f
      <4>1. scopes[i].kind # "block" /\ scopes[i].kind \in Kinds
        BY <1>0, <3>1, Shape DEF Rooted
      <4>2. CASE scopes[i].kind = "fn"
        BY <1>2, <4>2
      <4>3. CASE scopes[i].kind = "region"
        BY <1>3, <2>2, <4>3 DEF Regs
      <4> QED BY <4>1, <4>2, <4>3 DEF Kinds
    <3>3. CASE i = f
      <4>1. c \in 1 .. f - 1
        <5>1. Len(scopes') # 0 /\ Len(scopes') = f - 1
          BY <1>3, <1>6, <2>6, EmptySeq
        <5>2. rest # <<>>
          BY <1>4, <5>1
        <5> QED BY <1>6, <5>2
      <4> QED BY <1>6, <3>1, <3>3, <4>1
    <3>4. CASE i # f
      <4>1. i \in 1 .. f - 1
        BY <1>3, <3>2, <3>4
      <4> QED BY <1>6, <3>1, <4>1
    <3> QED BY <3>3, <3>4
  <2> QED BY <1>1, <2>4, <2>5, <2>6 DEF Exact
<1> QED BY <1>1, <1>11, <1>12, <1>13, <1>14, <1>15

\* A region ends: the top frame is freed and popped.
LEMMA ExitStep ==
  ASSUME IInv, ExitRegion
  PROVE  IInv'
<1> USE DEF IInv
<1> DEFINE n == Len(scopes)
           m == Len(frames)
           top == frames[m]
<1>0. TypeOK
  OBVIOUS
<1>1. /\ scopes # <<>> /\ scopes[n].kind = "region" /\ scopes' = SubSeq(scopes, 1, n - 1)
      /\ UNCHANGED <<aborted, strayed>>
  BY DEF ExitRegion, Inside, Front, Last
<1>2. /\ n \in Nat /\ n >= 1 /\ n - 1 \in 0 .. n /\ DOMAIN scopes = 1 .. n
      /\ m \in Nat /\ DOMAIN frames = 1 .. m
  BY <1>0, <1>1, Shape
<1>3. n \in Regs(scopes) /\ Regs(scopes) \subseteq 1 .. n
  BY <1>1, <1>2 DEF Regs
<1>4. /\ Cardinality(Regs(scopes)) \in Nat
      /\ \A i \in Regs(scopes) : Rank(scopes, i) \in 1 .. Cardinality(Regs(scopes))
      /\ Rank(scopes, n) = Cardinality(Regs(scopes))
  BY <1>3, Ranks DEF TypeOK
<1>5. m >= 1 /\ m \in DOMAIN frames /\ frames # <<>>
  <2>1. m >= 1
    BY <1>2, <1>3, <1>4 DEF Nested
  <2> QED BY <1>2, <2>1
<1>6. /\ heap' = heap \ ToSet(top) /\ frames' = SubSeq(frames, 1, m - 1)
      /\ free_error' = (free_error \/ ~(ToSet(top) \subseteq heap) \/ ~IsInjective(top))
  BY <1>5 DEF ExitRegion, TopFrame, Popped, Front, Last
<1>7. ToSet(top) \subseteq heap /\ IsInjective(top)
  BY <1>5 DEF Held, ToSet, IsInjective
<1>8. ~free_error'
  BY <1>6, <1>7
<1>9. /\ scopes' \in Seq(Scopes) /\ Len(scopes') = n - 1 /\ \A i \in 1 .. n - 1 : scopes'[i] = scopes[i]
      /\ Regs(scopes') = {i \in Regs(scopes) : i <= n - 1}
      /\ \A i \in 1 .. n - 1 : Rank(scopes', i) = Rank(scopes, i)
      /\ Cardinality(Regs(scopes')) = Cardinality(Regs(scopes)) - 1
  <2>1. scopes \in Seq(Scopes)
    BY DEF TypeOK
  <2> QED BY <1>1, <1>2, <1>3, <2>1, RegsPrefix
<1>10. /\ frames' \in Seq(Seq(Addrs)) /\ Len(frames') = m - 1
       /\ DOMAIN frames' = 1 .. m - 1 /\ \A k \in 1 .. m - 1 : frames'[k] = frames[k]
  BY <1>2, <1>5, <1>6 DEF TypeOK
<1>11. DOMAIN scopes' = 1 .. n - 1
  BY <1>2, <1>9
<1> HIDE DEF n, m
\* What the top frame holds belongs to nobody who stays.
<1>12. \A i \in 1 .. n - 1 : scopes[i].own \cap ToSet(top) = {}
  <2> TAKE i \in 1 .. n - 1
  <2>1. i \in DOMAIN scopes /\ scopes[i].kind \in Kinds /\ i < n /\ i \in 1 .. Len(scopes)
    BY <1>0, <1>2, Shape DEF n
  <2>2. CASE scopes[i].kind = "fn"
    BY <1>5, <2>1, <2>2 DEF Held, ToSet
  <2>3. CASE scopes[i].kind = "block"
    BY <2>1, <2>3 DEF Rooted
  <2>4. CASE scopes[i].kind = "region"
    <3>1. i \in Regs(scopes)
      BY <2>1, <2>4 DEF Regs
    <3>2. ~(m < Rank(scopes, n) + Len(frames) - Cardinality(Regs(scopes)))
      BY <1>2, <1>4 DEF m
    <3>3. ToSet(top) \cap scopes[i].own = {}
      BY <1>3, <1>5, <2>1, <3>1, <3>2 DEF Nested
    <3> QED BY <3>3
  <2> QED BY <2>1, <2>2, <2>3, <2>4 DEF Kinds
<1>13. TypeOK'
  <2>1. heap' \in SUBSET Addrs
    BY <1>6 DEF TypeOK
  <2>2. free_error' \in BOOLEAN
    BY <1>6
  <2> QED BY <1>1, <1>9, <1>10, <2>1, <2>2 DEF TypeOK
<1>14. Rooted'
  <2>1. scopes' # <<>> => 1 \in 1 .. n - 1
    BY <1>2, <1>9, EmptySeq
  <2> QED BY <1>1, <1>2, <1>9, <1>11, <2>1 DEF Rooted
<1>15. Held'
  <2>1. \A i \in 1 .. n - 1 : scopes'[i].own \subseteq heap'
    BY <1>2, <1>6, <1>9, <1>12 DEF Held
  <2>2. \A i, j \in 1 .. n - 1 : i # j => scopes'[i].own \cap scopes'[j].own = {}
    BY <1>2, <1>9 DEF Held
  <2>3. ASSUME NEW k \in 1 .. m - 1, NEW x \in DOMAIN frames[k]
        PROVE  /\ frames[k][x] \in heap'
               /\ \A i \in 1 .. n - 1 :
                    scopes'[i].kind = "fn" => frames[k][x] \notin scopes'[i].own
               /\ \A l \in 1 .. m - 1 : \A y \in DOMAIN frames[l] :
                    frames[k][x] = frames[l][y] => k = l /\ x = y
    <3>1. k \in DOMAIN frames /\ k # m /\ 1 .. m - 1 \subseteq DOMAIN frames
      BY <1>2
    <3>2. frames[k][x] \notin ToSet(top)
      BY <1>5, <3>1 DEF Held, ToSet
    <3>3. 1 .. n - 1 \subseteq DOMAIN scopes
      BY <1>2
    <3> QED BY <1>6, <1>9, <3>1, <3>2, <3>3 DEF Held
  <2>4. \A k \in DOMAIN frames' : \A x \in DOMAIN frames'[k] :
          /\ frames'[k][x] \in heap'
          /\ \A i \in DOMAIN scopes' :
               scopes'[i].kind = "fn" => frames'[k][x] \notin scopes'[i].own
          /\ \A l \in DOMAIN frames' : \A y \in DOMAIN frames'[l] :
               frames'[k][x] = frames'[l][y] => k = l /\ x = y
    <3>1. ASSUME NEW k \in 1 .. m - 1 PROVE k \in DOMAIN frames' /\ frames'[k] = frames[k]
      BY <1>10
    <3>2. DOMAIN frames' = 1 .. m - 1
      BY <1>10
    <3>3. ASSUME NEW k \in DOMAIN frames', NEW x \in DOMAIN frames'[k]
          PROVE  /\ frames'[k][x] \in heap'
                 /\ \A i \in DOMAIN scopes' :
                      scopes'[i].kind = "fn" => frames'[k][x] \notin scopes'[i].own
                 /\ \A l \in DOMAIN frames' : \A y \in DOMAIN frames'[l] :
                      frames'[k][x] = frames'[l][y] => k = l /\ x = y
      <4>1. k \in 1 .. m - 1 /\ frames'[k] = frames[k] /\ x \in DOMAIN frames[k]
        BY <3>1, <3>2
      <4>2. /\ frames[k][x] \in heap'
            /\ \A i \in 1 .. n - 1 :
                 scopes'[i].kind = "fn" => frames[k][x] \notin scopes'[i].own
        BY <2>3, <4>1
      <4>3. ASSUME NEW l \in DOMAIN frames', NEW y \in DOMAIN frames'[l],
                   frames'[k][x] = frames'[l][y]
            PROVE  k = l /\ x = y
        <5>1. l \in 1 .. m - 1 /\ frames'[l] = frames[l]
          BY <3>1, <3>2
        <5> QED BY <2>3, <4>1, <4>3, <5>1
      <4> QED BY <1>11, <4>1, <4>2, <4>3
    <3> QED BY <3>3
  <2> QED BY <1>11, <2>1, <2>2, <2>4 DEF Held
<1>16. Nested'
  <2>1. Cardinality(Regs(scopes')) <= Len(frames') /\ Len(frames') <= StackDepth
    BY <1>2, <1>4, <1>9, <1>10, RegionsAssumption DEF Nested, m
  <2>2. ASSUME NEW i \in Regs(scopes'), NEW j \in Regs(scopes'), i < j, NEW k \in 1 .. m - 1,
               ToSet(frames[k]) \cap scopes'[i].own # {}
        PROVE  k < Rank(scopes', j) + Len(frames') - Cardinality(Regs(scopes'))
    <3>1. /\ i \in Regs(scopes) /\ j \in Regs(scopes) /\ scopes'[i] = scopes[i]
          /\ Rank(scopes', j) = Rank(scopes, j)
      BY <1>3, <1>9
    <3>2. k < Rank(scopes, j) + m - Cardinality(Regs(scopes))
      BY <1>2, <2>2, <3>1 DEF Nested, m
    <3>3. Rank(scopes, j) \in Nat
      BY <1>4, <3>1
    <3> QED BY <1>2, <1>4, <1>9, <1>10, <3>1, <3>2, <3>3
  <2> QED BY <1>10, <2>1, <2>2 DEF Nested
<1>17. Exact'
  <2> SUFFICES ASSUME strayed = {} PROVE Exact'
    BY <1>1 DEF Exact
  <2>1. m = Cardinality(Regs(scopes)) /\ ToSet(top) = scopes[n].own
    BY <1>3, <1>4 DEF Exact, m
  <2>2. Len(frames') = Cardinality(Regs(scopes'))
    BY <1>9, <1>10, <2>1
  <2>3. ASSUME NEW i \in Regs(scopes')
        PROVE  ToSet(frames'[Rank(scopes', i)]) = scopes'[i].own
    <3>1. i \in Regs(scopes) /\ scopes'[i] = scopes[i] /\ Rank(scopes', i) = Rank(scopes, i)
      BY <1>3, <1>9
    <3>2. Rank(scopes', i) \in 1 .. Cardinality(Regs(scopes'))
      BY <1>9, Ranks
    <3>3. frames'[Rank(scopes', i)] = frames[Rank(scopes, i)]
      BY <1>9, <1>10, <2>1, <3>1, <3>2
    <3> QED BY <3>1, <3>3 DEF Exact
  <2>4. ASSUME NEW a \in heap'
        PROVE  \E i \in DOMAIN scopes' : a \in scopes'[i].own
    <3>1. PICK i \in 1 .. n : a \in scopes[i].own
      BY <1>1, <1>2, <1>6 DEF Exact
    <3>2. i # n
      BY <1>6, <2>1, <3>1
    <3>3. i \in 1 .. n - 1
      BY <1>2, <3>2
    <3> QED BY <1>9, <1>11, <3>1, <3>3
  <2> QED BY <2>2, <2>3, <2>4 DEF Exact
<1> QED BY <1>8, <1>13, <1>14, <1>15, <1>16, <1>17

-----------------------------------------------------------------------------
(***************************************************************************)
(* The theorems.                                                           *)
(***************************************************************************)

\* The inductive invariant holds.
THEOREM RegionInvariance == Spec => []IInv
<1>1. Init => IInv
  <2> SUFFICES ASSUME Init PROVE IInv
    OBVIOUS
  <2>1. /\ Scope("fn") \in Scopes /\ Scope("fn").kind = "fn" /\ Scope("fn").own = {}
    BY DEF Scope, Scopes, Kinds
  <2>2. /\ scopes = <<Scope("fn")>> /\ Len(scopes) = 1 /\ DOMAIN scopes = {1}
        /\ scopes[1] = Scope("fn") /\ scopes \in Seq(Scopes) /\ scopes # <<>>
    BY <2>1 DEF Init
  <2>3. Regs(scopes) = {} /\ Cardinality({}) = 0
    BY <2>1, <2>2, FS_EmptySet DEF Regs
  <2>4. TypeOK
    <3>1. frames \in Seq(Seq(Addrs))
      BY EmptySeq DEF Init
    <3> QED BY <2>2, <3>1 DEF Init, TypeOK
  <2>5. Rooted /\ Held
    BY <2>1, <2>2 DEF Init, Rooted, Held
  <2>6. Nested /\ Exact
    <3>1. Len(frames) = 0 /\ heap = {}
      BY EmptySeq DEF Init
    <3> QED BY <2>3, <3>1, RegionsAssumption DEF Nested, Exact
  <2> QED BY <2>4, <2>5, <2>6 DEF Init, IInv
<1>2. IInv /\ [Next]_vars => IInv'
  <2> SUFFICES ASSUME IInv, [Next]_vars PROVE IInv'
    OBVIOUS
  <2>1. CASE UNCHANGED vars
    BY <2>1 DEF vars, IInv, TypeOK, Rooted, Held, Nested, Exact
  <2> QED BY <2>1, PushStep, EnterStep, AllocStep, ReleaseStep, ExitStep, EndBlockStep,
             BreakStep, ReturnStep DEF Next
<1> QED BY <1>1, <1>2, PTL DEF Spec

\* No __mind_region_exit frees an address twice or one that is not allocated,
\* and no frame is written beyond the stack, whatever branches left behind.
THEOREM MemorySafe == Spec => []NoMemoryError
<1>1. IInv => NoMemoryError
  BY DEF IInv, Nested, NoMemoryError
<1> QED BY <1>1, RegionInvariance, PTL

\* What an open region allocated stays allocated.
THEOREM OpenStaysLive == Spec => []OpenRegionsLive
<1>1. IInv => OpenRegionsLive
  BY DEF IInv, Held, OpenRegionsLive, Open
<1> QED BY <1>1, RegionInvariance, PTL

\* Programs without strays leak nothing.
THEOREM ExitFreesAll == Spec => []RegionFreesAll
<1>1. IInv => RegionFreesAll
  BY DEF IInv, Exact, RegionFreesAll, NothingLeaked
<1> QED BY <1>1, RegionInvariance, PTL

\* The frames of programs without strays are their open regions.
THEOREM FramesAreRegions == Spec => []FramesMatchRegions
<1>1. IInv => FramesMatchRegions
  <2>1. Open = Regs(scopes)
    BY DEF Open, Regs
  <2> QED BY <2>1 DEF IInv, Exact, FramesMatchRegions, Rank
<1> QED BY <1>1, RegionInvariance, PTL
=============================================================================
