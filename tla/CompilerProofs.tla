--------------------------- MODULE CompilerProofs ---------------------------
(***************************************************************************)
(* Proofs about the canonicaliser (MindCanon), for modules of any length.  *)
(* Regions included, running it again changes nothing.  A stream without   *)
(* regions prints the same after it and still passes the verifier.         *)
(***************************************************************************)
EXTENDS MindCanon, WellFoundedInduction, TLAPS

-----------------------------------------------------------------------------
(***************************************************************************)
(* Functions defined by recursion over 0 .. n.                             *)
(***************************************************************************)

\* A set of numbers that is not empty has a least element.
LEMMA LeastIs == \A S \in SUBSET Nat : S # {} => \E i \in S : \A j \in S : i <= j
<1> SUFFICES ASSUME NEW S \in SUBSET Nat, S # {} PROVE \E i \in S : \A j \in S : i <= j
    OBVIOUS
<1>1. PICK i \in S : \A j \in S : <<j, i>> \notin OpToRel(<, Nat)
    BY WFMin, NatLessThanWellFounded, Zenon
<1>2. ASSUME NEW j \in S PROVE i <= j
  <2>1. ~(j < i)
    BY <1>1 DEF OpToRel
  <2> QED
    BY <2>1
<1> QED
    BY <1>2

\* A function that starts with init and takes the steps.
Follows(n, init, step, g) == g[0] = init /\ \A k \in 1 .. n : g[k] = step[k][g[k - 1]]

\* A function defined by recursion over 0 .. n exists.
LEMMA Recursion ==
    ASSUME NEW n \in Nat, NEW T, NEW init \in T, NEW step,
           \A k \in 1 .. n : \A x \in T : step[k][x] \in T
    PROVE  \E g \in [0 .. n -> T] : Follows(n, init, step, g)
<1> DEFINE Upto(g, m) == /\ g \in [0 .. m -> T] /\ g[0] = init
                         /\ \A k \in 1 .. m : g[k] = step[k][g[k - 1]]
           Not == {m \in 0 .. n : \A g : ~Upto(g, m)}
<1>1. \E g : Upto(g, 0)
  <2> DEFINE g == [k \in 0 .. 0 |-> init]
  <2>1. g \in [0 .. 0 -> T] /\ g[0] = init /\ \A k \in 1 .. 0 : g[k] = step[k][g[k - 1]]
    OBVIOUS
  <2> QED
    BY <2>1
<1>2. ASSUME NEW m \in 1 .. n, NEW f, Upto(f, m - 1)
      PROVE  \E g : Upto(g, m)
  <2> DEFINE g == [k \in 0 .. m |-> IF k = m THEN step[m][f[m - 1]] ELSE f[k]]
  <2>1. m - 1 \in 0 .. m - 1 /\ 0 \in 0 .. m - 1 /\ f \in [0 .. m - 1 -> T]
    BY <1>2
  <2>2. step[m][f[m - 1]] \in T
    BY <2>1
  <2>3. \A k \in 0 .. m : k = m \/ k \in 0 .. m - 1
    OBVIOUS
  <2>4. g \in [0 .. m -> T]
    BY <2>1, <2>2, <2>3
  <2>5. g[m] = step[m][f[m - 1]] /\ \A k \in 0 .. m - 1 : g[k] = f[k]
    OBVIOUS
  <2> HIDE DEF g
  <2>6. ASSUME NEW k \in 1 .. m PROVE g[k] = step[k][g[k - 1]]
    <3>1. CASE k = m
      BY <2>1, <2>5, <3>1
    <3>2. CASE k # m
      <4>1. k \in 1 .. m - 1 /\ k \in 0 .. m - 1 /\ k - 1 \in 0 .. m - 1
        BY <3>2
      <4> QED
        BY <1>2, <2>5, <4>1
    <3> QED
      BY <3>1, <3>2
  <2>7. g[0] = init
    BY <1>2, <2>1, <2>5
  <2> QED
    BY <2>4, <2>6, <2>7
<1> HIDE DEF Upto
<1>3. Not = {}
  <2> SUFFICES ASSUME Not # {} PROVE FALSE
    OBVIOUS
  <2>1. PICK m \in Not : \A k \in Not : m <= k
    <3>1. Not \in SUBSET Nat
      OBVIOUS
    <3> HIDE DEF Not
    <3> QED
      BY <3>1, LeastIs
  <2>2. m \in 1 .. n /\ m - 1 \in 0 .. n /\ m - 1 \notin Not
    BY <1>1, <2>1
  <2> QED
    BY <1>2, <2>1, <2>2
<1>4. PICK g : Upto(g, n)
  <2>1. n \in 0 .. n
    OBVIOUS
  <2> QED
    BY <1>3, <2>1
<1> QED
    BY <1>4 DEF Upto, Follows

\* What holds of 0 and of each number whose predecessor it holds of.
LEMMA Upward ==
    ASSUME NEW n \in Nat, NEW P, 0 \in P, \A k \in 1 .. n : k - 1 \in P => k \in P
    PROVE  \A k \in 0 .. n : k \in P
<1> DEFINE Not == {k \in 0 .. n : k \notin P}
<1> SUFFICES ASSUME Not # {} PROVE FALSE
    OBVIOUS
<1>1. PICK m \in Not : \A k \in Not : m <= k
  <2>1. Not \in SUBSET Nat
    OBVIOUS
  <2> HIDE DEF Not
  <2> QED
    BY <2>1, LeastIs
<1>2. m \in 1 .. n /\ m - 1 \in 0 .. n /\ m - 1 \notin Not
    BY <1>1
<1> QED
    BY <1>2

-----------------------------------------------------------------------------
(***************************************************************************)
(* Instructions.                                                           *)
(***************************************************************************)

Consts  == [op : {"const"}, dst : Nat, val : Ints]
Binops  == [op : {"bin"}, dst : Nat, fn : Operators, lhs : Nat, rhs : Nat]
Outputs == [op : {"output"}, id : Nat]
Plain   == Consts \cup Binops \cup Outputs

\* A set of instructions: all plain ones, and any with regions.
IsCode(I) ==
    /\ Plain \subseteq I
    /\ \A i \in I \ Plain : i.op \in {"if", "while"} /\ Named(i) \subseteq Nat

\* The ids that instructions name are below the next fresh one, as the
\* verifier asks.
Fits(s, n) == \A k \in 1 .. Len(s) : \A id \in Named(s[k]) : id < n

\* The tables of constants.
Tables == UNION {[D -> Ints] : D \in SUBSET Nat}

LEMMA CodeIs ==
    ASSUME NEW I, IsCode(I), NEW i \in I
    PROVE  /\ i.op \in {"const", "bin", "output", "if", "while"}
           /\ i.op = "const" <=> i \in Consts
           /\ i.op = "bin" <=> i \in Binops
           /\ i.op = "output" <=> i \in Outputs
           /\ Named(i) \subseteq Nat
           /\ Dsts(i) \subseteq Named(i) /\ Operands(i) \subseteq Named(i)
           /\ \A d, e \in Dsts(i) : d = e
<1>1. Dsts(i) \subseteq Named(i) /\ Operands(i) \subseteq Named(i) /\ \A d, e \in Dsts(i) : d = e
    BY DEF Named, Dsts
<1>2. CASE i \in Plain
  <2>1. i \in Consts => i.op = "const"
    BY DEF Consts
  <2>2. i \in Binops => i.op = "bin"
    BY DEF Binops
  <2>3. i \in Outputs => i.op = "output"
    BY DEF Outputs
  <2>4. Named(i) \subseteq Nat
    <3>1. CASE i \in Consts
      BY <3>1 DEF Consts, Named, Dsts, Operands, Exposed
    <3>2. CASE i \in Binops
      BY <3>2 DEF Binops, Named, Dsts, Operands, Exposed
    <3>3. CASE i \in Outputs
      BY <3>3 DEF Outputs, Named, Dsts, Operands, Exposed
    <3> QED
      BY <1>2, <3>1, <3>2, <3>3 DEF Plain
  <2> QED
    BY <1>1, <1>2, <2>1, <2>2, <2>3, <2>4 DEF Plain
<1>3. CASE i \notin Plain
  <2>1. i.op \in {"if", "while"} /\ Named(i) \subseteq Nat
    BY <1>3 DEF IsCode
  <2> QED
    BY <1>1, <1>3, <2>1 DEF Plain
<1> QED
    BY <1>2, <1>3

-----------------------------------------------------------------------------
(***************************************************************************)
(* The passes, step by step.                                               *)
(***************************************************************************)

LEMMA MarkedType ==
    ASSUME NEW I, IsCode(I), NEW i \in I, NEW n \in Nat, NEW u \in SUBSET Nat
    PROVE  Marked(u, i, n) \in SUBSET Nat /\ u \subseteq Marked(u, i, n)
<1>1. Operands(i) \subseteq Nat
    BY CodeIs
<1> QED
    BY <1>1 DEF Marked

\* u[k] are the ids marked when k instructions were seen from the end.
IsMarked(s, n, u) ==
    /\ u[0] = {} /\ u[Len(s)] = Used(s, n)
    /\ \A k \in 1 .. Len(s) : u[k] = Marked(u[k - 1], s[Len(s) + 1 - k], n)

LEMMA UsedIs ==
    ASSUME NEW I, IsCode(I), NEW s \in Seq(I), NEW n \in Nat
    PROVE  \E u \in [0 .. Len(s) -> SUBSET Nat] : IsMarked(s, n, u)
<1> DEFINE len == Len(s)
           step == [k \in 1 .. len |-> [u \in SUBSET Nat |-> Marked(u, s[len + 1 - k], n)]]
           used == CHOOSE f : f = [k \in 0 .. len |->
                      IF k = 0 THEN {} ELSE Marked(f[k - 1], s[len + 1 - k], n)]
<1>1. len \in Nat /\ \A k \in 1 .. len : s[len + 1 - k] \in I
    OBVIOUS
<1>2. Used(s, n) = used[len]
    BY DEF Used
<1> HIDE DEF len
<1> DEFINE T == SUBSET Nat
<1>3. \A k \in 1 .. len : \A u \in T : Marked(u, s[len + 1 - k], n) \in T
    BY <1>1, MarkedType
<1>4. PICK g \in [0 .. len -> T] : Follows(len, {}, step, g)
  <2>1. \A k \in 1 .. len : \A u \in T : step[k][u] \in T
    BY <1>3
  <2>2. {} \in T
    OBVIOUS
  <2>3. len \in Nat
    BY <1>1
  <2> HIDE DEF step, T, used
  <2> QED
    BY <2>1, <2>2, <2>3, Recursion
<1>5. \A k \in 1 .. len : g[k] = Marked(g[k - 1], s[len + 1 - k], n)
  <2> SUFFICES ASSUME NEW k \in 1 .. len PROVE g[k] = Marked(g[k - 1], s[len + 1 - k], n)
    OBVIOUS
  <2>1. g[k - 1] \in T
    BY <1>1
  <2> QED
    BY <1>4, <2>1 DEF Follows
<1>6. g = [k \in 0 .. len |-> IF k = 0 THEN {} ELSE Marked(g[k - 1], s[len + 1 - k], n)]
  <2>1. \A k \in 0 .. len : g[k] = IF k = 0 THEN {} ELSE Marked(g[k - 1], s[len + 1 - k], n)
    BY <1>1, <1>4, <1>5 DEF Follows
  <2> QED
    BY <2>1
<1>7. used = [k \in 0 .. len |-> IF k = 0 THEN {} ELSE Marked(used[k - 1], s[len + 1 - k], n)]
    BY <1>6
<1> HIDE DEF used, T, step
<1>8. DOMAIN used = 0 .. len
    BY <1>7
<1>9. \A k \in 0 .. len : used[k] = IF k = 0 THEN {} ELSE Marked(used[k - 1], s[len + 1 - k], n)
  <2> SUFFICES ASSUME NEW k \in 0 .. len
               PROVE  used[k] = IF k = 0 THEN {} ELSE Marked(used[k - 1], s[len + 1 - k], n)
    OBVIOUS
  <2> QED
    BY <1>7, Zenon
<1>10. used[0] = {} /\ \A k \in 1 .. len : used[k] = Marked(used[k - 1], s[len + 1 - k], n)
    BY <1>1, <1>9
<1>11. used \in [0 .. len -> T]
  <2> DEFINE P == {k \in 0 .. len : used[k] \in T}
  <2>1. 0 \in P
    BY <1>1, <1>10 DEF T
  <2>2. ASSUME NEW k \in 1 .. len, k - 1 \in P PROVE k \in P
    BY <1>3, <1>10, <2>2
  <2> HIDE DEF P
  <2>3. \A k \in 0 .. len : k \in P
    BY <1>1, <2>1, <2>2, Upward
  <2>4. \A k \in 0 .. len : used[k] \in T
    BY <2>3 DEF P
  <2>5. used = [k \in 0 .. len |-> used[k]]
    BY <1>7, <1>8
  <2> QED
    BY <2>4, <2>5
<1> QED
    BY <1>2, <1>10, <1>11 DEF len, T, IsMarked

\* What was kept of the first k instructions.
Kept(U, c, i) == IF Dsts(i) \subseteq U THEN Append(c, i) ELSE c

AreKept(s, U, c) ==
    /\ c[0] = <<>> /\ c[Len(s)] = Retained(s, U)
    /\ \A k \in 1 .. Len(s) : c[k] = Kept(U, c[k - 1], s[k])

LEMMA KeptIs ==
    ASSUME NEW I, NEW s \in Seq(I), NEW U
    PROVE  \E c \in [0 .. Len(s) -> Seq(I)] : AreKept(s, U, c)
<1> DEFINE len == Len(s)
           T == Seq(I)
           step == [k \in 1 .. len |-> [c \in T |-> Kept(U, c, s[k])]]
           kept == CHOOSE f : f = [k \in 0 .. len |->
                      IF k = 0 THEN <<>>
                      ELSE IF Dsts(s[k]) \subseteq U THEN Append(f[k - 1], s[k])
                      ELSE f[k - 1]]
<1>1. len \in Nat /\ \A k \in 1 .. len : s[k] \in I
    OBVIOUS
<1>2. Retained(s, U) = kept[len]
    BY DEF Retained
<1> HIDE DEF len
<1>3. \A k \in 1 .. len : \A c \in T : Kept(U, c, s[k]) \in T
    BY <1>1 DEF Kept
<1>4. PICK g \in [0 .. len -> T] : Follows(len, <<>>, step, g)
  <2>1. \A k \in 1 .. len : \A c \in T : step[k][c] \in T
    BY <1>3
  <2>2. <<>> \in T
    OBVIOUS
  <2>3. len \in Nat
    BY <1>1
  <2> HIDE DEF step, T, kept
  <2> QED
    BY <2>1, <2>2, <2>3, Recursion
<1>5. \A k \in 1 .. len : g[k] = Kept(U, g[k - 1], s[k])
  <2> SUFFICES ASSUME NEW k \in 1 .. len PROVE g[k] = Kept(U, g[k - 1], s[k])
    OBVIOUS
  <2>1. g[k - 1] \in T
    BY <1>1
  <2> HIDE DEF T
  <2> QED
    BY <1>4, <2>1 DEF Follows
<1>6. g = [k \in 0 .. len |->
             IF k = 0 THEN <<>>
             ELSE IF Dsts(s[k]) \subseteq U THEN Append(g[k - 1], s[k]) ELSE g[k - 1]]
  <2>1. g[0] = <<>> /\ g = [k \in 0 .. len |-> g[k]]
    BY <1>4 DEF Follows
  <2>2. \A k \in 0 .. len : g[k] =
             IF k = 0 THEN <<>>
             ELSE IF Dsts(s[k]) \subseteq U THEN Append(g[k - 1], s[k]) ELSE g[k - 1]
    <3>1. \A k \in 0 .. len : k = 0 \/ k \in 1 .. len
      BY <1>1
    <3> QED
      BY <1>5, <2>1, <3>1, Zenon DEF Kept
  <2> QED
    BY <2>1, <2>2, Zenon
<1>7. kept = [k \in 0 .. len |->
                IF k = 0 THEN <<>>
                ELSE IF Dsts(s[k]) \subseteq U THEN Append(kept[k - 1], s[k])
                ELSE kept[k - 1]]
    BY <1>6, Zenon
<1> HIDE DEF kept, T, step
<1>8. DOMAIN kept = 0 .. len
    BY <1>7
<1>9. \A k \in 0 .. len : kept[k] = IF k = 0 THEN <<>>
                ELSE IF Dsts(s[k]) \subseteq U THEN Append(kept[k - 1], s[k])
                ELSE kept[k - 1]
    BY <1>7, Zenon
<1>10. kept[0] = <<>> /\ \A k \in 1 .. len : kept[k] = Kept(U, kept[k - 1], s[k])
    BY <1>1, <1>9 DEF Kept
<1>11. kept \in [0 .. len -> T]
  <2> DEFINE P == {k \in 0 .. len : kept[k] \in T}
  <2>1. 0 \in P
    <3>1. <<>> \in T /\ 0 \in 0 .. len
      BY <1>1 DEF T
    <3> QED
      BY <1>10, <3>1
  <2>2. ASSUME NEW k \in 1 .. len, k - 1 \in P PROVE k \in P
    BY <1>3, <1>10, <2>2
  <2> HIDE DEF P
  <2>3. \A k \in 0 .. len : k \in P
    BY <1>1, <2>1, <2>2, Upward
  <2>4. \A k \in 0 .. len : kept[k] \in T
    BY <2>3 DEF P
  <2>5. kept = [k \in 0 .. len |-> kept[k]]
    BY <1>7, <1>8
  <2> QED
    BY <2>4, <2>5
<1> QED
    BY <1>2, <1>10, <1>11 DEF len, T, AreKept

LEMMA NextPlace ==
    ASSUME NEW x \in Nat, NEW y \in Nat, NEW z \in Nat, y = x + 1, y <= z
    PROVE  y \in 1 .. z /\ y - 1 = x
OBVIOUS

\* p[k] of the first k instructions of s are kept in t, in order.
IsKept(s, U, t, p) ==
    /\ p[0] = 0 /\ p[Len(s)] = Len(t)
    /\ \A k \in 1 .. Len(s) :
         IF Dsts(s[k]) \subseteq U
         THEN p[k] = p[k - 1] + 1 /\ p[k] <= Len(t) /\ t[p[k]] = s[k]
         ELSE p[k] = p[k - 1]
    /\ \A j \in 1 .. Len(t) :
         \E k \in 1 .. Len(s) : p[k] = j /\ p[k - 1] = j - 1 /\ t[j] = s[k] /\ Dsts(s[k]) \subseteq U

LEMMA RetainedIs ==
    ASSUME NEW I, NEW s \in Seq(I), NEW U
    PROVE  /\ Retained(s, U) \in Seq(I)
           /\ \E p \in [0 .. Len(s) -> Nat] : IsKept(s, U, Retained(s, U), p)
<1>0. PICK c \in [0 .. Len(s) -> Seq(I)] : AreKept(s, U, c)
    BY KeptIs
<1>1. /\ c[0] = <<>> /\ Retained(s, U) = c[Len(s)]
      /\ \A k \in 1 .. Len(s) : c[k] = Kept(U, c[k - 1], s[k])
    BY <1>0 DEF AreKept
<1> DEFINE len == Len(s)
           p == [k \in 0 .. len |-> Len(c[k])]
           t == c[len]
           From(k) == \A j \in 1 .. Len(c[k]) :
                        \E h \in 1 .. k : /\ p[h] = j /\ p[h - 1] = j - 1 /\ c[k][j] = s[h]
                                          /\ Dsts(s[h]) \subseteq U
           Into(k) == /\ Len(c[len - k]) <= Len(t)
                      /\ \A j \in 1 .. Len(c[len - k]) : t[j] = c[len - k][j]
           P == {k \in 0 .. len : From(k)}
           Q == {k \in 0 .. len : Into(k)}
<1>2. len \in Nat /\ (\A k \in 0 .. len : c[k] \in Seq(I)) /\ \A k \in 1 .. len : s[k] \in I
    OBVIOUS
<1>3. /\ p \in [0 .. len -> Nat] /\ \A k \in 0 .. len : p[k] = Len(c[k])
    BY <1>2
<1> HIDE DEF len, p
<1>4. ASSUME NEW k \in 1 .. len
      PROVE  IF Dsts(s[k]) \subseteq U
             THEN /\ p[k] = p[k - 1] + 1 /\ c[k][p[k]] = s[k]
                  /\ \A j \in 1 .. p[k - 1] : c[k][j] = c[k - 1][j]
             ELSE p[k] = p[k - 1] /\ c[k] = c[k - 1]
  <2>1. /\ c[k] = Kept(U, c[k - 1], s[k]) /\ c[k - 1] \in Seq(I) /\ s[k] \in I
        /\ p[k] = Len(c[k]) /\ p[k - 1] = Len(c[k - 1])
    BY <1>1, <1>2, <1>3 DEF len
  <2> QED
    BY <2>1 DEF Kept
<1>5. \A k \in 0 .. len : k \in P
  <2>1. 0 \in P
    BY <1>1, <1>2
  <2>2. ASSUME NEW k \in 1 .. len, k - 1 \in P PROVE k \in P
    <3> SUFFICES ASSUME NEW j \in 1 .. Len(c[k])
                 PROVE  \E h \in 1 .. k : /\ p[h] = j /\ p[h - 1] = j - 1 /\ c[k][j] = s[h]
                                          /\ Dsts(s[h]) \subseteq U
      OBVIOUS
    <3>1. /\ p[k] = Len(c[k]) /\ p[k - 1] = Len(c[k - 1]) /\ p[k] \in Nat /\ p[k - 1] \in Nat
      BY <1>2, <1>3
    <3>2. CASE Dsts(s[k]) \subseteq U /\ j = p[k]
      <4>1. p[k] = p[k - 1] + 1 /\ c[k][p[k]] = s[k] /\ k \in 1 .. k
        BY <1>4, <3>2
      <4> QED
        BY <3>1, <3>2, <4>1
    <3>3. CASE ~(Dsts(s[k]) \subseteq U /\ j = p[k])
      <4>1. j \in 1 .. Len(c[k - 1]) /\ c[k][j] = c[k - 1][j]
        <5>1. CASE Dsts(s[k]) \subseteq U
          <6>1. p[k] = p[k - 1] + 1 /\ \A l \in 1 .. p[k - 1] : c[k][l] = c[k - 1][l]
            BY <1>4, <5>1
          <6>2. j \in 1 .. p[k - 1]
            BY <3>1, <3>3, <5>1, <6>1
          <6> QED
            BY <3>1, <6>1, <6>2
        <5>2. CASE ~(Dsts(s[k]) \subseteq U)
          <6>1. c[k] = c[k - 1]
            BY <1>4, <5>2
          <6> QED
            BY <6>1
        <5> QED
          BY <5>1, <5>2
      <4>2. PICK h \in 1 .. k - 1 : /\ p[h] = j /\ p[h - 1] = j - 1 /\ c[k - 1][j] = s[h]
                                    /\ Dsts(s[h]) \subseteq U
        BY <2>2, <4>1
      <4>3. h \in 1 .. k
        OBVIOUS
      <4> QED
        BY <4>1, <4>2, <4>3
    <3> QED
      BY <3>2, <3>3
  <2> HIDE DEF P
  <2> QED
    BY <1>2, <2>1, <2>2, Upward
<1>6. \A k \in 0 .. len : k \in Q
  <2>1. 0 \in Q
    BY <1>2
  <2>2. ASSUME NEW k \in 1 .. len, k - 1 \in Q PROVE k \in Q
    <3> DEFINE h == len + 1 - k
    <3>1. h \in 1 .. len /\ len - (k - 1) = h /\ len - k = h - 1 /\ h - 1 \in 0 .. len
      BY <1>2
    <3>2. Len(c[h]) <= Len(t) /\ \A j \in 1 .. Len(c[h]) : t[j] = c[h][j]
      BY <2>2, <3>1
    <3>3. /\ p[h] = Len(c[h]) /\ p[h - 1] = Len(c[h - 1]) /\ p[h] \in Nat /\ p[h - 1] \in Nat
          /\ Len(t) \in Nat
      BY <1>2, <1>3, <3>1
    <3> HIDE DEF h
    <3>4. p[h - 1] <= p[h] /\ \A j \in 1 .. p[h - 1] : c[h][j] = c[h - 1][j]
      <4>1. CASE Dsts(s[h]) \subseteq U
        <5>1. p[h] = p[h - 1] + 1 /\ \A j \in 1 .. p[h - 1] : c[h][j] = c[h - 1][j]
          BY <1>4, <3>1, <4>1
        <5> QED
          BY <3>3, <5>1
      <4>2. CASE ~(Dsts(s[h]) \subseteq U)
        <5>1. p[h] = p[h - 1] /\ c[h] = c[h - 1]
          BY <1>4, <3>1, <4>2
        <5> QED
          BY <3>3, <5>1
      <4> QED
        BY <4>1, <4>2
    <3>5. Len(c[h - 1]) <= Len(t) /\ \A j \in 1 .. Len(c[h - 1]) : t[j] = c[h - 1][j]
      BY <3>2, <3>3, <3>4
    <3> QED
      BY <3>1, <3>5
  <2> HIDE DEF Q
  <2> QED
    BY <1>2, <2>1, <2>2, Upward
<1>7. \A k \in 0 .. len : Len(c[k]) <= Len(t) /\ \A j \in 1 .. Len(c[k]) : t[j] = c[k][j]
  <2> SUFFICES ASSUME NEW k \in 0 .. len
               PROVE  Len(c[k]) <= Len(t) /\ \A j \in 1 .. Len(c[k]) : t[j] = c[k][j]
    OBVIOUS
  <2>1. len - k \in 0 .. len /\ len - (len - k) = k
    BY <1>2
  <2>2. len - k \in Q
    BY <1>6, <2>1
  <2> QED
    BY <2>1, <2>2
<1>8. ASSUME NEW k \in 1 .. len
      PROVE  IF Dsts(s[k]) \subseteq U
             THEN p[k] = p[k - 1] + 1 /\ p[k] <= Len(t) /\ t[p[k]] = s[k]
             ELSE p[k] = p[k - 1]
  <2>1. p[k] = Len(c[k]) /\ p[k] \in Nat /\ p[k - 1] \in Nat /\ k \in 0 .. len
    BY <1>2, <1>3
  <2>2. p[k] <= Len(t) /\ \A j \in 1 .. p[k] : t[j] = c[k][j]
    BY <1>7, <2>1
  <2> HIDE DEF t, P, Q
  <2>3. CASE Dsts(s[k]) \subseteq U
    <3>1. p[k] = p[k - 1] + 1 /\ c[k][p[k]] = s[k]
      BY <1>4, <2>3
    <3>2. p[k] \in 1 .. p[k]
      BY <2>1, <3>1
    <3> QED
      BY <2>2, <2>3, <3>1, <3>2
  <2>4. CASE ~(Dsts(s[k]) \subseteq U)
    BY <1>4, <2>4
  <2> QED
    BY <2>3, <2>4
<1>9. ASSUME NEW j \in 1 .. Len(t)
      PROVE  \E k \in 1 .. len : p[k] = j /\ p[k - 1] = j - 1 /\ t[j] = s[k] /\ Dsts(s[k]) \subseteq U
  <2>0. len \in 0 .. len
    BY <1>2
  <2>1. len \in P
    BY <1>5, <2>0
  <2> QED
    BY <2>1
<1>10. p[0] = 0 /\ p[len] = Len(t) /\ t \in Seq(I)
    BY <1>1, <1>2, <1>3
<1>11. IsKept(s, U, t, p)
  <2> HIDE DEF t, P, Q
  <2> QED
    BY <1>8, <1>9, <1>10 DEF IsKept, len
<1> QED
    BY <1>1, <1>3, <1>10, <1>11 DEF len

LEMMA PlacesIs ==
    ASSUME NEW I, NEW s \in Seq(I), NEW U, NEW t \in Seq(I),
           NEW p \in [0 .. Len(s) -> Nat], IsKept(s, U, t, p)
    PROVE  \A k \in 0 .. Len(s) : p[k] \in Nat /\ p[k] <= Len(t)
<1> DEFINE len == Len(s)
           P == {k \in 0 .. len : p[k] <= Len(t)}
<1>1. len \in Nat /\ Len(t) \in Nat /\ \A k \in 0 .. len : p[k] \in Nat
    OBVIOUS
<1>2. 0 \in P
    BY <1>1 DEF IsKept
<1>3. ASSUME NEW k \in 1 .. len, k - 1 \in P PROVE k \in P
  <2>1. p[k] = p[k - 1] \/ p[k] <= Len(t)
    BY DEF IsKept
  <2> QED
    BY <1>1, <1>3, <2>1
<1> HIDE DEF P, len
<1>4. \A k \in 0 .. len : k \in P
    BY <1>1, <1>2, <1>3, Upward
<1> QED
    BY <1>1, <1>4 DEF P, len

LEMMA PlacesGrow ==
    ASSUME NEW I, NEW s \in Seq(I), NEW U, NEW t \in Seq(I),
           NEW p \in [0 .. Len(s) -> Nat], IsKept(s, U, t, p)
    PROVE  \A k \in 0 .. Len(s) : \A h \in 0 .. k : p[h] <= p[k]
<1> DEFINE len == Len(s)
           P == {k \in 0 .. len : \A h \in 0 .. k : p[h] <= p[k]}
<1>1. len \in Nat /\ \A k \in 0 .. len : p[k] \in Nat
    OBVIOUS
<1>2. 0 \in P
    BY <1>1
<1>3. ASSUME NEW k \in 1 .. len, k - 1 \in P PROVE k \in P
  <2>1. p[k] = p[k - 1] \/ p[k] = p[k - 1] + 1
    BY DEF IsKept
  <2>2. \A h \in 0 .. k : h = k \/ h \in 0 .. k - 1
    OBVIOUS
  <2>3. ASSUME NEW h \in 0 .. k PROVE p[h] <= p[k]
    <3>1. p[h] \in Nat /\ p[k] \in Nat /\ p[k - 1] \in Nat
      BY <1>1
    <3>2. CASE h = k
      BY <3>1, <3>2
    <3>3. CASE h # k
      <4>1. p[h] <= p[k - 1]
        BY <1>3, <2>2, <3>3
      <4> QED
        BY <2>1, <3>1, <4>1
    <3> QED
      BY <3>2, <3>3
  <2> QED
    BY <2>3
<1> HIDE DEF P, len
<1>4. \A k \in 0 .. len : k \in P
    BY <1>1, <1>2, <1>3, Upward
<1> QED
    BY <1>4 DEF P, len

\* Where nothing is dropped nothing changes.
LEMMA RetainedAll ==
    ASSUME NEW I, NEW s \in Seq(I), NEW U, \A k \in 1 .. Len(s) : Dsts(s[k]) \subseteq U
    PROVE  Retained(s, U) = s
<1> DEFINE t == Retained(s, U)
<1>1. PICK p \in [0 .. Len(s) -> Nat] : IsKept(s, U, t, p)
    BY RetainedIs
<1>2. t \in Seq(I)
    BY RetainedIs
<1> HIDE DEF t
<1> DEFINE len == Len(s)
<1>3. \A k \in 0 .. len : p[k] = k
  <2> DEFINE P == {k \in 0 .. len : p[k] = k}
  <2>1. 0 \in P
    BY <1>1 DEF IsKept
  <2>2. ASSUME NEW k \in 1 .. len, k - 1 \in P PROVE k \in P
    BY <1>1, <2>2 DEF IsKept
  <2>3. len \in Nat
    OBVIOUS
  <2> HIDE DEF P, len
  <2>4. \A k \in 0 .. len : k \in P
    BY <2>1, <2>2, <2>3, Upward
  <2> QED
    BY <2>4 DEF P
<1>4. Len(t) = Len(s)
    BY <1>1, <1>3 DEF IsKept
<1>5. \A k \in 1 .. Len(s) : t[k] = s[k]
    BY <1>1, <1>3 DEF IsKept
<1>6. t = s
    BY <1>2, <1>4, <1>5
<1> QED
    BY <1>6 DEF t

\* Each mark stays.
LEMMA MarksGrow ==
    ASSUME NEW I, IsCode(I), NEW s \in Seq(I), NEW n \in Nat,
           NEW u \in [0 .. Len(s) -> SUBSET Nat], IsMarked(s, n, u)
    PROVE  \A k \in 0 .. Len(s) : \A j \in 0 .. k : u[j] \subseteq u[k]
<1> DEFINE len == Len(s)
           P == {k \in 0 .. len : \A j \in 0 .. k : u[j] \subseteq u[k]}
<1>0. len \in Nat /\ \A k \in 1 .. len : s[len + 1 - k] \in I
    OBVIOUS
<1>1. 0 \in P
    BY <1>0
<1>2. ASSUME NEW k \in 1 .. len, k - 1 \in P PROVE k \in P
  <2>1. u[k] = Marked(u[k - 1], s[len + 1 - k], n)
    BY DEF IsMarked
  <2>2. u[k - 1] \in SUBSET Nat /\ s[len + 1 - k] \in I
    <3>1. k - 1 \in 0 .. len
      BY <1>0
    <3>2. u[k - 1] \in SUBSET Nat
      BY <3>1
    <3> HIDE DEF len
    <3>3. s[len + 1 - k] \in I
      BY <1>0
    <3> QED
      BY <3>2, <3>3
  <2>3. u[k - 1] \subseteq u[k]
    BY <2>1, <2>2, MarkedType
  <2>4. \A j \in 0 .. k : j = k \/ j \in 0 .. k - 1
    OBVIOUS
  <2>5. \A j \in 0 .. k - 1 : u[j] \subseteq u[k - 1]
    BY <1>2
  <2>6. k \in 0 .. len
    OBVIOUS
  <2> QED
    BY <2>3, <2>4, <2>5, <2>6
<1> HIDE DEF P, len
<1>3. \A k \in 0 .. len : k \in P
    BY <1>0, <1>1, <1>2, Upward
<1> QED
    BY <1>3 DEF P, len

\* A stream that was pruned loses no mark.
LEMMA MarksRemain ==
    ASSUME NEW I, IsCode(I), NEW s \in Seq(I), NEW n \in Nat, NEW m \in Nat,
           Fits(Retained(s, Used(s, n)), m)
    PROVE  Used(s, n) \subseteq Used(Retained(s, Used(s, n)), m)
<1> DEFINE U == Used(s, n)
           t == Retained(s, U)
           len == Len(s)
           new == Len(t)
<1>1. PICK u \in [0 .. len -> SUBSET Nat] : IsMarked(s, n, u)
    BY UsedIs
<1>2. t \in Seq(I)
    BY RetainedIs
<1>3. PICK p \in [0 .. len -> Nat] : IsKept(s, U, t, p)
    BY RetainedIs
<1>4. PICK v \in [0 .. new -> SUBSET Nat] : IsMarked(t, m, v)
    BY <1>2, UsedIs
<1>5. \A k \in 0 .. len : u[k] \subseteq U
  <2>1. len \in 0 .. len /\ \A k \in 0 .. len : k \in 0 .. len
    OBVIOUS
  <2>2. \A k \in 0 .. len : u[k] \subseteq u[len]
    BY <1>1, <2>1, MarksGrow
  <2> QED
    BY <1>1, <2>2 DEF IsMarked
<1>6. /\ len \in Nat /\ new \in Nat /\ (\A k \in 1 .. len : s[k] \in I)
      /\ \A j \in 1 .. new : t[j] \in I
    BY <1>2
<1>7. /\ p[0] = 0 /\ p[len] = new
      /\ \A k \in 1 .. len : IF Dsts(s[k]) \subseteq U
                             THEN p[k] = p[k - 1] + 1 /\ p[k] <= new /\ t[p[k]] = s[k]
                             ELSE p[k] = p[k - 1]
    BY <1>3 DEF IsKept
<1>f. \A j \in 1 .. new : \A id \in Named(t[j]) : id < m
    BY DEF Fits
<1> HIDE DEF U, t, len, new
<1>8. \A k \in 0 .. len : p[k] \in Nat /\ p[k] <= new
    BY <1>2, <1>3, PlacesIs DEF len, new
<1> DEFINE P == {k \in 0 .. len : u[k] \subseteq v[new - p[len - k]]}
<1>9. 0 \in P
  <2>1. u[0] = {} /\ 0 \in 0 .. len
    BY <1>1, <1>6 DEF IsMarked
  <2> QED
    BY <2>1
<1>10. ASSUME NEW k \in 1 .. len, k - 1 \in P PROVE k \in P
  <2> DEFINE h == len + 1 - k
             i == s[h]
             a == u[k - 1]
             b == v[new - p[h]]
  <2>1. /\ h \in 1 .. len /\ len - (k - 1) = h /\ len - k = h - 1 /\ h - 1 \in 0 .. len
        /\ k \in 0 .. len /\ k - 1 \in 0 .. len /\ h \in 0 .. len
    BY <1>6
  <2>2. a \subseteq b /\ u[k] = Marked(a, i, n) /\ i \in I /\ a \subseteq U
    BY <1>1, <1>5, <1>6, <1>10, <2>1 DEF IsMarked, len
  <2>3. p[h] \in Nat /\ p[h - 1] \in Nat /\ p[h] <= new /\ p[h - 1] <= new
    BY <1>8, <2>1
  <2>4. b \in SUBSET Nat
    BY <1>6, <2>3
  <2> HIDE DEF h, i, a, b
  <2>5. CASE Dsts(i) \subseteq U
    <3>1. p[h] = p[h - 1] + 1 /\ t[p[h]] = i
      BY <1>7, <2>1, <2>5 DEF i
    <3>2. /\ new - p[h - 1] \in 1 .. new /\ new + 1 - (new - p[h - 1]) = p[h]
          /\ (new - p[h - 1]) - 1 = new - p[h] /\ p[h] \in 1 .. new
      <4>1. \A x, y, z \in Nat : y = x + 1 /\ y <= z =>
               /\ z - x \in 1 .. z /\ z + 1 - (z - x) = y
               /\ (z - x) - 1 = z - y /\ y \in 1 .. z
        OBVIOUS
      <4>2. new \in Nat
        BY <1>6
      <4> QED
        BY <2>3, <3>1, <4>1, <4>2
    <3>3. v[new - p[h - 1]] = Marked(b, i, m)
      BY <1>4, <3>1, <3>2 DEF IsMarked, b, new
    <3>4. \A o \in Operands(i) : o < m
      BY <1>6, <1>f, <3>1, <3>2, CodeIs
    <3>5. Marked(a, i, n) \subseteq Marked(b, i, m)
      BY <2>2, <3>4 DEF Marked
    <3>6. u[k] \subseteq v[new - p[len - k]]
      BY <2>1, <2>2, <3>3, <3>5
    <3> QED
      BY <2>1, <3>6
  <2>6. CASE ~(Dsts(i) \subseteq U)
    <3>1. p[h] = p[h - 1]
      BY <1>7, <2>1, <2>6 DEF i
    <3>2. Dsts(i) # {} /\ Dsts(i) \cap a = {}
      BY <2>2, <2>6, CodeIs
    <3>3. u[k] = a
      BY <2>2, <3>2 DEF Marked
    <3>4. u[k] \subseteq v[new - p[len - k]]
      BY <2>1, <2>2, <3>1, <3>3 DEF b
    <3> QED
      BY <2>1, <3>4
  <2> QED
    BY <2>5, <2>6
<1> HIDE DEF P
<1>11. len \in P
  <2>1. \A k \in 0 .. len : k \in P
    BY <1>6, <1>9, <1>10, Upward
  <2>2. len \in 0 .. len
    BY <1>6
  <2> QED
    BY <2>1, <2>2
<1>12. len - len = 0 /\ new - p[0] = new
    BY <1>6, <1>7
<1>13. u[len] \subseteq v[new]
    BY <1>11, <1>12 DEF P
<1> QED
    BY <1>1, <1>4, <1>13 DEF IsMarked, U, t, len, new

\* Pruning twice is pruning once, whatever bounds the ids the second time.
LEMMA PruneAgain ==
    ASSUME NEW I, IsCode(I), NEW s \in Seq(I), NEW n \in Nat, NEW m \in Nat,
           Fits(PruneDead(s, n), m)
    PROVE  PruneDead(PruneDead(s, n), m) = PruneDead(s, n)
<1> DEFINE U == Used(s, n)
           t == Retained(s, U)
<1>1. t \in Seq(I)
    BY RetainedIs
<1>2. PICK p \in [0 .. Len(s) -> Nat] : IsKept(s, U, t, p)
    BY RetainedIs
<1>3. U \subseteq Used(t, m)
    BY MarksRemain DEF PruneDead
<1> HIDE DEF U, t
<1>4. \A j \in 1 .. Len(t) : Dsts(t[j]) \subseteq U
    BY <1>2 DEF IsKept
<1>5. \A j \in 1 .. Len(t) : Dsts(t[j]) \subseteq Used(t, m)
    BY <1>3, <1>4
<1>6. Retained(t, Used(t, m)) = t
    BY <1>1, <1>5, RetainedAll
<1> QED
    BY <1>6 DEF PruneDead, t, U

LEMMA ExactIs ==
    ASSUME NEW f \in Operators, NEW l \in Int, NEW r \in Int
    PROVE  /\ Exact(f, l, r) \in Int
           /\ f \in {"+", "*"} => Exact(f, r, l) = Exact(f, l, r)
<1>1. CASE f = "+"
    BY <1>1 DEF Exact
<1>2. CASE f = "-"
    BY <1>2 DEF Exact
<1>3. CASE f = "*"
  <2>1. l * r \in Int /\ l * r = r * l
    OBVIOUS
  <2> QED
    BY <1>3, <2>1 DEF Exact
<1>4. CASE f = "<"
    BY <1>4 DEF Exact, Truth
<1>5. CASE f = "=="
    BY <1>5 DEF Exact, Truth
<1> QED
    BY <1>1, <1>2, <1>3, <1>4, <1>5 DEF Operators

LEMMA TableIs ==
    ASSUME NEW t \in Tables
    PROVE  DOMAIN t \subseteq Nat /\ \A d \in DOMAIN t : t[d] \in Ints
BY DEF Tables

LEMMA TableOf ==
    ASSUME NEW D \in SUBSET Nat, NEW f, f = [d \in D |-> f[d]], \A d \in D : f[d] \in Ints
    PROVE  f \in Tables
<1>1. f \in [D -> Ints]
    OBVIOUS
<1> QED
    BY <1>1 DEF Tables

\* What folding makes of an instruction, and what is known after it.
LEMMA FoldedIs ==
    ASSUME NEW I, IsCode(I), NEW i \in I, NEW t \in Tables
    PROVE  /\ Folded(t, i) \in I /\ Learnt(t, i) \in Tables
           /\ Dsts(Folded(t, i)) = Dsts(i) /\ Named(Folded(t, i)) \subseteq Named(i)
           /\ Operands(Folded(t, i)) \subseteq Operands(i)
           /\ Folded(t, Folded(t, i)) = Folded(t, i)
           /\ Learnt(t, Folded(t, i)) = Learnt(t, i)
<1> DEFINE x == Exact(i.fn, t[i.lhs], t[i.rhs])
           c == Const(i.dst, x)
<1>1. DOMAIN t \subseteq Nat /\ \A d \in DOMAIN t : t[d] \in Ints
    BY TableIs
<1>2. ASSUME NEW d \in Nat, NEW v \in Ints PROVE With(t, d, v) \in Tables
  <2> DEFINE f == With(t, d, v)
             D == DOMAIN t \cup {d}
  <2>1. D \in SUBSET Nat /\ f = [y \in D |-> f[y]] /\ \A y \in D : f[y] \in Ints
    BY <1>1, <1>2 DEF With
  <2> HIDE DEF f, D
  <2>2. f \in Tables
    BY <2>1, TableOf
  <2> QED
    BY <2>2 DEF f
<1>3. [d \in DOMAIN t \ Dsts(i) |-> t[d]] \in Tables
  <2> DEFINE D == DOMAIN t \ Dsts(i)
             f == [d \in D |-> t[d]]
  <2>1. D \in SUBSET Nat /\ f = [y \in D |-> f[y]] /\ \A y \in D : f[y] \in Ints
    BY <1>1
  <2> HIDE DEF f, D
  <2>2. f \in Tables
    BY <2>1, TableOf
  <2> QED
    BY <2>2 DEF f, D
<1>4. CASE BothKnown(t, i) /\ x \in Ints
  <2>1. i \in Binops
    BY <1>4, CodeIs DEF BothKnown
  <2>2. c \in Consts /\ c \in I
    BY <1>4, <2>1 DEF IsCode, Plain, Consts, Const, Binops
  <2>3. Folded(t, i) = c
    BY <1>4 DEF Folded
  <2>4. c.op = "const" /\ c.dst = i.dst /\ c.val = x /\ ~BothKnown(t, c)
    BY DEF Const, BothKnown
  <2> HIDE DEF c, x
  <2>5. Folded(t, c) = c
    BY <2>4 DEF Folded
  <2>6. Learnt(t, c) = With(t, c.dst, c.val) /\ Learnt(t, i) = With(t, c.dst, c.val)
    BY <2>3, <2>4, <2>5, Zenon DEF Learnt
  <2>7. With(t, c.dst, c.val) \in Tables
    BY <1>2, <2>2 DEF Consts
  <2>8. Dsts(c) = Dsts(i)
    BY <2>1, <2>4 DEF Dsts, Binops
  <2>9. Named(c) \subseteq Named(i)
    BY <2>1, <2>4, <2>8 DEF Named, Operands, Exposed, Dsts, Binops
  <2>10. Operands(c) = {}
    BY <2>4 DEF Operands
  <2> QED
    BY <2>2, <2>3, <2>5, <2>6, <2>7, <2>8, <2>9, <2>10
<1>5. CASE ~(BothKnown(t, i) /\ x \in Ints)
  <2>1. Folded(t, i) = i
    BY <1>5 DEF Folded
  <2>2. CASE i.op = "const"
    <3>1. Learnt(t, i) = With(t, i.dst, i.val)
      BY <2>1, <2>2 DEF Learnt
    <3>2. i \in Consts
      BY <2>2, CodeIs
    <3>3. With(t, i.dst, i.val) \in Tables
      BY <1>2, <3>2 DEF Consts
    <3> QED
      BY <2>1, <3>1, <3>3
  <2>3. CASE i.op # "const"
    <3>1. Learnt(t, i) = IF BothKnown(t, i) THEN t ELSE [d \in DOMAIN t \ Dsts(i) |-> t[d]]
      BY <2>1, <2>3, Zenon DEF Learnt
    <3>2. Learnt(t, i) \in Tables
      BY <1>3, <3>1, Zenon
    <3> QED
      BY <2>1, <3>2
  <2> QED
    BY <2>2, <2>3
<1> QED
    BY <1>4, <1>5

\* Operands of a sum or a product stay in order.
LEMMA CommutedIs ==
    ASSUME NEW I, IsCode(I), NEW i \in I
    PROVE  /\ Commuted(i) \in I
           /\ Dsts(Commuted(i)) = Dsts(i) /\ Named(Commuted(i)) = Named(i)
           /\ Operands(Commuted(i)) = Operands(i)
           /\ Commuted(Commuted(i)) = Commuted(i)
           /\ \A t \in Tables : Commuted(Folded(t, Commuted(i))) = Folded(t, Commuted(i))
<1> DEFINE j == Commuted(i)
<1>1. CASE i.op = "bin" /\ i.fn \in {"+", "*"} /\ i.rhs < i.lhs
  <2>1. i \in Binops
    BY <1>1, CodeIs
  <2>2. /\ j \in Binops /\ j.op = "bin" /\ j.dst = i.dst
        /\ j.lhs = i.rhs /\ j.rhs = i.lhs /\ j.fn = i.fn
    BY <1>1, <2>1 DEF Commuted, Binops
  <2>3. ~(j.rhs < j.lhs)
    BY <1>1, <2>1, <2>2 DEF Binops
  <2> HIDE DEF j
  <2>4. j \in I
    BY <2>2 DEF IsCode, Plain
  <2>5. Dsts(j) = Dsts(i) /\ Operands(j) = Operands(i) /\ Named(j) = Named(i)
    BY <1>1, <2>2 DEF Dsts, Operands, Named, Exposed
  <2>6. Commuted(j) = j
    BY <2>3 DEF Commuted
  <2>7. ASSUME NEW t PROVE Commuted(Folded(t, j)) = Folded(t, j)
    <3>1. CASE Folded(t, j) = j
      BY <2>6, <3>1
    <3>2. CASE Folded(t, j) # j
      <4>1. Folded(t, j).op = "const"
        BY <3>2 DEF Folded, Const
      <4> QED
        BY <4>1 DEF Commuted
    <3> QED
      BY <3>1, <3>2
  <2> QED
    BY <2>4, <2>5, <2>6, <2>7 DEF j
<1>2. CASE ~(i.op = "bin" /\ i.fn \in {"+", "*"} /\ i.rhs < i.lhs)
  <2>1. j = i
    BY <1>2 DEF Commuted
  <2>2. ASSUME NEW t PROVE Commuted(Folded(t, i)) = Folded(t, i)
    BY <1>2 DEF Commuted, Folded, Const
  <2> HIDE DEF j
  <2> QED
    BY <2>1, <2>2 DEF j
<1> QED
    BY <1>1, <1>2

NoneKnown == [d \in {} |-> 0]

\* k[j] are the constants known after the first j instructions.
IsKnown(s, k) ==
    /\ k[0] = NoneKnown
    /\ \A j \in 1 .. Len(s) : k[j] = Learnt(k[j - 1], s[j])

LEMMA KnownIs ==
    ASSUME NEW I, IsCode(I), NEW s \in Seq(I)
    PROVE  \E k \in [0 .. Len(s) -> Tables] :
             /\ IsKnown(s, k)
             /\ ConstantFold(s) = [j \in DOMAIN s |-> Folded(k[j - 1], s[j])]
<1> DEFINE len == Len(s)
           T == Tables
           step == [k \in 1 .. len |-> [t \in T |-> Learnt(t, s[k])]]
           known == CHOOSE f : f = [k \in 0 .. len |->
                      IF k = 0 THEN [d \in {} |-> 0] ELSE Learnt(f[k - 1], s[k])]
<1>1. len \in Nat /\ \A k \in 1 .. len : s[k] \in I
    OBVIOUS
<1>2. ConstantFold(s) = [j \in DOMAIN s |-> Folded(known[j - 1], s[j])]
    BY DEF ConstantFold
<1> HIDE DEF len
<1>3. \A k \in 1 .. len : \A t \in T : Learnt(t, s[k]) \in T
    BY <1>1, FoldedIs
<1>0. NoneKnown \in T
  <2>1. NoneKnown \in [{} -> Ints]
    BY DEF NoneKnown
  <2> QED
    BY <2>1 DEF Tables
<1>4. PICK g \in [0 .. len -> T] : Follows(len, NoneKnown, step, g)
  <2>1. \A k \in 1 .. len : \A t \in T : step[k][t] \in T
    BY <1>3
  <2>3. len \in Nat
    BY <1>1
  <2> HIDE DEF step, T, known
  <2> QED
    BY <1>0, <2>1, <2>3, Recursion
<1>5. \A k \in 1 .. len : g[k] = Learnt(g[k - 1], s[k])
  <2> SUFFICES ASSUME NEW k \in 1 .. len PROVE g[k] = Learnt(g[k - 1], s[k])
    OBVIOUS
  <2>1. g[k - 1] \in T
    BY <1>1
  <2> HIDE DEF T
  <2> QED
    BY <1>4, <2>1 DEF Follows
<1>6. g = [k \in 0 .. len |-> IF k = 0 THEN [d \in {} |-> 0] ELSE Learnt(g[k - 1], s[k])]
  <2>1. g[0] = [d \in {} |-> 0] /\ g = [k \in 0 .. len |-> g[k]]
    BY <1>4 DEF Follows, NoneKnown
  <2>2. \A k \in 0 .. len :
          g[k] = IF k = 0 THEN [d \in {} |-> 0] ELSE Learnt(g[k - 1], s[k])
    <3>1. \A k \in 0 .. len : k = 0 \/ k \in 1 .. len
      BY <1>1
    <3> QED
      BY <1>5, <2>1, <3>1, Zenon
  <2> QED
    BY <2>1, <2>2, Zenon
<1>7. known = [k \in 0 .. len |-> IF k = 0 THEN [d \in {} |-> 0] ELSE Learnt(known[k - 1], s[k])]
    BY <1>6, Zenon
<1> HIDE DEF known, T, step
<1>8. DOMAIN known = 0 .. len
    BY <1>7
<1>9. \A k \in 0 .. len :
        known[k] = IF k = 0 THEN [d \in {} |-> 0] ELSE Learnt(known[k - 1], s[k])
    BY <1>7, Zenon
<1>10. known[0] = NoneKnown /\ \A k \in 1 .. len : known[k] = Learnt(known[k - 1], s[k])
    BY <1>1, <1>9 DEF NoneKnown
<1>11. known \in [0 .. len -> T]
  <2> DEFINE P == {k \in 0 .. len : known[k] \in T}
  <2>1. 0 \in P
    BY <1>0, <1>1, <1>10
  <2>2. ASSUME NEW k \in 1 .. len, k - 1 \in P PROVE k \in P
    BY <1>3, <1>10, <2>2
  <2> HIDE DEF P
  <2>3. \A k \in 0 .. len : k \in P
    BY <1>1, <2>1, <2>2, Upward
  <2>4. \A k \in 0 .. len : known[k] \in T
    BY <2>3 DEF P
  <2>5. known = [k \in 0 .. len |-> known[k]]
    BY <1>7, <1>8
  <2> QED
    BY <2>4, <2>5
<1> QED
    BY <1>2, <1>10, <1>11 DEF len, T, IsKnown

\* Folding leaves what was folded as it is.
LEMMA FoldAgain ==
    ASSUME NEW I, IsCode(I), NEW s \in Seq(I)
    PROVE  \E k \in [0 .. Len(s) -> Tables] :
             /\ IsKnown(s, k) /\ IsKnown(ConstantFold(s), k)
             /\ ConstantFold(s) \in Seq(I) /\ Len(ConstantFold(s)) = Len(s)
             /\ \A j \in 1 .. Len(s) :
                  /\ ConstantFold(s)[j] = Folded(k[j - 1], s[j])
                  /\ Folded(k[j - 1], ConstantFold(s)[j]) = ConstantFold(s)[j]
<1>1. PICK k \in [0 .. Len(s) -> Tables] :
        /\ IsKnown(s, k)
        /\ ConstantFold(s) = [j \in DOMAIN s |-> Folded(k[j - 1], s[j])]
    BY KnownIs
<1> DEFINE w == ConstantFold(s)
           len == Len(s)
<1>2. len \in Nat /\ (\A j \in 1 .. len : s[j] \in I) /\ DOMAIN s = 1 .. len
    OBVIOUS
<1>3. \A j \in 1 .. len : k[j - 1] \in Tables
    OBVIOUS
<1> HIDE DEF w, len
<1>4. w = [j \in 1 .. len |-> Folded(k[j - 1], s[j])]
    BY <1>1, <1>2 DEF w
<1>5. ASSUME NEW j \in 1 .. len
      PROVE  /\ w[j] = Folded(k[j - 1], s[j]) /\ w[j] \in I
             /\ Folded(k[j - 1], w[j]) = w[j]
             /\ Learnt(k[j - 1], w[j]) = Learnt(k[j - 1], s[j])
  <2>1. w[j] = Folded(k[j - 1], s[j]) /\ s[j] \in I /\ k[j - 1] \in Tables
    BY <1>2, <1>3, <1>4
  <2> QED
    BY <2>1, FoldedIs
<1>6. w \in Seq(I) /\ Len(w) = len
    BY <1>2, <1>4, <1>5
<1>7. IsKnown(w, k)
    BY <1>1, <1>5, <1>6 DEF IsKnown, len
<1> QED
    BY <1>1, <1>5, <1>6, <1>7 DEF w, len

\* A part of a table of constants.
SubTable(a, b) == DOMAIN a \subseteq DOMAIN b /\ \A d \in DOMAIN a : a[d] = b[d]

\* Where a table folds nothing, a part of it folds nothing and stays a part.
LEMMA LearntLess ==
    ASSUME NEW I, IsCode(I), NEW i \in I, NEW a \in Tables, NEW b \in Tables,
           SubTable(a, b), Folded(b, i) = i
    PROVE  /\ Folded(a, i) = i /\ SubTable(Learnt(a, i), Learnt(b, i))
           /\ DOMAIN Learnt(a, i) \subseteq DOMAIN a \cup Dsts(i)
<1>1. BothKnown(b, i) => Exact(i.fn, b[i.lhs], b[i.rhs]) \notin Ints
  <2>1. BothKnown(b, i) /\ Exact(i.fn, b[i.lhs], b[i.rhs]) \in Ints => Folded(b, i).op = "const"
    BY DEF Folded, Const
  <2> QED
    BY <2>1 DEF BothKnown
<1>2. BothKnown(a, i) => BothKnown(b, i) /\ a[i.lhs] = b[i.lhs] /\ a[i.rhs] = b[i.rhs]
    BY DEF BothKnown, SubTable
<1>3. Folded(a, i) = i
    BY <1>1, <1>2 DEF Folded
<1>4. CASE i.op = "const"
  <2>1. Learnt(a, i) = With(a, i.dst, i.val) /\ Learnt(b, i) = With(b, i.dst, i.val)
    BY <1>3, <1>4 DEF Learnt
  <2>2. Dsts(i) = {i.dst}
    BY <1>4 DEF Dsts
  <2> QED
    BY <1>3, <2>1, <2>2 DEF With, SubTable
<1>5. CASE i.op # "const"
  <2>1. \A t \in {a, b} : Learnt(t, i) =
          IF BothKnown(t, i) THEN t ELSE [d \in DOMAIN t \ Dsts(i) |-> t[d]]
    BY <1>3, <1>5, Zenon DEF Learnt
  <2>2. CASE BothKnown(a, i)
    <3>1. Learnt(a, i) = a /\ Learnt(b, i) = b
      BY <1>2, <2>1, <2>2, Zenon
    <3> QED
      BY <1>3, <3>1
  <2>3. CASE ~BothKnown(a, i)
    <3>1. Learnt(a, i) = [d \in DOMAIN a \ Dsts(i) |-> a[d]]
      BY <2>1, <2>3, Zenon
    <3>2. Learnt(b, i) = b \/ Learnt(b, i) = [d \in DOMAIN b \ Dsts(i) |-> b[d]]
      BY <2>1, Zenon
    <3> QED
      BY <1>3, <3>1, <3>2 DEF SubTable
  <2> QED
    BY <2>2, <2>3
<1> QED
    BY <1>4, <1>5

\* An instruction changes what is known of its own result only.
LEMMA LearntOther ==
    ASSUME NEW I, IsCode(I), NEW i \in I, NEW a \in Tables, NEW b \in Tables,
           SubTable(a, b), Dsts(i) \cap DOMAIN a = {}
    PROVE  SubTable(a, Learnt(b, i))
<1> DEFINE j == Folded(b, i)
<1>1. Dsts(j) = Dsts(i)
    BY FoldedIs
<1> HIDE DEF j
<1>2. CASE j.op = "const"
  <2>1. Learnt(b, i) = With(b, j.dst, j.val)
    BY <1>2 DEF Learnt, j
  <2>2. j.dst \in Dsts(i)
    BY <1>1, <1>2 DEF Dsts
  <2> QED
    BY <2>1, <2>2 DEF With, SubTable
<1>3. CASE j.op # "const"
  <2>1. Learnt(b, i) = IF BothKnown(b, i) THEN b ELSE [d \in DOMAIN b \ Dsts(i) |-> b[d]]
    BY <1>3, Zenon DEF Learnt, j
  <2>2. Learnt(b, i) = b \/ Learnt(b, i) = [d \in DOMAIN b \ Dsts(i) |-> b[d]]
    BY <2>1, Zenon
  <2> QED
    BY <2>2 DEF SubTable
<1> QED
    BY <1>2, <1>3

\* A folded stream that is pruned has nothing left to fold.
LEMMA FoldPruned ==
    ASSUME NEW I, IsCode(I), NEW w \in Seq(I), NEW U, NEW k \in [0 .. Len(w) -> Tables],
           IsKnown(w, k), \A j \in 1 .. Len(w) : Folded(k[j - 1], w[j]) = w[j]
    PROVE  ConstantFold(Retained(w, U)) = Retained(w, U)
<1> DEFINE t == Retained(w, U)
           len == Len(w)
           new == Len(t)
<1>1. t \in Seq(I)
    BY RetainedIs
<1>2. PICK p \in [0 .. len -> Nat] : IsKept(w, U, t, p)
    BY RetainedIs
<1>3. PICK q \in [0 .. new -> Tables] :
        /\ IsKnown(t, q)
        /\ ConstantFold(t) = [j \in DOMAIN t |-> Folded(q[j - 1], t[j])]
    BY <1>1, KnownIs
<1>4. \A j \in 0 .. len : p[j] \in Nat /\ p[j] <= new
    BY <1>1, <1>2, PlacesIs
<1>5. /\ len \in Nat /\ new \in Nat /\ (\A j \in 1 .. len : w[j] \in I)
      /\ DOMAIN t = 1 .. new
    BY <1>1
<1>6. /\ p[0] = 0
      /\ \A j \in 1 .. len : IF Dsts(w[j]) \subseteq U
                             THEN p[j] = p[j - 1] + 1 /\ p[j] <= new /\ t[p[j]] = w[j]
                             ELSE p[j] = p[j - 1]
      /\ \A j \in 1 .. new : \E h \in 1 .. len : p[h] = j /\ p[h - 1] = j - 1 /\ t[j] = w[h]
    BY <1>2 DEF IsKept
<1>7. /\ k[0] = NoneKnown /\ \A j \in 1 .. len : k[j] = Learnt(k[j - 1], w[j])
      /\ q[0] = NoneKnown /\ \A j \in 1 .. new : q[j] = Learnt(q[j - 1], t[j])
    BY <1>3 DEF IsKnown
<1>8. \A j \in 1 .. len : Folded(k[j - 1], w[j]) = w[j]
    OBVIOUS
<1> HIDE DEF t, len, new
<1> DEFINE Less(j) == SubTable(q[p[j]], k[j]) /\ DOMAIN q[p[j]] \subseteq U
           P == {j \in 0 .. len : Less(j)}
<1>9. 0 \in P
  <2>1. SubTable(NoneKnown, NoneKnown) /\ DOMAIN NoneKnown \subseteq U
    BY DEF SubTable, NoneKnown
  <2> QED
    BY <1>5, <1>6, <1>7, <2>1
<1>10. ASSUME NEW j \in 1 .. len, j - 1 \in P PROVE j \in P
  <2> DEFINE i == w[j]
             a == q[p[j - 1]]
             b == k[j - 1]
  <2>1. SubTable(a, b) /\ DOMAIN a \subseteq U
    BY <1>10
  <2>2. p[j - 1] \in Nat /\ p[j] \in Nat /\ p[j - 1] <= new /\ p[j] <= new /\ j \in 0 .. len
    BY <1>4, <1>5
  <2>3. a \in Tables /\ b \in Tables /\ i \in I
    <3>1. p[j - 1] \in 0 .. new /\ j - 1 \in 0 .. len
      BY <1>5, <2>2
    <3>2. a \in Tables /\ i \in I
      BY <1>5, <3>1
    <3>3. b \in Tables
      BY <3>1 DEF len
    <3> QED
      BY <3>2, <3>3
  <2>4. k[j] = Learnt(b, i) /\ Folded(b, i) = i
    BY <1>7, <1>8
  <2> HIDE DEF i, a, b
  <2>5. CASE Dsts(i) \subseteq U
    <3>1. p[j] = p[j - 1] + 1 /\ t[p[j]] = i
      BY <1>6, <2>5 DEF i
    <3>2. p[j] \in 1 .. new /\ p[j] - 1 = p[j - 1]
      BY <1>5, <2>2, <3>1, NextPlace
    <3>3. q[p[j]] = Learnt(a, i)
      BY <1>7, <3>1, <3>2 DEF a
    <3>4. SubTable(Learnt(a, i), Learnt(b, i)) /\ DOMAIN Learnt(a, i) \subseteq DOMAIN a \cup Dsts(i)
      BY <2>1, <2>3, <2>4, LearntLess
    <3> QED
      BY <2>1, <2>2, <2>4, <2>5, <3>3, <3>4
  <2>6. CASE ~(Dsts(i) \subseteq U)
    <3>1. p[j] = p[j - 1]
      BY <1>6, <2>6 DEF i
    <3>2. Dsts(i) \cap DOMAIN a = {}
      BY <2>1, <2>3, <2>6, CodeIs
    <3>3. SubTable(a, Learnt(b, i))
      BY <2>1, <2>3, <3>2, LearntOther
    <3>4. q[p[j]] = a
      BY <3>1 DEF a
    <3> QED
      BY <2>1, <2>2, <2>4, <3>3, <3>4
  <2> QED
    BY <2>5, <2>6
<1> HIDE DEF P
<1>11. \A j \in 0 .. len : j \in P
    BY <1>5, <1>9, <1>10, Upward
<1>12. ASSUME NEW j \in 1 .. new PROVE Folded(q[j - 1], t[j]) = t[j]
  <2>1. PICK h \in 1 .. len : p[h] = j /\ p[h - 1] = j - 1 /\ t[j] = w[h]
    BY <1>6
  <2>2. h - 1 \in 0 .. len /\ j - 1 \in 0 .. new /\ w[h] \in I
    BY <1>5
  <2>3. q[j - 1] \in Tables /\ k[h - 1] \in Tables
    BY <2>2 DEF len
  <2>4. SubTable(q[j - 1], k[h - 1])
    BY <1>11, <2>1, <2>2 DEF P
  <2>5. Folded(k[h - 1], w[h]) = w[h]
    BY <1>8
  <2> QED
    BY <2>1, <2>2, <2>3, <2>4, <2>5, LearntLess
<1>13. ConstantFold(t) = [j \in 1 .. new |-> t[j]]
    BY <1>3, <1>5, <1>12
<1>14. t = [j \in 1 .. new |-> t[j]]
    BY <1>1, <1>5
<1> QED
    BY <1>13, <1>14 DEF t

LEMMA ReorderIs ==
    ASSUME NEW I, IsCode(I), NEW s \in Seq(I)
    PROVE  /\ ReorderCommutativeOps(s) \in Seq(I) /\ Len(ReorderCommutativeOps(s)) = Len(s)
           /\ \A j \in 1 .. Len(s) : ReorderCommutativeOps(s)[j] = Commuted(s[j])
<1>1. DOMAIN s = 1 .. Len(s) /\ Len(s) \in Nat /\ \A j \in 1 .. Len(s) : s[j] \in I
    OBVIOUS
<1>2. \A j \in 1 .. Len(s) : Commuted(s[j]) \in I
    BY <1>1, CommutedIs
<1>3. ReorderCommutativeOps(s) = [j \in 1 .. Len(s) |-> Commuted(s[j])]
    BY <1>1 DEF ReorderCommutativeOps
<1> QED
    BY <1>1, <1>2, <1>3

-----------------------------------------------------------------------------
(***************************************************************************)
(* The whole pass.                                                         *)
(***************************************************************************)

\* The stream that leaves the pass.
Passed(m) == PruneDead(ConstantFold(ReorderCommutativeOps(PruneDead(m.instrs, m.next))), m.next)

\* What leaves the pass was folded, in order and pruned, and names no id that
\* did not come in.
LEMMA PassedIs ==
    ASSUME NEW I, IsCode(I), NEW m, m.instrs \in Seq(I), m.next \in Nat
    PROVE  /\ Passed(m) \in Seq(I)
           /\ ConstantFold(Passed(m)) = Passed(m)
           /\ ReorderCommutativeOps(Passed(m)) = Passed(m)
           /\ \A j \in 1 .. Len(Passed(m)) : \E h \in 1 .. Len(m.instrs) :
                Named(Passed(m)[j]) \subseteq Named(m.instrs[h])
<1> DEFINE s == m.instrs
           n == m.next
           a == PruneDead(s, n)
           b == ReorderCommutativeOps(a)
           w == ConstantFold(b)
           out == PruneDead(w, n)
<1>1. a \in Seq(I) /\ \E p \in [0 .. Len(s) -> Nat] : IsKept(s, Used(s, n), a, p)
    BY RetainedIs DEF PruneDead
<1>2. b \in Seq(I) /\ Len(b) = Len(a) /\ \A j \in 1 .. Len(a) : b[j] = Commuted(a[j])
    BY <1>1, ReorderIs
<1>3. PICK k \in [0 .. Len(b) -> Tables] :
        /\ IsKnown(w, k) /\ w \in Seq(I) /\ Len(w) = Len(b)
        /\ \A j \in 1 .. Len(b) : w[j] = Folded(k[j - 1], b[j]) /\ Folded(k[j - 1], w[j]) = w[j]
    BY <1>2, FoldAgain
<1>4. out \in Seq(I) /\ \E p \in [0 .. Len(w) -> Nat] : IsKept(w, Used(w, n), out, p)
    BY <1>3, RetainedIs DEF PruneDead
<1>5. \A j \in 1 .. Len(a) : \E h \in 1 .. Len(s) : a[j] = s[h]
    BY <1>1 DEF IsKept
<1>6. \A j \in 1 .. Len(out) : \E h \in 1 .. Len(w) : out[j] = w[h]
    BY <1>4 DEF IsKept
<1>7. ConstantFold(out) = out
  <2>1. k \in [0 .. Len(w) -> Tables] /\ \A j \in 1 .. Len(w) : Folded(k[j - 1], w[j]) = w[j]
    BY <1>3
  <2> HIDE DEF w
  <2> QED
    BY <1>3, <2>1, FoldPruned DEF PruneDead
<1> HIDE DEF s, a, b, w, out
<1>8. ASSUME NEW j \in 1 .. Len(out)
      PROVE  /\ Commuted(out[j]) = out[j]
             /\ \E h \in 1 .. Len(s) : Named(out[j]) \subseteq Named(s[h])
  <2>1. PICK h \in 1 .. Len(w) : out[j] = w[h]
    BY <1>6
  <2>2. h \in 1 .. Len(b) /\ h \in 1 .. Len(a)
    BY <1>2, <1>3
  <2>3. a[h] \in I /\ k[h - 1] \in Tables /\ b[h] \in I
    <3>1. h - 1 \in 0 .. Len(b)
      BY <1>2, <2>2
    <3>2. a[h] \in I
      BY <1>1, <2>2
    <3>3. b[h] \in I
      BY <1>2, <2>2
    <3> QED
      BY <3>1, <3>2, <3>3
  <2>4. w[h] = Folded(k[h - 1], b[h]) /\ b[h] = Commuted(a[h])
    BY <1>2, <1>3, <2>2
  <2>5. Commuted(w[h]) = w[h] /\ Named(b[h]) = Named(a[h])
    BY <2>3, <2>4, CommutedIs
  <2>6. Named(w[h]) \subseteq Named(b[h])
    BY <2>3, <2>4, FoldedIs
  <2>7. PICK x \in 1 .. Len(s) : a[h] = s[x]
    BY <1>5, <2>2
  <2> QED
    BY <2>1, <2>5, <2>6, <2>7
<1>9. ReorderCommutativeOps(out) = out
  <2>1. out = [j \in 1 .. Len(out) |-> out[j]] /\ DOMAIN out = 1 .. Len(out)
    BY <1>4
  <2>2. ReorderCommutativeOps(out) = [j \in 1 .. Len(out) |-> out[j]]
    BY <1>8, <2>1 DEF ReorderCommutativeOps
  <2> QED
    BY <2>1, <2>2
<1> QED
    BY <1>4, <1>7, <1>8, <1>9 DEF Passed, s, a, b, w, out

\* The next fresh id is above every id that is named.
LEMMA NextIs ==
    ASSUME NEW I, IsCode(I), NEW s \in Seq(I), NEW n \in Nat, Fits(s, n)
    PROVE  /\ NextSequentialId(s) \in Nat /\ NextSequentialId(s) <= n
           /\ Fits(s, NextSequentialId(s))
<1> DEFINE S == {0} \cup UNION {{id + 1 : id \in Named(i)} : i \in ToSet(s)}
           Gaps == {n - x : x \in S}
<1>1. \A i \in ToSet(s) : \E k \in 1 .. Len(s) : i = s[k]
    BY DEF ToSet
<1>2. \A k \in 1 .. Len(s) : s[k] \in ToSet(s) /\ Named(s[k]) \subseteq Nat
  <2> SUFFICES ASSUME NEW k \in 1 .. Len(s) PROVE s[k] \in ToSet(s) /\ Named(s[k]) \subseteq Nat
    OBVIOUS
  <2>1. s[k] \in I /\ k \in DOMAIN s
    OBVIOUS
  <2> QED
    BY <2>1, CodeIs DEF ToSet
<1>3. \A x \in S : x \in Nat /\ x <= n
  <2> SUFFICES ASSUME NEW i \in ToSet(s), NEW id \in Named(i) PROVE id + 1 \in Nat /\ id + 1 <= n
    OBVIOUS
  <2>1. PICK k \in 1 .. Len(s) : i = s[k]
    BY <1>1
  <2>2. id \in Nat /\ id < n
    BY <1>2, <2>1 DEF Fits
  <2> QED
    BY <2>2
<1>4. \A k \in 1 .. Len(s) : \A id \in Named(s[k]) : id + 1 \in S /\ id \in Nat
    BY <1>2
<1>5. 0 \in S
    OBVIOUS
<1> HIDE DEF S
<1>6. PICK g \in Gaps : \A h \in Gaps : g <= h
  <2>1. Gaps \in SUBSET Nat /\ Gaps # {}
    BY <1>3, <1>5
  <2> HIDE DEF Gaps
  <2> QED
    BY <2>1, LeastIs
<1>7. PICK x \in S : \A y \in S : x >= y
  <2>1. PICK x \in S : g = n - x
    OBVIOUS
  <2>2. \A y \in S : n - x <= n - y
    BY <1>6, <2>1
  <2> QED
    BY <1>3, <2>2
<1>8. Max(S) \in S /\ \A y \in S : Max(S) >= y
    BY <1>7 DEF Max
<1>9. NextSequentialId(s) = Max(S)
    BY DEF NextSequentialId, S
<1> HIDE DEF Gaps
<1>10. ASSUME NEW k \in 1 .. Len(s), NEW id \in Named(s[k]) PROVE id < Max(S)
  <2> DEFINE top == Max(S)
  <2>1. id + 1 \in S /\ id \in Nat
    BY <1>4
  <2>2. top \in Nat /\ top >= id + 1
    BY <1>3, <1>8, <2>1
  <2> HIDE DEF top
  <2>3. id < top
    BY <2>1, <2>2
  <2> QED
    BY <2>3 DEF top
<1> QED
    BY <1>3, <1>8, <1>9, <1>10 DEF Fits

\* Canonicalising what was canonicalised changes nothing ("Running the pass
\* repeatedly is idempotent", ir_canonical.rs:30-31), for a module of any
\* length whose ids are below its next one, as the verifier asks; what the
\* regions of an `if` or a `while` hold does not matter.
THEOREM CanonicaliseIdempotent ==
    ASSUME NEW I, IsCode(I), NEW m \in [instrs : Seq(I), next : Nat, copies : SUBSET Nat],
           Fits(m.instrs, m.next)
    PROVE  Canonical(Canonicalize(m))
<1> DEFINE out == Passed(m)
           n == NextSequentialId(out)
           c == Canonicalize(m)
<1>1. m.instrs \in Seq(I) /\ m.next \in Nat
    OBVIOUS
<1>2. /\ out \in Seq(I) /\ ConstantFold(out) = out /\ ReorderCommutativeOps(out) = out
      /\ \A j \in 1 .. Len(out) : \E h \in 1 .. Len(m.instrs) :
           Named(out[j]) \subseteq Named(m.instrs[h])
    BY <1>1, PassedIs
<1>3. c = [m EXCEPT !.instrs = out, !.next = n]
    BY DEF Canonicalize, Passed
<1>4. c.instrs = out /\ c.next = n
    BY <1>3
<1>5. \E x \in Seq(I) : out = PruneDead(x, m.next)
  <2>1. PruneDead(m.instrs, m.next) \in Seq(I)
    BY <1>1, RetainedIs DEF PruneDead
  <2>2. ReorderCommutativeOps(PruneDead(m.instrs, m.next)) \in Seq(I)
    BY <2>1, ReorderIs
  <2>3. ConstantFold(ReorderCommutativeOps(PruneDead(m.instrs, m.next))) \in Seq(I)
    BY <2>2, FoldAgain
  <2> QED
    BY <2>3 DEF Passed
<1> HIDE DEF out
<1>6. Fits(out, m.next)
    BY <1>2 DEF Fits
<1>7. n \in Nat /\ Fits(out, n)
    BY <1>1, <1>2, <1>6, NextIs
<1> HIDE DEF n, c
<1>8. PruneDead(out, n) = out
  <2>1. PICK x \in Seq(I) : out = PruneDead(x, m.next)
    BY <1>5
  <2> QED
    BY <1>1, <1>7, <2>1, PruneAgain
<1>9. Passed(c) = out
    BY <1>2, <1>4, <1>8 DEF Passed
<1>10. Canonicalize(c) = [c EXCEPT !.instrs = out, !.next = n]
    BY <1>9 DEF Canonicalize, Passed, n
<1>11. [c EXCEPT !.instrs = out, !.next = n] = c
    BY <1>3
<1> QED
    BY <1>10, <1>11 DEF Canonical, c

-----------------------------------------------------------------------------
(***************************************************************************)
(* What a stream without regions prints.                                   *)
(***************************************************************************)

Vals     == Ints \cup {Undef}
Memories == UNION {[D -> Vals] : D \in SUBSET Nat}
Machines == [vals : Memories, outs : Seq(Vals)]
Start    == [vals |-> [d \in {} |-> 0], outs |-> <<>>]

\* g[k] is the machine after the first k instructions.
IsRun(s, g) == g[0] = Start /\ \A k \in 1 .. Len(s) : g[k] = RunPlain(g[k - 1], s[k])

Printed(s) == (CHOOSE g \in [0 .. Len(s) -> Machines] : IsRun(s, g))[Len(s)].outs

LEMMA PlainIsCode == IsCode(Plain)
BY DEF IsCode

LEMMA ApplyIs ==
    ASSUME NEW f \in Operators, NEW l \in Vals, NEW r \in Vals
    PROVE  /\ Apply(f, l, r) \in Vals
           /\ f \in {"+", "*"} => Apply(f, r, l) = Apply(f, l, r)
           /\ l \in Ints /\ r \in Ints /\ Exact(f, l, r) \in Ints => Apply(f, l, r) = Exact(f, l, r)
<1>1. MaxInt \in Nat /\ MaxInt > 0
    BY IntAssumption
<1>2. \A x \in Int : Wrap(x) \in Ints
  <2>1. \A x \in Int : (x - MinInt) % (MaxInt - MinInt + 1) \in 0 .. MaxInt - MinInt
    <3> DEFINE y == MaxInt - MinInt + 1
    <3>1. y \in Nat /\ y > 0 /\ MaxInt - MinInt = y - 1 /\ MinInt \in Int
      BY <1>1 DEF MinInt
    <3>2. \A z \in Int : z % y \in 0 .. y - 1
      BY <3>1
    <3> HIDE DEF y
    <3>3. \A x \in Int : (x - MinInt) % y \in 0 .. MaxInt - MinInt
      BY <3>1, <3>2
    <3> QED
      BY <3>3 DEF y
  <2>2. \A x \in Int : \A z \in 0 .. MaxInt - MinInt : z + MinInt \in Ints
    BY <1>1 DEF Ints, MinInt
  <2> QED
    BY <2>1, <2>2 DEF Wrap
<1>3. \A x \in Ints : Wrap(x) = x
  <2> SUFFICES ASSUME NEW x \in Ints PROVE Wrap(x) = x
    OBVIOUS
  <2> DEFINE y == MaxInt - MinInt + 1
             z == x - MinInt
  <2>1. z \in 0 .. y - 1 /\ y \in Nat /\ z + MinInt = x
    BY <1>1 DEF Ints, MinInt
  <2>2. Wrap(x) = (z % y) + MinInt
    BY DEF Wrap
  <2> HIDE DEF y, z
  <2>3. z % y = z
    BY <2>1
  <2> QED
    BY <2>1, <2>2, <2>3
<1>4. Undef \notin Ints
    BY <1>1 DEF Undef, Ints, MinInt
<1>5. l \in Ints /\ r \in Ints => Exact(f, l, r) \in Int
  <2>1. Ints \subseteq Int
    BY <1>1 DEF Ints, MinInt
  <2> QED
    BY <2>1, ExactIs
<1>6. l \in Ints /\ r \in Ints /\ f \in {"+", "*"} => Exact(f, r, l) = Exact(f, l, r)
  <2>1. Ints \subseteq Int
    BY <1>1 DEF Ints, MinInt
  <2> QED
    BY <2>1, ExactIs
<1>7. CASE Undef \in {l, r}
    BY <1>4, <1>7 DEF Apply, Vals
<1>8. CASE Undef \notin {l, r}
  <2>1. l \in Ints /\ r \in Ints /\ Undef \notin {r, l}
    BY <1>8 DEF Vals
  <2>2. Apply(f, l, r) = Wrap(Exact(f, l, r)) /\ Apply(f, r, l) = Wrap(Exact(f, r, l))
    BY <1>8, <2>1 DEF Apply
  <2>3. Apply(f, l, r) \in Vals
    BY <1>2, <1>5, <2>1, <2>2 DEF Vals
  <2> QED
    BY <1>3, <1>6, <2>1, <2>2, <2>3
<1> QED
    BY <1>7, <1>8

LEMMA ValueIs ==
    ASSUME NEW f \in Memories
    PROVE  /\ DOMAIN f \subseteq Nat /\ \A x : Value(f, x) \in Vals
           /\ \A d \in Nat : \A v \in Vals :
                /\ With(f, d, v) \in Memories
                /\ \A x : Value(With(f, d, v), x) = IF x = d THEN v ELSE Value(f, x)
<1>1. DOMAIN f \subseteq Nat /\ \A x \in DOMAIN f : f[x] \in Vals
    BY DEF Memories
<1>2. \A x : Value(f, x) \in Vals
    BY <1>1 DEF Value, Vals
<1>3. ASSUME NEW d \in Nat, NEW v \in Vals
      PROVE  /\ With(f, d, v) \in Memories
             /\ \A x : Value(With(f, d, v), x) = IF x = d THEN v ELSE Value(f, x)
  <2>1. With(f, d, v) \in [DOMAIN f \cup {d} -> Vals]
    BY <1>1 DEF With
  <2>2. With(f, d, v) \in Memories
    BY <1>1, <2>1 DEF Memories
  <2>3. \A x : Value(With(f, d, v), x) = IF x = d THEN v ELSE Value(f, x)
    BY DEF Value, With
  <2> QED
    BY <2>2, <2>3
<1> QED
    BY <1>1, <1>2, <1>3

\* What one instruction does.
LEMMA RunPlainIs ==
    ASSUME NEW i \in Plain, NEW r \in Machines
    PROVE  /\ RunPlain(r, i) \in Machines
           /\ i \in Consts => RunPlain(r, i) = [r EXCEPT !.vals = With(r.vals, i.dst, i.val)]
           /\ i \in Binops => RunPlain(r, i) = [r EXCEPT !.vals =
                 With(r.vals, i.dst, Apply(i.fn, Value(r.vals, i.lhs), Value(r.vals, i.rhs)))]
           /\ i \in Outputs => RunPlain(r, i) = [r EXCEPT !.outs = Append(r.outs, Value(r.vals, i.id))]
<1>1. r.vals \in Memories /\ r.outs \in Seq(Vals)
    BY DEF Machines
<1>2. CASE i \in Consts
  <2>1. i.op = "const" /\ i.dst \in Nat /\ i.val \in Vals /\ i \notin Binops /\ i \notin Outputs
    BY <1>2 DEF Consts, Vals, Binops, Outputs
  <2>2. RunPlain(r, i) = [r EXCEPT !.vals = With(r.vals, i.dst, i.val)]
    BY <2>1 DEF RunPlain
  <2>3. With(r.vals, i.dst, i.val) \in Memories
    BY <1>1, <2>1, ValueIs
  <2> QED
    BY <2>1, <2>2, <2>3 DEF Machines
<1>3. CASE i \in Binops
  <2> DEFINE v == Apply(i.fn, Value(r.vals, i.lhs), Value(r.vals, i.rhs))
  <2>1. i.op = "bin" /\ i.dst \in Nat /\ i.fn \in Operators /\ i \notin Consts /\ i \notin Outputs
    BY <1>3 DEF Consts, Binops, Outputs
  <2>2. RunPlain(r, i) = [r EXCEPT !.vals = With(r.vals, i.dst, v)]
    BY <2>1 DEF RunPlain
  <2>3. v \in Vals
    BY <1>1, <2>1, ValueIs, ApplyIs
  <2> HIDE DEF v
  <2>4. With(r.vals, i.dst, v) \in Memories
    BY <1>1, <2>1, <2>3, ValueIs
  <2>5. RunPlain(r, i) \in Machines
    BY <2>2, <2>4 DEF Machines
  <2> QED
    BY <2>1, <2>2, <2>5 DEF v
<1>4. CASE i \in Outputs
  <2>1. i.op = "output" /\ i \notin Consts /\ i \notin Binops
    BY <1>4 DEF Consts, Binops, Outputs
  <2>2. RunPlain(r, i) = [r EXCEPT !.outs = Append(r.outs, Value(r.vals, i.id))]
    BY <2>1 DEF RunPlain
  <2>3. Value(r.vals, i.id) \in Vals
    BY <1>1, ValueIs
  <2> DEFINE o == Append(r.outs, Value(r.vals, i.id))
  <2>4. o \in Seq(Vals)
    BY <1>1, <2>3
  <2> HIDE DEF o
  <2>5. [r EXCEPT !.outs = o] \in Machines
    BY <2>4 DEF Machines
  <2> QED
    BY <2>1, <2>2, <2>5 DEF o
<1> QED
    BY <1>2, <1>3, <1>4 DEF Plain

\* A run exists, and it is the only one.
LEMMA PrintedIs ==
    ASSUME NEW s \in Seq(Plain)
    PROVE  /\ \E g \in [0 .. Len(s) -> Machines] : IsRun(s, g)
           /\ \A g \in [0 .. Len(s) -> Machines] : IsRun(s, g) => Printed(s) = g[Len(s)].outs
<1> DEFINE len == Len(s)
           T == Machines
           step == [k \in 1 .. len |-> [r \in T |-> RunPlain(r, s[k])]]
<1>1. len \in Nat /\ \A k \in 1 .. len : s[k] \in Plain
    OBVIOUS
<1>2. PICK q \in [0 .. len -> T] : IsRun(s, q)
  <2>1. \A k \in 1 .. len : \A r \in T : step[k][r] \in T
    BY <1>1, RunPlainIs
  <2>2. Start \in T
    <3> DEFINE f == [d \in {} |-> 0]
    <3>1. f \in [{} -> Vals] /\ {} \in SUBSET Nat
      OBVIOUS
    <3>2. f \in Memories
      BY <3>1 DEF Memories
    <3> HIDE DEF f
    <3>3. [vals |-> f, outs |-> <<>>] \in Machines
      BY <3>2 DEF Machines
    <3> QED
      BY <3>3 DEF Start, f
  <2>3. PICK q \in [0 .. len -> T] : Follows(len, Start, step, q)
    <3> HIDE DEF step, T, len
    <3> QED
      BY <1>1, <2>1, <2>2, Recursion
  <2>4. ASSUME NEW k \in 1 .. len PROVE q[k] = RunPlain(q[k - 1], s[k])
    <3>1. q[k - 1] \in T
      BY <1>1
    <3> HIDE DEF T, len
    <3> QED
      BY <2>3, <3>1 DEF Follows
  <2> QED
    BY <2>3, <2>4 DEF Follows, IsRun
<1> HIDE DEF len, T
<1>3. ASSUME NEW f \in [0 .. len -> T], NEW g \in [0 .. len -> T], IsRun(s, f), IsRun(s, g)
      PROVE  f[len] = g[len]
  <2> DEFINE P == {k \in 0 .. len : f[k] = g[k]}
  <2>1. 0 \in P
    BY <1>1, <1>3 DEF IsRun
  <2>2. ASSUME NEW k \in 1 .. len, k - 1 \in P PROVE k \in P
    BY <1>3, <2>2 DEF IsRun, len
  <2> HIDE DEF P
  <2>3. \A k \in 0 .. len : k \in P
    BY <1>1, <2>1, <2>2, Upward
  <2>4. len \in 0 .. len
    BY <1>1
  <2> QED
    BY <2>3, <2>4 DEF P
<1> DEFINE c == CHOOSE g \in [0 .. len -> T] : IsRun(s, g)
<1>4. c \in [0 .. len -> T] /\ IsRun(s, c)
    BY <1>2
<1>5. Printed(s) = c[len].outs
    BY DEF Printed, len, T
<1> HIDE DEF c
<1> QED
    BY <1>2, <1>3, <1>4, <1>5 DEF len, T

-----------------------------------------------------------------------------
(***************************************************************************)
(* The passes print the same.                                              *)
(***************************************************************************)

\* An id is defined once, before it is read.
Ordered(s) ==
    \A h, k \in 1 .. Len(s) :
      /\ Dsts(s[k]) \cap Operands(s[h]) # {} => k < h
      /\ Dsts(s[k]) \cap Dsts(s[h]) # {} => k = h

\* Two machines that printed the same and hold the same in the ids of U.
Agree(a, b, U) == a.outs = b.outs /\ \A x \in U : Value(a.vals, x) = Value(b.vals, x)

LEMMA StepAgrees ==
    ASSUME NEW i \in Plain, NEW a \in Machines, NEW b \in Machines, NEW U,
           Agree(a, b, U), Operands(i) \subseteq U
    PROVE  Agree(RunPlain(a, i), RunPlain(b, i), U)
<1>1. a.vals \in Memories /\ b.vals \in Memories
    BY DEF Machines
<1>2. ASSUME NEW d \in Nat, NEW v \in Vals
      PROVE  Agree([a EXCEPT !.vals = With(a.vals, d, v)], [b EXCEPT !.vals = With(b.vals, d, v)], U)
  <2> DEFINE f == With(a.vals, d, v)
             g == With(b.vals, d, v)
  <2>1. \A x \in U : Value(f, x) = Value(g, x)
    BY <1>1, ValueIs DEF Agree
  <2> HIDE DEF f, g
  <2>2. Agree([a EXCEPT !.vals = f], [b EXCEPT !.vals = g], U)
    BY <2>1 DEF Agree, Machines
  <2> QED
    BY <2>2 DEF f, g
<1>3. CASE i \in Consts
  <2>1. i.dst \in Nat /\ i.val \in Vals
    BY <1>3 DEF Consts, Vals
  <2>2. /\ RunPlain(a, i) = [a EXCEPT !.vals = With(a.vals, i.dst, i.val)]
        /\ RunPlain(b, i) = [b EXCEPT !.vals = With(b.vals, i.dst, i.val)]
    BY <1>3, RunPlainIs
  <2> QED
    BY <1>2, <2>1, <2>2
<1>4. CASE i \in Binops
  <2> DEFINE v == Apply(i.fn, Value(a.vals, i.lhs), Value(a.vals, i.rhs))
  <2>1. i.dst \in Nat /\ i.fn \in Operators /\ i.lhs \in U /\ i.rhs \in U
    BY <1>4 DEF Binops, Operands
  <2>2. v \in Vals
    BY <1>1, <2>1, ValueIs, ApplyIs
  <2>3. v = Apply(i.fn, Value(b.vals, i.lhs), Value(b.vals, i.rhs))
    BY <2>1 DEF Agree
  <2>4. /\ RunPlain(a, i) = [a EXCEPT !.vals = With(a.vals, i.dst, v)]
        /\ RunPlain(b, i) = [b EXCEPT !.vals = With(b.vals, i.dst, v)]
    BY <1>4, <2>3, RunPlainIs
  <2> HIDE DEF v
  <2> QED
    BY <1>2, <2>1, <2>2, <2>4
<1>5. CASE i \in Outputs
  <2>1. i.id \in U
    BY <1>5 DEF Outputs, Operands
  <2>2. Append(a.outs, Value(a.vals, i.id)) = Append(b.outs, Value(b.vals, i.id))
    BY <2>1 DEF Agree
  <2>3. /\ RunPlain(a, i) = [a EXCEPT !.outs = Append(a.outs, Value(a.vals, i.id))]
        /\ RunPlain(b, i) = [b EXCEPT !.outs = Append(b.outs, Value(b.vals, i.id))]
    BY <1>5, RunPlainIs
  <2> DEFINE o == Append(a.outs, Value(a.vals, i.id))
  <2>4. RunPlain(a, i) = [a EXCEPT !.outs = o] /\ RunPlain(b, i) = [b EXCEPT !.outs = o]
    BY <2>2, <2>3
  <2> HIDE DEF o
  <2> QED
    BY <2>4 DEF Agree, Machines
<1> QED
    BY <1>3, <1>4, <1>5 DEF Plain

\* An instruction whose result is not in U can be left out.
LEMMA StepSkips ==
    ASSUME NEW i \in Plain, NEW a \in Machines, NEW b \in Machines, NEW U,
           Agree(a, b, U), ~(Dsts(i) \subseteq U)
    PROVE  Agree(a, RunPlain(b, i), U)
<1>1. b.vals \in Memories
    BY DEF Machines
<1>2. ASSUME NEW v \in Vals, i.dst \in Nat, i.dst \notin U
      PROVE  Agree(a, [b EXCEPT !.vals = With(b.vals, i.dst, v)], U)
  <2> DEFINE g == With(b.vals, i.dst, v)
  <2>1. \A x \in U : Value(g, x) = Value(b.vals, x)
    BY <1>1, <1>2, ValueIs
  <2> HIDE DEF g
  <2>2. Agree(a, [b EXCEPT !.vals = g], U)
    BY <2>1 DEF Agree, Machines
  <2> QED
    BY <2>2 DEF g
<1>3. CASE i \in Consts
  <2>1. i.dst \in Nat /\ i.val \in Vals /\ i.dst \notin U
    BY <1>3 DEF Consts, Vals, Dsts
  <2>2. RunPlain(b, i) = [b EXCEPT !.vals = With(b.vals, i.dst, i.val)]
    BY <1>3, RunPlainIs
  <2> QED
    BY <1>2, <2>1, <2>2
<1>4. CASE i \in Binops
  <2> DEFINE v == Apply(i.fn, Value(b.vals, i.lhs), Value(b.vals, i.rhs))
  <2>1. i.dst \in Nat /\ i.fn \in Operators /\ i.dst \notin U
    BY <1>4 DEF Binops, Dsts
  <2>2. v \in Vals
    BY <1>1, <2>1, ValueIs, ApplyIs
  <2>3. RunPlain(b, i) = [b EXCEPT !.vals = With(b.vals, i.dst, v)]
    BY <1>4, RunPlainIs
  <2> HIDE DEF v
  <2> QED
    BY <1>2, <2>1, <2>2, <2>3
<1>5. CASE i \in Outputs
    BY <1>5 DEF Outputs, Dsts
<1> QED
    BY <1>3, <1>4, <1>5 DEF Plain

\* What is kept reads what is kept.
LEMMA UsedClosed ==
    ASSUME NEW I, IsCode(I), NEW s \in Seq(I), NEW n \in Nat, Fits(s, n), Ordered(s)
    PROVE  \A k \in 1 .. Len(s) : Dsts(s[k]) \subseteq Used(s, n) => Operands(s[k]) \subseteq Used(s, n)
<1> DEFINE len == Len(s)
<1>1. PICK u \in [0 .. len -> SUBSET Nat] : IsMarked(s, n, u)
    BY UsedIs
<1>2. \A k \in 0 .. len : \A j \in 0 .. k : u[j] \subseteq u[k]
    BY <1>1, MarksGrow
<1>3. /\ u[0] = {} /\ u[len] = Used(s, n)
      /\ \A k \in 1 .. len : u[k] = Marked(u[k - 1], s[len + 1 - k], n)
    BY <1>1 DEF IsMarked
<1>4. len \in Nat /\ \A k \in 1 .. len : s[k] \in I
    OBVIOUS
<1>5. \A h, k \in 1 .. len : Dsts(s[k]) \cap Operands(s[h]) # {} => k < h
    BY DEF Ordered
<1>6. \A k \in 1 .. len : \A o \in Named(s[k]) : o < n
    BY DEF Fits
<1> HIDE DEF len
<1> DEFINE P == {k \in 0 .. len : \A x \in u[k] :
                   \E j \in 1 .. k : x \in Operands(s[len + 1 - j]) /\ x \in u[j]}
<1>7. 0 \in P
    BY <1>3, <1>4
<1>8. ASSUME NEW k \in 1 .. len, k - 1 \in P PROVE k \in P
  <2>1. ASSUME NEW x \in u[k]
        PROVE  \E j \in 1 .. k : x \in Operands(s[len + 1 - j]) /\ x \in u[j]
    <3>1. CASE x \in u[k - 1]
      <4>1. PICK j \in 1 .. k - 1 : x \in Operands(s[len + 1 - j]) /\ x \in u[j]
        BY <1>8, <3>1
      <4>2. j \in 1 .. k
        OBVIOUS
      <4> QED
        BY <4>1, <4>2
    <3>2. CASE x \notin u[k - 1]
      <4>1. x \in Operands(s[len + 1 - k])
        BY <1>3, <2>1, <3>2 DEF Marked
      <4>2. k \in 1 .. k
        OBVIOUS
      <4> QED
        BY <2>1, <4>1, <4>2
    <3> QED
      BY <3>1, <3>2
  <2>2. k \in 0 .. len
    OBVIOUS
  <2> QED
    BY <2>1, <2>2
<1> HIDE DEF P
<1>9. \A k \in 0 .. len : k \in P
    BY <1>4, <1>7, <1>8, Upward
<1>10. ASSUME NEW k \in 1 .. len, Dsts(s[k]) \subseteq u[len]
       PROVE  Operands(s[k]) \subseteq u[len]
  <2> DEFINE e == len + 1 - k
             i == s[k]
  <2>1. e \in 1 .. len /\ len + 1 - e = k /\ e - 1 \in 0 .. len /\ len \in 0 .. len /\ e \in 0 .. len
    BY <1>4
  <2>2. u[e] = Marked(u[e - 1], i, n)
    BY <1>3, <2>1
  <2>3. ASSUME NEW d \in Dsts(i) PROVE d \in u[e - 1]
    <3>1. d \in u[len]
      BY <1>10
    <3>2. PICK j \in 1 .. len : d \in Operands(s[len + 1 - j]) /\ d \in u[j]
      BY <1>9, <2>1, <3>1 DEF P
    <3>3. len + 1 - j \in 1 .. len
      BY <1>4
    <3>4. k < len + 1 - j
      BY <1>5, <3>2, <3>3
    <3>5. j \in 0 .. e - 1
      BY <1>4, <3>4
    <3> QED
      BY <1>2, <2>1, <3>2, <3>5
  <2> HIDE DEF e
  <2>4. {o \in Operands(i) : o < n} \subseteq u[e]
    BY <2>2, <2>3 DEF Marked
  <2>5. \A o \in Operands(i) : o < n
    BY <1>4, <1>6, CodeIs
  <2>6. u[e] \subseteq u[len]
    BY <1>2, <1>4, <2>1
  <2> QED
    BY <2>4, <2>5, <2>6
<1> QED
    BY <1>3, <1>10 DEF len

\* Pruning keeps the order, and the bound on the ids.
LEMMA PruneOrdered ==
    ASSUME NEW I, IsCode(I), NEW s \in Seq(I), NEW n \in Nat, Fits(s, n), Ordered(s)
    PROVE  PruneDead(s, n) \in Seq(I) /\ Fits(PruneDead(s, n), n) /\ Ordered(PruneDead(s, n))
<1> DEFINE U == Used(s, n)
           t == Retained(s, U)
           len == Len(s)
           new == Len(t)
<1>1. t \in Seq(I)
    BY RetainedIs
<1>2. PICK p \in [0 .. len -> Nat] : IsKept(s, U, t, p)
    BY RetainedIs
<1>3. \A k \in 0 .. len : \A h \in 0 .. k : p[h] <= p[k]
    BY <1>1, <1>2, PlacesGrow
<1>4. \A j \in 1 .. new : \E k \in 1 .. len : p[k] = j /\ p[k - 1] = j - 1 /\ t[j] = s[k]
    BY <1>2 DEF IsKept
<1>5. /\ \A h, k \in 1 .. len : /\ Dsts(s[k]) \cap Operands(s[h]) # {} => k < h
                                /\ Dsts(s[k]) \cap Dsts(s[h]) # {} => k = h
      /\ \A k \in 1 .. len : \A o \in Named(s[k]) : o < n
    BY DEF Ordered, Fits
<1>6. len \in Nat /\ new \in Nat
    BY <1>1
<1> HIDE DEF U, t, len, new
<1>7. \A j \in 1 .. new : \A o \in Named(t[j]) : o < n
    BY <1>4, <1>5
<1>8. ASSUME NEW h \in 1 .. new, NEW k \in 1 .. new
      PROVE  /\ Dsts(t[k]) \cap Operands(t[h]) # {} => k < h
             /\ Dsts(t[k]) \cap Dsts(t[h]) # {} => k = h
  <2>1. PICK x \in 1 .. len : p[x] = h /\ p[x - 1] = h - 1 /\ t[h] = s[x]
    BY <1>4
  <2>2. PICK y \in 1 .. len : p[y] = k /\ p[y - 1] = k - 1 /\ t[k] = s[y]
    BY <1>4
  <2>3. ASSUME y < x PROVE k < h
    <3>1. x - 1 \in 0 .. len /\ y \in 0 .. x - 1
      BY <1>6, <2>3
    <3>2. p[y] <= p[x - 1]
      BY <1>3, <3>1
    <3> QED
      BY <1>6, <2>1, <2>2, <3>2
  <2> QED
    BY <1>5, <2>1, <2>2, <2>3
<1> QED
    BY <1>1, <1>7, <1>8 DEF PruneDead, U, t, new, Fits, Ordered

\* A pass that leaves each instruction its result, and reads no more.
LEMMA SameOrder ==
    ASSUME NEW I, NEW s \in Seq(I), NEW t \in Seq(I), NEW n, Len(t) = Len(s),
           \A k \in 1 .. Len(s) : /\ Dsts(t[k]) = Dsts(s[k]) /\ Named(t[k]) \subseteq Named(s[k])
                                  /\ Operands(t[k]) \subseteq Operands(s[k]),
           Fits(s, n), Ordered(s)
    PROVE  Fits(t, n) /\ Ordered(t)
<1>1. Fits(t, n)
    BY DEF Fits
<1>2. ASSUME NEW h \in 1 .. Len(t), NEW k \in 1 .. Len(t)
      PROVE  /\ Dsts(t[k]) \cap Operands(t[h]) # {} => k < h
             /\ Dsts(t[k]) \cap Dsts(t[h]) # {} => k = h
  <2>1. h \in 1 .. Len(s) /\ k \in 1 .. Len(s)
    OBVIOUS
  <2>2. /\ Dsts(t[k]) = Dsts(s[k]) /\ Dsts(t[h]) = Dsts(s[h])
        /\ Operands(t[h]) \subseteq Operands(s[h])
    BY <2>1
  <2>3. Dsts(t[k]) \cap Operands(t[h]) # {} => Dsts(s[k]) \cap Operands(s[h]) # {}
    BY <2>2
  <2> QED
    BY <2>1, <2>2, <2>3 DEF Ordered
<1> QED
    BY <1>1, <1>2 DEF Ordered

LEMMA PrunePrints ==
    ASSUME NEW s \in Seq(Plain), NEW n \in Nat, Fits(s, n), Ordered(s)
    PROVE  Printed(PruneDead(s, n)) = Printed(s)
<1> DEFINE U == Used(s, n)
           t == Retained(s, U)
           len == Len(s)
           new == Len(t)
<1>0. IsCode(Plain)
    BY PlainIsCode
<1>1. t \in Seq(Plain)
    BY RetainedIs
<1>2. PICK p \in [0 .. len -> Nat] : IsKept(s, U, t, p)
    BY RetainedIs
<1>3. \A k \in 0 .. len : p[k] \in Nat /\ p[k] <= new
    BY <1>1, <1>2, PlacesIs
<1>4. /\ p[0] = 0 /\ p[len] = new
      /\ \A k \in 1 .. len : IF Dsts(s[k]) \subseteq U
                             THEN p[k] = p[k - 1] + 1 /\ p[k] <= new /\ t[p[k]] = s[k]
                             ELSE p[k] = p[k - 1]
    BY <1>2 DEF IsKept
<1>5. PICK g \in [0 .. len -> Machines] : IsRun(s, g)
    BY PrintedIs
<1>6. PICK q \in [0 .. new -> Machines] : IsRun(t, q)
    BY <1>1, PrintedIs
<1>7. Printed(s) = g[len].outs /\ Printed(t) = q[new].outs
    BY <1>1, <1>5, <1>6, PrintedIs
<1>8. /\ g[0] = Start /\ \A k \in 1 .. len : g[k] = RunPlain(g[k - 1], s[k])
      /\ q[0] = Start /\ \A j \in 1 .. new : q[j] = RunPlain(q[j - 1], t[j])
    BY <1>5, <1>6 DEF IsRun
<1>9. \A k \in 1 .. len : Dsts(s[k]) \subseteq U => Operands(s[k]) \subseteq U
    BY <1>0, UsedClosed
<1>10. len \in Nat /\ new \in Nat /\ \A k \in 1 .. len : s[k] \in Plain
    BY <1>1
<1> HIDE DEF U, t, len, new
<1> DEFINE P == {k \in 0 .. len : Agree(q[p[k]], g[k], U)}
<1>11. 0 \in P
    BY <1>4, <1>8, <1>10 DEF Agree
<1>12. ASSUME NEW k \in 1 .. len, k - 1 \in P PROVE k \in P
  <2> DEFINE i == s[k]
             a == q[p[k - 1]]
             b == g[k - 1]
  <2>1. Agree(a, b, U) /\ i \in Plain /\ k \in 0 .. len /\ k - 1 \in 0 .. len
    BY <1>10, <1>12
  <2>2. p[k - 1] \in Nat /\ p[k] \in Nat /\ p[k - 1] <= new /\ p[k] <= new
    BY <1>3, <2>1
  <2>3. a \in Machines /\ b \in Machines
    <3>1. p[k - 1] \in 0 .. new
      BY <1>10, <2>2
    <3> QED
      BY <1>5, <1>6, <2>1, <3>1
  <2>4. g[k] = RunPlain(b, i)
    BY <1>8
  <2> HIDE DEF i, a, b
  <2>5. CASE Dsts(i) \subseteq U
    <3>1. p[k] = p[k - 1] + 1 /\ t[p[k]] = i
      BY <1>4, <2>5 DEF i
    <3>2. p[k] \in 1 .. new /\ p[k] - 1 = p[k - 1]
      BY <1>10, <2>2, <3>1, NextPlace
    <3>3. q[p[k]] = RunPlain(a, i)
      BY <1>8, <3>1, <3>2 DEF a
    <3>4. Operands(i) \subseteq U
      BY <1>9, <2>5 DEF i
    <3>5. Agree(RunPlain(a, i), RunPlain(b, i), U)
      BY <2>1, <2>3, <3>4, StepAgrees
    <3> QED
      BY <2>1, <2>4, <3>3, <3>5
  <2>6. CASE ~(Dsts(i) \subseteq U)
    <3>1. p[k] = p[k - 1]
      BY <1>4, <2>6 DEF i
    <3>2. q[p[k]] = a
      BY <3>1 DEF a
    <3>3. Agree(a, RunPlain(b, i), U)
      BY <2>1, <2>3, <2>6, StepSkips
    <3> QED
      BY <2>1, <2>4, <3>2, <3>3
  <2> QED
    BY <2>5, <2>6
<1> HIDE DEF P
<1>13. \A k \in 0 .. len : k \in P
    BY <1>10, <1>11, <1>12, Upward
<1>14. Agree(q[new], g[len], U)
  <2>1. len \in 0 .. len
    BY <1>10
  <2> QED
    BY <1>4, <1>13, <2>1 DEF P
<1>15. Printed(t) = Printed(s)
    BY <1>7, <1>14 DEF Agree
<1> QED
    BY <1>15 DEF PruneDead, t, U

LEMMA ReorderPrints ==
    ASSUME NEW s \in Seq(Plain)
    PROVE  Printed(ReorderCommutativeOps(s)) = Printed(s)
<1> DEFINE t == ReorderCommutativeOps(s)
           len == Len(s)
<1>1. t \in Seq(Plain) /\ Len(t) = len /\ \A k \in 1 .. len : t[k] = Commuted(s[k])
    BY PlainIsCode, ReorderIs
<1>2. PICK g \in [0 .. len -> Machines] : IsRun(s, g)
    BY PrintedIs
<1>3. len \in Nat /\ (\A k \in 1 .. len : s[k] \in Plain)
    OBVIOUS
<1>4. ASSUME NEW i \in Plain, NEW r \in Machines PROVE RunPlain(r, Commuted(i)) = RunPlain(r, i)
  <2> DEFINE j == Commuted(i)
  <2>1. CASE i.op = "bin" /\ i.fn \in {"+", "*"} /\ i.rhs < i.lhs
    <3>1. i \in Binops
      BY <2>1, PlainIsCode, CodeIs
    <3>2. j \in Binops /\ j.dst = i.dst /\ j.lhs = i.rhs /\ j.rhs = i.lhs /\ j.fn = i.fn
      BY <2>1, <3>1 DEF Commuted, Binops
    <3>3. r.vals \in Memories
      BY DEF Machines
    <3>4. Value(r.vals, i.lhs) \in Vals /\ Value(r.vals, i.rhs) \in Vals
      BY <3>3, ValueIs
    <3>5. i.fn \in Operators
      BY <3>1 DEF Binops
    <3>6. Apply(i.fn, Value(r.vals, i.rhs), Value(r.vals, i.lhs))
            = Apply(i.fn, Value(r.vals, i.lhs), Value(r.vals, i.rhs))
      BY <2>1, <3>4, <3>5, ApplyIs
    <3> HIDE DEF j
    <3>7. RunPlain(r, i) = [r EXCEPT !.vals =
            With(r.vals, i.dst, Apply(i.fn, Value(r.vals, i.lhs), Value(r.vals, i.rhs)))]
      BY <3>1, RunPlainIs
    <3>8. RunPlain(r, j) = [r EXCEPT !.vals =
            With(r.vals, j.dst, Apply(j.fn, Value(r.vals, j.lhs), Value(r.vals, j.rhs)))]
      <4>1. j \in Plain
        BY <3>2 DEF Plain
      <4> QED
        BY <3>2, <4>1, RunPlainIs
    <3>9. RunPlain(r, j) = RunPlain(r, i)
      BY <3>2, <3>6, <3>7, <3>8
    <3> QED
      BY <3>9 DEF j
  <2>2. CASE ~(i.op = "bin" /\ i.fn \in {"+", "*"} /\ i.rhs < i.lhs)
    BY <2>2 DEF Commuted
  <2> QED
    BY <2>1, <2>2
<1> HIDE DEF t, len
<1>5. IsRun(t, g)
  <2>1. g[0] = Start /\ \A k \in 1 .. len : g[k] = RunPlain(g[k - 1], s[k])
    BY <1>2 DEF IsRun, len
  <2>2. ASSUME NEW k \in 1 .. len PROVE g[k] = RunPlain(g[k - 1], t[k])
    <3>1. k - 1 \in 0 .. len
      BY <1>3
    <3>2. g[k - 1] \in Machines /\ s[k] \in Plain
      BY <1>2, <1>3, <3>1
    <3> QED
      BY <1>1, <1>4, <2>1, <3>2
  <2> QED
    BY <1>1, <2>1, <2>2 DEF IsRun
<1>6. Printed(s) = g[len].outs
    BY <1>2, PrintedIs DEF len
<1>7. Printed(t) = g[Len(t)].outs
    BY <1>1, <1>2, <1>5, PrintedIs
<1> QED
    BY <1>1, <1>6, <1>7 DEF t

\* The machine holds the constants that are known.
Holds(t, r) == \A d \in DOMAIN t : Value(r.vals, d) = t[d]

LEMMA FoldStep ==
    ASSUME NEW i \in Plain, NEW t \in Tables, NEW r \in Machines,
           Holds(t, r), Dsts(i) \cap DOMAIN t = {}
    PROVE  /\ RunPlain(r, Folded(t, i)) = RunPlain(r, i)
           /\ Holds(Learnt(t, i), RunPlain(r, i))
           /\ DOMAIN Learnt(t, i) \subseteq DOMAIN t \cup Dsts(i)
<1> DEFINE j == Folded(t, i)
           x == Exact(i.fn, t[i.lhs], t[i.rhs])
<1>1. /\ j \in Plain /\ Dsts(j) = Dsts(i)
      /\ i.op = "bin" <=> i \in Binops
      /\ j.op = "const" <=> j \in Consts
    BY PlainIsCode, FoldedIs, CodeIs
<1>2. r.vals \in Memories /\ DOMAIN t \subseteq Nat /\ \A d \in DOMAIN t : t[d] \in Ints
    BY TableIs DEF Machines
<1>3. RunPlain(r, j) = RunPlain(r, i)
  <2>1. CASE BothKnown(t, i) /\ x \in Ints
    <3>1. i \in Binops /\ i.lhs \in DOMAIN t /\ i.rhs \in DOMAIN t
      BY <1>1, <2>1 DEF BothKnown
    <3>2. j.op = "const" /\ j.dst = i.dst /\ j.val = x
      BY <2>1 DEF Folded, Const
    <3>3. j \in Consts
      BY <1>1, <3>2
    <3> HIDE DEF j
    <3>4. RunPlain(r, j) = [r EXCEPT !.vals = With(r.vals, i.dst, x)]
      BY <1>1, <3>2, <3>3, RunPlainIs
    <3>5. RunPlain(r, i) = [r EXCEPT !.vals =
            With(r.vals, i.dst, Apply(i.fn, Value(r.vals, i.lhs), Value(r.vals, i.rhs)))]
      BY <3>1, RunPlainIs
    <3>6. Value(r.vals, i.lhs) = t[i.lhs] /\ Value(r.vals, i.rhs) = t[i.rhs]
      BY <3>1 DEF Holds
    <3>7. t[i.lhs] \in Ints /\ t[i.rhs] \in Ints /\ i.fn \in Operators
      BY <1>2, <3>1 DEF Binops
    <3>8. Apply(i.fn, t[i.lhs], t[i.rhs]) = x
      BY <2>1, <3>7, ApplyIs DEF Vals
    <3> HIDE DEF x
    <3> QED
      BY <3>4, <3>5, <3>6, <3>8
  <2>2. CASE ~(BothKnown(t, i) /\ x \in Ints)
    BY <2>2 DEF Folded
  <2> QED
    BY <2>1, <2>2
<1> HIDE DEF j, x
<1>4. CASE j.op = "const"
  <2>1. Learnt(t, i) = With(t, j.dst, j.val)
    BY <1>4 DEF Learnt, j
  <2>2. j \in Consts /\ j.dst \in Nat /\ j.val \in Vals /\ Dsts(i) = {j.dst}
    BY <1>1, <1>4 DEF Consts, Vals, Dsts
  <2>3. RunPlain(r, i) = [r EXCEPT !.vals = With(r.vals, j.dst, j.val)]
    BY <1>1, <1>3, <2>2, RunPlainIs
  <2>4. RunPlain(r, i).vals = With(r.vals, j.dst, j.val)
    BY <2>3 DEF Machines
  <2>5. \A y : Value(With(r.vals, j.dst, j.val), y) = IF y = j.dst THEN j.val ELSE Value(r.vals, y)
    BY <1>2, <2>2, ValueIs
  <2>6. /\ DOMAIN With(t, j.dst, j.val) = DOMAIN t \cup {j.dst}
        /\ \A d \in DOMAIN t \cup {j.dst} :
             With(t, j.dst, j.val)[d] = IF d = j.dst THEN j.val ELSE t[d]
    BY DEF With
  <2>7. \A d \in DOMAIN t : Value(r.vals, d) = t[d]
    BY DEF Holds
  <2>8. Holds(Learnt(t, i), RunPlain(r, i))
    BY <2>1, <2>4, <2>5, <2>6, <2>7 DEF Holds
  <2> QED
    BY <1>3, <2>1, <2>2, <2>6, <2>8 DEF j
<1>5. CASE j.op # "const"
  <2>1. Learnt(t, i) = IF BothKnown(t, i) THEN t ELSE [d \in DOMAIN t \ Dsts(i) |-> t[d]]
    BY <1>5, Zenon DEF Learnt, j
  <2>2. Learnt(t, i) = t \/ Learnt(t, i) = [d \in DOMAIN t \ Dsts(i) |-> t[d]]
    BY <2>1, Zenon
  <2>3. DOMAIN Learnt(t, i) \subseteq DOMAIN t /\ \A d \in DOMAIN Learnt(t, i) : Learnt(t, i)[d] = t[d]
    BY <2>2
  <2>4. \A d : d \notin Dsts(i) => Value(RunPlain(r, i).vals, d) = Value(r.vals, d)
    <3>1. ASSUME NEW v \in Vals, i.dst \in Nat, Dsts(i) = {i.dst}
          PROVE  \A d : d \notin Dsts(i) =>
                   Value([r EXCEPT !.vals = With(r.vals, i.dst, v)].vals, d) = Value(r.vals, d)
      <4>1. [r EXCEPT !.vals = With(r.vals, i.dst, v)].vals = With(r.vals, i.dst, v)
        BY DEF Machines
      <4>2. \A d : Value(With(r.vals, i.dst, v), d) = IF d = i.dst THEN v ELSE Value(r.vals, d)
        BY <1>2, <3>1, ValueIs
      <4> QED
        BY <3>1, <4>1, <4>2
    <3>2. CASE i \in Consts
      <4>1. i.dst \in Nat /\ i.val \in Vals /\ Dsts(i) = {i.dst}
        BY <3>2 DEF Consts, Vals, Dsts
      <4> QED
        BY <3>1, <3>2, <4>1, RunPlainIs
    <3>3. CASE i \in Binops
      <4> DEFINE v == Apply(i.fn, Value(r.vals, i.lhs), Value(r.vals, i.rhs))
      <4>1. i.dst \in Nat /\ i.fn \in Operators /\ Dsts(i) = {i.dst}
        BY <3>3 DEF Binops, Dsts
      <4>2. v \in Vals
        BY <1>2, <4>1, ValueIs, ApplyIs
      <4>3. RunPlain(r, i) = [r EXCEPT !.vals = With(r.vals, i.dst, v)]
        BY <3>3, RunPlainIs
      <4> HIDE DEF v
      <4> QED
        BY <3>1, <4>1, <4>2, <4>3
    <3>4. CASE i \in Outputs
      <4>1. RunPlain(r, i) = [r EXCEPT !.outs = Append(r.outs, Value(r.vals, i.id))]
        BY <3>4, RunPlainIs
      <4>2. RunPlain(r, i).vals = r.vals
        BY <4>1 DEF Machines
      <4> QED
        BY <4>2
    <3> QED
      BY <3>2, <3>3, <3>4 DEF Plain
  <2>5. Holds(Learnt(t, i), RunPlain(r, i))
    BY <2>3, <2>4 DEF Holds
  <2> QED
    BY <1>3, <2>3, <2>5 DEF j
<1> QED
    BY <1>4, <1>5

LEMMA FoldPrints ==
    ASSUME NEW s \in Seq(Plain), Ordered(s)
    PROVE  Printed(ConstantFold(s)) = Printed(s)
<1> DEFINE t == ConstantFold(s)
           len == Len(s)
<1>1. PICK k \in [0 .. len -> Tables] :
        /\ IsKnown(s, k) /\ t \in Seq(Plain) /\ Len(t) = len
        /\ \A j \in 1 .. len : t[j] = Folded(k[j - 1], s[j])
    BY PlainIsCode, FoldAgain
<1>2. PICK g \in [0 .. len -> Machines] : IsRun(s, g)
    BY PrintedIs
<1>3. len \in Nat /\ (\A j \in 1 .. len : s[j] \in Plain)
    OBVIOUS
<1>4. /\ k[0] = NoneKnown /\ \A j \in 1 .. len : k[j] = Learnt(k[j - 1], s[j])
      /\ g[0] = Start /\ \A j \in 1 .. len : g[j] = RunPlain(g[j - 1], s[j])
    BY <1>1, <1>2 DEF IsKnown, IsRun
<1>5. \A h, j \in 1 .. len : Dsts(s[j]) \cap Dsts(s[h]) # {} => j = h
    BY DEF Ordered
<1> HIDE DEF t, len
<1> DEFINE P == {j \in 0 .. len : /\ Holds(k[j], g[j])
                                  /\ \A d \in DOMAIN k[j] : \E h \in 1 .. j : d \in Dsts(s[h])}
<1>6. ASSUME NEW j \in 1 .. len, j - 1 \in P
      PROVE  RunPlain(g[j - 1], t[j]) = g[j] /\ j \in P
  <2> DEFINE i == s[j]
             a == k[j - 1]
             r == g[j - 1]
  <2>1. i \in Plain /\ a \in Tables /\ r \in Machines /\ j \in 0 .. len
    <3>1. j - 1 \in 0 .. len
      BY <1>3
    <3> QED
      BY <1>1, <1>2, <1>3, <3>1
  <2>2. Holds(a, r) /\ \A d \in DOMAIN a : \E h \in 1 .. j - 1 : d \in Dsts(s[h])
    BY <1>6
  <2>3. Dsts(i) \cap DOMAIN a = {}
    <3> SUFFICES ASSUME NEW d \in Dsts(i) \cap DOMAIN a PROVE FALSE
      OBVIOUS
    <3>1. PICK h \in 1 .. j - 1 : d \in Dsts(s[h])
      BY <2>2
    <3>2. h \in 1 .. len /\ h # j
      BY <1>3
    <3> QED
      BY <1>5, <3>1, <3>2
  <2>4. k[j] = Learnt(a, i) /\ g[j] = RunPlain(r, i) /\ t[j] = Folded(a, i)
    BY <1>1, <1>4
  <2> HIDE DEF a, r
  <2>5. /\ RunPlain(r, Folded(a, i)) = RunPlain(r, i)
        /\ Holds(Learnt(a, i), RunPlain(r, i))
        /\ DOMAIN Learnt(a, i) \subseteq DOMAIN a \cup Dsts(i)
    BY <2>1, <2>2, <2>3, FoldStep
  <2>6. ASSUME NEW d \in DOMAIN k[j] PROVE \E h \in 1 .. j : d \in Dsts(s[h])
    <3>1. d \in Dsts(s[j]) \/ d \in DOMAIN a
      BY <2>4, <2>5
    <3>2. j \in 1 .. j /\ \A h \in 1 .. j - 1 : h \in 1 .. j
      OBVIOUS
    <3> QED
      BY <2>2, <3>1, <3>2
  <2>7. Holds(k[j], g[j])
    BY <2>4, <2>5
  <2>8. RunPlain(g[j - 1], t[j]) = g[j]
    BY <2>4, <2>5 DEF r
  <2> QED
    BY <2>1, <2>6, <2>7, <2>8
<1>7. 0 \in P
    BY <1>3, <1>4 DEF Holds, NoneKnown
<1>8. \A j \in 0 .. len : j \in P
  <2> HIDE DEF P
  <2> QED
    BY <1>3, <1>6, <1>7, Upward
<1> HIDE DEF P
<1>9. IsRun(t, g)
  <2>1. ASSUME NEW j \in 1 .. len PROVE g[j] = RunPlain(g[j - 1], t[j])
    <3>1. j - 1 \in 0 .. len
      BY <1>3
    <3>2. j - 1 \in P
      BY <1>8, <3>1
    <3> QED
      BY <1>6, <3>2
  <2> QED
    BY <1>1, <1>4, <2>1 DEF IsRun
<1>10. Printed(s) = g[len].outs
    BY <1>2, PrintedIs DEF len
<1>11. Printed(t) = g[Len(t)].outs
    BY <1>1, <1>2, <1>9, PrintedIs
<1> QED
    BY <1>1, <1>10, <1>11 DEF t

\* What the verifier asks of a stream without regions.
Verified(s) ==
    /\ \A h \in 1 .. Len(s) : \A o \in Operands(s[h]) :
         \E k \in 1 .. h - 1 : o \in Dsts(s[k])
    /\ \A h, k \in 1 .. Len(s) : Dsts(s[k]) \cap Dsts(s[h]) # {} => k = h
    /\ \E k \in 1 .. Len(s) : s[k].op = "output"

LEMMA VerifiedIsOrdered ==
    ASSUME NEW I, IsCode(I), NEW s \in Seq(I), Verified(s)
    PROVE  Ordered(s)
<1> SUFFICES ASSUME NEW h \in 1 .. Len(s), NEW k \in 1 .. Len(s), NEW d \in Dsts(s[k]),
                    d \in Operands(s[h])
             PROVE  k < h
    BY DEF Ordered, Verified
<1>1. PICK j \in 1 .. h - 1 : d \in Dsts(s[j])
    BY DEF Verified
<1>2. j \in 1 .. Len(s)
    OBVIOUS
<1>3. k = j
    BY <1>1, <1>2 DEF Verified
<1> QED
    BY <1>3

\* A pass that keeps results and outputs, and reads no more.
LEMMA SameVerified ==
    ASSUME NEW I, NEW s \in Seq(I), NEW t \in Seq(I), Len(t) = Len(s),
           \A k \in 1 .. Len(s) : /\ Dsts(t[k]) = Dsts(s[k])
                                  /\ Operands(t[k]) \subseteq Operands(s[k])
                                  /\ s[k].op = "output" => t[k].op = "output",
           Verified(s)
    PROVE  Verified(t)
<1>1. ASSUME NEW h \in 1 .. Len(t), NEW o \in Operands(t[h])
      PROVE  \E k \in 1 .. h - 1 : o \in Dsts(t[k])
  <2>1. h \in 1 .. Len(s) /\ o \in Operands(s[h])
    OBVIOUS
  <2>2. PICK k \in 1 .. h - 1 : o \in Dsts(s[k])
    BY <2>1 DEF Verified
  <2>3. k \in 1 .. Len(s)
    BY <2>1
  <2> QED
    BY <2>2, <2>3
<1>2. \A h, k \in 1 .. Len(t) : Dsts(t[k]) \cap Dsts(t[h]) # {} => k = h
    BY DEF Verified
<1>3. \E k \in 1 .. Len(t) : t[k].op = "output"
    BY DEF Verified
<1> QED
    BY <1>1, <1>2, <1>3 DEF Verified

LEMMA PruneVerified ==
    ASSUME NEW I, IsCode(I), NEW s \in Seq(I), NEW n \in Nat, Fits(s, n), Verified(s)
    PROVE  Verified(PruneDead(s, n))
<1> DEFINE U == Used(s, n)
           t == Retained(s, U)
           len == Len(s)
           new == Len(t)
<1>1. t \in Seq(I)
    BY RetainedIs
<1>2. PICK p \in [0 .. len -> Nat] : IsKept(s, U, t, p)
    BY RetainedIs
<1>3. \A k \in 0 .. len : \A h \in 0 .. k : p[h] <= p[k]
    BY <1>1, <1>2, PlacesGrow
<1>4. /\ \A k \in 1 .. len : Dsts(s[k]) \subseteq U =>
           p[k] = p[k - 1] + 1 /\ p[k] <= new /\ t[p[k]] = s[k]
      /\ \A j \in 1 .. new : \E k \in 1 .. len :
           p[k] = j /\ p[k - 1] = j - 1 /\ t[j] = s[k] /\ Dsts(s[k]) \subseteq U
    BY <1>2 DEF IsKept
<1>5. Ordered(PruneDead(s, n))
    BY VerifiedIsOrdered, PruneOrdered
<1>6. \A k \in 1 .. len : Dsts(s[k]) \subseteq U => Operands(s[k]) \subseteq U
    BY VerifiedIsOrdered, UsedClosed
<1>7. /\ \A h \in 1 .. len : \A o \in Operands(s[h]) : \E k \in 1 .. h - 1 : o \in Dsts(s[k])
      /\ \E k \in 1 .. len : s[k].op = "output"
    BY DEF Verified
<1>8. \A h, k \in 1 .. new : Dsts(t[k]) \cap Dsts(t[h]) # {} => k = h
    BY <1>5 DEF Ordered, PruneDead
<1>9. len \in Nat /\ new \in Nat /\ \A k \in 1 .. len : s[k] \in I
    BY <1>1
<1>10. \A k \in 0 .. len : p[k] \in Nat
    OBVIOUS
<1> HIDE DEF U, t, len, new
<1>11. ASSUME NEW k \in 1 .. len, Dsts(s[k]) \subseteq U
       PROVE  p[k] \in 1 .. new /\ t[p[k]] = s[k]
  <2>1. p[k] = p[k - 1] + 1 /\ p[k] <= new /\ t[p[k]] = s[k]
    BY <1>4, <1>11
  <2>2. p[k] \in Nat /\ p[k - 1] \in Nat
    BY <1>9, <1>10
  <2> QED
    BY <1>9, <2>1, <2>2, NextPlace
<1>12. ASSUME NEW j \in 1 .. new, NEW o \in Operands(t[j])
       PROVE  \E l \in 1 .. j - 1 : o \in Dsts(t[l])
  <2>1. PICK h \in 1 .. len : /\ p[h] = j /\ p[h - 1] = j - 1 /\ t[j] = s[h]
                              /\ Dsts(s[h]) \subseteq U
    BY <1>4
  <2>2. PICK k \in 1 .. h - 1 : o \in Dsts(s[k])
    BY <1>7, <2>1
  <2>3. k \in 1 .. len /\ h - 1 \in 0 .. len /\ k \in 0 .. h - 1
    BY <1>9
  <2>4. Dsts(s[k]) \subseteq U
    <3>1. o \in U /\ s[k] \in I
      BY <1>6, <1>9, <2>1, <2>3
    <3> QED
      BY <2>2, <3>1, CodeIs
  <2>5. p[k] \in 1 .. new /\ t[p[k]] = s[k] /\ p[k] <= p[h - 1]
    BY <1>3, <1>11, <2>3, <2>4
  <2>6. p[k] \in 1 .. j - 1
    BY <2>1, <2>5
  <2> QED
    BY <2>2, <2>5, <2>6
<1>13. \E j \in 1 .. new : t[j].op = "output"
  <2>1. PICK k \in 1 .. len : s[k].op = "output"
    BY <1>7
  <2>2. Dsts(s[k]) \subseteq U
    BY <2>1 DEF Dsts
  <2> QED
    BY <1>11, <2>1, <2>2
<1> QED
    BY <1>8, <1>12, <1>13 DEF Verified, PruneDead, U, t, new

\* Canonicalising does not change what a module without regions prints, and
\* the second verification accepts what the first one did.  A folded
\* operation has the value the operation wraps to, the swapped operands of a
\* sum or a product give the same, and what is pruned ("provably dead
\* instructions", ir_canonical.rs:27-31) is read by nothing that is kept.
THEOREM CanonicalisePrintsTheSame ==
    ASSUME NEW m \in [instrs : Seq(Plain), next : Nat, copies : SUBSET Nat],
           Verified(m.instrs), Fits(m.instrs, m.next)
    PROVE  /\ Printed(Canonicalize(m).instrs) = Printed(m.instrs)
           /\ Verified(Canonicalize(m).instrs)
           /\ Fits(Canonicalize(m).instrs, Canonicalize(m).next)
<1> DEFINE n == m.next
           a == PruneDead(m.instrs, n)
           b == ReorderCommutativeOps(a)
           w == ConstantFold(b)
           out == PruneDead(w, n)
<1>0. IsCode(Plain) /\ m.instrs \in Seq(Plain) /\ n \in Nat /\ Ordered(m.instrs)
    BY PlainIsCode, VerifiedIsOrdered
<1>1. /\ a \in Seq(Plain) /\ Fits(a, n) /\ Ordered(a) /\ Printed(a) = Printed(m.instrs)
      /\ Verified(a)
    BY <1>0, PruneOrdered, PrunePrints, PruneVerified
<1>2. b \in Seq(Plain) /\ Len(b) = Len(a) /\ \A j \in 1 .. Len(a) : b[j] = Commuted(a[j])
    BY <1>0, <1>1, ReorderIs
<1> HIDE DEF n, a, b
<1>3. Fits(b, n) /\ Ordered(b) /\ Verified(b)
  <2>1. \A j \in 1 .. Len(a) : a[j] \in Plain
    BY <1>1
  <2>2. \A j \in 1 .. Len(a) : /\ Dsts(b[j]) = Dsts(a[j]) /\ Named(b[j]) \subseteq Named(a[j])
                               /\ Operands(b[j]) \subseteq Operands(a[j])
    BY <1>0, <1>2, <2>1, CommutedIs
  <2>3. \A j \in 1 .. Len(a) : a[j].op = "output" => b[j].op = "output"
    BY <1>2 DEF Commuted
  <2> QED
    BY <1>1, <1>2, <2>2, <2>3, SameOrder, SameVerified
<1>4. Printed(b) = Printed(a)
    BY <1>1, ReorderPrints DEF b
<1>5. PICK k \in [0 .. Len(b) -> Tables] :
        /\ w \in Seq(Plain) /\ Len(w) = Len(b)
        /\ \A j \in 1 .. Len(b) : w[j] = Folded(k[j - 1], b[j])
  <2>1. PICK k \in [0 .. Len(b) -> Tables] :
             /\ IsKnown(b, k) /\ IsKnown(ConstantFold(b), k)
             /\ ConstantFold(b) \in Seq(Plain) /\ Len(ConstantFold(b)) = Len(b)
             /\ \A j \in 1 .. Len(b) :
                  /\ ConstantFold(b)[j] = Folded(k[j - 1], b[j])
                  /\ Folded(k[j - 1], ConstantFold(b)[j]) = ConstantFold(b)[j]
    BY <1>0, <1>2, FoldAgain
  <2> QED
    BY <2>1
<1> HIDE DEF w
<1>6. Fits(w, n) /\ Ordered(w) /\ Verified(w)
  <2>1. ASSUME NEW j \in 1 .. Len(b)
        PROVE  /\ Dsts(w[j]) = Dsts(b[j]) /\ Named(w[j]) \subseteq Named(b[j])
               /\ Operands(w[j]) \subseteq Operands(b[j])
               /\ b[j].op = "output" => w[j].op = "output"
    <3>1. b[j] \in Plain
      BY <1>2
    <3>2. j - 1 \in 0 .. Len(b)
      BY <1>2
    <3>3. k[j - 1] \in Tables
      BY <3>2
    <3>4. b[j].op = "output" => w[j].op = "output"
      BY <1>5 DEF Folded, BothKnown
    <3> QED
      BY <1>0, <1>5, <3>1, <3>3, <3>4, FoldedIs
  <2> QED
    BY <1>2, <1>3, <1>5, <2>1, SameOrder, SameVerified
<1>7. Printed(w) = Printed(b)
    BY <1>2, <1>3, FoldPrints DEF w
<1>8. /\ out \in Seq(Plain) /\ Fits(out, n) /\ Printed(out) = Printed(w)
      /\ Verified(out)
    BY <1>0, <1>5, <1>6, PruneOrdered, PrunePrints, PruneVerified
<1>9. Canonicalize(m).instrs = out /\ Canonicalize(m).next = NextSequentialId(out)
    BY DEF Canonicalize, n, a, b, w
<1> HIDE DEF out
<1>10. Fits(out, NextSequentialId(out))
    BY <1>0, <1>8, NextIs
<1> QED
    BY <1>1, <1>4, <1>7, <1>8, <1>9, <1>10
=============================================================================
