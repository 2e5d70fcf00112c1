-------------------------- MODULE ContainersProofs --------------------------
(***************************************************************************)
(* For any items, keys and bounds: the list and the pool its cells come    *)
(* from, the least recently used container and the list in chunks are the  *)
(* sequences and maps they stand for.  For any global indices, attributes  *)
(* and bounds: the array of a ParallelIndexSet stays sorted, a resize      *)
(* loses and invents nothing, and the binary search finds what is there.   *)
(***************************************************************************)
EXTENDS Containers, FunctionTheorems, FiniteSetTheorems, SequenceTheorems,
        WellFoundedInduction, TLAPS

-----------------------------------------------------------------------------
(* The index set.                                                          *)

\* Induction over the natural numbers, for a set instead of a predicate.
LEMMA InductionOverNat ==
  ASSUME NEW T \in SUBSET Nat, 0 \in T, \A n \in T : n + 1 \in T
  PROVE  T = Nat
<1> DEFINE Less == OpToRel(<, Nat)
<1> SUFFICES ASSUME Nat \ T # {} PROVE FALSE
  OBVIOUS
<1>1. IsWellFoundedOn(Less, Nat)
  BY NatLessThanWellFounded
<1>2. \A x, y \in Nat : <<x, y>> \in Less <=> x < y
  BY DEF OpToRel
<1> HIDE DEF Less
<1>3. PICK m \in Nat \ T : \A n \in Nat \ T : ~(<<n, m>> \in Less)
  BY <1>1, WFMin
<1>4. m # 0 /\ m - 1 \in Nat
  BY <1>3
<1>5. m - 1 \in T
  <2>1. m - 1 < m
    BY <1>4
  <2> QED BY <1>2, <1>3, <1>4, <2>1
<1> QED BY <1>3, <1>4, <1>5

\* Induction over a measure.
LEMMA InductionOverMeasure ==
  ASSUME NEW P, NEW size \in [P -> Nat], NEW Q \in SUBSET P,
         \A x \in P : (\A y \in P : size[y] < size[x] => y \in Q) => x \in Q
  PROVE  Q = P
<1> DEFINE T == {n \in Nat : \A x \in P : size[x] < n => x \in Q}
<1>1. 0 \in T
  OBVIOUS
<1>2. ASSUME NEW n \in T PROVE n + 1 \in T
  <2> SUFFICES ASSUME NEW x \in P, size[x] < n + 1 PROVE x \in Q
    OBVIOUS
  <2>1. \A y \in P : size[y] < size[x] => size[y] < n
    OBVIOUS
  <2> QED BY <2>1
<1>3. T = Nat
  <2> HIDE DEF T
  <2> QED BY <1>1, <1>2, InductionOverNat DEF T
<1>4. ASSUME NEW x \in P PROVE x \in Q
  <2>1. size[x] + 1 \in T
    BY <1>3
  <2> QED BY <2>1
<1> QED BY <1>4

-----------------------------------------------------------------------------
\* The order of the pairs.

\* Sorting compares the pairs by a total preorder.
LEMMA PairOrder ==
  ASSUME NEW a \in Pair, NEW b \in Pair, NEW c \in Pair
  PROVE  /\ ~PairLess(a, a)
         /\ PairLess(a, b) => ~PairLess(b, a)
         /\ ~PairLess(b, a) /\ ~PairLess(c, b) => ~PairLess(c, a)
<1>1. \A x \in Pair : x.global \in Int /\ x.attribute \in Int
  BY IndexAssumption DEF Pair
<1> QED BY <1>1 DEF PairLess

\* One element in front of a sequence.
LEMMA Cons ==
  ASSUME NEW S, NEW a \in S, NEW t \in Seq(S)
  PROVE  /\ <<a>> \o t \in Seq(S) /\ Len(<<a>> \o t) = Len(t) + 1
         /\ (<<a>> \o t)[1] = a
         /\ \A p \in 1 .. Len(t) : (<<a>> \o t)[p + 1] = t[p]
OBVIOUS

LEMMA ConsElements ==
  ASSUME NEW a \in Pair, NEW t \in Seq(Pair)
  PROVE  \A p \in DOMAIN (<<a>> \o t) : (<<a>> \o t)[p] \in {a} \cup {t[q] : q \in DOMAIN t}
<1> DEFINE u == <<a>> \o t
<1> SUFFICES ASSUME NEW p \in DOMAIN u PROVE u[p] \in {a} \cup {t[q] : q \in DOMAIN t}
  OBVIOUS
<1>1. u \in Seq(Pair) /\ Len(u) = Len(t) + 1 /\ u[1] = a /\ \A q \in 1 .. Len(t) : u[q + 1] = t[q]
  BY Cons
<1> HIDE DEF u
<1>2. p = 1 \/ p - 1 \in 1 .. Len(t)
  BY <1>1 DEF u
<1>3. p # 1 => p - 1 \in DOMAIN t /\ u[p] = t[p - 1]
  BY <1>1, <1>2
<1> QED BY <1>1, <1>2, <1>3 DEF u

\* A pair in front of a sorted sequence in which none is less.
LEMMA ConsSorted ==
  ASSUME NEW a \in Pair, NEW t \in Seq(Pair), Sorted(t),
         \A p \in DOMAIN t : ~PairLess(t[p], a)
  PROVE  Sorted(<<a>> \o t)
<1> DEFINE u == <<a>> \o t
<1>1. /\ u \in Seq(Pair) /\ Len(u) = Len(t) + 1 /\ Len(t) \in Nat /\ u[1] = a
      /\ \A p \in 1 .. Len(t) : u[p + 1] = t[p]
  BY Cons
<1> HIDE DEF u
<1>2. ASSUME NEW i \in DOMAIN u, NEW j \in DOMAIN u, i < j PROVE ~PairLess(u[j], u[i])
  <2>1. j - 1 \in 1 .. Len(t) /\ u[j] = t[j - 1]
    BY <1>1, <1>2
  <2>2. CASE i = 1
    BY <1>1, <2>1, <2>2
  <2>3. CASE i # 1
    <3>1. i - 1 \in 1 .. Len(t) /\ u[i] = t[i - 1] /\ i - 1 < j - 1
      BY <1>1, <1>2, <2>3
    <3> QED BY <2>1, <3>1 DEF Sorted
  <2> QED BY <2>2, <2>3
<1> QED BY <1>2 DEF Sorted, u

-----------------------------------------------------------------------------
\* Counting.

\* How often x occurs in s from position i on.
Occurs(s, i, x) == Cardinality({q \in i .. Len(s) : s[q] = x})

LEMMA OccursFinite ==
  ASSUME NEW s \in Seq(Pair), NEW i \in Int, NEW x
  PROVE  IsFiniteSet({q \in i .. Len(s) : s[q] = x}) /\ Occurs(s, i, x) \in Nat
<1>1. IsFiniteSet(i .. Len(s))
  BY FS_Interval
<1>2. IsFiniteSet({q \in i .. Len(s) : s[q] = x})
  BY <1>1, FS_Subset
<1> QED BY <1>2, FS_CardinalityType DEF Occurs

LEMMA OccursStep ==
  ASSUME NEW s \in Seq(Pair), NEW i \in 1 .. Len(s), NEW x
  PROVE  Occurs(s, i, x) = (IF s[i] = x THEN 1 ELSE 0) + Occurs(s, i + 1, x)
<1> DEFINE From(k) == {q \in k .. Len(s) : s[q] = x}
<1>1. IsFiniteSet(From(i + 1)) /\ Occurs(s, i + 1, x) \in Nat
  <2>1. i + 1 \in Int
    OBVIOUS
  <2> QED BY <2>1, OccursFinite
<1>2. CASE s[i] = x
  <2>1. From(i) = From(i + 1) \cup {i} /\ i \notin From(i + 1)
    BY <1>2
  <2> HIDE DEF From
  <2>2. Cardinality(From(i)) = Cardinality(From(i + 1)) + 1
    BY <1>1, <2>1, FS_AddElement
  <2> QED BY <1>1, <1>2, <2>2 DEF Occurs, From
<1>3. CASE s[i] # x
  <2>1. From(i) = From(i + 1)
    BY <1>3
  <2> HIDE DEF From
  <2>2. Occurs(s, i, x) = Occurs(s, i + 1, x)
    BY <2>1 DEF Occurs, From
  <2> QED BY <1>1, <1>3, <2>2
<1> QED BY <1>2, <1>3

LEMMA OccursFacts ==
  ASSUME NEW s \in Seq(Pair), NEW i \in 1 .. Len(s) + 1, NEW x
  PROVE  /\ Occurs(s, i, x) \in Nat
         /\ i <= Len(s) => /\ Occurs(s, i, x) = (IF s[i] = x THEN 1 ELSE 0) + Occurs(s, i + 1, x)
                           /\ Occurs(s, i + 1, x) \in Nat
         /\ i > Len(s) => Occurs(s, i, x) = 0
<1>1. Occurs(s, i, x) \in Nat
  <2>1. i \in Int
    OBVIOUS
  <2> QED BY <2>1, OccursFinite
<1>2. ASSUME i <= Len(s)
      PROVE  /\ Occurs(s, i, x) = (IF s[i] = x THEN 1 ELSE 0) + Occurs(s, i + 1, x)
             /\ Occurs(s, i + 1, x) \in Nat
  <2>1. i \in 1 .. Len(s) /\ i + 1 \in Int
    BY <1>2
  <2> QED BY <2>1, OccursStep, OccursFinite
<1>3. ASSUME i > Len(s) PROVE Occurs(s, i, x) = 0
  <2>1. {q \in i .. Len(s) : s[q] = x} = {}
    BY <1>3
  <2> QED BY <2>1, FS_EmptySet DEF Occurs
<1> QED BY <1>1, <1>2, <1>3

LEMMA OccursShifted ==
  ASSUME NEW s \in Seq(Pair), NEW t \in Seq(Pair), NEW k \in Nat \ {0}, NEW x,
         Len(t) = Len(s) + k - 1, \A q \in 1 .. Len(s) : t[q + k - 1] = s[q]
  PROVE  Occurs(t, k, x) = Occurs(s, 1, x)
<1> DEFINE From == {q \in 1 .. Len(s) : s[q] = x}
           B == {q \in k .. Len(t) : t[q] = x}
           F == [q \in From |-> q + k - 1]
<1>1. IsFiniteSet(From)
  <2>1. 1 \in Int
    OBVIOUS
  <2> QED BY <2>1, OccursFinite
<1>2. F \in [From -> B]
  OBVIOUS
<1>3. \A a, b \in From : F[a] = F[b] => a = b
  OBVIOUS
<1>4. ASSUME NEW b \in B PROVE \E a \in From : F[a] = b
  <2>1. b - k + 1 \in 1 .. Len(s) /\ (b - k + 1) + k - 1 = b
    OBVIOUS
  <2>2. b - k + 1 \in From
    BY <2>1
  <2> QED BY <2>1, <2>2
<1>5. F \in Bijection(From, B)
  <2> HIDE DEF From, B, F
  <2> QED BY <1>2, <1>3, <1>4, Fun_IsBij
<1>6. Cardinality(B) = Cardinality(From)
  <2> HIDE DEF From, B, F
  <2> QED BY <1>1, <1>5, FS_Bijection DEF ExistsBijection
<1> QED BY <1>6 DEF Occurs

\* Counting in the whole sequence, in one with a pair in front and in a part.
LEMMA CountIsOccurs ==
  ASSUME NEW s \in Seq(Pair), NEW x
  PROVE  Count(s, x) = Occurs(s, 1, x)
<1>1. DOMAIN s = 1 .. Len(s)
  OBVIOUS
<1> QED BY <1>1 DEF Count, Occurs

LEMMA CountCons ==
  ASSUME NEW a \in Pair, NEW t \in Seq(Pair), NEW x
  PROVE  Count(<<a>> \o t, x) = (IF a = x THEN 1 ELSE 0) + Count(t, x)
<1> DEFINE u == <<a>> \o t
<1>1. u \in Seq(Pair) /\ Len(u) = Len(t) + 1 /\ u[1] = a /\ \A q \in 1 .. Len(t) : u[q + 1] = t[q]
  BY Cons
<1> HIDE DEF u
<1>2. Len(t) \in Nat
  OBVIOUS
<1>3. Occurs(u, 2, x) = Occurs(t, 1, x)
  <2>1. Len(u) = Len(t) + 2 - 1 /\ \A q \in 1 .. Len(t) : u[q + 2 - 1] = t[q]
    BY <1>1, <1>2
  <2> QED BY <1>1, <2>1, OccursShifted
<1>4. Occurs(u, 1, x) = (IF a = x THEN 1 ELSE 0) + Occurs(u, 2, x)
  BY <1>1, <1>2, OccursStep
<1> QED BY <1>1, <1>3, <1>4, CountIsOccurs DEF u

LEMMA CountSubSeq ==
  ASSUME NEW s \in Seq(Pair), NEW j \in 1 .. Len(s) + 1, NEW x
  PROVE  Count(SubSeq(s, j, Len(s)), x) = Occurs(s, j, x)
<1> DEFINE t == SubSeq(s, j, Len(s))
<1>1. Len(s) \in Nat /\ \A q \in 1 .. Len(s) : s[q] \in Pair
  OBVIOUS
<1>2. /\ t \in Seq(Pair) /\ Len(t) = Len(s) - j + 1
      /\ \A q \in 1 .. Len(s) - j + 1 : t[q] = s[j + q - 1]
  BY <1>1, SubSeqProperties
<1> HIDE DEF t
<1>3. /\ j \in Nat \ {0} /\ Len(s) = Len(t) + j - 1
      /\ \A q \in 1 .. Len(t) : s[q + j - 1] = t[q]
  BY <1>1, <1>2
<1>4. Occurs(s, j, x) = Occurs(t, 1, x)
  BY <1>2, <1>3, OccursShifted
<1> QED BY <1>2, <1>3, <1>4, CountIsOccurs DEF t

\* Sorting a sequence changes no count.
LEMMA CountSorted ==
  ASSUME NEW s \in Seq(Pair), NEW t \in SortedOrders(s)
  PROVE  /\ t \in Seq(Pair) /\ Sorted(t) /\ Len(t) = Len(s)
         /\ \A x : Count(t, x) = Count(s, x)
         /\ \A p \in DOMAIN t : \E q \in DOMAIN s : t[p] = s[q]
<1>1. PICK perm \in Bijection(DOMAIN s, DOMAIN s) : t = [i \in DOMAIN s |-> s[perm[i]]]
  BY DEF SortedOrders
<1>2. Sorted(t)
  BY DEF SortedOrders
<1>3. /\ perm \in [DOMAIN s -> DOMAIN s]
      /\ \A a, b \in DOMAIN s : perm[a] = perm[b] => a = b
      /\ \A b \in DOMAIN s : \E a \in DOMAIN s : perm[a] = b
  BY Fun_BijectionProperties
<1>4. DOMAIN s = 1 .. Len(s) /\ Len(s) \in Nat /\ \A i \in DOMAIN s : s[i] \in Pair
  OBVIOUS
<1>5. t \in Seq(Pair) /\ Len(t) = Len(s) /\ DOMAIN t = DOMAIN s
  BY <1>1, <1>3, <1>4
<1>6. ASSUME NEW x PROVE Count(t, x) = Count(s, x)
  <2> DEFINE From == {i \in DOMAIN t : t[i] = x}
             B == {i \in DOMAIN s : s[i] = x}
             F == [i \in From |-> perm[i]]
  <2>1. F \in [From -> B] /\ (\A a, b \in From : F[a] = F[b] => a = b)
    BY <1>1, <1>3
  <2>2. \A b \in B : \E a \in From : F[a] = b
    BY <1>1, <1>3
  <2>3. IsFiniteSet(From)
    <3>1. IsFiniteSet(DOMAIN t)
      BY <1>4, <1>5, FS_Interval
    <3> QED BY <3>1, FS_Subset
  <2> HIDE DEF From, B, F
  <2>4. F \in Bijection(From, B)
    BY <2>1, <2>2, Fun_IsBij
  <2>5. Cardinality(B) = Cardinality(From)
    BY <2>3, <2>4, FS_Bijection DEF ExistsBijection
  <2> QED BY <2>5 DEF Count, From, B
<1> QED BY <1>1, <1>2, <1>3, <1>5, <1>6

-----------------------------------------------------------------------------
\* The recursion of the merge.

\* What is still to be written at a position, given the function that says so.
MergeBody(f, old, added, at) ==
  LET i == at[1]
      j == at[2]
  IN IF i > Len(old) THEN SubSeq(added, j, Len(added))
     ELSE IF old[i].deleted THEN f[<<i + 1, j>>]
     ELSE IF j > Len(added) \/ PairLess(old[i], added[j])
       THEN <<old[i]>> \o f[<<i + 1, j>>]
     ELSE <<added[j]>> \o f[<<i, j + 1>>]

Positions(old, added) == (1 .. Len(old) + 1) \X (1 .. Len(added) + 1)

\* Pairs left at a position: what decreases.
Left(old, added, at) == (Len(old) + 1 - at[1]) + (Len(added) + 1 - at[2])

\* The function the merge is written with exists, so that it is what its
\* definition says.
LEMMA MergeDefined ==
  ASSUME NEW old \in Seq(Pair), NEW added \in Seq(Pair)
  PROVE  \E f : /\ f = [at \in Positions(old, added) |-> MergeBody(f, old, added, at)]
                /\ MergeSorted(old, added) = f[<<1, 1>>]
<1> DEFINE P == Positions(old, added)
           Up(f, k) == \A at \in P : Left(old, added, at) < k => f[at] = MergeBody(f, old, added, at)
           T == {k \in Nat : \E f : Up(f, k)}
<1>0. Len(old) \in Nat /\ Len(added) \in Nat
  OBVIOUS
<1>1. \A at \in P : /\ at = <<at[1], at[2]>>
                    /\ at[1] \in 1 .. Len(old) + 1 /\ at[2] \in 1 .. Len(added) + 1
                    /\ Left(old, added, at) \in 0 .. Len(old) + Len(added)
  BY <1>0 DEF Left, Positions
<1>a. ASSUME NEW at \in P, at[1] <= Len(old)
      PROVE  <<at[1] + 1, at[2]>> \in P /\ Left(old, added, <<at[1] + 1, at[2]>>) < Left(old, added, at)
  BY <1>0, <1>a DEF Left, Positions
<1>b. ASSUME NEW at \in P, at[2] <= Len(added)
      PROVE  <<at[1], at[2] + 1>> \in P /\ Left(old, added, <<at[1], at[2] + 1>>) < Left(old, added, at)
  BY <1>0, <1>b DEF Left, Positions
<1>2. ASSUME NEW f, NEW g, NEW at \in P,
             \A to \in P : Left(old, added, to) < Left(old, added, at) => f[to] = g[to]
      PROVE  MergeBody(f, old, added, at) = MergeBody(g, old, added, at)
  <2> HIDE DEF P
  <2>1. at[1] <= Len(old) => f[<<at[1] + 1, at[2]>>] = g[<<at[1] + 1, at[2]>>]
    BY <1>2, <1>a
  <2>2. at[2] <= Len(added) => f[<<at[1], at[2] + 1>>] = g[<<at[1], at[2] + 1>>]
    BY <1>2, <1>b
  <2> QED BY <1>0, <1>1, <2>1, <2>2 DEF MergeBody
<1>3. 0 \in T
  <2>1. \A at \in P : ~(Left(old, added, at) < 0)
    BY <1>0, <1>1
  <2> QED BY <2>1
<1>4. ASSUME NEW k \in T PROVE k + 1 \in T
  <2>1. PICK f : Up(f, k)
    OBVIOUS
  <2> DEFINE g == [at \in P |-> IF Left(old, added, at) < k THEN f[at] ELSE MergeBody(f, old, added, at)]
  <2>2. \A at \in P : Left(old, added, at) < k => g[at] = f[at]
    OBVIOUS
  <2>3. \A at \in P : g[at] = MergeBody(f, old, added, at)
    BY <2>1
  <2> HIDE DEF g
  <2>4. ASSUME NEW at \in P, Left(old, added, at) < k + 1
        PROVE  MergeBody(g, old, added, at) = MergeBody(f, old, added, at)
    <3>1. \A to \in P : Left(old, added, to) < Left(old, added, at) => Left(old, added, to) < k
      <4> HIDE DEF P
      <4> QED BY <1>0, <1>1, <2>4
    <3> QED BY <1>2, <2>2, <3>1
  <2>5. Up(g, k + 1)
    BY <2>3, <2>4
  <2> QED BY <2>5
<1>5. T = Nat
  <2> HIDE DEF T
  <2> QED BY <1>3, <1>4, InductionOverNat DEF T
<1>6. PICK f : Up(f, Len(old) + Len(added) + 1)
  BY <1>0, <1>5
<1> DEFINE g == [at \in P |-> f[at]]
<1>7. \A at \in P : g[at] = MergeBody(g, old, added, at)
  <2>1. ASSUME NEW at \in P PROVE f[at] = MergeBody(f, old, added, at)
    <3>1. Left(old, added, at) < Len(old) + Len(added) + 1
      BY <1>0, <1>1
    <3> QED BY <1>6, <3>1
  <2>2. ASSUME NEW at \in P PROVE MergeBody(f, old, added, at) = MergeBody(g, old, added, at)
    BY <1>2
  <2> QED BY <2>1, <2>2
<1>8. g = [at \in P |-> MergeBody(g, old, added, at)]
  BY <1>7
<1> DEFINE from == CHOOSE from : from = [at \in P |-> MergeBody(from, old, added, at)]
<1> HIDE DEF g
<1>9. from = [at \in P |-> MergeBody(from, old, added, at)]
  BY <1>8, Zenon
<1>10. MergeSorted(old, added) = from[<<1, 1>>]
  BY Zenon DEF MergeSorted, MergeBody, Positions
<1> QED BY <1>9, <1>10, Zenon

\* Positions decrease.
LEMMA PositionsDecrease ==
  ASSUME NEW old \in Seq(Pair), NEW added \in Seq(Pair), NEW at \in Positions(old, added)
  PROVE  /\ at = <<at[1], at[2]>>
         /\ at[1] \in 1 .. Len(old) + 1 /\ at[2] \in 1 .. Len(added) + 1
         /\ Left(old, added, at) \in 0 .. Len(old) + Len(added)
         /\ at[1] <= Len(old) => LET to == <<at[1] + 1, at[2]>>
              IN to \in Positions(old, added) /\ Left(old, added, to) < Left(old, added, at)
         /\ at[2] <= Len(added) => LET to == <<at[1], at[2] + 1>>
              IN to \in Positions(old, added) /\ Left(old, added, to) < Left(old, added, at)
<1>0. Len(old) \in Nat /\ Len(added) \in Nat
  OBVIOUS
<1>1. /\ at = <<at[1], at[2]>> /\ at[1] \in 1 .. Len(old) + 1 /\ at[2] \in 1 .. Len(added) + 1
  BY DEF Positions
<1>2. Left(old, added, at) \in 0 .. Len(old) + Len(added)
  BY <1>0, <1>1 DEF Left
<1>3. ASSUME at[1] <= Len(old) PROVE <<at[1] + 1, at[2]>> \in Positions(old, added)
  BY <1>0, <1>1, <1>3 DEF Positions
<1>4. ASSUME at[2] <= Len(added) PROVE <<at[1], at[2] + 1>> \in Positions(old, added)
  BY <1>0, <1>1, <1>4 DEF Positions
<1>5. /\ Left(old, added, <<at[1] + 1, at[2]>>) < Left(old, added, at)
      /\ Left(old, added, <<at[1], at[2] + 1>>) < Left(old, added, at)
  BY <1>0, <1>1 DEF Left
<1> QED BY <1>1, <1>2, <1>3, <1>4, <1>5

\* The pairs there are to be written from a position on.
Ahead(old, added, at) ==
  {old[q] : q \in {q \in at[1] .. Len(old) : Alive(old[q])}} \cup {added[q] : q \in at[2] .. Len(added)}

\* How often a pair is to be written from a position on.
Due(old, added, at, x) ==
  (IF Alive(x) THEN Occurs(old, at[1], x) ELSE 0) + Occurs(added, at[2], x)

\* What the merge writes is sorted, from the two sequences, and all of them
\* but the deleted pairs.
LEMMA MergeIsRight ==
  ASSUME NEW old \in Seq(Pair), NEW added \in Seq(Pair), Sorted(old), Sorted(added)
  PROVE  LET merged == MergeSorted(old, added)
         IN  /\ merged \in Seq(Pair) /\ Sorted(merged)
             /\ \A p \in DOMAIN merged : merged[p] \in Ahead(old, added, <<1, 1>>)
             /\ \A x \in Pair : Count(merged, x) = Due(old, added, <<1, 1>>, x)
<1>1. PICK f : /\ f = [at \in Positions(old, added) |-> MergeBody(f, old, added, at)]
               /\ MergeSorted(old, added) = f[<<1, 1>>]
  BY MergeDefined
<1> DEFINE P == Positions(old, added)
           size == [at \in P |-> Left(old, added, at)]
           Good(at) == /\ f[at] \in Seq(Pair) /\ Sorted(f[at])
                       /\ \A p \in DOMAIN f[at] : f[at][p] \in Ahead(old, added, at)
                       /\ \A x \in Pair : Count(f[at], x) = Due(old, added, at, x)
           Q == {at \in P : Good(at)}
<1>2. size \in [P -> Nat]
  <2>1. \A at \in P : Left(old, added, at) \in 0 .. Len(old) + Len(added)
    BY PositionsDecrease
  <2>2. \A at \in P : Left(old, added, at) \in Nat
    BY <2>1
  <2> QED BY <2>2
<1>3. ASSUME NEW at \in P, \A to \in P : size[to] < size[at] => to \in Q
      PROVE  at \in Q
  <2> DEFINE i == at[1]
             j == at[2]
             down == <<i + 1, j>>
             right == <<i, j + 1>>
  <2>1. /\ i \in 1 .. Len(old) + 1 /\ j \in 1 .. Len(added) + 1
        /\ Len(old) \in Nat /\ Len(added) \in Nat
    <3>1. i \in 1 .. Len(old) + 1 /\ j \in 1 .. Len(added) + 1
      BY PositionsDecrease
    <3> QED BY <3>1
  <2>2. i <= Len(old) => Good(down)
    BY <1>3, PositionsDecrease
  <2>3. j <= Len(added) => Good(right)
    BY <1>3, PositionsDecrease
  <2>4. f[at] = MergeBody(f, old, added, at)
    BY <1>1
  <2>5. \A q \in 1 .. Len(old) : old[q] \in Pair
    OBVIOUS
  <2>6. \A q \in 1 .. Len(added) : added[q] \in Pair
    OBVIOUS
  <2>a. /\ down[1] = i + 1 /\ down[2] = j /\ right[1] = i /\ right[2] = j + 1
        /\ at[1] = i /\ at[2] = j
    OBVIOUS
  <2> HIDE DEF P, Good, i, j, down, right
  <2>b. ASSUME NEW x
        PROVE  /\ Occurs(old, i, x) \in Nat /\ Occurs(added, j, x) \in Nat
               /\ i > Len(old) => Occurs(old, i, x) = 0
    BY <2>1, OccursFacts
  <2>c. ASSUME NEW x, i <= Len(old)
        PROVE  /\ Occurs(old, i, x) = (IF old[i] = x THEN 1 ELSE 0) + Occurs(old, i + 1, x)
               /\ Occurs(old, i + 1, x) \in Nat
    BY <2>1, <2>c, OccursFacts
  <2>d. ASSUME NEW x, j <= Len(added)
        PROVE  /\ Occurs(added, j, x) = (IF added[j] = x THEN 1 ELSE 0) + Occurs(added, j + 1, x)
               /\ Occurs(added, j + 1, x) \in Nat
    BY <2>1, <2>d, OccursFacts
  <2>7. CASE i > Len(old)
    <3>1. f[at] = SubSeq(added, j, Len(added))
      BY <2>4, <2>7 DEF MergeBody, i, j
    <3>2. /\ f[at] \in Seq(Pair)
          /\ \A p \in DOMAIN f[at] : f[at][p] = added[p + j - 1] /\ p + j - 1 \in j .. Len(added)
          /\ DOMAIN f[at] = 1 .. Len(added) - j + 1
      <4>1. /\ SubSeq(added, j, Len(added)) \in Seq(Pair)
            /\ Len(SubSeq(added, j, Len(added))) = Len(added) - j + 1
            /\ \A q \in 1 .. Len(added) - j + 1 : SubSeq(added, j, Len(added))[q] = added[j + q - 1]
        BY <2>1, <2>6, SubSeqProperties
      <4>2. \A q \in 1 .. Len(added) - j + 1 : j + q - 1 = q + j - 1 /\ q + j - 1 \in j .. Len(added)
        BY <2>1
      <4>3. DOMAIN SubSeq(added, j, Len(added)) = 1 .. Len(added) - j + 1
        BY <4>1
      <4> QED BY <3>1, <4>1, <4>2, <4>3
    <3>3. Sorted(f[at])
      <4> SUFFICES ASSUME NEW p \in DOMAIN f[at], NEW q \in DOMAIN f[at], p < q
                   PROVE  ~PairLess(f[at][q], f[at][p])
        BY DEF Sorted
      <4>1. /\ p + j - 1 \in DOMAIN added /\ q + j - 1 \in DOMAIN added /\ p + j - 1 < q + j - 1
        BY <2>1, <3>2
      <4> QED BY <3>2, <4>1 DEF Sorted
    <3>4. \A p \in DOMAIN f[at] : f[at][p] \in Ahead(old, added, at)
      BY <2>a, <3>2 DEF Ahead
    <3>5. ASSUME NEW x \in Pair PROVE Count(f[at], x) = Due(old, added, at, x)
      <4>1. Count(f[at], x) = Occurs(added, j, x) /\ Occurs(added, j, x) \in Nat
        BY <2>1, <2>b, <3>1, CountSubSeq
      <4>2. Occurs(old, i, x) = 0
        BY <2>b, <2>7
      <4> QED BY <4>1, <4>2, <2>a DEF Due
    <3> QED BY <3>2, <3>3, <3>4, <3>5 DEF Good
  <2>8. CASE i <= Len(old) /\ old[i].deleted
    <3>1. f[at] = f[down] /\ Good(down)
      BY <2>1, <2>2, <2>4, <2>8 DEF MergeBody, i, j, down, right
    <3>2. Ahead(old, added, down) \subseteq Ahead(old, added, at)
      BY <2>1, <2>a DEF Ahead
    <3>3. ASSUME NEW x \in Pair PROVE Due(old, added, down, x) = Due(old, added, at, x)
      <4>1. Alive(x) => Occurs(old, i, x) = Occurs(old, i + 1, x)
        BY <2>8, <2>c DEF Alive
      <4> QED BY <2>a, <4>1 DEF Due
    <3> QED BY <3>1, <3>2, <3>3 DEF Good
  <2>9. CASE i <= Len(old) /\ ~old[i].deleted /\ (j > Len(added) \/ PairLess(old[i], added[j]))
    <3>1. f[at] = <<old[i]>> \o f[down] /\ Good(down) /\ old[i] \in Pair
      BY <2>1, <2>2, <2>4, <2>5, <2>9 DEF MergeBody, i, j, down, right
    <3>2. Ahead(old, added, down) \cup {old[i]} \subseteq Ahead(old, added, at)
      BY <2>1, <2>9, <2>a DEF Ahead, Alive
    <3>3. ASSUME NEW e \in Ahead(old, added, down) PROVE ~PairLess(e, old[i])
      <4>1. CASE \E q \in i + 1 .. Len(old) : e = old[q]
        BY <2>1, <4>1 DEF Sorted
      <4>2. CASE \E q \in j .. Len(added) : e = added[q]
        <5>1. PICK q \in j .. Len(added) : e = added[q]
          BY <4>2
        <5>2. PairLess(old[i], added[j]) /\ added[j] \in Pair /\ e \in Pair
          BY <2>1, <2>6, <2>9, <5>1
        <5>3. ~PairLess(e, added[j])
          BY <2>1, <5>1, <5>2, PairOrder DEF Sorted
        <5> QED BY <3>1, <5>2, <5>3, PairOrder
      <4> QED BY <4>1, <4>2, <2>a DEF Ahead
    <3>4. /\ f[at] \in Seq(Pair)
          /\ \A p \in DOMAIN f[at] : f[at][p] \in {old[i]} \cup {f[down][q] : q \in DOMAIN f[down]}
      <4>1. f[down] \in Seq(Pair)
        BY <3>1 DEF Good
      <4>2. <<old[i]>> \o f[down] \in Seq(Pair)
        BY <3>1, <4>1
      <4> QED BY <3>1, <4>1, <4>2, ConsElements
    <3>5. Sorted(f[at])
      BY <3>1, <3>3, ConsSorted DEF Good
    <3>6. ASSUME NEW x \in Pair PROVE Count(f[at], x) = Due(old, added, at, x)
      <4>1. old[i] = x => Alive(x)
        BY <2>9 DEF Alive
      <4>2. Count(f[at], x) = (IF old[i] = x THEN 1 ELSE 0) + Due(old, added, down, x)
        <5>1. f[down] \in Seq(Pair) /\ Count(f[down], x) = Due(old, added, down, x)
          BY <3>1 DEF Good
        <5> QED BY <3>1, <5>1, CountCons
      <4> QED BY <2>9, <2>a, <2>b, <2>c, <4>1, <4>2 DEF Due
    <3> QED BY <3>1, <3>2, <3>4, <3>5, <3>6 DEF Good
  <2>10. CASE i <= Len(old) /\ ~old[i].deleted /\ j <= Len(added) /\ ~PairLess(old[i], added[j])
    <3>1. f[at] = <<added[j]>> \o f[right] /\ Good(right) /\ added[j] \in Pair
      BY <2>1, <2>3, <2>4, <2>6, <2>10 DEF MergeBody, i, j, down, right
    <3>2. Ahead(old, added, right) \cup {added[j]} \subseteq Ahead(old, added, at)
      BY <2>1, <2>10, <2>a DEF Ahead
    <3>3. ASSUME NEW e \in Ahead(old, added, right) PROVE ~PairLess(e, added[j])
      <4>1. CASE \E q \in j + 1 .. Len(added) : e = added[q]
        BY <2>1, <4>1 DEF Sorted
      <4>2. CASE \E q \in i .. Len(old) : e = old[q]
        <5>1. PICK q \in i .. Len(old) : e = old[q]
          BY <4>2
        <5>2. ~PairLess(old[i], added[j]) /\ old[i] \in Pair /\ e \in Pair
          BY <2>1, <2>5, <2>10, <5>1
        <5>3. ~PairLess(e, old[i])
          BY <2>1, <5>1, <5>2, PairOrder DEF Sorted
        <5> QED BY <3>1, <5>2, <5>3, PairOrder
      <4> QED BY <4>1, <4>2, <2>a DEF Ahead
    <3>4. /\ f[at] \in Seq(Pair)
          /\ \A p \in DOMAIN f[at] : f[at][p] \in {added[j]} \cup {f[right][q] : q \in DOMAIN f[right]}
      <4>1. f[right] \in Seq(Pair)
        BY <3>1 DEF Good
      <4>2. <<added[j]>> \o f[right] \in Seq(Pair)
        BY <3>1, <4>1
      <4> QED BY <3>1, <4>1, <4>2, ConsElements
    <3>5. Sorted(f[at])
      BY <3>1, <3>3, ConsSorted DEF Good
    <3>6. ASSUME NEW x \in Pair PROVE Count(f[at], x) = Due(old, added, at, x)
      <4>1. Count(f[at], x) = (IF added[j] = x THEN 1 ELSE 0) + Due(old, added, right, x)
        <5>1. f[right] \in Seq(Pair) /\ Count(f[right], x) = Due(old, added, right, x)
          BY <3>1 DEF Good
        <5> QED BY <3>1, <5>1, CountCons
      <4> QED BY <2>10, <2>a, <2>b, <2>d, <4>1 DEF Due
    <3> QED BY <3>1, <3>2, <3>4, <3>5, <3>6 DEF Good
  <2> QED BY <2>1, <2>7, <2>8, <2>9, <2>10
<1>4. Q = P
  <2>1. Q \in SUBSET P
    OBVIOUS
  <2> HIDE DEF P, size, Q
  <2> QED BY <1>2, <1>3, <2>1, InductionOverMeasure
<1>5. <<1, 1>> \in P
  BY DEF Positions
<1> QED BY <1>1, <1>4, <1>5

-----------------------------------------------------------------------------
\* The steps.

\* The new array of a resize.
LEMMA EndResizeIsRight ==
  ASSUME IndexInv, EndResize
  PROVE  /\ localIndices' \in Seq(Pair) /\ Sorted(localIndices')
         /\ \A p \in DOMAIN localIndices' : Alive(localIndices'[p])
         /\ \A x \in Pair : Count(localIndices', x) =
              (IF Alive(x) THEN Count(localIndices, x) ELSE 0) + Count(newIndices, x)
<1>1. /\ localIndices \in Seq(Pair) /\ newIndices \in Seq(Pair) /\ Sorted(localIndices)
      /\ \A i \in DOMAIN newIndices : Alive(newIndices[i])
      /\ ~deletedEntries => \A i \in DOMAIN localIndices : Alive(localIndices[i])
  BY DEF IndexInv, TypeOK, AlwaysSorted
<1>2. PICK added \in SortedOrders(newIndices) : localIndices' = Merge(added)
  BY DEF EndResize
<1>3. /\ added \in Seq(Pair) /\ Sorted(added)
      /\ \A x : Count(added, x) = Count(newIndices, x)
      /\ \A p \in DOMAIN added : Alive(added[p])
  BY <1>1, CountSorted
<1>4. \A s \in Seq(Pair) : \A x : Count(s, x) \in Nat /\ (s = <<>> => Count(s, x) = 0)
  <2> SUFFICES ASSUME NEW s \in Seq(Pair), NEW x
               PROVE  Count(s, x) \in Nat /\ (s = <<>> => Count(s, x) = 0)
    OBVIOUS
  <2>1. Len(s) \in Nat /\ (s = <<>> => Len(s) = 0)
    OBVIOUS
  <2>2. Occurs(s, 1, x) \in Nat /\ (Len(s) = 0 => Occurs(s, 1, x) = 0)
    BY <2>1, OccursFacts
  <2> QED BY <2>1, <2>2, CountIsOccurs
<1>5. CASE localIndices = <<>>
  <2>1. localIndices' = added
    BY <1>2, <1>5 DEF Merge
  <2>2. ASSUME NEW x \in Pair PROVE Count(localIndices, x) = 0 /\ Count(newIndices, x) \in Nat
    BY <1>1, <1>4, <1>5
  <2>3. ASSUME NEW x \in Pair
        PROVE  Count(added, x) = (IF Alive(x) THEN Count(localIndices, x) ELSE 0) + Count(newIndices, x)
    BY <1>3, <2>2
  <2> QED BY <1>3, <2>1, <2>3
<1>6. CASE localIndices # <<>> /\ ~(added # <<>> \/ deletedEntries)
  <2>1. localIndices' = localIndices /\ added = <<>> /\ ~deletedEntries
    BY <1>2, <1>6 DEF Merge
  <2>2. ASSUME NEW x \in Pair, ~Alive(x) PROVE Count(localIndices, x) = 0
    <3>1. {i \in DOMAIN localIndices : localIndices[i] = x} = {}
      BY <1>1, <2>1, <2>2
    <3> QED BY <3>1, FS_EmptySet DEF Count
  <2>3. ASSUME NEW x \in Pair
        PROVE  Count(localIndices, x) = (IF Alive(x) THEN Count(localIndices, x) ELSE 0) + Count(newIndices, x)
    <3>1. Count(newIndices, x) = 0 /\ Count(localIndices, x) \in Nat
      BY <1>1, <1>3, <1>4, <2>1
    <3> QED BY <2>2, <3>1
  <2> QED BY <1>1, <2>1, <2>3
<1>7. CASE localIndices # <<>> /\ (added # <<>> \/ deletedEntries)
  <2>1. localIndices' = MergeSorted(localIndices, added)
    BY <1>2, <1>7 DEF Merge
  <2>2. /\ localIndices' \in Seq(Pair) /\ Sorted(localIndices')
        /\ \A p \in DOMAIN localIndices' : localIndices'[p] \in Ahead(localIndices, added, <<1, 1>>)
        /\ \A x \in Pair : Count(localIndices', x) = Due(localIndices, added, <<1, 1>>, x)
    BY <1>1, <1>3, <2>1, MergeIsRight
  <2>3. ASSUME NEW e \in Ahead(localIndices, added, <<1, 1>>) PROVE Alive(e)
    <3>1. DOMAIN added = 1 .. Len(added)
      BY <1>3
    <3> QED BY <1>3, <2>3, <3>1 DEF Ahead
  <2>4. \A x \in Pair : Due(localIndices, added, <<1, 1>>, x) =
          (IF Alive(x) THEN Count(localIndices, x) ELSE 0) + Count(newIndices, x)
    BY <1>1, <1>3, CountIsOccurs DEF Due
  <2> QED BY <2>2, <2>3, <2>4
<1> QED BY <1>5, <1>6, <1>7

LEMMA IndexInit == Init => IndexInv
<1>1. <<>> \in Seq(Pair) /\ DOMAIN <<>> = {} /\ 0 \in 0 .. MaxSeqNo
  BY IndexAssumption
<1> QED BY <1>1 DEF Init, IndexInv, TypeOK, AlwaysSorted, Sorted

\* A pair that is changed in one field.
LEMMA ChangedPair ==
  ASSUME NEW x \in Pair, NEW n \in Nat, NEW b \in BOOLEAN
  PROVE  /\ LET y == [x EXCEPT !.deleted = b]
             IN  /\ y \in Pair /\ y.global = x.global /\ y.attribute = x.attribute
                 /\ y.deleted = b
         /\ LET y == [x EXCEPT !.local = n]
             IN  /\ y \in Pair /\ y.global = x.global /\ y.attribute = x.attribute
                 /\ y.deleted = x.deleted
BY DEF Pair

\* Every operation keeps the invariant.
LEMMA IndexStep == IndexInv /\ [Next]_vars => IndexInv'
<1> SUFFICES ASSUME IndexInv, [Next]_vars PROVE IndexInv'
  OBVIOUS
<1>0. /\ localIndices \in Seq(Pair) /\ newIndices \in Seq(Pair)
      /\ state \in {"GROUND", "RESIZE"} /\ seqNo \in 0 .. MaxSeqNo
      /\ deletedEntries \in BOOLEAN
      /\ state = "GROUND" => newIndices = <<>>
      /\ Sorted(localIndices)
      /\ \A i \in DOMAIN newIndices : Alive(newIndices[i])
      /\ \A i \in DOMAIN localIndices : Alive(localIndices[i]) \/ (state = "RESIZE" /\ deletedEntries)
  BY DEF IndexInv, TypeOK, AlwaysSorted
<1> USE DEF IndexInv, TypeOK, AlwaysSorted
<1>1. CASE BeginResize
  BY <1>0, <1>1 DEF BeginResize
<1>2. ASSUME NEW g \in Global, NEW l \in Local, NEW a \in Attribute, Add(g, l, a) PROVE IndexInv'
  <2> DEFINE pair == [global |-> g, local |-> l, attribute |-> a, deleted |-> FALSE]
  <2>1. pair \in Pair /\ Alive(pair)
    BY IndexAssumption DEF Pair, Alive
  <2>2. newIndices' = Append(newIndices, pair)
    BY <1>2 DEF Add
  <2> HIDE DEF pair
  <2>3. newIndices' \in Seq(Pair) /\ \A i \in DOMAIN newIndices' : Alive(newIndices'[i])
    BY <1>0, <2>1, <2>2
  <2> QED BY <1>0, <1>2, <2>3 DEF Add
<1>3. ASSUME NEW place \in DOMAIN localIndices, MarkAsDeleted(place) PROVE IndexInv'
  <2>1. localIndices' = [localIndices EXCEPT ![place].deleted = TRUE]
    BY <1>3 DEF MarkAsDeleted
  <2>2. localIndices' \in Seq(Pair) /\ DOMAIN localIndices' = DOMAIN localIndices
    <3>1. localIndices[place] \in Pair
      BY <1>0
    <3>2. [localIndices[place] EXCEPT !.deleted = TRUE] \in Pair
      BY <3>1, ChangedPair
    <3> QED BY <1>0, <2>1, <3>2
  <2>3. \A i \in DOMAIN localIndices : /\ localIndices'[i].global = localIndices[i].global
                                       /\ localIndices'[i].attribute = localIndices[i].attribute
    BY <1>0, <2>1 DEF Pair
  <2>4. Sorted(localIndices')
    BY <1>0, <2>2, <2>3 DEF Sorted, PairLess
  <2> QED BY <1>0, <1>3, <2>2, <2>4 DEF MarkAsDeleted
<1>4. CASE EndResize
  <2>1. seqNo' \in 0 .. MaxSeqNo
    BY <1>0, <1>4, IndexAssumption DEF EndResize
  <2>2. /\ localIndices' \in Seq(Pair) /\ Sorted(localIndices')
        /\ \A p \in DOMAIN localIndices' : Alive(localIndices'[p])
    BY <1>4, EndResizeIsRight
  <2> QED BY <1>0, <1>4, <2>1, <2>2 DEF EndResize
<1>5. CASE RenumberLocal
  <2>1. localIndices' = [i \in DOMAIN localIndices |-> [localIndices[i] EXCEPT !.local = i - 1]]
    BY <1>5 DEF RenumberLocal
  <2>2. DOMAIN localIndices = 1 .. Len(localIndices) /\ Len(localIndices) \in Nat
    BY <1>0
  <2>3. \A i \in DOMAIN localIndices : [localIndices[i] EXCEPT !.local = i - 1] \in Pair
    <3> SUFFICES ASSUME NEW i \in DOMAIN localIndices
                 PROVE  [localIndices[i] EXCEPT !.local = i - 1] \in Pair
      OBVIOUS
    <3>1. localIndices[i] \in Pair /\ i - 1 \in Nat
      BY <1>0, <2>2
    <3> QED BY <3>1, ChangedPair
  <2>4. localIndices' \in Seq(Pair) /\ DOMAIN localIndices' = DOMAIN localIndices
    BY <2>1, <2>2, <2>3
  <2>5. \A i \in DOMAIN localIndices : /\ localIndices'[i].global = localIndices[i].global
                                       /\ localIndices'[i].attribute = localIndices[i].attribute
                                       /\ localIndices'[i].deleted = localIndices[i].deleted
    <3> SUFFICES ASSUME NEW i \in DOMAIN localIndices
                 PROVE  /\ localIndices'[i].global = localIndices[i].global
                        /\ localIndices'[i].attribute = localIndices[i].attribute
                        /\ localIndices'[i].deleted = localIndices[i].deleted
      OBVIOUS
    <3>1. localIndices[i] \in Pair /\ i - 1 \in Nat /\ localIndices'[i] = [localIndices[i] EXCEPT !.local = i - 1]
      BY <1>0, <2>1, <2>2
    <3> QED BY <3>1, ChangedPair
  <2>6. Sorted(localIndices')
    BY <1>0, <2>4, <2>5 DEF Sorted, PairLess
  <2> QED BY <1>0, <1>5, <2>4, <2>5, <2>6 DEF RenumberLocal, Alive
<1>6. CASE UNCHANGED vars
  BY <1>0, <1>6 DEF vars
<1> QED BY <1>1, <1>2, <1>3, <1>4, <1>5, <1>6 DEF Next

-----------------------------------------------------------------------------

\* For any indices and bounds: the invariant holds in every reachable state.
THEOREM IndexInvariant == Spec => []IndexInv
BY IndexInit, IndexStep, PTL DEF Spec

\* The members keep their types, and new pairs are kept during a resize only.
THEOREM TypeCorrect == Spec => []TypeOK
<1>1. IndexInv => TypeOK
  BY DEF IndexInv
<1> QED BY <1>1, IndexInvariant, PTL

\* The array is sorted over any sequence of resizes.
THEOREM StaysSorted == Spec => []AlwaysSorted
<1>1. IndexInv => AlwaysSorted
  BY DEF IndexInv
<1> QED BY <1>1, IndexInvariant, PTL

\* No deleted pair outlives its resize.
THEOREM DeletedAreGone == Spec => []NoDeletedBetweenResizes
<1>1. IndexInv => NoDeletedBetweenResizes
  BY DEF IndexInv, NoDeletedBetweenResizes
<1> QED BY <1>1, IndexInvariant, PTL

\* endResize() keeps exactly the pairs that are alive and those added.
THEOREM NothingLost == Spec => ResizeIsExact
<1> DEFINE Exact == EndResize =>
             \A x \in {localIndices'[i] : i \in DOMAIN localIndices'}
                        \cup {localIndices[i] : i \in DOMAIN localIndices}
                        \cup {newIndices[i] : i \in DOMAIN newIndices} :
               Count(localIndices', x) =
                 (IF Alive(x) THEN Count(localIndices, x) ELSE 0) + Count(newIndices, x)
<1>1. IndexInv /\ IndexInv' => Exact
  <2> SUFFICES ASSUME IndexInv, IndexInv', EndResize,
                      NEW x \in {localIndices'[i] : i \in DOMAIN localIndices'}
                                 \cup {localIndices[i] : i \in DOMAIN localIndices}
                                 \cup {newIndices[i] : i \in DOMAIN newIndices}
               PROVE  Count(localIndices', x) =
                        (IF Alive(x) THEN Count(localIndices, x) ELSE 0) + Count(newIndices, x)
    OBVIOUS
  <2>1. x \in Pair
    BY DEF IndexInv, TypeOK
  <2> QED BY <2>1, EndResizeIsRight
<1>2. Spec => [][IndexInv /\ IndexInv']_vars
  BY IndexInvariant, PTL
<1> QED BY <1>1, <1>2, PTL DEF ResizeIsExact

-----------------------------------------------------------------------------
\* The binary search.

SearchBody(loop, s, global, at) ==
  LET low == at[1]
      high == at[2]
      probe == (high + low) \div 2
  IN IF low >= high THEN low
     ELSE IF global <= s[probe + 1].global THEN loop[<<low, probe>>]
     ELSE loop[<<probe + 1, high>>]

Ranges(s) == (0 .. Len(s)) \X (-1 .. Len(s))

\* The middle of a range, and the two ranges the search goes on with.
LEMMA Halves ==
  ASSUME NEW s \in Seq(Pair), NEW low \in 0 .. Len(s), NEW high \in -1 .. Len(s), low < high
  PROVE  LET probe == (high + low) \div 2
         IN  /\ probe \in low .. high - 1
             /\ <<low, probe>> \in Ranges(s) /\ <<probe + 1, high>> \in Ranges(s)
             /\ probe - low + 1 \in 1 .. high - low
             /\ high - (probe + 1) + 1 \in 1 .. high - low
<1>1. Len(s) \in Nat
  OBVIOUS
<1>2. PICK probe \in Int : probe = (high + low) \div 2
  BY <1>1
<1>3. probe \in low .. high - 1
  BY <1>1, <1>2
<1> QED BY <1>1, <1>2, <1>3 DEF Ranges

\* How far apart the ends of a range are.
Width(at) == IF at[1] <= at[2] THEN at[2] - at[1] + 1 ELSE 0

LEMMA HalvesAreNarrower ==
  ASSUME NEW s \in Seq(Pair), NEW at \in Ranges(s)
  PROVE  /\ at[1] \in 0 .. Len(s) /\ at[2] \in -1 .. Len(s) /\ Len(s) \in Nat
         /\ Width(at) \in 0 .. Len(s) + 1
         /\ ~(at[1] >= at[2]) => LET probe == (at[2] + at[1]) \div 2
              IN /\ probe \in at[1] .. at[2] - 1
                 /\ <<at[1], probe>> \in Ranges(s) /\ Width(<<at[1], probe>>) < Width(at)
                 /\ <<probe + 1, at[2]>> \in Ranges(s) /\ Width(<<probe + 1, at[2]>>) < Width(at)
<1>1. at[1] \in 0 .. Len(s) /\ at[2] \in -1 .. Len(s) /\ Len(s) \in Nat
  BY DEF Ranges
<1>2. Width(at) \in 0 .. Len(s) + 1
  BY <1>1 DEF Width
<1>3. ASSUME ~(at[1] >= at[2])
      PROVE  LET probe == (at[2] + at[1]) \div 2
             IN /\ probe \in at[1] .. at[2] - 1
                /\ <<at[1], probe>> \in Ranges(s) /\ Width(<<at[1], probe>>) < Width(at)
                /\ <<probe + 1, at[2]>> \in Ranges(s) /\ Width(<<probe + 1, at[2]>>) < Width(at)
  <2>1. at[1] < at[2]
    BY <1>1, <1>3
  <2>2. PICK probe \in Int : probe = (at[2] + at[1]) \div 2
    BY <1>1
  <2>3. /\ probe \in at[1] .. at[2] - 1
        /\ <<at[1], probe>> \in Ranges(s) /\ <<probe + 1, at[2]>> \in Ranges(s)
    BY <1>1, <2>1, <2>2, Halves
  <2>4. Width(<<at[1], probe>>) < Width(at) /\ Width(<<probe + 1, at[2]>>) < Width(at)
    BY <1>1, <2>1, <2>3 DEF Width
  <2> QED BY <2>2, <2>3, <2>4
<1> QED BY <1>1, <1>2, <1>3

\* The function the search is written with exists.
LEMMA SearchDefined ==
  ASSUME NEW s \in Seq(Pair), NEW global \in Int
  PROVE  \E loop : /\ loop = [at \in Ranges(s) |-> SearchBody(loop, s, global, at)]
                   /\ Search(s, global) = [low |-> loop[<<0, Len(s) - 1>>], entered |-> Len(s) > 1]
<1> DEFINE P == Ranges(s)
           Up(f, k) == \A at \in P : Width(at) < k => f[at] = SearchBody(f, s, global, at)
           T == {k \in Nat : \E f : Up(f, k)}
<1> HIDE DEF P
<1>1. \A at \in P : Width(at) \in 0 .. Len(s) + 1 /\ Len(s) \in Nat
  BY HalvesAreNarrower DEF P
<1>2. ASSUME NEW f, NEW g, NEW at \in P,
             \A to \in P : Width(to) < Width(at) => f[to] = g[to]
      PROVE  SearchBody(f, s, global, at) = SearchBody(g, s, global, at)
  <2> DEFINE probe == (at[2] + at[1]) \div 2
  <2>1. CASE at[1] >= at[2]
    BY <2>1 DEF SearchBody
  <2>2. CASE ~(at[1] >= at[2])
    <3>1. /\ <<at[1], probe>> \in P /\ Width(<<at[1], probe>>) < Width(at)
          /\ <<probe + 1, at[2]>> \in P /\ Width(<<probe + 1, at[2]>>) < Width(at)
      BY <2>2, HalvesAreNarrower DEF P
    <3>2. f[<<at[1], probe>>] = g[<<at[1], probe>>] /\ f[<<probe + 1, at[2]>>] = g[<<probe + 1, at[2]>>]
      BY <1>2, <3>1
    <3> QED BY <3>2 DEF SearchBody
  <2> QED BY <2>1, <2>2
<1>3. 0 \in T
  <2>1. \A at \in P : ~(Width(at) < 0)
    BY <1>1
  <2> QED BY <2>1
<1>4. ASSUME NEW k \in T PROVE k + 1 \in T
  <2>1. PICK f : Up(f, k)
    OBVIOUS
  <2> DEFINE g == [at \in P |-> IF Width(at) < k THEN f[at] ELSE SearchBody(f, s, global, at)]
  <2>2. \A at \in P : Width(at) < k => g[at] = f[at]
    OBVIOUS
  <2>3. \A at \in P : g[at] = SearchBody(f, s, global, at)
    BY <2>1
  <2> HIDE DEF g
  <2>4. ASSUME NEW at \in P, Width(at) < k + 1
        PROVE  SearchBody(g, s, global, at) = SearchBody(f, s, global, at)
    <3>1. \A to \in P : Width(to) < Width(at) => Width(to) < k
      BY <1>1, <2>4
    <3> QED BY <1>2, <2>2, <3>1
  <2>5. Up(g, k + 1)
    BY <2>3, <2>4
  <2> QED BY <2>5
<1>5. T = Nat
  <2> HIDE DEF T
  <2> QED BY <1>3, <1>4, InductionOverNat DEF T
<1>6. PICK f : Up(f, Len(s) + 2)
  <2>1. Len(s) + 2 \in Nat
    OBVIOUS
  <2>2. Len(s) + 2 \in T
    BY <1>5, <2>1, Zenon
  <2> QED BY <2>2
<1> DEFINE g == [at \in P |-> f[at]]
<1>7. ASSUME NEW at \in P PROVE g[at] = SearchBody(g, s, global, at)
  <2>1. f[at] = SearchBody(f, s, global, at)
    BY <1>1, <1>6
  <2>2. SearchBody(f, s, global, at) = SearchBody(g, s, global, at)
    BY <1>2
  <2> QED BY <2>1, <2>2
<1> DEFINE loop == CHOOSE loop : loop = [at \in P |-> SearchBody(loop, s, global, at)]
<1>8. g = [at \in P |-> SearchBody(g, s, global, at)]
  BY <1>7
<1> HIDE DEF g
<1>9. loop = [at \in P |-> SearchBody(loop, s, global, at)]
  BY <1>8, Zenon
<1>10. Search(s, global) = [low |-> loop[<<0, Len(s) - 1>>], entered |-> Len(s) > 1]
  BY Zenon DEF Search, SearchBody, Ranges, P
<1> QED BY <1>9, <1>10, Zenon DEF P

\* The global indices of a sorted sequence.
LEMMA SortedGlobals ==
  ASSUME NEW s \in Seq(Pair), Sorted(s)
  PROVE  /\ Len(s) \in Nat /\ (s # <<>> <=> Len(s) # 0)
         /\ \A k \in 1 .. Len(s) : s[k] \in Pair /\ s[k].global \in Int
         /\ \A k, l \in 1 .. Len(s) : k < l => s[k].global <= s[l].global
<1>1. /\ Len(s) \in Nat /\ (s # <<>> <=> Len(s) # 0)
      /\ DOMAIN s = 1 .. Len(s) /\ \A k \in 1 .. Len(s) : s[k] \in Pair
  OBVIOUS
<1>2. \A k \in 1 .. Len(s) : s[k].global \in Int
  BY <1>1, IndexAssumption DEF Pair
<1>3. ASSUME NEW k \in 1 .. Len(s), NEW l \in 1 .. Len(s), k < l
      PROVE  s[k].global <= s[l].global
  <2>1. ~PairLess(s[l], s[k])
    BY <1>1, <1>3 DEF Sorted
  <2> QED BY <1>2, <2>1 DEF PairLess
<1> QED BY <1>1, <1>2, <1>3

\* In a sorted sequence the search ends at the first pair that is not before
\* the global index, or at the last pair.
LEMMA SearchIsRight ==
  ASSUME NEW s \in Seq(Pair), Sorted(s), NEW global \in Int, s # <<>>
  PROVE  LET found == Search(s, global).low
         IN  /\ found \in 0 .. Len(s) - 1
             /\ \A k \in 1 .. found : s[k].global < global
             /\ found < Len(s) - 1 => global <= s[found + 1].global
<1>1. PICK loop : /\ loop = [at \in Ranges(s) |-> SearchBody(loop, s, global, at)]
                  /\ Search(s, global) = [low |-> loop[<<0, Len(s) - 1>>], entered |-> Len(s) > 1]
  BY SearchDefined
<1> DEFINE P == Ranges(s)
           size == [at \in P |-> Width(at)]
           Good(at) == at[1] <= at[2] /\ at[2] < Len(s) =>
                         /\ loop[at] \in at[1] .. at[2]
                         /\ \A k \in at[1] + 1 .. loop[at] : s[k].global < global
                         /\ loop[at] < at[2] => global <= s[loop[at] + 1].global
           Q == {at \in P : Good(at)}
<1>2. size \in [P -> Nat]
  <2>1. \A at \in P : Width(at) \in 0 .. Len(s) + 1 /\ Len(s) \in Nat
    BY HalvesAreNarrower
  <2>2. \A at \in P : Width(at) \in Nat
    BY <2>1
  <2> QED BY <2>2
<1>a. /\ Len(s) \in Nat \ {0} /\ \A k \in 1 .. Len(s) : s[k] \in Pair /\ s[k].global \in Int
      /\ \A k, l \in 1 .. Len(s) : k < l => s[k].global <= s[l].global
  BY SortedGlobals
<1>3. ASSUME NEW at \in P, \A to \in P : size[to] < size[at] => to \in Q
      PROVE  at \in Q
  <2> DEFINE low == at[1]
             high == at[2]
             probe == (high + low) \div 2
  <2> SUFFICES ASSUME low <= high, high < Len(s)
               PROVE  /\ loop[at] \in low .. high
                      /\ \A k \in low + 1 .. loop[at] : s[k].global < global
                      /\ loop[at] < high => global <= s[loop[at] + 1].global
    OBVIOUS
  <2>1. low \in 0 .. Len(s) /\ high \in -1 .. Len(s)
    BY HalvesAreNarrower
  <2>2. loop[at] = SearchBody(loop, s, global, at)
    BY <1>1
  <2>3. CASE low >= high
    <3>1. loop[at] = low
      BY <2>2, <2>3 DEF SearchBody
    <3> QED BY <2>1, <2>3, <3>1
  <2>4. CASE ~(low >= high)
    <3>1. /\ probe \in low .. high - 1
          /\ <<low, probe>> \in P /\ Width(<<low, probe>>) < Width(at)
          /\ <<probe + 1, high>> \in P /\ Width(<<probe + 1, high>>) < Width(at)
      BY <2>4, HalvesAreNarrower
    <3>2. Good(<<low, probe>>) /\ Good(<<probe + 1, high>>)
      BY <1>3, <3>1
    <3> HIDE DEF P, size
    <3>3. CASE global <= s[probe + 1].global
      <4>1. loop[at] = loop[<<low, probe>>]
        BY <2>2, <2>4, <3>3 DEF SearchBody
      <4>2. /\ loop[at] \in low .. probe
            /\ \A k \in low + 1 .. loop[at] : s[k].global < global
            /\ loop[at] < probe => global <= s[loop[at] + 1].global
        <5>1. low <= probe /\ probe < Len(s)
          BY <1>a, <2>1, <3>1
        <5>2. <<low, probe>>[1] = low /\ <<low, probe>>[2] = probe
          OBVIOUS
        <5> HIDE DEF low, high, probe
        <5> QED BY <3>2, <4>1, <5>1, <5>2
      <4>3. loop[at] \in Int /\ (loop[at] < probe \/ loop[at] = probe)
        BY <2>1, <3>1, <4>2
      <4>4. loop[at] \in low .. high
        BY <2>1, <3>1, <4>2
      <4> QED BY <3>3, <4>2, <4>3, <4>4
    <3>4. CASE ~(global <= s[probe + 1].global)
      <4>1. loop[at] = loop[<<probe + 1, high>>]
        BY <2>2, <2>4, <3>4 DEF SearchBody
      <4>2. /\ loop[at] \in probe + 1 .. high
            /\ \A k \in probe + 2 .. loop[at] : s[k].global < global
            /\ loop[at] < high => global <= s[loop[at] + 1].global
        <5>1. probe + 1 <= high /\ high < Len(s) /\ (probe + 1) + 1 = probe + 2
          BY <1>a, <2>1, <3>1
        <5>2. <<probe + 1, high>>[1] = probe + 1 /\ <<probe + 1, high>>[2] = high
          OBVIOUS
        <5> HIDE DEF low, high, probe
        <5> QED BY <3>2, <4>1, <5>1, <5>2
      <4>3. ASSUME NEW k \in low + 1 .. loop[at] PROVE s[k].global < global
        <5>1. CASE k \in probe + 2 .. loop[at]
          BY <4>2, <5>1
        <5>2. CASE k \in low + 1 .. probe + 1
          <6> HIDE DEF low, high, probe
          <6>1. probe + 1 \in 1 .. Len(s) /\ k \in 1 .. Len(s) /\ (k = probe + 1 \/ k < probe + 1)
            <7>1. low \in Int /\ low >= 0 /\ high \in Int /\ high < Len(s) /\ probe \in low .. high - 1
              BY <2>1, <3>1
            <7>2. k \in Int /\ low + 1 <= k /\ k <= probe + 1 /\ Len(s) \in Nat
              BY <1>a, <5>2, <7>1
            <7> QED BY <7>1, <7>2
          <6>2. s[k].global <= s[probe + 1].global
            BY <1>a, <6>1
          <6> QED BY <1>a, <3>4, <6>1, <6>2
        <5> QED BY <2>1, <3>1, <4>2, <5>1, <5>2
      <4>4. loop[at] \in low .. high
        BY <2>1, <3>1, <4>2
      <4> QED BY <4>2, <4>3, <4>4
    <3> QED BY <3>3, <3>4
  <2> QED BY <2>3, <2>4
<1>4. Q = P
  <2>1. Q \in SUBSET P
    OBVIOUS
  <2> HIDE DEF P, size, Q
  <2> QED BY <1>2, <1>3, <2>1, InductionOverMeasure
<1>5. <<0, Len(s) - 1>> \in P
  BY <1>a DEF Ranges
<1>6. Good(<<0, Len(s) - 1>>)
  BY <1>4, <1>5
<1>7. /\ <<0, Len(s) - 1>>[1] = 0 /\ <<0, Len(s) - 1>>[2] = Len(s) - 1
      /\ 0 <= Len(s) - 1 /\ Len(s) - 1 < Len(s) /\ 0 + 1 = 1
  BY <1>a
<1>8. Search(s, global).low = loop[<<0, Len(s) - 1>>]
  BY <1>1
<1> HIDE DEF P, size, Q
<1> QED BY <1>6, <1>7, <1>8

\* The lookup of a global index finds its first pair.
THEOREM LookupIsRight == Spec => []LookupFindsFirst
<1>1. ASSUME IndexInv PROVE LookupFindsFirst
  <2>1. localIndices \in Seq(Pair) /\ Sorted(localIndices)
    BY <1>1 DEF IndexInv, TypeOK, AlwaysSorted
  <2>2. /\ Len(localIndices) \in Nat /\ DOMAIN localIndices = 1 .. Len(localIndices)
        /\ \A k \in 1 .. Len(localIndices) : localIndices[k] \in Pair
    BY <2>1
  <2>3. ASSUME NEW g \in Int, localIndices # <<>>
        PROVE  /\ Search(localIndices, g).low \in 0 .. Len(localIndices) - 1
               /\ \A k \in 1 .. Search(localIndices, g).low : localIndices[k].global < g
               /\ Search(localIndices, g).low < Len(localIndices) - 1
                    => g <= localIndices[Search(localIndices, g).low + 1].global
    BY <2>1, <2>3, SearchIsRight
  <2> DEFINE found(g) == Search(localIndices, g).low
  <2>4. ASSUME NEW g \in Int, localIndices # <<>>,
               NEW k \in 1 .. Len(localIndices), localIndices[k].global = g
        PROVE  localIndices[found(g) + 1].global = g
    <3>1. k >= found(g) + 1 /\ found(g) + 1 \in 1 .. Len(localIndices)
      BY <2>2, <2>3, <2>4
    <3>2. localIndices[found(g) + 1].global <= g
      <4>1. CASE k = found(g) + 1
        BY <2>4, <4>1
      <4>2. CASE k > found(g) + 1
        BY <2>1, <2>2, <2>4, <3>1, <4>2, SortedGlobals
      <4> QED BY <2>3, <2>4, <3>1, <4>1, <4>2
    <3>3. g <= localIndices[found(g) + 1].global
      <4>1. CASE found(g) < Len(localIndices) - 1
        BY <2>3, <2>4, <4>1
      <4>2. CASE found(g) = Len(localIndices) - 1
        BY <2>2, <2>4, <3>1, <4>2
      <4> QED BY <2>2, <2>3, <2>4, <4>1, <4>2
    <3> QED BY <2>1, <2>4, <3>1, <3>2, <3>3, SortedGlobals
  <2>5. ASSUME NEW g \in Globals
        PROVE  \E i \in DOMAIN localIndices :
                 /\ Subscript(g) = localIndices[i] /\ localIndices[i].global = g
                 /\ \A j \in 1 .. i - 1 : localIndices[j].global # g
    <3>1. PICK k \in 1 .. Len(localIndices) : localIndices[k].global = g
      BY <2>2 DEF Globals
    <3>2. g \in Int /\ localIndices # <<>>
      BY <2>1, <2>2, <3>1, SortedGlobals
    <3>3. localIndices[found(g) + 1].global = g
      BY <2>4, <3>1, <3>2
    <3>4. /\ found(g) + 1 \in DOMAIN localIndices
          /\ \A j \in 1 .. (found(g) + 1) - 1 : localIndices[j].global < g
      BY <2>2, <2>3, <3>2
    <3>5. \A j \in 1 .. (found(g) + 1) - 1 : localIndices[j].global # g
      BY <2>1, <2>2, <3>2, <3>4, SortedGlobals
    <3> QED BY <3>3, <3>4, <3>5 DEF Subscript
  <2>6. ASSUME Len(localIndices) # 1, NEW g \in Global PROVE Exists(g) <=> g \in Globals
    <3>1. g \in Int
      BY IndexAssumption
    <3>2. PICK loop : Search(localIndices, g) =
                        [low |-> loop[<<0, Len(localIndices) - 1>>], entered |-> Len(localIndices) > 1]
      BY <2>1, <3>1, SearchDefined
    <3>3. /\ Len(localIndices) > 1 => Search(localIndices, g).entered
          /\ Len(localIndices) = 0 => ~Search(localIndices, g).entered
      <4> DEFINE several == Len(localIndices) > 1
                 result == Search(localIndices, g)
      <4>1. \E low : result = [low |-> low, entered |-> several]
        BY <3>2
      <4>2. several \in BOOLEAN
        OBVIOUS
      <4>3. result.entered = several
        <5> HIDE DEF several, result
        <5> QED BY <4>1, <4>2
      <4>4. result.entered <=> several
        BY <4>2, <4>3, Zenon
      <4>5. Len(localIndices) = 0 => ~several
        BY <2>2
      <4> QED BY <4>4, <4>5, Zenon
    <3>4. CASE Len(localIndices) = 0
      BY <2>2, <3>3, <3>4 DEF Exists, Globals
    <3>5. CASE Len(localIndices) > 1
      <4>1. localIndices # <<>> /\ found(g) + 1 \in DOMAIN localIndices
        BY <2>2, <2>3, <3>1, <3>5
      <4>2. Exists(g) <=> localIndices[found(g) + 1].global = g
        BY <3>3, <3>5 DEF Exists
      <4>3. g \in Globals => localIndices[found(g) + 1].global = g
        BY <2>2, <2>4, <3>1, <4>1 DEF Globals
      <4> QED BY <4>1, <4>2, <4>3 DEF Globals
    <3> QED BY <2>2, <2>6, <3>4, <3>5
  <2> QED BY <2>5, <2>6 DEF LookupFindsFirst
<1> QED BY <1>1, IndexInvariant, PTL

-----------------------------------------------------------------------------
(* Following the links of an SLList.                                       *)

\* The cell behind the i-th of a sequence of cells, or null.
Behind(s, i) == IF i < Len(s) THEN s[i + 1] ELSE L!Null

\* The links lead from first through the cells of s, once each, to the end.
Linked(links, s, first) ==
  /\ first = Behind(s, 0)
  /\ \A i \in 1 .. Len(s) : links[s[i]] = Behind(s, i)
  /\ \A i, j \in 1 .. Len(s) : s[i] = s[j] => i = j

\* What Follow is defined by.
FollowBody(from, links, at) ==
  LET c == at[1]
      left == at[2]
  IN IF c = L!Null \/ left = 0 THEN <<>> ELSE <<c>> \o from[<<links[c], left - 1>>]

LEMMA CellCount == \A S : L!Cardinality(S) = Cardinality(S)
BY Zenon DEF L!Cardinality, Cardinality, L!IsFiniteSet, IsFiniteSet

\* The function Follow is written with exists, so that it is what its definition says,
\* from the cells that are linked to cells.
LEMMA FollowDefined ==
  ASSUME NEW n \in Nat, NEW links \in [0 .. n -> -1 .. n], NEW first \in -1 .. n
  PROVE  \E f : /\ f = [at \in (-1 .. n) \X (0 .. n) |-> FollowBody(f, links, at)]
                /\ L!Follow(links, first) = f[<<first, n>>]
<1> DEFINE P == (DOMAIN links \cup {L!Null}) \X (0 .. L!Cardinality(DOMAIN links \ {0}))
           Up(f, k) == \A at \in P : at[2] < k => f[at] = FollowBody(f, links, at)
           T == {k \in Nat : \E f : Up(f, k)}
<1>a. L!Cardinality(DOMAIN links \ {0}) = n /\ P = (-1 .. n) \X (0 .. n)
  <2>1. DOMAIN links \ {0} = 1 .. n /\ DOMAIN links \cup {L!Null} = -1 .. n
    BY DEF L!Null
  <2>2. L!Cardinality(1 .. n) = n
    BY FS_Interval, CellCount
  <2> QED BY <2>1, <2>2
<1>1. \A at \in P : at[1] \in -1 .. n /\ at[2] \in 0 .. n
  BY <1>a
<1>b. \A at \in P : at[1] # -1 /\ at[2] # 0 => <<links[at[1]], at[2] - 1>> \in P
  <2> SUFFICES ASSUME NEW at \in P, at[1] # -1 /\ at[2] # 0 PROVE <<links[at[1]], at[2] - 1>> \in P
    OBVIOUS
  <2>0. at[1] # -1 /\ at[2] # 0
    OBVIOUS
  <2> HIDE DEF P
  <2>1. at[1] \in 0 .. n /\ at[2] \in 1 .. n
    BY <1>1, <2>0
  <2>2. links[at[1]] \in -1 .. n /\ at[2] - 1 \in 0 .. n
    BY <2>1
  <2> QED BY <1>a, <2>2
<1>c. \A at \in P : at[2] - 1 < at[2] /\ <<at[1], at[2] - 1>>[2] = at[2] - 1
  BY <1>1
<1> HIDE DEF P
<1>2. ASSUME NEW f, NEW g, NEW at \in P, \A to \in P : to[2] < at[2] => f[to] = g[to]
      PROVE  FollowBody(f, links, at) = FollowBody(g, links, at)
  <2>1. ASSUME at[1] # -1, at[2] # 0
        PROVE  f[<<links[at[1]], at[2] - 1>>] = g[<<links[at[1]], at[2] - 1>>]
    <3>1. <<links[at[1]], at[2] - 1>> \in P /\ at[2] - 1 < at[2]
      BY <1>b, <1>c, <2>1
    <3> QED BY <1>2, <3>1
  <2> QED BY <2>1 DEF FollowBody, L!Null
<1>3. 0 \in T
  BY <1>1
<1>4. ASSUME NEW k \in T PROVE k + 1 \in T
  <2>1. PICK f : Up(f, k)
    OBVIOUS
  <2> DEFINE g == [at \in P |-> IF at[2] < k THEN f[at] ELSE FollowBody(f, links, at)]
  <2>2. \A at \in P : at[2] < k => g[at] = f[at]
    OBVIOUS
  <2>3. \A at \in P : g[at] = FollowBody(f, links, at)
    BY <2>1
  <2> HIDE DEF g
  <2>4. ASSUME NEW at \in P, at[2] < k + 1 PROVE FollowBody(g, links, at) = FollowBody(f, links, at)
    <3>1. \A to \in P : to[2] < at[2] => to[2] < k
      BY <1>1, <2>4
    <3> QED BY <1>2, <2>2, <3>1
  <2>5. Up(g, k + 1)
    BY <2>3, <2>4
  <2> QED
    <3> HIDE DEF Up
    <3> QED BY <2>5
<1>5. T = Nat
  <2> HIDE DEF T
  <2> QED BY <1>3, <1>4, InductionOverNat DEF T
<1>6. PICK f : Up(f, n + 1)
  <2>1. n + 1 \in T
    <3> HIDE DEF T
    <3> QED BY <1>5
  <2> HIDE DEF Up
  <2> QED BY <2>1
<1> DEFINE g == [at \in P |-> f[at]]
<1>7. \A at \in P : g[at] = FollowBody(g, links, at)
  <2>1. ASSUME NEW at \in P PROVE f[at] = FollowBody(f, links, at)
    BY <1>1, <1>6
  <2>2. ASSUME NEW at \in P PROVE FollowBody(f, links, at) = FollowBody(g, links, at)
    BY <1>2
  <2> QED BY <2>1, <2>2
<1>8. g = [at \in P |-> FollowBody(g, links, at)]
  BY <1>7
<1> DEFINE from == CHOOSE from : from = [at \in P |-> FollowBody(from, links, at)]
<1> HIDE DEF g
<1>9. from = [at \in P |-> FollowBody(from, links, at)]
  BY <1>8, Zenon
<1>10. L!Follow(links, first) = from[<<first, L!Cardinality(DOMAIN links \ {0})>>]
  BY Zenon DEF L!Follow, FollowBody, P
<1> HIDE DEF from
<1> QED BY <1>9, <1>10, <1>a

\* Following the links gives the cells that are linked.
LEMMA FollowIsRight ==
  ASSUME NEW n \in Nat, NEW links \in [0 .. n -> -1 .. n], NEW s \in Seq(1 .. n), NEW first,
         Len(s) <= n, Linked(links, s, first)
  PROVE  L!Follow(links, first) = s
<1>1. Len(s) \in Nat /\ \A i \in 1 .. Len(s) : s[i] \in 1 .. n
  OBVIOUS
<1>2. \A i \in 0 .. Len(s) : Behind(s, i) \in -1 .. n /\ (Behind(s, i) = -1 <=> i = Len(s))
  <2> TAKE i \in 0 .. Len(s)
  <2>1. CASE i = Len(s)
    BY <2>1 DEF Behind, L!Null
  <2>2. CASE i < Len(s)
    <3>1. i + 1 \in 1 .. Len(s)
      BY <1>1, <2>2
    <3>2. s[i + 1] \in 1 .. n
      BY <1>1, <3>1
    <3> QED BY <1>1, <2>2, <3>2 DEF Behind
  <2> QED BY <2>1, <2>2
<1>3. first = Behind(s, 0) /\ \A i \in 1 .. Len(s) : links[s[i]] = Behind(s, i)
  BY DEF Linked
<1>4. PICK f : /\ f = [at \in (-1 .. n) \X (0 .. n) |-> FollowBody(f, links, at)]
               /\ L!Follow(links, first) = f[<<first, n>>]
  <2>1. first \in -1 .. n
    BY <1>1, <1>2, <1>3
  <2> QED BY <2>1, FollowDefined
<1>5. /\ \A left \in 0 .. n : f[<<-1, left>>] = <<>>
      /\ \A c \in 1 .. n, left \in 1 .. n : f[<<c, left>>] = <<c>> \o f[<<links[c], left - 1>>]
  <2>1. ASSUME NEW c \in -1 .. n, NEW left \in 0 .. n PROVE f[<<c, left>>] = FollowBody(f, links, <<c, left>>)
    BY <1>4
  <2>2. ASSUME NEW left \in 0 .. n PROVE f[<<-1, left>>] = <<>>
    <3>1. -1 \in -1 .. n
      OBVIOUS
    <3>2. f[<<-1, left>>] = FollowBody(f, links, <<-1, left>>)
      BY <2>1, <3>1
    <3> QED BY <3>2 DEF FollowBody, L!Null
  <2>3. ASSUME NEW c \in 1 .. n, NEW left \in 1 .. n
        PROVE  f[<<c, left>>] = <<c>> \o f[<<links[c], left - 1>>]
    <3>1. c \in -1 .. n /\ left \in 0 .. n /\ c # -1 /\ left # 0
      OBVIOUS
    <3>2. f[<<c, left>>] = FollowBody(f, links, <<c, left>>)
      BY <2>1, <3>1
    <3> QED BY <3>1, <3>2 DEF FollowBody, L!Null
  <2> QED BY <2>2, <2>3
<1> HIDE DEF Behind
<1> DEFINE T == {k \in Nat : \A i \in 0 .. Len(s), left \in 0 .. n :
                   Len(s) - i = k /\ left >= k => f[<<Behind(s, i), left>>] = SubSeq(s, i + 1, Len(s))}
<1>6. 0 \in T
  <2> SUFFICES ASSUME NEW i \in 0 .. Len(s), NEW left \in 0 .. n, Len(s) - i = 0
               PROVE  f[<<Behind(s, i), left>>] = SubSeq(s, i + 1, Len(s))
    OBVIOUS
  <2>1. i = Len(s) /\ Behind(s, i) = -1
    BY <1>1, <1>2
  <2>2. f[<<Behind(s, i), left>>] = <<>>
    BY <1>5, <2>1
  <2>3. SubSeq(s, i + 1, Len(s)) = <<>>
    BY <1>1, <2>1, SubSeqEmpty
  <2> QED BY <2>2, <2>3
<1>7. ASSUME NEW k \in Nat,
             \A i \in 0 .. Len(s), left \in 0 .. n :
               Len(s) - i = k /\ left >= k => f[<<Behind(s, i), left>>] = SubSeq(s, i + 1, Len(s)),
             NEW i \in 0 .. Len(s), NEW left \in 0 .. n, Len(s) - i = k + 1, left >= k + 1
      PROVE  f[<<Behind(s, i), left>>] = SubSeq(s, i + 1, Len(s))
  <2>0. Len(s) \in Nat /\ Len(s) - i = k + 1 /\ left >= k + 1
    BY <1>1, <1>7
  <2>1. /\ i < Len(s) /\ i + 1 \in 1 .. Len(s) /\ i + 1 \in 0 .. Len(s) /\ Len(s) - (i + 1) = k
        /\ left - 1 \in 0 .. n /\ left \in 1 .. n /\ left - 1 >= k
    BY <2>0
  <2>2. Behind(s, i) = s[i + 1] /\ s[i + 1] \in 1 .. n /\ links[s[i + 1]] = Behind(s, i + 1)
    BY <1>1, <1>3, <2>1 DEF Behind
  <2>3. f[<<Behind(s, i), left>>] = <<s[i + 1]>> \o f[<<Behind(s, i + 1), left - 1>>]
    BY <1>5, <2>1, <2>2
  <2>4. f[<<Behind(s, i + 1), left - 1>>] = SubSeq(s, (i + 1) + 1, Len(s))
    BY <1>7, <2>1
  <2>5. SubSeq(s, i + 1, Len(s)) = <<s[i + 1]>> \o SubSeq(s, (i + 1) + 1, Len(s))
    <3>1. Len(s) \in (i + 1) .. Len(s)
      BY <1>1, <2>1
    <3> QED BY <2>1, <3>1, SubSeqRecursiveFirst
  <2> QED BY <2>3, <2>4, <2>5
<1>8. ASSUME NEW k \in T PROVE k + 1 \in T
  <2>1. /\ k \in Nat
        /\ \A i \in 0 .. Len(s), left \in 0 .. n :
             Len(s) - i = k /\ left >= k => f[<<Behind(s, i), left>>] = SubSeq(s, i + 1, Len(s))
    OBVIOUS
  <2>2. \A i \in 0 .. Len(s), left \in 0 .. n :
          Len(s) - i = k + 1 /\ left >= k + 1 => f[<<Behind(s, i), left>>] = SubSeq(s, i + 1, Len(s))
    <3> HIDE DEF T
    <3> QED BY <1>7, <2>1
  <2>3. k + 1 \in Nat
    BY <2>1
  <2> QED BY <2>2, <2>3, Zenon
<1>9. T = Nat
  <2> HIDE DEF T
  <2> QED BY <1>6, <1>8, InductionOverNat DEF T
<1>10. f[<<Behind(s, 0), n>>] = SubSeq(s, 0 + 1, Len(s))
  <2>1. Len(s) \in T
    <3> HIDE DEF T
    <3> QED BY <1>1, <1>9
  <2>2. Len(s) - 0 = Len(s) /\ n >= Len(s) /\ 0 \in 0 .. Len(s) /\ n \in 0 .. n
    BY <1>1
  <2> QED BY <2>1, <2>2
<1>11. SubSeq(s, 0 + 1, Len(s)) = s
  BY SubSeqFull
<1> QED BY <1>3, <1>4, <1>10, <1>11, Zenon

-----------------------------------------------------------------------------
(* The cells of an SLList and its pool.                                    *)

\* The i-th cell of a chain, or the list's own beforeHead_.
At(s, i) == IF i = 0 THEN 0 ELSE s[i]

\* The n cells are linked in two chains, the list's and the free ones.
Shape(links, first, n, chain, free) ==
  /\ n \in Nat /\ links \in [0 .. n -> -1 .. n]
  /\ chain \in Seq(1 .. n) /\ free \in Seq(1 .. n) /\ Len(chain) + Len(free) = n
  /\ Linked(links, chain, links[0]) /\ Linked(links, free, first)
  /\ \A i \in 1 .. Len(chain), j \in 1 .. Len(free) : chain[i] # free[j]
  /\ \A c \in 1 .. n : \/ \E i \in 1 .. Len(chain) : chain[i] = c
                       \/ \E j \in 1 .. Len(free) : free[j] = c

\* What a shape says of single cells, beforeHead_ included.
LEMMA ShapeFacts ==
  ASSUME NEW links, NEW first, NEW n, NEW chain, NEW free, Shape(links, first, n, chain, free)
  PROVE  /\ n \in Nat /\ links \in [0 .. n -> -1 .. n]
         /\ Len(chain) \in Nat /\ Len(free) \in Nat /\ Len(chain) + Len(free) = n
         /\ \A i \in 1 .. Len(chain) : chain[i] \in 1 .. n
         /\ \A i \in 1 .. Len(free) : free[i] \in 1 .. n
         /\ \A i \in 0 .. Len(chain) : /\ At(chain, i) \in 0 .. n
                                       /\ links[At(chain, i)] = Behind(chain, i)
                                       /\ Behind(chain, i) = -1 <=> i = Len(chain)
                                       /\ i < Len(chain) => Behind(chain, i) = chain[i + 1]
         /\ \A i \in 1 .. Len(free) : links[free[i]] = Behind(free, i)
         /\ first = Behind(free, 0)
         /\ \A i \in 0 .. Len(free) : /\ Behind(free, i) = -1 <=> i = Len(free)
                                      /\ i < Len(free) => Behind(free, i) = free[i + 1]
         /\ \A i, j \in 0 .. Len(chain) : At(chain, i) = At(chain, j) => i = j
         /\ \A i, j \in 1 .. Len(free) : free[i] = free[j] => i = j
         /\ \A i \in 0 .. Len(chain), j \in 1 .. Len(free) : At(chain, i) # free[j]
         /\ \A i \in 1 .. Len(chain) : At(chain, i) = chain[i]
         /\ At(chain, 0) = 0
<1>1. /\ n \in Nat /\ links \in [0 .. n -> -1 .. n]
      /\ Len(chain) \in Nat /\ Len(free) \in Nat /\ Len(chain) + Len(free) = n
      /\ \A i \in 1 .. Len(chain) : chain[i] \in 1 .. n
      /\ \A i \in 1 .. Len(free) : free[i] \in 1 .. n
      /\ \A i \in 1 .. Len(chain), j \in 1 .. Len(free) : chain[i] # free[j]
  <2>1. /\ n \in Nat /\ links \in [0 .. n -> -1 .. n]
        /\ chain \in Seq(1 .. n) /\ free \in Seq(1 .. n) /\ Len(chain) + Len(free) = n
        /\ \A i \in 1 .. Len(chain), j \in 1 .. Len(free) : chain[i] # free[j]
    BY Zenon DEF Shape
  <2>2. \A s \in Seq(1 .. n) : Len(s) \in Nat /\ \A i \in 1 .. Len(s) : s[i] \in 1 .. n
    BY LenProperties, ElementOfSeq
  <2> QED BY <2>1, <2>2
<1>2. /\ \A i \in 1 .. Len(chain) : links[chain[i]] = Behind(chain, i)
      /\ links[0] = Behind(chain, 0)
      /\ \A i, j \in 1 .. Len(chain) : chain[i] = chain[j] => i = j
      /\ \A i \in 1 .. Len(free) : links[free[i]] = Behind(free, i)
      /\ first = Behind(free, 0)
      /\ \A i, j \in 1 .. Len(free) : free[i] = free[j] => i = j
  BY DEF Shape, Linked
<1>3. ASSUME NEW s, Len(s) \in Nat, \A i \in 1 .. Len(s) : s[i] \in 1 .. n, NEW i \in 0 .. Len(s)
      PROVE  /\ Behind(s, i) = -1 <=> i = Len(s)
             /\ i < Len(s) => Behind(s, i) = s[i + 1]
  <2>1. CASE i = Len(s)
    BY <1>3, <2>1 DEF Behind, L!Null
  <2>2. CASE i < Len(s)
    <3>1. i + 1 \in 1 .. Len(s)
      BY <1>3, <2>2
    <3>2. s[i + 1] \in 1 .. n
      BY <1>3, <3>1
    <3> QED BY <1>1, <2>2, <3>2 DEF Behind
  <2> QED BY <1>3, <2>1, <2>2
<1>4. \A i \in 0 .. Len(chain) : /\ Behind(chain, i) = -1 <=> i = Len(chain)
                                 /\ i < Len(chain) => Behind(chain, i) = chain[i + 1]
  BY <1>1, <1>3
<1>5. \A i \in 0 .. Len(free) : /\ Behind(free, i) = -1 <=> i = Len(free)
                                /\ i < Len(free) => Behind(free, i) = free[i + 1]
  BY <1>1, <1>3
<1>6. /\ At(chain, 0) = 0 /\ links[0] = Behind(chain, 0)
      /\ \A i \in 1 .. Len(chain) : At(chain, i) = chain[i] /\ chain[i] # 0
  BY <1>1, <1>2 DEF At
<1>7. \A i \in 0 .. Len(chain) : At(chain, i) \in 0 .. n /\ links[At(chain, i)] = Behind(chain, i)
  <2> TAKE i \in 0 .. Len(chain)
  <2>1. CASE i = 0
    BY <1>1, <1>6, <2>1
  <2>2. CASE i \in 1 .. Len(chain)
    <3>1. At(chain, i) = chain[i] /\ chain[i] \in 1 .. n /\ links[chain[i]] = Behind(chain, i)
      BY <1>1, <1>2, <1>6, <2>2
    <3> QED BY <1>1, <3>1
  <2> QED BY <1>1, <2>1, <2>2
<1>8. \A i, j \in 0 .. Len(chain) : At(chain, i) = At(chain, j) => i = j
  <2> TAKE i, j \in 0 .. Len(chain)
  <2>1. i = 0 \/ i \in 1 .. Len(chain)
    BY <1>1
  <2>2. j = 0 \/ j \in 1 .. Len(chain)
    BY <1>1
  <2> QED BY <1>2, <1>6, <2>1, <2>2
<1>9. \A i \in 0 .. Len(chain), j \in 1 .. Len(free) : At(chain, i) # free[j]
  <2> TAKE i \in 0 .. Len(chain), j \in 1 .. Len(free)
  <2>1. i = 0 \/ i \in 1 .. Len(chain)
    BY <1>1
  <2>2. free[j] # 0
    BY <1>1
  <2> QED BY <1>1, <1>6, <2>1, <2>2
<1> QED BY <1>1, <1>2, <1>4, <1>5, <1>6, <1>7, <1>8, <1>9

\* Its two chains are what the links lead through.
LEMMA ShapeFollowed ==
  ASSUME NEW links, NEW first, NEW n, NEW chain, NEW free, Shape(links, first, n, chain, free)
  PROVE  /\ L!Follow(links, links[0]) = chain
         /\ L!Follow(links, first) = free
         /\ L!Cardinality(DOMAIN links \ {0}) = n
<1>1. Len(chain) <= n /\ Len(free) <= n
  BY ShapeFacts
<1>2. L!Follow(links, links[0]) = chain
  BY <1>1, FollowIsRight DEF Shape
<1>3. L!Follow(links, first) = free
  BY <1>1, FollowIsRight DEF Shape
<1>4. DOMAIN links \ {0} = 1 .. n /\ n \in Nat
  BY DEF Shape
<1>5. Cardinality(1 .. n) = n
  BY <1>4, FS_Interval
<1> QED BY <1>2, <1>3, <1>4, <1>5, CellCount

\* The sequence t is s with e behind the k-th element, or without the k-th.
IsLonger(S, s, k, e, t) ==
  /\ t \in Seq(S) /\ Len(t) = Len(s) + 1
  /\ \A i \in 1 .. Len(s) + 1 : t[i] = IF i <= k THEN s[i] ELSE IF i = k + 1 THEN e ELSE s[i - 1]
IsShorter(S, s, k, t) ==
  /\ t \in Seq(S) /\ Len(t) = Len(s) - 1
  /\ \A i \in 1 .. Len(s) - 1 : t[i] = IF i < k THEN s[i] ELSE s[i + 1]

LEMMA Inserted ==
  ASSUME NEW S, NEW s \in Seq(S), NEW e \in S, NEW k \in 0 .. Len(s)
  PROVE  IsLonger(S, s, k, e, L!InsertAt(s, k + 1, e))
<1> DEFINE a == SubSeq(s, 1, k)
           b == SubSeq(s, k + 1, Len(s))
<1>0. Len(s) \in Nat /\ (k + 1) - 1 = k /\ \A i \in 1 .. Len(s) : s[i] \in S
  BY LenProperties, ElementOfSeq
<1>1. a \in Seq(S) /\ Len(a) = k /\ \A i \in 1 .. k : a[i] = s[i]
  <2>1. /\ a \in Seq(S) /\ Len(a) = (IF 1 <= k THEN k - 1 + 1 ELSE 0)
        /\ \A i \in 1 .. k - 1 + 1 : a[i] = s[1 + i - 1]
    BY <1>0, SubSeqProperties
  <2> HIDE DEF a
  <2> QED BY <1>0, <2>1
<1>2. b \in Seq(S) /\ Len(b) = Len(s) - k /\ \A i \in 1 .. Len(s) - k : b[i] = s[k + i]
  <2>1. /\ b \in Seq(S) /\ Len(b) = (IF k + 1 <= Len(s) THEN Len(s) - (k + 1) + 1 ELSE 0)
        /\ \A i \in 1 .. Len(s) - (k + 1) + 1 : b[i] = s[(k + 1) + i - 1]
    BY <1>0, SubSeqProperties
  <2> HIDE DEF b
  <2> QED BY <1>0, <2>1
<1>3. L!InsertAt(s, k + 1, e) = a \o <<e>> \o b
  BY <1>0 DEF L!InsertAt
<1> HIDE DEF a, b
<1>4. /\ a \o <<e>> \in Seq(S) /\ Len(a \o <<e>>) = k + 1
      /\ \A i \in 1 .. k + 1 : (a \o <<e>>)[i] = IF i <= k THEN s[i] ELSE e
  BY <1>0, <1>1
<1> DEFINE c == a \o <<e>>
           t == c \o b
<1> HIDE DEF c
<1>5. /\ t \in Seq(S) /\ Len(t) = Len(c) + Len(b)
      /\ \A i \in 1 .. Len(c) + Len(b) : t[i] = IF i <= Len(c) THEN c[i] ELSE b[i - Len(c)]
  BY <1>2, <1>4, ConcatProperties DEF c
<1>6. Len(c) = k + 1 /\ \A i \in 1 .. k + 1 : c[i] = IF i <= k THEN s[i] ELSE e
  BY <1>4 DEF c
<1> HIDE DEF t
<1>7. Len(t) = Len(s) + 1
  BY <1>0, <1>2, <1>5, <1>6
<1>8. \A i \in 1 .. Len(s) + 1 : t[i] = IF i <= k THEN s[i] ELSE IF i = k + 1 THEN e ELSE s[i - 1]
  <2> TAKE i \in 1 .. Len(s) + 1
  <2>1. CASE i <= k + 1
    BY <1>0, <1>2, <1>5, <1>6, <2>1
  <2>2. CASE i > k + 1
    <3>1. t[i] = b[i - (k + 1)] /\ i - (k + 1) \in 1 .. Len(s) - k
      BY <1>0, <1>2, <1>5, <1>6, <2>2
    <3>2. k + (i - (k + 1)) = i - 1
      BY <1>0
    <3> QED BY <1>0, <1>2, <2>2, <3>1, <3>2
  <2> QED BY <1>0, <2>1, <2>2
<1>9. L!InsertAt(s, k + 1, e) = t
  BY <1>3 DEF t, c
<1> QED BY <1>5, <1>7, <1>8, <1>9 DEF IsLonger

LEMMA Removed ==
  ASSUME NEW S, NEW s \in Seq(S), NEW k \in 1 .. Len(s)
  PROVE  IsShorter(S, s, k, L!RemoveAt(s, k))
<1> DEFINE a == SubSeq(s, 1, k - 1)
           b == SubSeq(s, k + 1, Len(s))
           t == a \o b
<1>0. Len(s) \in Nat /\ k \in Nat \ {0} /\ k <= Len(s) /\ \A i \in 1 .. Len(s) : s[i] \in S
  BY LenProperties, ElementOfSeq
<1>1. a \in Seq(S) /\ Len(a) = k - 1 /\ \A i \in 1 .. k - 1 : a[i] = s[i]
  <2>1. /\ a \in Seq(S) /\ Len(a) = (IF 1 <= k - 1 THEN (k - 1) - 1 + 1 ELSE 0)
        /\ \A i \in 1 .. (k - 1) - 1 + 1 : a[i] = s[1 + i - 1]
    BY <1>0, SubSeqProperties
  <2> HIDE DEF a
  <2> QED BY <1>0, <2>1
<1>2. b \in Seq(S) /\ Len(b) = Len(s) - k /\ \A i \in 1 .. Len(s) - k : b[i] = s[k + i]
  <2>1. /\ b \in Seq(S) /\ Len(b) = (IF k + 1 <= Len(s) THEN Len(s) - (k + 1) + 1 ELSE 0)
        /\ \A i \in 1 .. Len(s) - (k + 1) + 1 : b[i] = s[(k + 1) + i - 1]
    BY <1>0, SubSeqProperties
  <2> HIDE DEF b
  <2> QED BY <1>0, <2>1
<1>3. L!RemoveAt(s, k) = t
  BY <1>0 DEF L!RemoveAt
<1> HIDE DEF a, b
<1>4. /\ t \in Seq(S) /\ Len(t) = Len(a) + Len(b)
      /\ \A i \in 1 .. Len(a) + Len(b) : t[i] = IF i <= Len(a) THEN a[i] ELSE b[i - Len(a)]
  BY <1>1, <1>2, ConcatProperties
<1> HIDE DEF t
<1>5. \A i \in 1 .. Len(s) - 1 : t[i] = IF i < k THEN s[i] ELSE s[i + 1]
  <2> TAKE i \in 1 .. Len(s) - 1
  <2>0. i \in 1 .. Len(a) + Len(b) /\ t[i] = IF i <= k - 1 THEN a[i] ELSE b[i - (k - 1)]
    BY <1>0, <1>1, <1>2, <1>4
  <2>1. CASE i < k
    <3>1. i <= k - 1 /\ i \in 1 .. k - 1
      BY <1>0, <2>1
    <3> QED BY <1>1, <2>0, <2>1, <3>1
  <2>2. CASE i >= k
    <3>1. t[i] = b[i - (k - 1)] /\ i - (k - 1) \in 1 .. Len(s) - k
      BY <1>0, <2>0, <2>2
    <3>2. k + (i - (k - 1)) = i + 1
      BY <1>0
    <3> QED BY <1>0, <1>2, <2>2, <3>1, <3>2
  <2> QED BY <1>0, <2>1, <2>2
<1>6. Len(t) = Len(s) - 1
  BY <1>0, <1>1, <1>2, <1>4
<1> QED BY <1>3, <1>4, <1>5, <1>6 DEF IsShorter

-----------------------------------------------------------------------------
(* What the operations do to the shape.                                    *)

\* grow(): a chunk of free cells for a pool that has none.
LEMMA GrowShape ==
  ASSUME NEW links, NEW n, NEW chain, NEW free, Shape(links, -1, n, chain, free), NEW e \in Nat \ {0},
         NEW more, more = [c \in DOMAIN links \cup (n + 1 .. n + e) |->
                             IF c \in DOMAIN links THEN links[c] ELSE IF c = n + e THEN -1 ELSE c + 1]
  PROVE  Shape(more, n + 1, n + e, chain, [j \in 1 .. e |-> n + j])
<1> DEFINE new == [j \in 1 .. e |-> n + j]
<1>1. /\ n \in Nat /\ links \in [0 .. n -> -1 .. n]
      /\ Len(chain) \in Nat /\ Len(free) \in Nat /\ Len(chain) + Len(free) = n
      /\ \A i \in 1 .. Len(chain) : chain[i] \in 1 .. n
      /\ \A i \in 0 .. Len(free) : Behind(free, i) = -1 <=> i = Len(free)
      /\ -1 = Behind(free, 0)
  BY ShapeFacts
<1>2. Len(free) = 0 /\ Len(chain) = n
  BY <1>1
<1>3. /\ chain \in Seq(1 .. n) /\ Linked(links, chain, links[0])
      /\ \A c \in 1 .. n : \E i \in 1 .. Len(chain) : chain[i] = c
  BY <1>2 DEF Shape
<1>4. /\ \A c \in 0 .. n : more[c] = links[c]
      /\ \A c \in n + 1 .. n + e : more[c] = IF c = n + e THEN -1 ELSE c + 1
      /\ DOMAIN more = 0 .. n + e
  BY <1>1
<1>5. more \in [0 .. n + e -> -1 .. n + e]
  <2>1. more = [c \in 0 .. n + e |-> more[c]]
    BY <1>1
  <2>2. ASSUME NEW c \in 0 .. n + e PROVE more[c] \in -1 .. n + e
    <3>1. c \in 0 .. n => more[c] \in -1 .. n
      BY <1>1, <1>4
    <3>2. c \in n + 1 .. n + e => more[c] \in -1 .. n + e
      BY <1>1, <1>4
    <3> QED BY <1>1, <3>1, <3>2
  <2> QED BY <2>1, <2>2
<1>6. chain \in Seq(1 .. n + e) /\ new \in Seq(1 .. n + e) /\ Len(new) = e
  <2>1. 1 .. n \subseteq 1 .. n + e
    BY <1>1
  <2>2. chain \in Seq(1 .. n + e)
    BY <1>3, <2>1, SeqMonotonic
  <2>3. \A j \in 1 .. e : n + j \in 1 .. n + e
    BY <1>1
  <2>4. new \in Seq(1 .. n + e) /\ Len(new) = e
    BY <2>3
  <2> QED BY <2>2, <2>4
<1>7. \A i \in 1 .. e : new[i] = n + i
  OBVIOUS
<1> HIDE DEF new
<1>8. Linked(more, chain, more[0])
  <2>1. more[0] = links[0] /\ \A i \in 1 .. Len(chain) : more[chain[i]] = links[chain[i]]
    BY <1>1, <1>4
  <2> QED BY <1>3, <2>1 DEF Linked
<1>9. Linked(more, new, n + 1)
  <2>1. n + 1 = Behind(new, 0)
    BY <1>1, <1>6, <1>7 DEF Behind
  <2>2. ASSUME NEW i \in 1 .. e PROVE more[new[i]] = Behind(new, i)
    <3>1. n + i \in n + 1 .. n + e /\ new[i] = n + i
      BY <1>1, <1>7
    <3>2. CASE i = e
      BY <1>1, <1>4, <1>6, <3>1, <3>2 DEF Behind, L!Null
    <3>3. CASE i < e
      <4>1. i + 1 \in 1 .. e /\ n + i # n + e
        BY <1>1, <3>3
      <4>2. new[i + 1] = n + (i + 1)
        BY <1>7, <4>1
      <4> QED BY <1>1, <1>4, <1>6, <3>1, <3>3, <4>1, <4>2 DEF Behind
    <3> QED BY <3>2, <3>3
  <2>3. \A i, j \in 1 .. e : new[i] = new[j] => i = j
    BY <1>1, <1>7
  <2> QED BY <1>6, <2>1, <2>2, <2>3 DEF Linked
<1>10. \A i \in 1 .. Len(chain), j \in 1 .. e : chain[i] # new[j]
  BY <1>1, <1>7
<1>11. ASSUME NEW c \in 1 .. n + e
       PROVE  (\E i \in 1 .. Len(chain) : chain[i] = c) \/ (\E j \in 1 .. e : new[j] = c)
  <2>1. CASE c \in 1 .. n
    BY <1>3, <2>1
  <2>2. CASE c \in n + 1 .. n + e
    <3>1. c - n \in 1 .. e /\ new[c - n] = c
      BY <1>1, <1>7, <2>2
    <3> QED BY <3>1
  <2> QED BY <1>1, <2>1, <2>2
<1>12. n + e \in Nat /\ Len(chain) + Len(new) = n + e
  BY <1>1, <1>2, <1>6
<1>13. Shape(more, n + 1, n + e, chain, new)
  BY <1>5, <1>6, <1>8, <1>9, <1>10, <1>11, <1>12, Zenon DEF Shape
<1> QED BY <1>13 DEF new

\* A free cell is linked into the list behind its k-th.
LEMMA InsertShape ==
  ASSUME NEW links, NEW first, NEW n, NEW chain, NEW free, Shape(links, first, n, chain, free),
         Len(free) # 0, NEW k \in 0 .. Len(chain), NEW longer, IsLonger(1 .. n, chain, k, first, longer)
  PROVE  Shape([links EXCEPT ![At(chain, k)] = first, ![first] = links[At(chain, k)]], links[first],
               n, longer, Tail(free))
<1> DEFINE rest == Tail(free)
           more == [links EXCEPT ![At(chain, k)] = first, ![first] = links[At(chain, k)]]
<1>l. /\ longer \in Seq(1 .. n) /\ Len(longer) = Len(chain) + 1
      /\ \A i \in 1 .. Len(chain) + 1 :
           longer[i] = IF i <= k THEN chain[i] ELSE IF i = k + 1 THEN first ELSE chain[i - 1]
  BY DEF IsLonger
<1> USE <1>l
<1>1. /\ n \in Nat /\ links \in [0 .. n -> -1 .. n]
      /\ Len(chain) \in Nat /\ Len(free) \in Nat /\ Len(chain) + Len(free) = n
      /\ \A i \in 1 .. Len(chain) : chain[i] \in 1 .. n /\ At(chain, i) = chain[i]
      /\ \A i \in 1 .. Len(free) : free[i] \in 1 .. n
      /\ At(chain, 0) = 0
  BY ShapeFacts
<1>2. /\ \A i \in 0 .. Len(chain) : /\ At(chain, i) \in 0 .. n
                                    /\ links[At(chain, i)] = Behind(chain, i)
                                    /\ Behind(chain, i) = -1 <=> i = Len(chain)
                                    /\ i < Len(chain) => Behind(chain, i) = chain[i + 1]
      /\ \A i \in 1 .. Len(free) : links[free[i]] = Behind(free, i)
      /\ first = Behind(free, 0)
      /\ \A i \in 0 .. Len(free) : /\ Behind(free, i) = -1 <=> i = Len(free)
                                   /\ i < Len(free) => Behind(free, i) = free[i + 1]
  BY ShapeFacts
<1>3. /\ \A i, j \in 0 .. Len(chain) : At(chain, i) = At(chain, j) => i = j
      /\ \A i, j \in 1 .. Len(free) : free[i] = free[j] => i = j
      /\ \A i \in 0 .. Len(chain), j \in 1 .. Len(free) : At(chain, i) # free[j]
      /\ \A c \in 1 .. n : \/ \E i \in 1 .. Len(chain) : chain[i] = c
                           \/ \E j \in 1 .. Len(free) : free[j] = c
  <2>1. \A c \in 1 .. n : \/ \E i \in 1 .. Len(chain) : chain[i] = c
                          \/ \E j \in 1 .. Len(free) : free[j] = c
    BY Zenon DEF Shape
  <2>2. /\ \A i, j \in 0 .. Len(chain) : At(chain, i) = At(chain, j) => i = j
        /\ \A i, j \in 1 .. Len(free) : free[i] = free[j] => i = j
        /\ \A i \in 0 .. Len(chain), j \in 1 .. Len(free) : At(chain, i) # free[j]
    BY ShapeFacts
  <2> QED BY <2>1, <2>2
<1>0. /\ Len(chain) \in Nat /\ Len(longer) = Len(chain) + 1 /\ k \in Nat /\ k <= Len(chain)
      /\ Len(free) \in Nat \ {0}
  BY <1>1
<1>4. first = free[1] /\ 1 \in 1 .. Len(free) /\ first \in 1 .. n
  <2>1. 1 \in 1 .. Len(free) /\ 0 \in 0 .. Len(free) /\ 0 < Len(free) /\ 0 + 1 = 1
    BY <1>0
  <2>2. Behind(free, 0) = free[1]
    BY <1>2, <2>1
  <2> QED BY <1>1, <1>2, <2>1, <2>2
<1>5. rest \in Seq(1 .. n) /\ Len(rest) = Len(free) - 1 /\ \A i \in 1 .. Len(free) - 1 : rest[i] = free[i + 1]
  <2>1. free \in Seq(1 .. n) /\ free # <<>>
    BY Zenon, EmptySeq DEF Shape
  <2> QED BY <2>1, HeadTailProperties
<1> HIDE DEF rest
<1>6. /\ DOMAIN more = 0 .. n
      /\ more[first] = links[At(chain, k)]
      /\ more[At(chain, k)] = first
      /\ \A c \in 0 .. n : c # first /\ c # At(chain, k) => more[c] = links[c]
      /\ first \in 0 .. n /\ At(chain, k) \in 0 .. n /\ first # At(chain, k)
  <2>1. first \in 0 .. n /\ At(chain, k) \in 0 .. n /\ first # At(chain, k)
    <3>1. At(chain, k) # first
      BY <1>3, <1>4
    <3>2. At(chain, k) \in 0 .. n
      BY <1>2
    <3>3. first \in 0 .. n
      <4>1. n \in Nat
        BY <1>1
      <4> QED BY <4>1, <1>4
    <3> QED BY <3>1, <3>2, <3>3
  <2> QED BY <1>1, <2>1
<1>7. more \in [0 .. n -> -1 .. n]
  <2>1. first \in -1 .. n /\ links[At(chain, k)] \in -1 .. n
    BY <1>1, <1>6
  <2> QED BY <1>1, <2>1
<1> HIDE DEF more
\* The list.
<1>8. ASSUME NEW i \in 0 .. Len(chain) + 1
      PROVE  At(longer, i) = IF i <= k THEN At(chain, i) ELSE IF i = k + 1 THEN first ELSE At(chain, i - 1)
  <2>1. CASE i = 0
    BY <2>1 DEF At
  <2>2. CASE i # 0
    <3>1. i \in 1 .. Len(chain) + 1
      BY <1>0, <2>2
    <3>2. At(longer, i) = longer[i] /\ At(chain, i) = chain[i]
      BY <2>2 DEF At
    <3>3. i > k + 1 => At(chain, i - 1) = chain[i - 1]
      BY <1>0, <3>1 DEF At
    <3>4. longer[i] = IF i <= k THEN chain[i] ELSE IF i = k + 1 THEN first ELSE chain[i - 1]
      BY <3>1
    <3> QED BY <1>0, <3>1, <3>2, <3>3, <3>4
  <2> QED BY <2>1, <2>2
<1>9. ASSUME NEW i \in 0 .. Len(longer) PROVE more[At(longer, i)] = Behind(longer, i)
  <2>0. Len(longer) = Len(chain) + 1 /\ Len(chain) \in Nat /\ k \in Nat /\ k <= Len(chain)
    BY <1>1
  <2>1. Behind(longer, i) = IF i <= Len(chain) THEN longer[i + 1] ELSE -1
    BY <2>0 DEF Behind, L!Null
  <2>2. CASE i < k
    <3>1. i \in 0 .. Len(chain) /\ i < Len(chain) /\ i + 1 \in 1 .. Len(chain) /\ i + 1 <= k
      BY <2>0, <2>2
    <3>2. At(longer, i) = At(chain, i) /\ longer[i + 1] = chain[i + 1]
      BY <1>8, <2>0, <2>2, <3>1
    <3>3. At(chain, i) # At(chain, k) /\ At(chain, i) # first
      BY <1>3, <1>4, <2>0, <2>2, <3>1
    <3>4. more[At(chain, i)] = chain[i + 1]
      BY <1>2, <1>6, <3>1, <3>3
    <3> QED BY <2>1, <3>1, <3>2, <3>4
  <2>3. CASE i = k
    <3>1. At(longer, i) = At(chain, k) /\ longer[i + 1] = first
      BY <1>8, <2>0, <2>3
    <3> QED BY <1>6, <2>0, <2>1, <2>3, <3>1
  <2>4. CASE i = k + 1
    <3>1. At(longer, i) = first /\ more[first] = Behind(chain, k)
      BY <1>2, <1>6, <1>8, <2>0, <2>4
    <3>2. CASE k = Len(chain)
      BY <1>2, <2>0, <2>1, <2>4, <3>1, <3>2
    <3>3. CASE k < Len(chain)
      <4>1. i + 1 \in 1 .. Len(chain) + 1 /\ longer[i + 1] = chain[k + 1]
        BY <2>0, <2>4, <3>3
      <4> QED BY <1>2, <2>0, <2>1, <2>4, <3>1, <3>3, <4>1
    <3> QED BY <2>0, <3>2, <3>3
  <2>5. CASE i > k + 1
    <3>1. i - 1 \in 0 .. Len(chain) /\ i - 1 # k /\ i <= Len(chain) + 1
      BY <2>0, <2>5
    <3>2. At(longer, i) = At(chain, i - 1)
      BY <1>8, <2>0, <2>5
    <3>3. At(chain, i - 1) # At(chain, k) /\ At(chain, i - 1) # first
      BY <1>3, <1>4, <2>0, <3>1
    <3>4. more[At(longer, i)] = Behind(chain, i - 1)
      BY <1>2, <1>6, <3>1, <3>2, <3>3
    <3>5. CASE i = Len(chain) + 1
      BY <1>2, <2>0, <2>1, <3>1, <3>4, <3>5
    <3>6. CASE i < Len(chain) + 1
      <4>1. longer[i + 1] = chain[i]
        BY <2>0, <2>5, <3>6
      <4>2. Behind(chain, i - 1) = chain[i]
        <5>1. i - 1 < Len(chain) /\ (i - 1) + 1 = i
          BY <2>0, <3>6
        <5>2. Behind(chain, i - 1) = chain[(i - 1) + 1]
          BY <1>2, <3>1, <5>1
        <5> QED BY <5>1, <5>2
      <4> QED BY <2>0, <2>1, <3>4, <3>6, <4>1, <4>2
    <3> QED BY <2>0, <3>1, <3>5, <3>6
  <2> QED BY <2>0, <2>2, <2>3, <2>4, <2>5
<1>10. \A i, j \in 1 .. Len(longer) : longer[i] = longer[j] => i = j
  <2> SUFFICES ASSUME NEW i \in 1 .. Len(chain) + 1, NEW j \in 1 .. Len(chain) + 1, i # j
               PROVE  At(longer, i) # At(longer, j)
    <3>1. \A i \in 1 .. Len(longer) : i \in 1 .. Len(chain) + 1 /\ At(longer, i) = longer[i]
      BY <1>0 DEF At
    <3> QED BY <3>1
  <2>0. ASSUME NEW h \in 1 .. Len(chain) + 1
        PROVE  \/ h = k + 1 /\ At(longer, h) = first
               \/ h <= k /\ h \in 0 .. Len(chain) /\ At(longer, h) = At(chain, h)
               \/ h > k + 1 /\ h - 1 \in 0 .. Len(chain) /\ At(longer, h) = At(chain, h - 1)
    <3>1. h \in 0 .. Len(chain) + 1
      BY <1>0
    <3>2. At(longer, h) = IF h <= k THEN At(chain, h) ELSE IF h = k + 1 THEN first ELSE At(chain, h - 1)
      BY <1>8, <3>1
    <3> QED BY <1>0, <3>2
  <2>1. /\ \/ i = k + 1 /\ At(longer, i) = first
           \/ i <= k /\ i \in 0 .. Len(chain) /\ At(longer, i) = At(chain, i)
           \/ i > k + 1 /\ i - 1 \in 0 .. Len(chain) /\ At(longer, i) = At(chain, i - 1)
        /\ \/ j = k + 1 /\ At(longer, j) = first
           \/ j <= k /\ j \in 0 .. Len(chain) /\ At(longer, j) = At(chain, j)
           \/ j > k + 1 /\ j - 1 \in 0 .. Len(chain) /\ At(longer, j) = At(chain, j - 1)
    BY <2>0
  <2>2. \A m \in 0 .. Len(chain) : At(chain, m) # first
    BY <1>3, <1>4
  <2>3. k \in Int /\ i \in Int /\ j \in Int
    BY <1>1
  <2> QED BY <1>3, <2>1, <2>2, <2>3
<1>11. Linked(more, longer, more[0])
  <2>1. more[0] = Behind(longer, 0)
    <3>1. 0 \in 0 .. Len(longer) /\ At(longer, 0) = 0
      BY <1>0 DEF At
    <3> QED BY <1>9, <3>1
  <2>2. ASSUME NEW i \in 1 .. Len(longer) PROVE more[longer[i]] = Behind(longer, i)
    <3>1. i \in 0 .. Len(longer) /\ At(longer, i) = longer[i]
      BY <1>0 DEF At
    <3> QED BY <1>9, <3>1
  <2> QED BY <1>10, <2>1, <2>2 DEF Linked
\* The free cells.
<1>12. Linked(more, rest, links[first])
  <2>0. Len(rest) \in Nat /\ Len(free) = Len(rest) + 1
    BY <1>0, <1>5
  <2>1. ASSUME NEW i \in 0 .. Len(rest) PROVE Behind(rest, i) = Behind(free, i + 1)
    <3>1. i < Len(rest) => i + 1 \in 1 .. Len(free) - 1 /\ rest[i + 1] = free[(i + 1) + 1]
      BY <1>5, <2>0
    <3> QED BY <2>0, <3>1 DEF Behind
  <2>2. links[first] = Behind(rest, 0)
    <3>1. 0 \in 0 .. Len(rest) /\ 0 + 1 = 1
      BY <2>0
    <3> QED BY <1>2, <1>4, <2>1, <3>1
  <2>3. ASSUME NEW i \in 1 .. Len(rest) PROVE more[rest[i]] = Behind(rest, i)
    <3>1. i + 1 \in 1 .. Len(free) /\ rest[i] = free[i + 1] /\ i + 1 # 1 /\ i \in 0 .. Len(rest)
      BY <1>1, <1>5
    <3>2. free[i + 1] # first /\ free[i + 1] # At(chain, k) /\ free[i + 1] \in 0 .. n
      <4>1. free[i + 1] \in 1 .. n
        BY <1>1, <3>1
      <4>2. free[i + 1] # free[1]
        BY <1>3, <1>4, <3>1
      <4>3. At(chain, k) # free[i + 1]
        BY <1>3, <3>1
      <4>4. free[i + 1] \in 0 .. n
        <5>1. n \in Nat
          BY <1>1
        <5> QED BY <4>1, <5>1
      <4> QED BY <1>4, <4>2, <4>3, <4>4
    <3>3. more[rest[i]] = Behind(free, i + 1)
      BY <1>2, <1>6, <3>1, <3>2
    <3> QED BY <2>1, <3>1, <3>3
  <2>4. ASSUME NEW i \in 1 .. Len(rest), NEW j \in 1 .. Len(rest), rest[i] = rest[j] PROVE i = j
    <3>1. i + 1 \in 1 .. Len(free) /\ j + 1 \in 1 .. Len(free) /\ i \in 1 .. Len(free) - 1 /\ j \in 1 .. Len(free) - 1
      BY <2>0
    <3>2. free[i + 1] = free[j + 1]
      BY <1>5, <2>4, <3>1
    <3>3. i + 1 = j + 1
      BY <1>3, <3>1, <3>2
    <3> QED BY <2>0, <3>3
  <2> QED BY <2>2, <2>3, <2>4 DEF Linked
<1>13. ASSUME NEW i \in 1 .. Len(longer), NEW j \in 1 .. Len(rest) PROVE longer[i] # rest[j]
  <2>1. j + 1 \in 1 .. Len(free) /\ rest[j] = free[j + 1] /\ j + 1 # 1
    BY <1>1, <1>5
  <2>2. \/ longer[i] = first
        \/ \E m \in 0 .. Len(chain) : longer[i] = At(chain, m)
    <3>1. CASE i <= k
      <4>1. i \in 0 .. Len(chain) /\ At(longer, i) = longer[i] /\ At(longer, i) = At(chain, i)
        BY <1>1, <1>8, <3>1 DEF At
      <4> QED BY <4>1
    <3>2. CASE i = k + 1
      BY <1>1, <3>2
    <3>3. CASE i > k + 1
      <4>1. i - 1 \in 0 .. Len(chain) /\ i \in 0 .. Len(chain) + 1 /\ ~(i <= k) /\ i # k + 1 /\ i # 0
        BY <1>0, <3>3
      <4>2. longer[i] = At(chain, i - 1)
        BY <1>8, <4>1 DEF At
      <4> QED BY <4>1, <4>2
    <3> QED BY <1>1, <3>1, <3>2, <3>3
  <2>3. first # free[j + 1]
    BY <1>3, <1>4, <2>1
  <2> QED BY <1>3, <2>1, <2>2, <2>3
<1>14. ASSUME NEW c \in 1 .. n
       PROVE  (\E i \in 1 .. Len(longer) : longer[i] = c) \/ (\E j \in 1 .. Len(rest) : rest[j] = c)
  <2>1. CASE \E i \in 1 .. Len(chain) : chain[i] = c
    <3>1. PICK i \in 1 .. Len(chain) : chain[i] = c
      BY <2>1
    <3>2. CASE i <= k
      <4>1. i \in 1 .. Len(longer) /\ i \in 1 .. Len(chain) + 1
        BY <1>0
      <4>2. longer[i] = c
        BY <3>1, <3>2, <4>1
      <4> QED BY <4>1, <4>2
    <3>3. CASE i > k
      <4>1. i + 1 \in 1 .. Len(longer) /\ ~(i + 1 <= k) /\ i + 1 # k + 1 /\ (i + 1) - 1 = i
        BY <1>1, <3>3
      <4>2. longer[i + 1] = c
        BY <3>1, <4>1
      <4> QED BY <4>1, <4>2
    <3> QED BY <1>1, <3>2, <3>3
  <2>2. CASE \E j \in 1 .. Len(free) : free[j] = c
    <3>1. PICK j \in 1 .. Len(free) : free[j] = c
      BY <2>2
    <3>2. CASE j = 1
      <4>1. k + 1 \in 1 .. Len(longer) /\ ~(k + 1 <= k)
        BY <1>1
      <4>2. longer[k + 1] = c
        BY <1>4, <3>1, <3>2, <4>1
      <4> QED BY <4>1, <4>2
    <3>3. CASE j # 1
      <4>1. j - 1 \in 1 .. Len(rest) /\ (j - 1) + 1 = j
        BY <1>1, <1>5, <3>3
      <4>2. rest[j - 1] = c
        BY <1>5, <3>1, <4>1
      <4> QED BY <4>1, <4>2
    <3> QED BY <3>2, <3>3
  <2> QED BY <1>3, <2>1, <2>2
<1>15. Len(longer) + Len(rest) = n
  <2>1. Len(chain) + Len(free) = n /\ Len(rest) = Len(free) - 1
    BY <1>1, <1>5
  <2> QED BY <1>0, <2>1
<1>16. Shape(more, links[first], n, longer, rest)
  BY <1>1, <1>5, <1>7, <1>11, <1>12, <1>13, <1>14, <1>15, Zenon DEF Shape
<1> QED BY <1>16 DEF rest, more

\* The k-th cell of the list is unlinked and freed.
LEMMA DeleteShape ==
  ASSUME NEW links, NEW first, NEW n, NEW chain, NEW free, Shape(links, first, n, chain, free),
         NEW k \in 1 .. Len(chain), NEW shorter, IsShorter(1 .. n, chain, k, shorter)
  PROVE  Shape([c \in DOMAIN links |-> IF c = chain[k] THEN first
                                      ELSE IF c = At(chain, k - 1) THEN links[chain[k]] ELSE links[c]],
               chain[k], n, shorter, <<chain[k]>> \o free)
<1> DEFINE gone == chain[k]
           freer == <<gone>> \o free
           more == [c \in DOMAIN links |-> IF c = chain[k] THEN first
                                          ELSE IF c = At(chain, k - 1) THEN links[chain[k]] ELSE links[c]]
<1>l. /\ shorter \in Seq(1 .. n) /\ Len(shorter) = Len(chain) - 1
      /\ \A i \in 1 .. Len(chain) - 1 : shorter[i] = IF i < k THEN chain[i] ELSE chain[i + 1]
  BY DEF IsShorter
<1> USE <1>l
<1>1. /\ n \in Nat /\ links \in [0 .. n -> -1 .. n]
      /\ Len(chain) \in Nat /\ Len(free) \in Nat /\ Len(chain) + Len(free) = n
      /\ \A i \in 1 .. Len(chain) : chain[i] \in 1 .. n /\ At(chain, i) = chain[i]
      /\ \A i \in 1 .. Len(free) : free[i] \in 1 .. n
      /\ At(chain, 0) = 0
  BY ShapeFacts
<1>2. /\ \A i \in 0 .. Len(chain) : /\ At(chain, i) \in 0 .. n
                                    /\ links[At(chain, i)] = Behind(chain, i)
                                    /\ Behind(chain, i) = -1 <=> i = Len(chain)
                                    /\ i < Len(chain) => Behind(chain, i) = chain[i + 1]
      /\ \A i \in 1 .. Len(free) : links[free[i]] = Behind(free, i)
      /\ first = Behind(free, 0)
      /\ \A i \in 0 .. Len(free) : /\ Behind(free, i) = -1 <=> i = Len(free)
                                   /\ i < Len(free) => Behind(free, i) = free[i + 1]
  <2>1. \A i \in 0 .. Len(chain) : /\ At(chain, i) \in 0 .. n
                                   /\ links[At(chain, i)] = Behind(chain, i)
                                   /\ Behind(chain, i) = -1 <=> i = Len(chain)
                                   /\ i < Len(chain) => Behind(chain, i) = chain[i + 1]
    BY ShapeFacts
  <2>2. /\ \A i \in 1 .. Len(free) : links[free[i]] = Behind(free, i)
        /\ first = Behind(free, 0)
        /\ \A i \in 0 .. Len(free) : /\ Behind(free, i) = -1 <=> i = Len(free)
                                     /\ i < Len(free) => Behind(free, i) = free[i + 1]
    BY ShapeFacts
  <2> QED BY <2>1, <2>2
<1>3. /\ \A i, j \in 0 .. Len(chain) : At(chain, i) = At(chain, j) => i = j
      /\ \A i, j \in 1 .. Len(free) : free[i] = free[j] => i = j
      /\ \A i \in 0 .. Len(chain), j \in 1 .. Len(free) : At(chain, i) # free[j]
      /\ \A c \in 1 .. n : \/ \E i \in 1 .. Len(chain) : chain[i] = c
                           \/ \E j \in 1 .. Len(free) : free[j] = c
  <2>1. \A c \in 1 .. n : \/ \E i \in 1 .. Len(chain) : chain[i] = c
                          \/ \E j \in 1 .. Len(free) : free[j] = c
    BY Zenon DEF Shape
  <2>2. /\ \A i, j \in 0 .. Len(chain) : At(chain, i) = At(chain, j) => i = j
        /\ \A i, j \in 1 .. Len(free) : free[i] = free[j] => i = j
        /\ \A i \in 0 .. Len(chain), j \in 1 .. Len(free) : At(chain, i) # free[j]
    BY ShapeFacts
  <2> QED BY <2>1, <2>2
<1>0. /\ Len(chain) \in Nat /\ k \in Nat \ {0} /\ k <= Len(chain) /\ k - 1 \in 0 .. Len(chain)
      /\ k \in 0 .. Len(chain) /\ Len(free) \in Nat /\ Len(shorter) = Len(chain) - 1 /\ Len(shorter) \in Nat
  BY <1>1
<1>4. gone = At(chain, k) /\ gone \in 1 .. n /\ gone # At(chain, k - 1)
  <2>1. gone = At(chain, k) /\ gone \in 1 .. n
    BY <1>1
  <2>2. k # k - 1
    BY <1>0
  <2> QED BY <1>0, <1>3, <2>1, <2>2
<1>5. /\ DOMAIN more = 0 .. n
      /\ more[gone] = first
      /\ more[At(chain, k - 1)] = Behind(chain, k)
      /\ \A c \in 0 .. n : c # gone /\ c # At(chain, k - 1) => more[c] = links[c]
  <2>1. gone \in 0 .. n /\ At(chain, k - 1) \in 0 .. n
    <3>1. n \in Nat
      BY <1>1
    <3> QED BY <1>0, <1>2, <1>4, <3>1
  <2>2. DOMAIN links = 0 .. n
    BY <1>1
  <2>3. links[gone] = Behind(chain, k)
    BY <1>0, <1>2, <1>4
  <2> QED BY <1>4, <2>1, <2>2, <2>3
<1>6. first \in -1 .. n /\ Behind(chain, k) \in -1 .. n
  <2>1. Behind(chain, k) \in -1 .. n
    <3>1. Behind(chain, k) = links[At(chain, k)] /\ At(chain, k) \in 0 .. n
      BY <1>0, <1>2
    <3> QED BY <1>1, <3>1
  <2>2. CASE Len(free) = 0
    <3>1. first = -1 /\ n \in Nat
      BY <1>1, <1>2, <2>2
    <3> QED BY <2>1, <3>1
  <2>3. CASE Len(free) # 0
    <3>1. 1 \in 1 .. Len(free) /\ 0 \in 0 .. Len(free) /\ 0 < Len(free) /\ 0 + 1 = 1
      BY <1>0, <2>3
    <3>2. first = free[1] /\ free[1] \in 1 .. n /\ n \in Nat
      BY <1>1, <1>2, <3>1
    <3> QED BY <2>1, <3>2
  <2> QED BY <2>2, <2>3
<1>7. more \in [0 .. n -> -1 .. n]
  <2>1. more = [c \in 0 .. n |-> more[c]]
    BY <1>1
  <2>2. ASSUME NEW c \in 0 .. n PROVE more[c] \in -1 .. n
    <3> HIDE DEF more
    <3> QED BY <1>1, <1>5, <1>6
  <2> QED BY <2>1, <2>2
<1> HIDE DEF more
\* The list.
<1>8. ASSUME NEW i \in 0 .. Len(shorter)
      PROVE  At(shorter, i) = IF i < k THEN At(chain, i) ELSE At(chain, i + 1)
  <2>1. CASE i = 0
    BY <1>0, <2>1 DEF At
  <2>2. CASE i # 0
    <3>1. i \in 1 .. Len(chain) - 1 /\ i + 1 # 0
      BY <1>0, <2>2
    <3> QED BY <2>2, <3>1 DEF At
  <2> QED BY <2>1, <2>2
<1>9. ASSUME NEW i \in 0 .. Len(shorter) PROVE more[At(shorter, i)] = Behind(shorter, i)
  <2>1. Behind(shorter, i) = IF i < Len(chain) - 1 THEN shorter[i + 1] ELSE -1
    BY <1>0 DEF Behind, L!Null
  <2>2. CASE i < k - 1
    <3>1. i \in 0 .. Len(chain) /\ i < Len(chain) /\ i + 1 \in 1 .. Len(chain) - 1 /\ i + 1 < k /\ i < k
          /\ i # k /\ i # k - 1 /\ i < Len(chain) - 1
      BY <1>0, <2>2
    <3>2. At(shorter, i) = At(chain, i) /\ shorter[i + 1] = chain[i + 1]
      BY <1>8, <3>1
    <3>3. At(chain, i) # At(chain, k - 1) /\ At(chain, i) # gone
      BY <1>0, <1>3, <1>4, <3>1
    <3>4. more[At(chain, i)] = chain[i + 1]
      BY <1>2, <1>5, <3>1, <3>3
    <3> QED BY <2>1, <3>1, <3>2, <3>4
  <2>3. CASE i = k - 1
    <3>1. At(shorter, i) = At(chain, k - 1) /\ i < k
      BY <1>0, <1>8, <2>3
    <3>2. more[At(shorter, i)] = Behind(chain, k)
      BY <1>5, <3>1
    <3>3. CASE k = Len(chain)
      <4>1. Behind(chain, k) = -1 /\ ~(i < Len(chain) - 1)
        BY <1>0, <1>2, <2>3, <3>3
      <4> QED BY <2>1, <3>2, <4>1
    <3>4. CASE k < Len(chain)
      <4>1. i + 1 = k /\ k \in 1 .. Len(chain) - 1 /\ ~(k < k) /\ i < Len(chain) - 1
        BY <1>0, <2>3, <3>4
      <4>2. shorter[i + 1] = chain[k + 1] /\ Behind(chain, k) = chain[k + 1]
        BY <1>0, <1>2, <3>4, <4>1
      <4> QED BY <2>1, <3>2, <4>1, <4>2
    <3> QED BY <1>0, <3>3, <3>4
  <2>4. CASE i > k - 1
    <3>1. i + 1 \in 0 .. Len(chain) /\ ~(i < k) /\ i + 1 # k /\ i + 1 # k - 1 /\ i <= Len(chain) - 1
      BY <1>0, <2>4
    <3>2. At(shorter, i) = At(chain, i + 1)
      BY <1>8, <3>1
    <3>3. At(chain, i + 1) # At(chain, k - 1) /\ At(chain, i + 1) # gone
      BY <1>0, <1>3, <1>4, <3>1
    <3>4. more[At(shorter, i)] = Behind(chain, i + 1)
      BY <1>2, <1>5, <3>1, <3>2, <3>3
    <3>5. CASE i = Len(chain) - 1
      <4>1. i + 1 = Len(chain)
        BY <1>0, <3>5
      <4>2. Behind(chain, i + 1) = -1
        BY <1>2, <3>1, <4>1
      <4>3. ~(i < Len(chain) - 1)
        BY <1>0, <3>5
      <4> QED BY <2>1, <3>4, <4>2, <4>3
    <3>6. CASE i < Len(chain) - 1
      <4>1. i + 1 \in 1 .. Len(chain) - 1 /\ ~(i + 1 < k) /\ i + 1 < Len(chain)
        BY <1>0, <2>4, <3>6
      <4>2. shorter[i + 1] = chain[(i + 1) + 1]
        BY <4>1
      <4>3. Behind(chain, i + 1) = chain[(i + 1) + 1]
        BY <1>2, <3>1, <4>1
      <4> QED BY <2>1, <3>4, <3>6, <4>2, <4>3
    <3>7. i = Len(chain) - 1 \/ i < Len(chain) - 1
      <4>1. i \in Int /\ Len(chain) - 1 \in Int
        BY <1>0
      <4>2. i <= Len(chain) - 1
        BY <3>1
      <4> QED BY <4>1, <4>2
    <3> QED BY <3>5, <3>6, <3>7
  <2> QED BY <1>0, <2>2, <2>3, <2>4
<1>10. \A i, j \in 1 .. Len(shorter) : shorter[i] = shorter[j] => i = j
  <2> SUFFICES ASSUME NEW i \in 1 .. Len(shorter), NEW j \in 1 .. Len(shorter), shorter[i] = shorter[j]
               PROVE  i = j
    OBVIOUS
  <2>1. ASSUME NEW h \in 1 .. Len(shorter)
        PROVE  \/ h < k /\ h \in 0 .. Len(chain) /\ shorter[h] = At(chain, h)
               \/ h >= k /\ h + 1 \in 0 .. Len(chain) /\ shorter[h] = At(chain, h + 1)
    <3>1. h \in 0 .. Len(shorter) /\ At(shorter, h) = shorter[h]
      BY <1>0 DEF At
    <3>2. shorter[h] = IF h < k THEN At(chain, h) ELSE At(chain, h + 1)
      BY <1>8, <3>1
    <3> QED BY <1>0, <3>2
  <2>2. i \in Int /\ j \in Int /\ k \in Int
    BY <1>0
  <2> QED BY <1>3, <2>1, <2>2
<1>11. Linked(more, shorter, more[0])
  <2>1. more[0] = Behind(shorter, 0)
    <3>1. 0 \in 0 .. Len(shorter) /\ At(shorter, 0) = 0
      BY <1>0 DEF At
    <3> QED BY <1>9, <3>1
  <2>2. ASSUME NEW i \in 1 .. Len(shorter) PROVE more[shorter[i]] = Behind(shorter, i)
    <3>1. i \in 0 .. Len(shorter) /\ At(shorter, i) = shorter[i]
      BY <1>0 DEF At
    <3> QED BY <1>9, <3>1
  <2> QED BY <1>10, <2>1, <2>2 DEF Linked
\* The free cells.
<1>12. /\ freer \in Seq(1 .. n) /\ Len(freer) = Len(free) + 1 /\ freer[1] = gone
       /\ \A i \in 1 .. Len(free) : freer[i + 1] = free[i]
  <2>1. free \in Seq(1 .. n)
    BY Zenon DEF Shape
  <2> HIDE DEF gone
  <2> QED BY <1>4, <2>1, Cons
<1> HIDE DEF freer
<1>13. \A i \in 0 .. Len(free) : Behind(freer, i + 1) = Behind(free, i)
  <2> TAKE i \in 0 .. Len(free)
  <2>1. i < Len(free) => i + 1 \in 1 .. Len(free) /\ freer[(i + 1) + 1] = free[i + 1]
    BY <1>0, <1>12
  <2> QED BY <1>0, <1>12, <2>1 DEF Behind
<1>14. \A i \in 1 .. Len(freer) : i = 1 \/ (i - 1 \in 1 .. Len(free) /\ freer[i] = free[i - 1])
  <2> TAKE i \in 1 .. Len(freer)
  <2>1. i # 1 => i - 1 \in 1 .. Len(free) /\ (i - 1) + 1 = i
    BY <1>0, <1>12
  <2> QED BY <1>12, <2>1
<1>15. \A j \in 1 .. Len(free) : free[j] # gone
  BY <1>0, <1>3, <1>4
<1>16. Linked(more, freer, gone)
  <2>1. gone = Behind(freer, 0)
    BY <1>0, <1>12 DEF Behind
  <2>2. ASSUME NEW i \in 1 .. Len(freer) PROVE more[freer[i]] = Behind(freer, i)
    <3>1. CASE i = 1
      <4>1. more[freer[i]] = Behind(free, 0)
        BY <1>2, <1>5, <1>12, <3>1
      <4>2. 0 \in 0 .. Len(free) /\ 0 + 1 = i
        BY <1>0, <3>1
      <4>3. Behind(freer, 0 + 1) = Behind(free, 0)
        BY <1>13, <4>2
      <4> QED BY <4>1, <4>2, <4>3
    <3>2. CASE i # 1
      <4>1. i - 1 \in 1 .. Len(free) /\ freer[i] = free[i - 1] /\ i - 1 \in 0 .. Len(free) /\ (i - 1) + 1 = i
        BY <1>0, <1>14, <3>2
      <4>2. free[i - 1] # gone /\ At(chain, k - 1) # free[i - 1]
        BY <1>0, <1>3, <1>15, <4>1
      <4>3. free[i - 1] \in 0 .. n
        <5>1. n \in Nat /\ free[i - 1] \in 1 .. n
          BY <1>1, <4>1
        <5> QED BY <5>1
      <4>4. more[freer[i]] = Behind(free, i - 1)
        BY <1>2, <1>5, <4>1, <4>2, <4>3
      <4>5. Behind(freer, (i - 1) + 1) = Behind(free, i - 1)
        BY <1>13, <4>1
      <4> QED BY <4>1, <4>4, <4>5
    <3> QED BY <3>1, <3>2
  <2>3. ASSUME NEW i \in 1 .. Len(freer), NEW j \in 1 .. Len(freer), freer[i] = freer[j] PROVE i = j
    <3>1. i - 1 = j - 1 => i = j
      BY <1>0
    <3>2. CASE i = 1
      BY <1>12, <1>14, <1>15, <2>3, <3>2
    <3>3. CASE j = 1
      BY <1>12, <1>14, <1>15, <2>3, <3>3
    <3>4. CASE i # 1 /\ j # 1
      <4>1. i - 1 \in 1 .. Len(free) /\ j - 1 \in 1 .. Len(free) /\ free[i - 1] = free[j - 1]
        BY <1>14, <2>3, <3>4
      <4> QED BY <1>3, <3>1, <4>1
    <3> QED BY <3>2, <3>3, <3>4
  <2> QED BY <2>1, <2>2, <2>3 DEF Linked
<1>17. ASSUME NEW i \in 1 .. Len(shorter), NEW j \in 1 .. Len(freer) PROVE shorter[i] # freer[j]
  <2>1. \E m \in 0 .. Len(chain) : m # k /\ shorter[i] = At(chain, m)
    <3>1. i \in 0 .. Len(shorter) /\ At(shorter, i) = shorter[i]
      BY <1>0 DEF At
    <3>2. shorter[i] = IF i < k THEN At(chain, i) ELSE At(chain, i + 1)
      BY <1>8, <3>1
    <3>3. IF i < k THEN i \in 0 .. Len(chain) /\ i # k ELSE i + 1 \in 0 .. Len(chain) /\ i + 1 # k
      BY <1>0
    <3> QED BY <3>2, <3>3
  <2>2. PICK m \in 0 .. Len(chain) : m # k /\ shorter[i] = At(chain, m)
    BY <2>1
  <2>3. At(chain, m) # gone
    BY <1>0, <1>3, <1>4, <2>2
  <2> QED BY <1>3, <1>12, <1>14, <2>2, <2>3
<1>18. ASSUME NEW c \in 1 .. n
       PROVE  (\E i \in 1 .. Len(shorter) : shorter[i] = c) \/ (\E j \in 1 .. Len(freer) : freer[j] = c)
  <2>1. CASE \E i \in 1 .. Len(chain) : chain[i] = c
    <3>1. PICK i \in 1 .. Len(chain) : chain[i] = c
      BY <2>1
    <3>2. CASE i < k
      <4>1. i \in 1 .. Len(shorter) /\ i \in 1 .. Len(chain) - 1
        BY <1>0, <3>2
      <4>2. shorter[i] = c
        BY <3>1, <3>2, <4>1
      <4> QED BY <4>1, <4>2
    <3>3. CASE i = k
      <4>1. 1 \in 1 .. Len(freer) /\ freer[1] = c
        BY <1>0, <1>12, <3>1, <3>3
      <4> QED BY <4>1
    <3>4. CASE i > k
      <4>1. i - 1 \in 1 .. Len(shorter) /\ i - 1 \in 1 .. Len(chain) - 1 /\ ~(i - 1 < k) /\ (i - 1) + 1 = i
        BY <1>0, <3>4
      <4>2. shorter[i - 1] = c
        BY <3>1, <4>1
      <4> QED BY <4>1, <4>2
    <3> QED BY <1>0, <3>2, <3>3, <3>4
  <2>2. CASE \E j \in 1 .. Len(free) : free[j] = c
    <3>1. PICK j \in 1 .. Len(free) : free[j] = c
      BY <2>2
    <3>2. j + 1 \in 1 .. Len(freer) /\ freer[j + 1] = c
      BY <1>0, <1>12, <3>1
    <3> QED BY <3>2
  <2> QED BY <1>3, <2>1, <2>2
<1>19. Len(shorter) + Len(freer) = n
  <2>1. Len(chain) + Len(free) = n
    BY <1>1
  <2> QED BY <1>0, <1>12, <2>1
<1>20. Shape(more, gone, n, shorter, freer)
  BY <1>1, <1>7, <1>11, <1>12, <1>16, <1>17, <1>18, <1>19, Zenon DEF Shape
<1> QED BY <1>20 DEF freer, more

\* The links after the cells of the list are freed from the first to the last, and the
\* first free cell then.
Freed(links, first, n, chain, free, more, last) ==
  /\ more = [c \in 0 .. n |-> more[c]]
  /\ more[0] = -1
  /\ \A i \in 1 .. Len(chain) : more[chain[i]] = IF i = 1 THEN first ELSE chain[i - 1]
  /\ \A j \in 1 .. Len(free) : more[free[j]] = links[free[j]]
  /\ last = IF Len(chain) = 0 THEN first ELSE chain[Len(chain)]

LEMMA ClearShape ==
  ASSUME NEW links, NEW first, NEW n, NEW chain, NEW free, Shape(links, first, n, chain, free),
         NEW more, NEW last, Freed(links, first, n, chain, free, more, last)
  PROVE  \E freer : Shape(more, last, n, <<>>, freer)
<1> DEFINE m == Len(chain)
           freer == [i \in 1 .. n |-> IF i <= m THEN chain[m + 1 - i] ELSE free[i - m]]
<1>1. /\ n \in Nat /\ links \in [0 .. n -> -1 .. n]
      /\ m \in Nat /\ Len(free) \in Nat /\ m + Len(free) = n
      /\ \A i \in 1 .. m : chain[i] \in 1 .. n
      /\ \A i \in 1 .. Len(free) : free[i] \in 1 .. n
  BY ShapeFacts
<1>2. /\ \A i \in 1 .. Len(free) : links[free[i]] = Behind(free, i)
      /\ first = Behind(free, 0)
      /\ \A i \in 0 .. Len(free) : /\ Behind(free, i) = -1 <=> i = Len(free)
                                   /\ i < Len(free) => Behind(free, i) = free[i + 1]
  BY ShapeFacts
<1>3. /\ \A i, j \in 1 .. m : chain[i] = chain[j] => i = j
      /\ \A i, j \in 1 .. Len(free) : free[i] = free[j] => i = j
      /\ \A i \in 1 .. m, j \in 1 .. Len(free) : chain[i] # free[j]
      /\ \A c \in 1 .. n : \/ \E i \in 1 .. m : chain[i] = c
                           \/ \E j \in 1 .. Len(free) : free[j] = c
  BY Zenon DEF Shape, Linked
<1> HIDE DEF m
<1>4. /\ \A i \in 1 .. m : more[chain[i]] = IF i = 1 THEN first ELSE chain[i - 1]
      /\ \A j \in 1 .. Len(free) : more[free[j]] = links[free[j]]
      /\ more[0] = -1 /\ last = IF m = 0 THEN first ELSE chain[m]
  BY DEF m, Freed
<1>5. \A i \in 1 .. n : \/ i <= m /\ m + 1 - i \in 1 .. m /\ freer[i] = chain[m + 1 - i]
                        \/ i > m /\ i - m \in 1 .. Len(free) /\ freer[i] = free[i - m]
  <2> TAKE i \in 1 .. n
  <2>1. CASE i <= m
    <3>1. m + 1 - i \in 1 .. m
      BY <1>1, <2>1
    <3> QED BY <2>1, <3>1
  <2>2. CASE i > m
    <3>1. i - m \in 1 .. Len(free) /\ ~(i <= m)
      BY <1>1, <2>2
    <3> QED BY <2>2, <3>1
  <2> QED BY <1>1, <2>1, <2>2
<1>6. freer \in Seq(1 .. n) /\ Len(freer) = n
  <2>1. \A i \in 1 .. n : freer[i] \in 1 .. n
    BY <1>1, <1>5
  <2>2. freer \in [1 .. n -> 1 .. n]
    <3>1. freer = [i \in 1 .. n |-> freer[i]]
      OBVIOUS
    <3> HIDE DEF freer
    <3> QED BY <2>1, <3>1
  <2> HIDE DEF freer
  <2> QED BY <1>1, <2>2
<1> HIDE DEF freer
<1>7. \A j \in 0 .. Len(free) : Behind(freer, m + j) = Behind(free, j)
  <2> TAKE j \in 0 .. Len(free)
  <2>1. CASE j = Len(free)
    <3>1. m + j = n
      BY <1>1, <2>1
    <3> QED BY <1>1, <1>6, <2>1, <3>1 DEF Behind
  <2>2. CASE j < Len(free)
    <3>1. m + j < n /\ (m + j) + 1 \in 1 .. n /\ ~((m + j) + 1 <= m) /\ ((m + j) + 1) - m = j + 1
      BY <1>1, <2>2
    <3>2. freer[(m + j) + 1] = free[((m + j) + 1) - m]
      BY <1>5, <3>1
    <3>3. freer[(m + j) + 1] = free[j + 1]
      BY <3>1, <3>2
    <3> QED BY <1>6, <2>2, <3>1, <3>3 DEF Behind
  <2> QED BY <1>1, <2>1, <2>2
<1>8. last = Behind(freer, 0)
  <2>1. CASE m = 0
    <3>1. 0 \in 0 .. Len(free) /\ m + 0 = 0
      BY <1>1, <2>1
    <3>2. Behind(freer, m + 0) = Behind(free, 0)
      BY <1>7, <3>1
    <3> QED BY <1>2, <1>4, <2>1, <3>1, <3>2
  <2>2. CASE m # 0
    <3>1. 1 \in 1 .. n /\ 1 <= m /\ ~(1 > m) /\ m + 1 - 1 = m /\ 0 < n /\ 0 + 1 = 1
      BY <1>1, <2>2
    <3>2. freer[1] = chain[m]
      <4>1. freer[1] = chain[m + 1 - 1]
        BY <1>5, <3>1
      <4> QED BY <3>1, <4>1
    <3>3. Behind(freer, 0) = freer[1]
      BY <1>6, <3>1 DEF Behind
    <3> QED BY <1>4, <2>2, <3>2, <3>3
  <2> QED BY <2>1, <2>2
<1>9. ASSUME NEW i \in 1 .. n PROVE more[freer[i]] = Behind(freer, i)
  <2>1. CASE i < m
    <3>1. /\ i <= m /\ ~(i > m) /\ m + 1 - i \in 1 .. m /\ m + 1 - i # 1 /\ i + 1 \in 1 .. n /\ i < n
          /\ i + 1 <= m /\ ~(i + 1 > m) /\ (m + 1 - i) - 1 = m - i /\ m + 1 - (i + 1) = m - i
      BY <1>1, <2>1
    <3>2. more[chain[m + 1 - i]] = chain[(m + 1 - i) - 1]
      BY <1>4, <3>1
    <3>3. freer[i] = chain[m + 1 - i] /\ freer[i + 1] = chain[m + 1 - (i + 1)]
      BY <1>5, <3>1
    <3>4. Behind(freer, i) = freer[i + 1]
      BY <1>6, <3>1 DEF Behind
    <3>5. chain[(m + 1 - i) - 1] = chain[m + 1 - (i + 1)]
      BY <3>1
    <3> QED BY <3>2, <3>3, <3>4, <3>5
  <2>2. CASE i = m
    <3>1. i <= m /\ ~(i > m) /\ m + 1 - i = 1 /\ 1 \in 1 .. m /\ 0 \in 0 .. Len(free) /\ m + 0 = i
      BY <1>1, <2>2
    <3>2. freer[i] = chain[m + 1 - i]
      BY <1>5, <3>1
    <3>3. more[freer[i]] = first
      BY <1>4, <3>1, <3>2
    <3>4. Behind(freer, m + 0) = Behind(free, 0)
      BY <1>7, <3>1
    <3> QED BY <1>2, <3>1, <3>3, <3>4
  <2>3. CASE i > m
    <3>1. ~(i <= m) /\ i - m \in 1 .. Len(free) /\ i - m \in 0 .. Len(free) /\ m + (i - m) = i
      BY <1>1, <2>3
    <3>2. freer[i] = free[i - m]
      BY <1>5, <3>1
    <3>3. more[freer[i]] = Behind(free, i - m)
      BY <1>2, <1>4, <3>1, <3>2
    <3>4. Behind(freer, m + (i - m)) = Behind(free, i - m)
      BY <1>7, <3>1
    <3> QED BY <3>1, <3>3, <3>4
  <2> QED BY <1>1, <2>1, <2>2, <2>3
<1>10. ASSUME NEW i \in 1 .. n, NEW j \in 1 .. n, freer[i] = freer[j] PROVE i = j
  <2>1. /\ \/ m + 1 - i \in 1 .. m /\ freer[i] = chain[m + 1 - i]
           \/ i - m \in 1 .. Len(free) /\ freer[i] = free[i - m]
        /\ \/ m + 1 - j \in 1 .. m /\ freer[j] = chain[m + 1 - j]
           \/ j - m \in 1 .. Len(free) /\ freer[j] = free[j - m]
    BY <1>5
  <2>2. m + 1 - i = m + 1 - j \/ i - m = j - m
    BY <1>3, <1>10, <2>1
  <2> QED BY <1>1, <2>2
<1>11. Linked(more, freer, last)
  BY <1>6, <1>8, <1>9, <1>10 DEF Linked
<1>12. Linked(more, <<>>, more[0])
  BY <1>4 DEF Linked, Behind, L!Null
<1>13. \A c \in 1 .. n : \E i \in 1 .. n : freer[i] = c
  <2> TAKE c \in 1 .. n
  <2>1. CASE \E i \in 1 .. m : chain[i] = c
    <3>1. PICK i \in 1 .. m : chain[i] = c
      BY <2>1
    <3>2. m + 1 - i \in 1 .. n /\ ~(m + 1 - i > m) /\ m + 1 - (m + 1 - i) = i
      BY <1>1
    <3>3. freer[m + 1 - i] = chain[m + 1 - (m + 1 - i)]
      BY <1>5, <3>2
    <3> QED BY <3>1, <3>2, <3>3
  <2>2. CASE \E j \in 1 .. Len(free) : free[j] = c
    <3>1. PICK j \in 1 .. Len(free) : free[j] = c
      BY <2>2
    <3>2. m + j \in 1 .. n /\ ~(m + j <= m) /\ (m + j) - m = j
      BY <1>1
    <3>3. freer[m + j] = free[(m + j) - m]
      BY <1>5, <3>2
    <3> QED BY <3>1, <3>2, <3>3
  <2> QED BY <1>3, <2>1, <2>2
<1>14. more \in [0 .. n -> -1 .. n]
  <2> SUFFICES ASSUME NEW c \in 0 .. n PROVE more[c] \in -1 .. n
    BY DEF Freed
  <2>1. CASE c = 0
    BY <1>1, <1>4, <2>1
  <2>2. CASE c # 0
    <3>1. c \in 1 .. n
      BY <1>1, <2>2
    <3>2. PICK i \in 1 .. n : freer[i] = c
      BY <1>13, <3>1
    <3>3. more[c] = Behind(freer, i)
      BY <1>9, <3>2
    <3>4. i + 1 \in 1 .. n => freer[i + 1] \in 1 .. n
      BY <1>6
    <3>5. Behind(freer, i) = -1 \/ (i + 1 \in 1 .. n /\ Behind(freer, i) = freer[i + 1])
      BY <1>1, <1>6 DEF Behind, L!Null
    <3> QED BY <1>1, <3>3, <3>4, <3>5
  <2> QED BY <2>1, <2>2
<1>15. <<>> \in Seq(1 .. n) /\ Len(<<>>) = 0 /\ Len(<<>>) + Len(freer) = n
  BY <1>1, <1>6
<1>16. /\ \A i \in 1 .. Len(<<>>), j \in 1 .. Len(freer) : <<>>[i] # freer[j]
       /\ \A c \in 1 .. n : \/ \E i \in 1 .. Len(<<>>) : <<>>[i] = c
                            \/ \E j \in 1 .. Len(freer) : freer[j] = c
  BY <1>6, <1>13, <1>15
<1>17. Shape(more, last, n, <<>>, freer)
  BY <1>1, <1>6, <1>11, <1>12, <1>14, <1>15, <1>16, Zenon DEF Shape
<1> QED BY <1>17

-----------------------------------------------------------------------------
(* The invariant of an SLList.                                             *)

\* The list is the chain, with its items, its tail and the place of the iterator.
ListIs(n, chain, free) ==
  /\ Shape(next, head, n, chain, free)
  /\ items \in Seq(Items) /\ Len(items) = Len(chain)
  /\ \A i \in 1 .. Len(chain) : chain[i] \in DOMAIN item /\ item[chain[i]] = items[i]
  /\ listSize = Len(chain) /\ tail = At(chain, Len(chain))
  /\ position \in 0 .. Len(chain) + 1
  /\ position > 0 => modify = [before |-> At(chain, position - 1), at |-> Behind(chain, position - 1)]

\* Inductive: the cells are in two chains, and the list is one of them.
ListInv == \E n, chain, free : ListIs(n, chain, free)

LEMMA ListInit == L!Init => ListInv
<1> SUFFICES ASSUME L!Init PROVE ListIs(0, <<>>, <<>>)
  BY DEF ListInv
<1>1. next = [c \in {0} |-> -1] /\ head = -1 /\ tail = 0 /\ listSize = 0 /\ items = <<>> /\ position = 0
  BY DEF L!Init, L!Null
<1>2. Linked(next, <<>>, next[0]) /\ Linked(next, <<>>, head)
  BY <1>1 DEF Linked, Behind, L!Null
<1>3. next \in [0 .. 0 -> -1 .. 0]
  BY <1>1
<1>4. Shape(next, head, 0, <<>>, <<>>)
  BY <1>2, <1>3 DEF Shape
<1> QED BY <1>1, <1>4 DEF ListIs, At

\* A pool that may hand out a cell has one, after it has grown if need be.
LEMMA MemoryShape ==
  ASSUME NEW n, NEW chain, NEW free, Shape(next, head, n, chain, free)
  PROVE  \E m, more : /\ Shape(L!Memory.next, L!Memory.head, m, chain, more) /\ Len(more) # 0
                      /\ n <= m /\ \A c \in 0 .. n : L!Memory.next[c] = next[c]
<1>1. n \in Nat /\ next \in [0 .. n -> -1 .. n] /\ Len(free) \in Nat
      /\ head = Behind(free, 0) /\ (Behind(free, 0) = -1 <=> 0 = Len(free))
  BY ShapeFacts
<1>2. CASE head # -1
  <2>1. L!Memory.next = next /\ L!Memory.head = head
    BY <1>2 DEF L!Memory, L!Null
  <2> QED BY <1>1, <1>2, <2>1
<1>3. CASE head = -1
  <2> DEFINE more == [c \in DOMAIN next \cup (n + 1 .. n + elements) |->
                        IF c \in DOMAIN next THEN next[c] ELSE IF c = n + elements THEN -1 ELSE c + 1]
  <2>1. L!Cardinality(L!Cells) = n
    BY ShapeFollowed DEF L!Cells
  <2>2. L!Memory.next = more /\ L!Memory.head = n + 1
    BY <1>3, <2>1 DEF L!Memory, L!Grow, L!Null
  <2>3. elements \in Nat \ {0}
    BY ContainersAssumption
  <2>4. Shape(more, n + 1, n + elements, chain, [j \in 1 .. elements |-> n + j])
    BY <1>3, <2>3, GrowShape
  <2>5. \A c \in 0 .. n : more[c] = next[c]
    BY <1>1
  <2>6. Len([j \in 1 .. elements |-> n + j]) # 0
    BY <2>3
  <2>7. n <= n + elements
    BY <1>1, <2>3
  <2> HIDE DEF more
  <2> QED BY <2>2, <2>4, <2>5, <2>6, <2>7
<1> QED BY <1>2, <1>3

\* A cell for v is linked behind the list's k-th.
LEMMA LinkStep ==
  ASSUME NEW n, NEW chain, NEW free, ListIs(n, chain, free), NEW k \in 0 .. Len(chain), NEW v \in Items,
         L!Link(At(chain, k), v)
  PROVE  \E m, longer, rest :
           /\ Shape(next', head', m, longer, rest) /\ Len(longer) = Len(chain) + 1
           /\ \A i \in 1 .. Len(longer) :
                /\ longer[i] \in DOMAIN item'
                /\ item'[longer[i]] = IF i <= k THEN items[i] ELSE IF i = k + 1 THEN v ELSE items[i - 1]
           /\ listSize' = Len(longer) /\ tail' = At(longer, Len(longer))
           /\ next'[At(chain, k)] = longer[k + 1]
           /\ Behind(longer, k + 1) = Behind(chain, k)
<1>1. /\ n \in Nat /\ next \in [0 .. n -> -1 .. n]
      /\ Len(chain) \in Nat
      /\ \A i \in 1 .. Len(chain) : chain[i] \in 1 .. n
      /\ \A i \in 0 .. Len(chain) : /\ At(chain, i) \in 0 .. n
                                    /\ next[At(chain, i)] = Behind(chain, i)
                                    /\ Behind(chain, i) = -1 <=> i = Len(chain)
                                    /\ i < Len(chain) => Behind(chain, i) = chain[i + 1]
  <2>1. Shape(next, head, n, chain, free)
    BY DEF ListIs
  <2> QED BY <2>1, ShapeFacts
<1>2. PICK m, more : /\ Shape(L!Memory.next, L!Memory.head, m, chain, more) /\ Len(more) # 0
                     /\ n <= m /\ \A c \in 0 .. n : L!Memory.next[c] = next[c]
  BY MemoryShape DEF ListIs
<1> DEFINE links == L!Memory.next
           e == L!Memory.head
           longer == L!InsertAt(chain, k + 1, e)
<1>3. /\ next' = [links EXCEPT ![At(chain, k)] = e, ![e] = next[At(chain, k)]]
      /\ head' = links[e]
      /\ item' = [c \in DOMAIN item \cup {e} |-> IF c = e THEN v ELSE item[c]]
      /\ tail' = IF next[At(chain, k)] = -1 THEN e ELSE tail
      /\ listSize' = listSize + 1
  BY DEF L!Link, L!TailAfter, L!Null
<1> HIDE DEF links, e
<1>4. Shape(links, e, m, chain, more) /\ Len(more) # 0 /\ links[At(chain, k)] = next[At(chain, k)]
  BY <1>1, <1>2 DEF links, e
<1>5. m \in Nat /\ chain \in Seq(1 .. m)
  BY <1>4 DEF Shape
<1>6. e \in 1 .. m /\ \A i \in 1 .. Len(chain) : chain[i] # e
  <2>1. /\ Len(more) \in Nat /\ e = Behind(more, 0)
        /\ \A i \in 1 .. Len(more) : more[i] \in 1 .. m
        /\ \A i \in 0 .. Len(more) : i < Len(more) => Behind(more, i) = more[i + 1]
    BY <1>4, ShapeFacts
  <2>2. 0 \in 0 .. Len(more) /\ 0 < Len(more) /\ 0 + 1 \in 1 .. Len(more)
    BY <1>4, <2>1
  <2>3. e = more[0 + 1]
    BY <2>1, <2>2
  <2>4. \A i \in 1 .. Len(chain), j \in 1 .. Len(more) : chain[i] # more[j]
    BY <1>4, Zenon DEF Shape
  <2> QED BY <2>1, <2>2, <2>3, <2>4
<1>7. IsLonger(1 .. m, chain, k, e, longer)
  BY <1>5, <1>6, Inserted
<1> HIDE DEF longer
<1>8. /\ longer \in Seq(1 .. m) /\ Len(longer) = Len(chain) + 1
      /\ \A i \in 1 .. Len(chain) + 1 :
           longer[i] = IF i <= k THEN chain[i] ELSE IF i = k + 1 THEN e ELSE chain[i - 1]
  BY <1>7 DEF IsLonger
<1>9. Shape(next', head', m, longer, Tail(more))
  BY <1>3, <1>4, <1>7, InsertShape
<1>10. ASSUME NEW i \in 1 .. Len(longer)
       PROVE  /\ longer[i] \in DOMAIN item'
              /\ item'[longer[i]] = IF i <= k THEN items[i] ELSE IF i = k + 1 THEN v ELSE items[i - 1]
  <2>0. i \in 1 .. Len(chain) + 1 /\ i \in Int /\ k \in Int
    BY <1>1, <1>8
  <2>1. \A j \in 1 .. Len(chain) : chain[j] \in DOMAIN item' /\ item'[chain[j]] = items[j]
    BY <1>3, <1>6 DEF ListIs
  <2>2. e \in DOMAIN item' /\ item'[e] = v
    BY <1>3
  <2>3. CASE i <= k
    <3>1. i \in 1 .. Len(chain) /\ longer[i] = chain[i]
      BY <1>1, <1>8, <2>0, <2>3
    <3> QED BY <2>1, <2>3, <3>1
  <2>4. CASE i = k + 1
    <3>1. longer[i] = e /\ ~(i <= k)
      BY <1>8, <2>0, <2>4
    <3> QED BY <2>2, <2>4, <3>1
  <2>5. CASE i > k + 1
    <3>1. i - 1 \in 1 .. Len(chain) /\ longer[i] = chain[i - 1] /\ ~(i <= k) /\ i # k + 1
      BY <1>1, <1>8, <2>0, <2>5
    <3> QED BY <2>1, <3>1
  <2> QED BY <2>0, <2>3, <2>4, <2>5
<1>11. listSize' = Len(longer)
  BY <1>3, <1>8 DEF ListIs
<1>12. tail' = At(longer, Len(longer))
  <2>0. At(longer, Len(longer)) = longer[Len(chain) + 1] /\ Len(chain) + 1 \in 1 .. Len(chain) + 1
    BY <1>1, <1>8 DEF At
  <2>1. CASE k = Len(chain)
    <3>1. next[At(chain, k)] = -1
      BY <1>1, <2>1
    <3>2. longer[Len(chain) + 1] = e
      <4>1. ~(Len(chain) + 1 <= k) /\ Len(chain) + 1 = k + 1
        BY <1>1, <2>1
      <4> QED BY <1>8, <2>0, <4>1
    <3> QED BY <1>3, <2>0, <3>1, <3>2
  <2>2. CASE k < Len(chain)
    <3>1. longer[Len(chain) + 1] = chain[(Len(chain) + 1) - 1]
      BY <1>1, <1>8, <2>0, <2>2
    <3>2. next[At(chain, k)] # -1 /\ tail = chain[Len(chain)] /\ (Len(chain) + 1) - 1 = Len(chain)
      BY <1>1, <2>2 DEF ListIs, At
    <3> QED BY <1>3, <2>0, <3>1, <3>2
  <2> QED BY <1>1, <2>1, <2>2
<1>13. next'[At(chain, k)] = longer[k + 1]
  <2>1. longer[k + 1] = e
    BY <1>1, <1>8
  <2>2. At(chain, k) # e
    <3>1. CASE k = 0
      BY <1>6, <3>1 DEF At
    <3>2. CASE k # 0
      <4>1. k \in 1 .. Len(chain)
        BY <1>1, <3>2
      <4> QED BY <1>6, <3>2, <4>1 DEF At
    <3> QED BY <3>1, <3>2
  <2>3. At(chain, k) \in DOMAIN links
    <3>1. At(chain, k) \in 0 .. n
      BY <1>1
    <3>2. DOMAIN links = 0 .. m /\ n <= m
      BY <1>2, <1>4 DEF Shape
    <3> QED BY <1>1, <1>5, <3>1, <3>2
  <2> QED BY <1>3, <2>1, <2>2, <2>3
<1>14. Behind(longer, k + 1) = Behind(chain, k)
  <2>1. CASE k = Len(chain)
    BY <1>1, <1>8, <2>1 DEF Behind
  <2>2. CASE k < Len(chain)
    <3>1. (k + 1) + 1 \in 1 .. Len(chain) + 1 /\ ~((k + 1) + 1 <= k) /\ (k + 1) + 1 # k + 1
          /\ ((k + 1) + 1) - 1 = k + 1 /\ k + 1 < Len(longer)
      BY <1>1, <1>8, <2>2
    <3>2. longer[(k + 1) + 1] = chain[k + 1]
      BY <1>8, <3>1
    <3> QED BY <2>2, <3>1, <3>2 DEF Behind
  <2> QED BY <1>1, <2>1, <2>2
<1> QED BY <1>8, <1>9, <1>10, <1>11, <1>12, <1>13, <1>14

\* The list's k-th cell is unlinked.
LEMMA UnlinkStep ==
  ASSUME NEW n, NEW chain, NEW free, ListIs(n, chain, free), NEW k \in 1 .. Len(chain),
         L!Unlink(At(chain, k - 1))
  PROVE  \E shorter, rest :
           /\ Shape(next', head', n, shorter, rest) /\ Len(shorter) = Len(chain) - 1
           /\ \A i \in 1 .. Len(shorter) :
                /\ shorter[i] \in DOMAIN item'
                /\ item'[shorter[i]] = IF i < k THEN items[i] ELSE items[i + 1]
           /\ listSize' = Len(shorter) /\ tail' = At(shorter, Len(shorter))
           /\ At(shorter, k - 1) = At(chain, k - 1)
           /\ next'[At(chain, k - 1)] = Behind(chain, k)
           /\ Behind(shorter, k - 1) = Behind(chain, k)
<1>1. /\ n \in Nat /\ next \in [0 .. n -> -1 .. n]
      /\ Len(chain) \in Nat
      /\ \A i \in 1 .. Len(chain) : chain[i] \in 1 .. n
      /\ \A i \in 0 .. Len(chain) : /\ At(chain, i) \in 0 .. n
                                    /\ next[At(chain, i)] = Behind(chain, i)
                                    /\ Behind(chain, i) = -1 <=> i = Len(chain)
                                    /\ i < Len(chain) => Behind(chain, i) = chain[i + 1]
  <2>1. Shape(next, head, n, chain, free)
    BY DEF ListIs
  <2> QED BY <2>1, ShapeFacts
<1>2. \A i, j \in 0 .. Len(chain) : At(chain, i) = At(chain, j) => i = j
  <2>1. Shape(next, head, n, chain, free)
    BY DEF ListIs
  <2> QED BY <2>1, ShapeFacts
<1>3. /\ k - 1 \in 0 .. Len(chain) /\ k \in 0 .. Len(chain) /\ k - 1 < Len(chain) /\ (k - 1) + 1 = k
      /\ k \in Nat \ {0} /\ k <= Len(chain)
  BY <1>1
<1>4. next[At(chain, k - 1)] = chain[k] /\ At(chain, k) = chain[k] /\ next[chain[k]] = Behind(chain, k)
  <2>1. next[At(chain, k - 1)] = chain[(k - 1) + 1]
    BY <1>1, <1>3
  <2>2. At(chain, k) = chain[k]
    BY <1>3 DEF At
  <2> QED BY <1>1, <1>3, <2>1, <2>2
<1> DEFINE current == At(chain, k - 1)
           gone == chain[k]
           cut == [next EXCEPT ![current] = next[gone]]
           shorter == L!RemoveAt(chain, k)
           links == [c \in DOMAIN next |-> IF c = gone THEN head ELSE IF c = current THEN next[gone] ELSE next[c]]
<1>5. /\ next' = L!Free(cut, <<gone>>).next /\ head' = L!Free(cut, <<gone>>).head
      /\ tail' = IF gone = tail THEN current ELSE tail
      /\ listSize' = listSize - 1 /\ item' = item
  <2> HIDE DEF gone, current
  <2> USE DEF current, gone
  <2> QED BY <1>4 DEF L!Unlink, L!TailWithout
<1>6. next' = links /\ head' = gone
  <2>1. L!ToSet(<<gone>>) = {gone}
    BY DEF L!ToSet
  <2>2. \A c \in DOMAIN cut : c = gone => (CHOOSE j \in DOMAIN <<gone>> : <<gone>>[j] = c) = 1
    OBVIOUS
  <2>3. L!Last(<<gone>>) = gone /\ <<gone>> # <<>>
    BY DEF L!Last
  <2>4. L!Free(cut, <<gone>>).next = [c \in DOMAIN cut |-> IF c # gone THEN cut[c] ELSE head]
    BY <2>1, <2>2 DEF L!Free
  <2>5. L!Free(cut, <<gone>>).head = gone
    BY <2>3 DEF L!Free
  <2>6. DOMAIN cut = DOMAIN next /\ \A c \in DOMAIN next : cut[c] = IF c = current THEN next[gone] ELSE next[c]
    OBVIOUS
  <2>7. next' = [c \in DOMAIN next |-> IF c # gone THEN cut[c] ELSE head]
    BY <1>5, <2>4, <2>6
  <2> HIDE DEF cut, gone, current
  <2> QED BY <1>5, <2>5, <2>6, <2>7
<1>7. n \in Nat /\ chain \in Seq(1 .. n)
  BY DEF ListIs, Shape
<1>8. IsShorter(1 .. n, chain, k, shorter)
  BY <1>7, Removed
<1> HIDE DEF shorter
<1>9. /\ shorter \in Seq(1 .. n) /\ Len(shorter) = Len(chain) - 1
      /\ \A i \in 1 .. Len(chain) - 1 : shorter[i] = IF i < k THEN chain[i] ELSE chain[i + 1]
  BY <1>8 DEF IsShorter
<1>10. Shape(next', head', n, shorter, <<gone>> \o free)
  <2>1. Shape(next, head, n, chain, free)
    BY DEF ListIs
  <2> QED BY <1>6, <1>8, <2>1, DeleteShape
<1>11. ASSUME NEW i \in 1 .. Len(shorter)
       PROVE  /\ shorter[i] \in DOMAIN item'
              /\ item'[shorter[i]] = IF i < k THEN items[i] ELSE items[i + 1]
  <2>1. \A j \in 1 .. Len(chain) : chain[j] \in DOMAIN item' /\ item'[chain[j]] = items[j]
    BY <1>5 DEF ListIs
  <2>2. i \in 1 .. Len(chain) - 1 /\ i \in 1 .. Len(chain) /\ i + 1 \in 1 .. Len(chain)
    BY <1>1, <1>9
  <2>3. shorter[i] = IF i < k THEN chain[i] ELSE chain[i + 1]
    BY <1>9, <2>2
  <2> QED BY <2>1, <2>2, <2>3
<1>12. listSize' = Len(shorter)
  BY <1>5, <1>9 DEF ListIs
<1>13. \A i \in 0 .. Len(chain) - 1 : At(shorter, i) = IF i < k THEN At(chain, i) ELSE At(chain, i + 1)
  <2> TAKE i \in 0 .. Len(chain) - 1
  <2>1. CASE i = 0
    BY <1>3, <2>1 DEF At
  <2>2. CASE i # 0
    <3>1. i \in 1 .. Len(chain) - 1 /\ i + 1 # 0
      BY <1>1, <2>2
    <3> QED BY <1>9, <2>2, <3>1 DEF At
  <2> QED BY <2>1, <2>2
<1>14. tail' = At(shorter, Len(shorter))
  <2>1. tail = At(chain, Len(chain)) /\ Len(chain) \in 0 .. Len(chain)
    BY <1>1 DEF ListIs
  <2>2. (gone = tail) <=> (k = Len(chain))
    BY <1>2, <1>3, <1>4, <2>1
  <2>3. CASE k = Len(chain)
    <3>1. Len(chain) - 1 \in 0 .. Len(chain) - 1 /\ Len(chain) - 1 < k
      BY <1>3, <2>3
    <3>2. At(shorter, Len(chain) - 1) = At(chain, k - 1)
      BY <1>13, <2>3, <3>1
    <3> QED BY <1>5, <1>9, <2>2, <2>3, <3>2
  <2>4. CASE k # Len(chain)
    <3>1. Len(chain) - 1 \in 0 .. Len(chain) - 1 /\ ~(Len(chain) - 1 < k) /\ (Len(chain) - 1) + 1 = Len(chain)
      BY <1>3, <2>4
    <3>2. At(shorter, Len(chain) - 1) = At(chain, Len(chain))
      BY <1>13, <3>1
    <3> QED BY <1>5, <1>9, <2>1, <2>2, <2>4, <3>2
  <2> QED BY <2>3, <2>4
<1>15. At(shorter, k - 1) = At(chain, k - 1)
  <2>1. k - 1 \in 0 .. Len(chain) - 1 /\ k - 1 < k
    BY <1>3
  <2> QED BY <1>13, <2>1
<1>16. next'[At(chain, k - 1)] = Behind(chain, k)
  <2>1. At(chain, k - 1) \in DOMAIN next
    BY <1>1, <1>3
  <2>2. At(chain, k - 1) # gone
    BY <1>2, <1>3, <1>4
  <2> QED BY <1>4, <1>6, <2>1, <2>2
<1>17. Behind(shorter, k - 1) = Behind(chain, k)
  <2>1. CASE k = Len(chain)
    BY <1>3, <1>9, <2>1 DEF Behind
  <2>2. CASE k # Len(chain)
    <3>1. k - 1 < Len(shorter) /\ k < Len(chain) /\ k \in 1 .. Len(chain) - 1 /\ ~(k < k)
      BY <1>3, <1>9, <2>2
    <3>2. shorter[k] = chain[k + 1]
      BY <1>9, <3>1
    <3> QED BY <1>3, <3>1, <3>2 DEF Behind
  <2> QED BY <2>1, <2>2
<1> QED BY <1>9, <1>10, <1>11, <1>12, <1>14, <1>15, <1>16, <1>17

\* The list is emptied.
LEMMA ClearStep ==
  ASSUME NEW n, NEW chain, NEW free, ListIs(n, chain, free), L!Clear
  PROVE  ListInv'
<1>1. Shape(next, head, n, chain, free)
  BY DEF ListIs
<1>2. /\ n \in Nat /\ next \in [0 .. n -> -1 .. n] /\ Len(chain) \in Nat
      /\ \A i \in 1 .. Len(chain) : chain[i] \in 1 .. n
      /\ \A i \in 1 .. Len(free) : free[i] \in 1 .. n
      /\ \A i \in 1 .. Len(chain), j \in 1 .. Len(free) : chain[i] # free[j]
      /\ \A i, j \in 1 .. Len(chain) : chain[i] = chain[j] => i = j
  <2>1. /\ n \in Nat /\ next \in [0 .. n -> -1 .. n] /\ Len(chain) \in Nat
        /\ \A i \in 1 .. Len(chain) : chain[i] \in 1 .. n
        /\ \A i \in 1 .. Len(free) : free[i] \in 1 .. n
    BY <1>1, ShapeFacts
  <2>2. /\ \A i \in 1 .. Len(chain), j \in 1 .. Len(free) : chain[i] # free[j]
        /\ \A i, j \in 1 .. Len(chain) : chain[i] = chain[j] => i = j
    BY <1>1, Zenon DEF Shape, Linked
  <2> QED BY <2>1, <2>2
<1>3. L!Chain = chain /\ chain \in Seq(1 .. n) /\ DOMAIN chain = 1 .. Len(chain)
  <2>1. chain \in Seq(1 .. n)
    BY <1>1 DEF Shape
  <2> QED BY <1>1, <2>1, ShapeFollowed, LenProperties DEF L!Chain
<1> DEFINE cut == [next EXCEPT ![0] = -1]
           links == L!Free(cut, chain).next
           last == L!Free(cut, chain).head
           place(c) == CHOOSE j \in DOMAIN chain : chain[j] = c
<1>4. /\ next' = links /\ head' = last /\ tail' = 0 /\ listSize' = listSize - Len(chain)
      /\ items' = <<>> /\ position' = 0
  BY <1>3 DEF L!Clear, L!NoIterator, L!Null
<1>5. links = [c \in 0 .. n |->
                 IF c \notin L!ToSet(chain) THEN cut[c]
                 ELSE IF place(c) = 1 THEN head ELSE chain[place(c) - 1]]
  <2>1. DOMAIN cut = 0 .. n
    BY <1>2
  <2> QED BY <2>1, Zenon DEF L!Free
<1>6. last = IF Len(chain) = 0 THEN head ELSE chain[Len(chain)]
  <2>1. last = IF chain = <<>> THEN head ELSE L!Last(chain)
    BY DEF L!Free
  <2>2. chain = <<>> <=> Len(chain) = 0
    BY <1>3, EmptySeq
  <2> QED BY <2>1, <2>2 DEF L!Last
<1>7. \A c : c \in L!ToSet(chain) <=> \E i \in 1 .. Len(chain) : chain[i] = c
  BY <1>3 DEF L!ToSet
<1>8. ASSUME NEW i \in 1 .. Len(chain) PROVE links[chain[i]] = IF i = 1 THEN head ELSE chain[i - 1]
  <2>1. chain[i] \in 0 .. n /\ chain[i] \in L!ToSet(chain)
    <3>1. chain[i] \in 1 .. n /\ n \in Nat
      BY <1>2
    <3> QED BY <1>7, <3>1
  <2>2. place(chain[i]) = i
    BY <1>2, <1>3
  <2> HIDE DEF links, place
  <2> QED BY <1>5, <2>1, <2>2
<1>9. ASSUME NEW j \in 1 .. Len(free) PROVE links[free[j]] = next[free[j]]
  <2>1. free[j] \in 1 .. n /\ free[j] \in 0 .. n /\ free[j] # 0
    <3>1. free[j] \in 1 .. n /\ n \in Nat
      BY <1>2
    <3> QED BY <3>1
  <2>2. free[j] \notin L!ToSet(chain)
    BY <1>2, <1>7
  <2>3. cut[free[j]] = next[free[j]]
    BY <2>1
  <2> HIDE DEF links, cut, place
  <2> QED BY <1>5, <2>1, <2>2, <2>3
<1>10. links[0] = -1
  <2>1. 0 \in 0 .. n /\ 0 \notin L!ToSet(chain)
    BY <1>2, <1>7
  <2>2. cut[0] = -1
    BY <1>2, <2>1
  <2> HIDE DEF links, cut, place
  <2> QED BY <1>5, <2>1, <2>2
<1>11. DOMAIN links = 0 .. n /\ links = [c \in 0 .. n |-> links[c]]
  <2> HIDE DEF links, cut, place
  <2> QED BY <1>5
<1> HIDE DEF links, last
<1>12. PICK freer : Shape(links, last, n, <<>>, freer)
  <2>1. Freed(next, head, n, chain, free, links, last)
    BY <1>6, <1>8, <1>9, <1>10, <1>11 DEF Freed
  <2> QED BY <1>1, <2>1, ClearShape
<1>13. listSize' = 0
  BY <1>2, <1>4 DEF ListIs
<1>14. ListIs(n, <<>>, freer)'
  BY <1>4, <1>12, <1>13 DEF ListIs, At
<1> QED BY <1>14 DEF ListInv

\* The list with v behind the k-th element, the iterator gone or behind v.
LEMMA LinkKeepsInv ==
  ASSUME NEW n, NEW chain, NEW free, ListIs(n, chain, free), NEW k \in 0 .. Len(chain), NEW v \in Items,
         L!Link(At(chain, k), v), IsLonger(Items, items, k, v, items'),
         \/ position' = 0
         \/ /\ position = k + 1 /\ position' = position + 1
            /\ modify' = [modify EXCEPT !.before = next'[@]]
  PROVE  ListInv'
<1>1. PICK m, longer, rest :
        /\ Shape(next', head', m, longer, rest) /\ Len(longer) = Len(chain) + 1
        /\ \A i \in 1 .. Len(longer) :
             /\ longer[i] \in DOMAIN item'
             /\ item'[longer[i]] = IF i <= k THEN items[i] ELSE IF i = k + 1 THEN v ELSE items[i - 1]
        /\ listSize' = Len(longer) /\ tail' = At(longer, Len(longer))
        /\ next'[At(chain, k)] = longer[k + 1]
        /\ Behind(longer, k + 1) = Behind(chain, k)
  BY LinkStep
<1>2. /\ items' \in Seq(Items) /\ Len(items') = Len(items) + 1
      /\ \A i \in 1 .. Len(items) + 1 :
           items'[i] = IF i <= k THEN items[i] ELSE IF i = k + 1 THEN v ELSE items[i - 1]
  BY DEF IsLonger
<1>3. Len(items) = Len(chain) /\ Len(chain) \in Nat
  BY ShapeFacts DEF ListIs
<1>4. \A i \in 1 .. Len(longer) : longer[i] \in DOMAIN item' /\ item'[longer[i]] = items'[i]
  BY <1>1, <1>2, <1>3
<1>5. /\ position' \in 0 .. Len(longer) + 1
      /\ position' > 0 =>
           modify' = [before |-> At(longer, position' - 1), at |-> Behind(longer, position' - 1)]
  <2>1. CASE position' = 0
    BY <1>1, <1>3, <2>1
  <2>2. CASE /\ position = k + 1 /\ position' = position + 1
             /\ modify' = [modify EXCEPT !.before = next'[@]]
    <3>1. k \in Nat /\ k <= Len(chain) /\ position > 0 /\ position - 1 = k /\ position' - 1 = k + 1 /\ k + 1 # 0
          /\ position' \in 0 .. Len(longer) + 1
      BY <1>1, <1>3, <2>2
    <3>2. modify = [before |-> At(chain, k), at |-> Behind(chain, k)]
      BY <3>1 DEF ListIs
    <3>3. modify' = [before |-> next'[At(chain, k)], at |-> Behind(chain, k)]
      BY <2>2, <3>2
    <3>4. At(longer, k + 1) = longer[k + 1]
      BY <3>1 DEF At
    <3> QED BY <1>1, <3>1, <3>3, <3>4
  <2> QED BY <2>1, <2>2
<1>6. ListIs(m, longer, rest)'
  BY <1>1, <1>2, <1>3, <1>4, <1>5 DEF ListIs
<1> QED BY <1>6 DEF ListInv

\* The list without the k-th element, the iterator gone or at the next one.
LEMMA UnlinkKeepsInv ==
  ASSUME NEW n, NEW chain, NEW free, ListIs(n, chain, free), NEW k \in 1 .. Len(chain),
         L!Unlink(At(chain, k - 1)), IsShorter(Items, items, k, items'),
         \/ position' = 0
         \/ /\ position = k /\ position' = position
            /\ modify' = [modify EXCEPT !.at = next[@]]
  PROVE  ListInv'
<1>1. PICK shorter, rest :
        /\ Shape(next', head', n, shorter, rest) /\ Len(shorter) = Len(chain) - 1
        /\ \A i \in 1 .. Len(shorter) :
             /\ shorter[i] \in DOMAIN item'
             /\ item'[shorter[i]] = IF i < k THEN items[i] ELSE items[i + 1]
        /\ listSize' = Len(shorter) /\ tail' = At(shorter, Len(shorter))
        /\ At(shorter, k - 1) = At(chain, k - 1)
        /\ next'[At(chain, k - 1)] = Behind(chain, k)
        /\ Behind(shorter, k - 1) = Behind(chain, k)
  BY UnlinkStep
<1>2. /\ items' \in Seq(Items) /\ Len(items') = Len(items) - 1
      /\ \A i \in 1 .. Len(items) - 1 : items'[i] = IF i < k THEN items[i] ELSE items[i + 1]
  BY DEF IsShorter
<1>3. /\ Len(items) = Len(chain) /\ Len(chain) \in Nat
      /\ \A i \in 0 .. Len(chain) : /\ next[At(chain, i)] = Behind(chain, i)
                                    /\ i < Len(chain) => Behind(chain, i) = chain[i + 1]
  <2>1. Shape(next, head, n, chain, free) /\ Len(items) = Len(chain)
    BY DEF ListIs
  <2> QED BY <2>1, ShapeFacts
<1>4. \A i \in 1 .. Len(shorter) : shorter[i] \in DOMAIN item' /\ item'[shorter[i]] = items'[i]
  BY <1>1, <1>2, <1>3
<1>5. /\ position' \in 0 .. Len(shorter) + 1
      /\ position' > 0 =>
           modify' = [before |-> At(shorter, position' - 1), at |-> Behind(shorter, position' - 1)]
  <2>1. CASE position' = 0
    BY <1>1, <1>3, <2>1
  <2>2. CASE /\ position = k /\ position' = position
             /\ modify' = [modify EXCEPT !.at = next[@]]
    <3>1. /\ k \in Nat /\ k <= Len(chain) /\ position > 0 /\ k - 1 \in 0 .. Len(chain) /\ k \in 0 .. Len(chain)
          /\ k - 1 < Len(chain) /\ (k - 1) + 1 = k /\ k # 0
      BY <1>3, <2>2
    <3>2. position' \in 0 .. Len(shorter) + 1
      BY <1>1, <1>3, <2>2, <3>1
    <3>3. modify = [before |-> At(chain, k - 1), at |-> Behind(chain, k - 1)]
      BY <2>2, <3>1 DEF ListIs
    <3>4. Behind(chain, k - 1) = chain[k] /\ At(chain, k) = chain[k]
      <4>1. Behind(chain, k - 1) = chain[(k - 1) + 1]
        BY <1>3, <3>1
      <4> QED BY <3>1, <4>1 DEF At
    <3>5. next[Behind(chain, k - 1)] = Behind(chain, k)
      BY <1>3, <3>1, <3>4
    <3>6. modify' = [before |-> At(chain, k - 1), at |-> Behind(chain, k)]
      BY <2>2, <3>3, <3>5
    <3> QED BY <1>1, <2>2, <3>2, <3>6
  <2> QED BY <2>1, <2>2
<1>6. ListIs(n, shorter, rest)'
  BY <1>1, <1>2, <1>3, <1>4, <1>5 DEF ListIs
<1> QED BY <1>6 DEF ListInv

LEMMA ListStep == ListInv /\ [L!Next]_listVars => ListInv'
<1> SUFFICES ASSUME ListInv, [L!Next]_listVars PROVE ListInv'
  OBVIOUS
<1>1. PICK n, chain, free : ListIs(n, chain, free)
  BY DEF ListInv
<1>2. Shape(next, head, n, chain, free) /\ items \in Seq(Items) /\ Len(items) = Len(chain)
      /\ tail = At(chain, Len(chain)) /\ position \in 0 .. Len(chain) + 1
  BY <1>1 DEF ListIs
<1>3. /\ Len(chain) \in Nat /\ At(chain, 0) = 0 /\ 0 \in 0 .. Len(chain) /\ Len(chain) \in 0 .. Len(chain)
      /\ \A i \in 0 .. Len(chain) : /\ next[At(chain, i)] = Behind(chain, i)
                                    /\ Behind(chain, i) = -1 <=> i = Len(chain)
                                    /\ i < Len(chain) => Behind(chain, i) = chain[i + 1]
  BY <1>2, ShapeFacts
<1>4. position > 0 => modify = [before |-> At(chain, position - 1), at |-> Behind(chain, position - 1)]
  BY <1>1 DEF ListIs
<1>5. ASSUME NEW v \in Items, L!PushBack(v) PROVE ListInv'
  <2>1. L!Link(At(chain, Len(chain)), v) /\ items' = Append(items, v) /\ position' = 0
    BY <1>2, <1>5 DEF L!PushBack, L!NoIterator
  <2>2. IsLonger(Items, items, Len(chain), v, items')
    BY <1>2, <2>1 DEF IsLonger
  <2> QED BY <1>1, <1>3, <2>1, <2>2, LinkKeepsInv
<1>6. ASSUME NEW v \in Items, L!PushFront(v) PROVE ListInv'
  <2>1. L!Link(At(chain, 0), v) /\ items' = <<v>> \o items /\ position' = 0
    BY <1>3, <1>6 DEF L!PushFront, L!NoIterator
  <2>2. IsLonger(Items, items, 0, v, items')
    <3>1. /\ items' \in Seq(Items) /\ Len(items') = Len(items) + 1
          /\ items'[1] = v /\ \A p \in 1 .. Len(items) : items'[p + 1] = items[p]
      BY <1>2, <2>1, Cons
    <3>2. ASSUME NEW i \in 1 .. Len(items) + 1
          PROVE  items'[i] = IF i <= 0 THEN items[i] ELSE IF i = 0 + 1 THEN v ELSE items[i - 1]
      <4>1. CASE i = 1
        BY <3>1, <4>1
      <4>2. CASE i # 1
        <5>1. i - 1 \in 1 .. Len(items) /\ (i - 1) + 1 = i /\ ~(i <= 0)
          BY <1>2, <1>3, <4>2
        <5> QED BY <3>1, <4>2, <5>1
      <4> QED BY <4>1, <4>2
    <3> QED BY <3>1, <3>2 DEF IsLonger
  <2> QED BY <1>1, <1>3, <2>1, <2>2, LinkKeepsInv
<1>7. ASSUME NEW v \in Items, L!Insert(v) PROVE ListInv'
  <2> DEFINE k == position - 1
  <2>1. /\ position > 0 /\ L!Link(modify.before, v) /\ modify' = [modify EXCEPT !.before = next'[@]]
        /\ items' = L!InsertAt(items, position, v) /\ position' = position + 1
    BY <1>7 DEF L!Insert
  <2>2. k \in 0 .. Len(chain) /\ position = k + 1
    BY <1>2, <1>3, <2>1
  <2>3. L!Link(At(chain, k), v)
    <3>1. modify.before = At(chain, k)
      BY <1>4, <2>1
    <3> QED BY <2>1, <3>1
  <2> HIDE DEF k
  <2>4. IsLonger(Items, items, k, v, items')
    BY <1>2, <2>1, <2>2, Inserted
  <2> QED BY <1>1, <2>1, <2>2, <2>3, <2>4, LinkKeepsInv
<1>8. ASSUME L!PopFront PROVE ListInv'
  <2>1. L!Unlink(0) /\ items' = Tail(items) /\ position' = 0
    BY <1>8 DEF L!PopFront, L!NoIterator
  <2>2. next[0] # -1
    BY <2>1 DEF L!Unlink, L!Null
  <2>3. 1 \in 1 .. Len(chain) /\ 1 - 1 = 0
    BY <1>3, <2>2
  <2>4. L!Unlink(At(chain, 1 - 1))
    BY <1>3, <2>1, <2>3
  <2>5. IsShorter(Items, items, 1, items')
    <3>1. items # <<>>
      BY <1>2, <2>3
    <3>2. /\ items' \in Seq(Items) /\ Len(items') = Len(items) - 1
          /\ \A i \in 1 .. Len(items) - 1 : items'[i] = items[i + 1]
      BY <1>2, <2>1, <3>1, HeadTailProperties
    <3> QED BY <3>2 DEF IsShorter
  <2> QED BY <1>1, <2>1, <2>3, <2>4, <2>5, UnlinkKeepsInv
<1>9. ASSUME L!RemoveHere PROVE ListInv'
  <2>1. /\ position > 0 /\ modify.at # -1 /\ L!Unlink(modify.before)
        /\ modify' = [modify EXCEPT !.at = next[@]]
        /\ items' = L!RemoveAt(items, position) /\ position' = position
    BY <1>9 DEF L!RemoveHere, L!Null
  <2>2. /\ position \in 1 .. Len(chain) + 1 /\ position - 1 \in 0 .. Len(chain)
        /\ modify.before = At(chain, position - 1) /\ modify.at = Behind(chain, position - 1)
    BY <1>2, <1>3, <1>4, <2>1
  <2>3. position \in 1 .. Len(chain)
    BY <1>3, <2>1, <2>2
  <2>4. L!Unlink(At(chain, position - 1))
    BY <2>1, <2>2
  <2>5. IsShorter(Items, items, position, items')
    BY <1>2, <2>1, <2>3, Removed
  <2> QED BY <1>1, <2>1, <2>3, <2>4, <2>5, UnlinkKeepsInv
<1>10. ASSUME L!Clear PROVE ListInv'
  BY <1>1, <1>10, ClearStep
<1>11. ASSUME UNCHANGED <<next, item, head, tail, listSize, items>>, position' \in 0 .. Len(chain) + 1,
              position' > 0 => modify' = [before |-> At(chain, position' - 1), at |-> Behind(chain, position' - 1)]
       PROVE  ListInv'
  <2>1. ListIs(n, chain, free)'
    BY <1>1, <1>11 DEF ListIs
  <2> QED BY <2>1 DEF ListInv
<1>12. CASE L!BeginModify
  <2>1. /\ UNCHANGED <<next, item, head, tail, listSize, items>> /\ position' = 1
        /\ modify' = [before |-> 0, at |-> next[0]]
    BY <1>12 DEF L!BeginModify, L!list
  <2>2. position' - 1 = 0 /\ position' \in 0 .. Len(chain) + 1
    BY <1>3, <2>1
  <2>3. modify' = [before |-> At(chain, 0), at |-> Behind(chain, 0)]
    BY <1>3, <2>1
  <2> QED BY <1>11, <2>1, <2>2, <2>3
<1>13. CASE L!EndModify
  <2>1. /\ UNCHANGED <<next, item, head, tail, listSize, items>> /\ position' = Len(items) + 1
        /\ modify' = [before |-> tail, at |-> -1]
    BY <1>13 DEF L!EndModify, L!list, L!Null
  <2>2. position' - 1 = Len(chain) /\ position' \in 0 .. Len(chain) + 1
    BY <1>2, <1>3, <2>1
  <2>3. modify' = [before |-> At(chain, Len(chain)), at |-> Behind(chain, Len(chain))]
    BY <1>2, <1>3, <2>1
  <2> QED BY <1>11, <2>1, <2>2, <2>3
<1>14. CASE L!Increment
  <2>1. /\ UNCHANGED <<next, item, head, tail, listSize, items>>
        /\ position > 0 /\ modify.at # -1 /\ position' = position + 1
        /\ modify' = [before |-> next[modify.before], at |-> next[modify.at]]
    BY <1>14 DEF L!Increment, L!list, L!Null
  <2>2. /\ position - 1 \in 0 .. Len(chain) /\ position' - 1 = position
        /\ modify.before = At(chain, position - 1) /\ modify.at = Behind(chain, position - 1)
    BY <1>2, <1>3, <1>4, <2>1
  <2>3. position - 1 < Len(chain) /\ position \in 0 .. Len(chain) /\ position # 0 /\ (position - 1) + 1 = position
    BY <1>3, <2>1, <2>2
  <2>4. Behind(chain, position - 1) = chain[(position - 1) + 1]
    BY <1>3, <2>2, <2>3
  <2>5. Behind(chain, position - 1) = At(chain, position)
    BY <2>3, <2>4 DEF At
  <2>6. modify' = [before |-> At(chain, position), at |-> Behind(chain, position)]
    BY <1>3, <2>1, <2>2, <2>3, <2>5
  <2>7. position' \in 0 .. Len(chain) + 1
    BY <1>3, <2>1, <2>3
  <2> QED BY <1>11, <2>1, <2>2, <2>6, <2>7
<1>15. CASE UNCHANGED listVars
  BY <1>2, <1>4, <1>11, <1>15 DEF listVars
<1> QED BY <1>5, <1>6, <1>7, <1>8, <1>9, <1>10, <1>12, <1>13, <1>14, <1>15 DEF L!Next

\* The cells of an SLList and of its pool are always chains that share no cell.
THEOREM ListInvariant == SpecAll => []ListInv
<1>1. InitAll => ListInv
  BY ListInit DEF InitAll
<1>2. ListInv /\ [NextAll]_<<vars, container, arrayVars, listVars, lruVars>> => ListInv'
  <2> SUFFICES ASSUME ListInv, [NextAll]_<<vars, container, arrayVars, listVars, lruVars>> PROVE ListInv'
    OBVIOUS
  <2>1. [L!Next]_listVars
    BY DEF NextAll
  <2> QED BY <2>1, ListStep
<1> QED BY <1>1, <1>2, PTL DEF SpecAll

\* A list holds what was inserted and not removed, in order, its tail and its size are
\* right and so is the place of its modifying iterator, whatever the calls.
THEOREM ListIsExact == SpecAll => []SLListExact
<1>1. ListInv => SLListExact
  <2> SUFFICES ASSUME NEW n, NEW chain, NEW free, ListIs(n, chain, free) PROVE SLListExact
    BY DEF ListInv
  <2>1. Shape(next, head, n, chain, free)
    BY DEF ListIs
  <2>2. L!Chain = chain
    BY <2>1, ShapeFollowed DEF L!Chain
  <2>3. chain \in Seq(1 .. n) /\ DOMAIN chain = 1 .. Len(chain) /\ Len(chain) \in Nat
    BY <2>1 DEF Shape
  <2>4. [i \in DOMAIN chain |-> item[chain[i]]] = items
    <3>1. items \in Seq(Items) /\ DOMAIN items = 1 .. Len(chain) /\ items = [i \in DOMAIN items |-> items[i]]
      BY DEF ListIs
    <3> QED BY <2>3, <3>1 DEF ListIs
  <2>5. listSize = Len(chain)
    BY DEF ListIs
  <2>6. chain = <<>> <=> Len(chain) = 0
    BY <2>3, EmptySeq
  <2>7. tail = IF chain = <<>> THEN 0 ELSE L!Last(chain)
    BY <2>6 DEF ListIs, At, L!Last
  <2>8. ASSUME position > 0
        PROVE  /\ modify.before = IF position = 1 THEN 0 ELSE chain[position - 1]
               /\ modify.at = IF position > Len(chain) THEN L!Null ELSE chain[position]
    <3>1. position \in 1 .. Len(chain) + 1
      BY <2>3, <2>8 DEF ListIs
    <3>2. modify.before = At(chain, position - 1) /\ modify.at = Behind(chain, position - 1)
      BY <2>8 DEF ListIs
    <3>3. At(chain, position - 1) = IF position = 1 THEN 0 ELSE chain[position - 1]
      BY <3>1 DEF At
    <3>4. Behind(chain, position - 1) = IF position > Len(chain) THEN L!Null ELSE chain[position]
      <4>1. (position - 1) + 1 = position /\ (position - 1 < Len(chain) <=> ~(position > Len(chain)))
        BY <2>3, <3>1
      <4> QED BY <4>1 DEF Behind
    <3> QED BY <3>2, <3>3, <3>4
  <2> QED BY <2>2, <2>4, <2>5, <2>7, <2>8 DEF SLListExact, L!SLListExact
<1> QED BY <1>1, ListInvariant, PTL

\* The pool hands no cell out twice and loses none: each is in the list or free, once.
THEOREM NoCellLost == SpecAll => []CellsPartitioned
<1>1. ListInv => CellsPartitioned
  <2> SUFFICES ASSUME NEW n, NEW chain, NEW free, ListIs(n, chain, free) PROVE CellsPartitioned
    BY DEF ListInv
  <2>1. Shape(next, head, n, chain, free)
    BY DEF ListIs
  <2>2. L!Chain = chain /\ L!FreeCells = free /\ L!Cardinality(L!Cells) = n
    BY <2>1, ShapeFollowed DEF L!Chain, L!FreeCells, L!Cells
  <2>3. chain \in Seq(1 .. n) /\ free \in Seq(1 .. n) /\ Len(chain) + Len(free) = n
    BY <2>1, Zenon DEF Shape
  <2>4. /\ \A c \in 1 .. n : \/ \E i \in 1 .. Len(chain) : chain[i] = c
                             \/ \E j \in 1 .. Len(free) : free[j] = c
        /\ next \in [0 .. n -> -1 .. n] /\ n \in Nat
    BY <2>1, Zenon DEF Shape
  <2>5. L!Cells = 1 .. n
    BY <2>4 DEF L!Cells
  <2>6. L!ToSet(chain) \cup L!ToSet(free) = 1 .. n
    <3>1. /\ DOMAIN chain = 1 .. Len(chain) /\ DOMAIN free = 1 .. Len(free)
          /\ \A i \in 1 .. Len(chain) : chain[i] \in 1 .. n
          /\ \A i \in 1 .. Len(free) : free[i] \in 1 .. n
      BY <2>3, LenProperties, ElementOfSeq
    <3> QED BY <2>4, <3>1 DEF L!ToSet
  <2> QED BY <2>2, <2>3, <2>5, <2>6 DEF CellsPartitioned, L!CellsPartitioned
<1> QED BY <1>1, ListInvariant, PTL

-----------------------------------------------------------------------------
(* Places in chunks.                                                       *)

ChunkOf(x) == x \div chunkSize
PlaceOf(x) == x % chunkSize

LEMMA Product == \A a, b \in Int : a <= b => chunkSize * a <= chunkSize * b
<1> SUFFICES ASSUME NEW a \in Int, NEW b \in Int, a <= b PROVE chunkSize * a <= chunkSize * b
  OBVIOUS
<1>1. chunkSize \in Int /\ chunkSize >= 0
  BY ContainersAssumption
<1>2. chunkSize * (b - a) >= 0
  BY <1>1
<1>3. chunkSize * (b - a) = chunkSize * b - chunkSize * a
  BY <1>1
<1> QED BY <1>1, <1>2, <1>3

LEMMA Places ==
  \A x \in Nat : /\ ChunkOf(x) \in Nat /\ PlaceOf(x) \in 0 .. chunkSize - 1
                 /\ x = chunkSize * ChunkOf(x) + PlaceOf(x)
<1> SUFFICES ASSUME NEW x \in Nat
             PROVE  /\ x \div chunkSize \in Nat /\ x % chunkSize \in 0 .. chunkSize - 1
                    /\ x = chunkSize * (x \div chunkSize) + (x % chunkSize)
  BY DEF ChunkOf, PlaceOf
<1>1. chunkSize \in Int /\ chunkSize > 0
  BY ContainersAssumption
<1> QED BY <1>1

\* Where a place lies is the only way to write it as chunks and a rest.
LEMMA PlaceUnique ==
  \A x \in Nat : \A a \in Int : \A r \in 0 .. chunkSize - 1 :
    x = chunkSize * a + r => ChunkOf(x) = a /\ PlaceOf(x) = r
<1> SUFFICES ASSUME NEW x \in Nat, NEW a \in Int, NEW r \in 0 .. chunkSize - 1, x = chunkSize * a + r
             PROVE  ChunkOf(x) = a /\ PlaceOf(x) = r
  OBVIOUS
<1>1. chunkSize \in Int /\ chunkSize > 0 /\ r \in Int /\ r >= 0 /\ r < chunkSize
  BY ContainersAssumption
<1>2. /\ ChunkOf(x) \in Int /\ PlaceOf(x) \in Int /\ PlaceOf(x) >= 0 /\ PlaceOf(x) < chunkSize
      /\ x = chunkSize * ChunkOf(x) + PlaceOf(x)
  BY <1>1, Places
<1>3. ASSUME NEW p \in Int, NEW q \in Int, p < q PROVE chunkSize * p + chunkSize <= chunkSize * q
  <2>1. chunkSize * (p + 1) <= chunkSize * q
    BY <1>3, Product
  <2>2. chunkSize * (p + 1) = chunkSize * p + chunkSize
    BY <1>1
  <2> QED BY <2>1, <2>2
<1>4. chunkSize * a \in Int /\ chunkSize * ChunkOf(x) \in Int
  BY <1>1, <1>2
<1> DEFINE u == chunkSize * a
           v == chunkSize * ChunkOf(x)
<1>5. /\ u \in Int /\ v \in Int /\ x = u + r /\ x = v + PlaceOf(x)
      /\ ChunkOf(x) < a => v + chunkSize <= u
      /\ a < ChunkOf(x) => u + chunkSize <= v
      /\ ChunkOf(x) = a => u = v
  BY <1>1, <1>2, <1>3, <1>4
<1> HIDE DEF u, v
<1>6. ~(ChunkOf(x) < a) /\ ~(a < ChunkOf(x))
  BY ONLY <1>1, <1>2, <1>5, x \in Nat
<1>7. ChunkOf(x) = a
  BY <1>2, <1>6
<1> QED BY ONLY <1>1, <1>2, <1>5, <1>7, x \in Nat

LEMMA PlacesInOrder == \A x, y \in Nat : x <= y => ChunkOf(x) <= ChunkOf(y)
<1> SUFFICES ASSUME NEW x \in Nat, NEW y \in Nat, x <= y, ChunkOf(y) < ChunkOf(x) PROVE FALSE
  BY Places
<1>1. chunkSize \in Int /\ chunkSize > 0
  BY ContainersAssumption
<1>2. /\ ChunkOf(x) \in Int /\ PlaceOf(x) \in Int /\ PlaceOf(x) >= 0
      /\ ChunkOf(y) \in Int /\ PlaceOf(y) \in Int /\ PlaceOf(y) < chunkSize
      /\ x = chunkSize * ChunkOf(x) + PlaceOf(x) /\ y = chunkSize * ChunkOf(y) + PlaceOf(y)
  BY <1>1, Places
<1>3. chunkSize * (ChunkOf(y) + 1) <= chunkSize * ChunkOf(x)
  BY <1>2, Product
<1>4. chunkSize * (ChunkOf(y) + 1) = chunkSize * ChunkOf(y) + chunkSize
  BY <1>1, <1>2
<1>5. chunkSize * ChunkOf(y) \in Int /\ chunkSize * ChunkOf(x) \in Int
  BY <1>1, <1>2
<1> QED BY <1>1, <1>2, <1>3, <1>4, <1>5

\* The places below a number of whole chunks.
LEMMA PlaceBelow ==
  \A n \in Nat : /\ ChunkOf(chunkSize * n) = n /\ PlaceOf(chunkSize * n) = 0
                 /\ \A x \in Nat : x < chunkSize * n => ChunkOf(x) < n
<1> SUFFICES ASSUME NEW n \in Nat
             PROVE  /\ ChunkOf(chunkSize * n) = n /\ PlaceOf(chunkSize * n) = 0
                    /\ \A x \in Nat : x < chunkSize * n => ChunkOf(x) < n
  OBVIOUS
<1>1. chunkSize \in Int /\ chunkSize > 0 /\ 0 \in 0 .. chunkSize - 1
  BY ContainersAssumption
<1>2. chunkSize * n \in Nat /\ chunkSize * n = chunkSize * n + 0
  BY <1>1
<1>3. ChunkOf(chunkSize * n) = n /\ PlaceOf(chunkSize * n) = 0
  BY <1>1, <1>2, PlaceUnique
<1>4. ASSUME NEW x \in Nat, x < chunkSize * n, ChunkOf(x) >= n PROVE FALSE
  <2>1. /\ ChunkOf(x) \in Int /\ PlaceOf(x) \in Int /\ PlaceOf(x) >= 0
        /\ x = chunkSize * ChunkOf(x) + PlaceOf(x)
    BY <1>1, Places
  <2>2. chunkSize * n <= chunkSize * ChunkOf(x)
    BY <1>4, <2>1, Product
  <2>3. chunkSize * ChunkOf(x) \in Int
    BY <1>1, <2>1
  <2> QED BY <1>2, <1>4, <2>1, <2>2, <2>3
<1>5. \A x \in Nat : ChunkOf(x) \in Nat
  BY Places
<1> QED BY <1>3, <1>4, <1>5

\* The chunks between two places, counted from the place in the chunk of the first.
LEMMA PlacesBetween ==
  \A x, i \in Nat : ChunkOf(i + PlaceOf(x)) = ChunkOf(x + i) - ChunkOf(x)
<1> SUFFICES ASSUME NEW x \in Nat, NEW i \in Nat
             PROVE  ChunkOf(i + PlaceOf(x)) = ChunkOf(x + i) - ChunkOf(x)
  OBVIOUS
<1> DEFINE y == x + i
<1>1. chunkSize \in Int /\ chunkSize > 0
  BY ContainersAssumption
<1>2. /\ ChunkOf(x) \in Int /\ PlaceOf(x) \in Int /\ PlaceOf(x) >= 0
      /\ x = chunkSize * ChunkOf(x) + PlaceOf(x)
      /\ ChunkOf(y) \in Int /\ PlaceOf(y) \in 0 .. chunkSize - 1
      /\ y = chunkSize * ChunkOf(y) + PlaceOf(y)
  BY <1>1, Places
<1>3. i + PlaceOf(x) \in Nat /\ i = y - x
  BY <1>2
<1> HIDE DEF y
<1>4. chunkSize * (ChunkOf(y) - ChunkOf(x)) = chunkSize * ChunkOf(y) - chunkSize * ChunkOf(x)
  BY <1>1, <1>2
<1>5. chunkSize * ChunkOf(y) \in Int /\ chunkSize * ChunkOf(x) \in Int
  BY <1>1, <1>2
<1>6. i + PlaceOf(x) = chunkSize * (ChunkOf(y) - ChunkOf(x)) + PlaceOf(y)
  BY <1>1, <1>2, <1>3, <1>4, <1>5
<1>7. ChunkOf(i + PlaceOf(x)) = ChunkOf(y) - ChunkOf(x)
  BY <1>2, <1>3, <1>6, PlaceUnique
<1> QED BY <1>7 DEF y

-----------------------------------------------------------------------------
(* ArrayList.                                                              *)

Blocks == [0 .. chunkSize - 1 -> Nat]

\* Inductive, and true whatever purge() did: all places below the capacity are in a chunk.
ArrayTypes ==
  /\ memory \in Seq(Blocks) /\ chunks \in Seq(0 .. Len(memory))
  /\ capacity = chunkSize * Len(chunks) /\ start + arraySize <= capacity
  /\ start \in Nat /\ arraySize \in Nat /\ pushes \in Nat /\ kept \in Nat /\ moved \in BOOLEAN
  /\ array \in Seq(Nat) /\ Len(array) = arraySize

\* The chunks in front of the list are given up, the others are different arrays.
ChunksRight ==
  /\ \A q \in 1 .. Len(chunks) : chunks[q] = 0 <=> q <= ChunkOf(start)
  /\ \A p, q \in 1 .. Len(chunks) : chunks[p] = chunks[q] /\ chunks[p] # 0 => p = q

\* What the list has at a place.
EntryAt(p) == memory[chunks[ChunkOf(p) + 1]][PlaceOf(p)]
EntriesRight == \A p \in start .. start + arraySize - 1 : EntryAt(p) = array[p - start + 1]
IteratorRight ==
  keptAt # 0 => kept \in start .. start + arraySize - 1 /\ array[kept - start + 1] = keptAt

ArrayInv == ArrayTypes /\ (~moved => ChunksRight /\ EntriesRight /\ IteratorRight)

\* Every place of the list lies in a chunk that is not in front of it.
LEMMA InChunks ==
  ASSUME ArrayTypes, NEW p \in Nat, p < capacity
  PROVE  /\ ChunkOf(p) + 1 \in 1 .. Len(chunks) /\ PlaceOf(p) \in 0 .. chunkSize - 1
         /\ p >= start => ~(ChunkOf(p) + 1 <= ChunkOf(start))
<1>1. Len(chunks) \in Nat /\ capacity = chunkSize * Len(chunks) /\ start \in Nat
  BY DEF ArrayTypes
<1>2. ChunkOf(p) < Len(chunks)
  BY <1>1, PlaceBelow
<1>3. ChunkOf(p) \in Nat /\ PlaceOf(p) \in 0 .. chunkSize - 1 /\ ChunkOf(start) \in Nat
  BY <1>1, Places
<1>4. p >= start => ChunkOf(start) <= ChunkOf(p)
  BY <1>1, PlacesInOrder
<1> QED BY <1>1, <1>2, <1>3, <1>4

LEMMA PushKeepsInv == ASSUME ArrayInv, A!PushBack PROVE ArrayInv'
<1> DEFINE place == start + arraySize
           grows == place = capacity
           owner == IF grows THEN Append(chunks, Len(memory) + 1) ELSE chunks
           grown == IF grows THEN Append(memory, [k \in 0 .. chunkSize - 1 |-> 0]) ELSE memory
           c == ChunkOf(place) + 1
           r == PlaceOf(place)
           v == pushes + 1
<1>1. /\ owner[c] # 0 /\ chunks' = owner
      /\ memory' = [grown EXCEPT ![owner[c]][r] = v] /\ pushes' = v
      /\ capacity' = IF grows THEN capacity + chunkSize ELSE capacity
      /\ arraySize' = arraySize + 1 /\ array' = Append(array, v)
      /\ UNCHANGED <<start, kept, keptAt, moved>>
  BY DEF A!PushBack, A!Chunk, ChunkOf, PlaceOf
<1>2. /\ memory \in Seq(Blocks) /\ chunks \in Seq(0 .. Len(memory))
      /\ capacity = chunkSize * Len(chunks) /\ start + arraySize <= capacity
      /\ start \in Nat /\ arraySize \in Nat /\ pushes \in Nat /\ kept \in Nat /\ moved \in BOOLEAN
      /\ array \in Seq(Nat) /\ Len(array) = arraySize
      /\ Len(memory) \in Nat /\ Len(chunks) \in Nat /\ place \in Nat /\ v \in Nat
  BY DEF ArrayInv, ArrayTypes
<1>3. chunkSize \in Nat /\ chunkSize > 0
  BY ContainersAssumption
<1>4. capacity \in Nat
  BY <1>2, <1>3
<1>5. /\ grows => Len(owner) = Len(chunks) + 1 /\ Len(grown) = Len(memory) + 1 /\ owner[Len(chunks) + 1] = Len(grown)
      /\ ~grows => owner = chunks /\ grown = memory
      /\ \A q \in 1 .. Len(chunks) : owner[q] = chunks[q] /\ chunks[q] \in 0 .. Len(memory)
      /\ \A q \in 1 .. Len(memory) : grown[q] = memory[q] /\ memory[q] \in Blocks
      /\ Len(owner) >= Len(chunks) /\ Len(grown) >= Len(memory)
      /\ owner \in Seq(0 .. Len(grown)) /\ grown \in Seq(Blocks)
      /\ Len(owner) \in Nat /\ Len(grown) \in Nat
  <2>1. [k \in 0 .. chunkSize - 1 |-> 0] \in Blocks
    BY DEF Blocks
  <2>2. /\ \A q \in 1 .. Len(chunks) : chunks[q] \in 0 .. Len(memory)
        /\ \A q \in 1 .. Len(memory) : memory[q] \in Blocks
    BY <1>2
  <2>3. CASE grows
    <3>1. chunks \in Seq(0 .. Len(memory) + 1) /\ Len(memory) + 1 \in 0 .. Len(memory) + 1
      BY <1>2
    <3>2. /\ owner \in Seq(0 .. Len(memory) + 1) /\ Len(owner) = Len(chunks) + 1
          /\ owner[Len(chunks) + 1] = Len(memory) + 1
          /\ \A q \in 1 .. Len(chunks) : owner[q] = chunks[q]
      BY <1>2, <2>3, <3>1, AppendProperties
    <3>3. /\ grown \in Seq(Blocks) /\ Len(grown) = Len(memory) + 1
          /\ \A q \in 1 .. Len(memory) : grown[q] = memory[q]
      BY <1>2, <2>1, <2>3, AppendProperties
    <3> HIDE DEF owner, grown
    <3> QED BY <1>2, <2>2, <2>3, <3>2, <3>3
  <2>4. CASE ~grows
    BY <1>2, <2>2, <2>4
  <2> QED BY <2>3, <2>4
<1>6. /\ c \in 1 .. Len(owner) /\ r \in 0 .. chunkSize - 1
      /\ grows => c = Len(chunks) + 1
      /\ ~grows => c \in 1 .. Len(chunks)
  <2>1. CASE grows
    <3>1. ChunkOf(place) = Len(chunks) /\ PlaceOf(place) = 0
      BY <1>2, <2>1, PlaceBelow
    <3> QED BY <1>2, <1>3, <1>5, <2>1, <3>1
  <2>2. CASE ~grows
    <3>1. place < capacity /\ ArrayTypes
      BY <1>2, <1>4, <2>2 DEF ArrayInv
    <3> QED BY <1>2, <1>5, <2>2, <3>1, InChunks
  <2> QED BY <2>1, <2>2
<1> HIDE DEF owner, grown
<1>7. owner[c] \in 1 .. Len(grown)
  <2>1. owner[c] \in 0 .. Len(grown)
    BY <1>5, <1>6
  <2> QED BY <1>1, <1>5, <2>1
<1>8. /\ memory' \in Seq(Blocks) /\ Len(memory') = Len(grown)
      /\ memory'[owner[c]] = [grown[owner[c]] EXCEPT ![r] = v]
      /\ \A q \in 1 .. Len(grown) : q # owner[c] => memory'[q] = grown[q]
  <2> DEFINE block == [grown[owner[c]] EXCEPT ![r] = v]
  <2>1. grown[owner[c]] \in Blocks
    BY <1>5, <1>7
  <2>2. block \in Blocks
    BY <1>2, <1>6, <2>1 DEF Blocks
  <2>3. memory' = [grown EXCEPT ![owner[c]] = block]
    BY <1>1
  <2> HIDE DEF block
  <2>4. DOMAIN grown = 1 .. Len(grown)
    BY <1>5
  <2>5. memory' \in Seq(Blocks) /\ Len(memory') = Len(grown)
    BY <1>5, <1>7, <2>2, <2>3, ExceptSeq
  <2>6. memory'[owner[c]] = block /\ \A q \in 1 .. Len(grown) : q # owner[c] => memory'[q] = grown[q]
    BY <1>7, <2>3, <2>4
  <2> QED BY <2>5, <2>6 DEF block
<1>9. capacity' = chunkSize * Len(owner) /\ start + arraySize + 1 <= capacity'
  <2>1. CASE grows
    <3>1. Len(owner) = Len(chunks) + 1 /\ capacity' = capacity + chunkSize
      BY <1>1, <1>5, <2>1
    <3>2. chunkSize * (Len(chunks) + 1) = chunkSize * Len(chunks) + chunkSize
      BY <1>2, <1>3
    <3>3. start + arraySize + 1 <= capacity'
      BY <1>2, <1>3, <1>4, <2>1, <3>1
    <3> QED BY <1>2, <3>1, <3>2, <3>3
  <2>2. CASE ~grows
    BY <1>1, <1>2, <1>4, <1>5, <2>2
  <2> QED BY <2>1, <2>2
<1>10. array' \in Seq(Nat) /\ Len(array') = arraySize + 1 /\ array'[arraySize + 1] = v
       /\ \A i \in 1 .. arraySize : array'[i] = array[i]
  BY <1>1, <1>2, AppendProperties
<1>11. ArrayTypes'
  <2>1. chunks' \in Seq(0 .. Len(memory'))
    BY <1>1, <1>5, <1>8
  <2>2. /\ start' + arraySize' <= capacity' /\ arraySize' \in Nat /\ start' \in Nat
        /\ Len(array') = arraySize'
    BY <1>1, <1>2, <1>9, <1>10
  <2>3. capacity' = chunkSize * Len(chunks')
    BY <1>1, <1>9
  <2> QED BY <1>1, <1>2, <1>8, <1>10, <2>1, <2>2, <2>3 DEF ArrayTypes
<1>12. ASSUME ~moved
       PROVE  /\ \A q \in 1 .. Len(chunks) : chunks[q] = 0 <=> q <= ChunkOf(start)
              /\ \A p, q \in 1 .. Len(chunks) : chunks[p] = chunks[q] /\ chunks[p] # 0 => p = q
              /\ \A p \in start .. start + arraySize - 1 : EntryAt(p) = array[p - start + 1]
              /\ keptAt # 0 => kept \in start .. start + arraySize - 1 /\ array[kept - start + 1] = keptAt
  BY <1>12 DEF ArrayInv, ChunksRight, EntriesRight, IteratorRight
<1>13. ASSUME grows PROVE ChunkOf(start) <= Len(chunks)
  <2>1. ChunkOf(start) <= ChunkOf(place)
    BY <1>2, PlacesInOrder
  <2>2. ChunkOf(place) \in Nat /\ ChunkOf(start) \in Nat
    BY <1>2, Places
  <2>3. ChunkOf(place) = Len(chunks)
    BY <1>2, <1>6, <1>13, <2>2
  <2> QED BY <2>1, <2>3
<1>14. ASSUME NEW q \in 1 .. Len(owner), q \notin 1 .. Len(chunks)
       PROVE  grows /\ q = Len(chunks) + 1 /\ owner[q] = Len(memory) + 1
  BY <1>2, <1>5, <1>14
<1>15. \A q \in 1 .. Len(chunks) : owner[q] \in Nat /\ owner[q] <= Len(memory)
  <2> TAKE q \in 1 .. Len(chunks)
  <2>1. owner[q] = chunks[q] /\ chunks[q] \in 0 .. Len(memory) /\ Len(memory) \in Nat
    BY <1>2, <1>5
  <2> QED BY <2>1
<1>16. ASSUME ~moved, NEW p \in 1 .. Len(owner), NEW q \in 1 .. Len(owner), owner[p] = owner[q], owner[p] # 0
       PROVE  p = q
  <2>1. CASE p \in 1 .. Len(chunks) /\ q \in 1 .. Len(chunks)
    BY <1>5, <1>12, <1>16, <2>1
  <2>2. CASE p \notin 1 .. Len(chunks) /\ q \notin 1 .. Len(chunks)
    BY <1>14, <2>2
  <2>3. CASE p \in 1 .. Len(chunks) /\ q \notin 1 .. Len(chunks)
    <3>1. owner[p] <= Len(memory) /\ owner[q] = Len(memory) + 1 /\ owner[p] \in Nat
      BY <1>14, <1>15, <2>3
    <3> QED BY <1>2, <1>16, <3>1
  <2>4. CASE p \notin 1 .. Len(chunks) /\ q \in 1 .. Len(chunks)
    <3>1. owner[q] <= Len(memory) /\ owner[p] = Len(memory) + 1 /\ owner[q] \in Nat
      BY <1>14, <1>15, <2>4
    <3> QED BY <1>2, <1>16, <3>1
  <2> QED BY <2>1, <2>2, <2>3, <2>4
<1>17. ASSUME ~moved PROVE ChunksRight'
  <2>1. ASSUME NEW q \in 1 .. Len(owner) PROVE owner[q] = 0 <=> q <= ChunkOf(start)
    <3>1. CASE q \in 1 .. Len(chunks)
      BY <1>5, <1>12, <1>17, <3>1
    <3>2. CASE q \notin 1 .. Len(chunks)
      <4>1. q = Len(chunks) + 1 /\ owner[q] = Len(memory) + 1 /\ ChunkOf(start) <= Len(chunks)
        BY <1>13, <1>14, <3>2
      <4>2. ChunkOf(start) \in Nat
        BY <1>2, Places
      <4> QED BY <1>2, <4>1, <4>2
    <3> QED BY <3>1, <3>2
  <2> QED BY <1>1, <1>16, <1>17, <2>1 DEF ChunksRight, ChunkOf
<1>18. ASSUME ~moved, NEW p \in start .. start + arraySize - 1
       PROVE  /\ EntryAt(p)' = EntryAt(p) /\ p - start + 1 \in 1 .. arraySize
  <2>1. p \in Nat /\ p >= start /\ p < capacity /\ p # place /\ p - start + 1 \in 1 .. arraySize
    BY <1>2, <1>4
  <2> DEFINE d == ChunkOf(p) + 1
             o == PlaceOf(p)
  <2>2. d \in 1 .. Len(chunks) /\ o \in 0 .. chunkSize - 1 /\ ~(d <= ChunkOf(start))
    BY <2>1, InChunks DEF ArrayInv
  <2>3. chunks[d] # 0 /\ chunks[d] \in 0 .. Len(memory) /\ owner[d] = chunks[d]
    BY <1>5, <1>12, <1>18, <2>2
  <2>4. chunks[d] \in 1 .. Len(memory) /\ chunks[d] \in 1 .. Len(grown)
    <3>1. Len(memory) \in Nat /\ Len(grown) \in Nat /\ Len(grown) >= Len(memory)
      BY <1>2, <1>5
    <3> QED BY <2>3, <3>1
  <2>5. grown[chunks[d]] = memory[chunks[d]] /\ memory[chunks[d]] \in Blocks
    BY <1>5, <2>4
  <2>6. memory'[chunks[d]][o] = memory[chunks[d]][o]
    <3>1. CASE chunks[d] # owner[c]
      BY <1>8, <2>4, <2>5, <3>1
    <3>2. CASE chunks[d] = owner[c]
      <4>1. d = c
        <5>1. d \in 1 .. Len(owner)
          BY <1>2, <1>5, <2>2
        <5> QED BY <1>6, <1>16, <1>18, <2>3, <3>2, <5>1
      <4>2. o # r
        <5>1. ChunkOf(p) \in Nat /\ ChunkOf(place) \in Nat
          BY <1>2, <2>1, Places
        <5>2. ChunkOf(p) = ChunkOf(place)
          BY <4>1, <5>1
        <5>3. /\ p = chunkSize * ChunkOf(p) + PlaceOf(p)
              /\ place = chunkSize * ChunkOf(place) + PlaceOf(place)
          BY <1>2, <2>1, Places
        <5> QED BY <2>1, <5>2, <5>3
      <4>3. memory'[chunks[d]] = [memory[chunks[d]] EXCEPT ![r] = v]
        BY <1>8, <2>5, <3>2
      <4> QED BY <2>2, <2>5, <4>2, <4>3 DEF Blocks
    <3> QED BY <3>1, <3>2
  <2>7. EntryAt(p)' = memory'[owner[d]][o]
    BY <1>1 DEF EntryAt, ChunkOf, PlaceOf
  <2> QED BY <2>1, <2>3, <2>6, <2>7 DEF EntryAt
<1>19. ASSUME ~moved PROVE EntriesRight'
  <2> SUFFICES ASSUME NEW p \in start .. start + arraySize
               PROVE  EntryAt(p)' = array'[p - start + 1]
    <3>1. start' + arraySize' - 1 = start + arraySize
      BY <1>1, <1>2
    <3> QED BY <1>1, <3>1 DEF EntriesRight
  <2>1. CASE p = place
    <3>1. EntryAt(p)' = memory'[owner[c]][r]
      BY <1>1, <2>1 DEF EntryAt, ChunkOf, PlaceOf
    <3>2. grown[owner[c]] \in Blocks
      BY <1>5, <1>7
    <3>3. memory'[owner[c]][r] = v
      BY <1>6, <1>8, <3>2 DEF Blocks
    <3>4. p - start + 1 = arraySize + 1
      BY <1>2, <2>1
    <3> QED BY <1>10, <3>1, <3>3, <3>4
  <2>2. CASE p # place
    <3>1. p \in start .. start + arraySize - 1
      BY <1>2, <2>2
    <3>2. EntryAt(p)' = EntryAt(p) /\ p - start + 1 \in 1 .. arraySize
      BY <1>18, <1>19, <3>1
    <3> QED BY <1>10, <1>12, <1>19, <3>1, <3>2
  <2> QED BY <2>1, <2>2
<1>20. ASSUME ~moved PROVE IteratorRight'
  <2> SUFFICES ASSUME keptAt # 0
               PROVE  kept \in start .. start + arraySize /\ array'[kept - start + 1] = keptAt
    BY <1>1, <1>2 DEF IteratorRight
  <2>1. kept \in start .. start + arraySize - 1 /\ array[kept - start + 1] = keptAt
    BY <1>12, <1>20
  <2>2. kept \in start .. start + arraySize /\ kept - start + 1 \in 1 .. arraySize
    BY <1>2, <2>1
  <2> QED BY <1>10, <2>1, <2>2
<1> QED BY <1>1, <1>11, <1>17, <1>19, <1>20 DEF ArrayInv

LEMMA EraseKeepsInv == ASSUME ArrayInv, NEW i \in Nat, A!EraseToHere(i) PROVE ArrayInv'
<1> DEFINE place == start + i
<1>1. /\ memory \in Seq(Blocks) /\ chunks \in Seq(0 .. Len(memory))
      /\ capacity = chunkSize * Len(chunks) /\ start + arraySize <= capacity
      /\ start \in Nat /\ arraySize \in Nat /\ pushes \in Nat /\ kept \in Nat /\ moved \in BOOLEAN
      /\ array \in Seq(Nat) /\ Len(array) = arraySize
      /\ Len(chunks) \in Nat /\ DOMAIN chunks = 1 .. Len(chunks)
  BY DEF ArrayInv, ArrayTypes
<1>2. /\ i \in 1 .. arraySize /\ place \in Nat /\ start <= place
  BY <1>1 DEF A!EraseToHere
<1>3. /\ ChunkOf(place) \in Nat /\ ChunkOf(start) \in Nat /\ PlaceOf(start) \in Nat
      /\ ChunkOf(start) <= ChunkOf(place)
  <2>1. ChunkOf(start) <= ChunkOf(place)
    BY <1>1, <1>2, PlacesInOrder
  <2>2. ChunkOf(place) \in Nat /\ ChunkOf(start) \in Nat
    BY <1>1, <1>2, Places
  <2>3. PlaceOf(start) \in 0 .. chunkSize - 1 /\ chunkSize \in Nat
    BY <1>1, Places, ContainersAssumption
  <2> QED BY <2>1, <2>2, <2>3
<1>4. A!Released(place) = ChunkOf(place) - ChunkOf(start)
  <2>1. place - start + PlaceOf(start) = i + PlaceOf(start)
    BY <1>1, <1>3
  <2>2. A!Released(place) = ChunkOf(place - start + PlaceOf(start))
    BY DEF A!Released, ChunkOf, PlaceOf
  <2> HIDE DEF place
  <2>3. A!Released(place) = ChunkOf(i + PlaceOf(start))
    BY <2>1, <2>2
  <2> QED BY <1>1, <2>3, PlacesBetween DEF place
<1>5. ChunkOf(place) - A!Released(place) + 1 = ChunkOf(start) + 1
  BY <1>3, <1>4
<1>6. /\ arraySize' = arraySize - i /\ start' = place
      /\ chunks' = [c \in DOMAIN chunks |-> IF c \in ChunkOf(start) + 1 .. ChunkOf(place) THEN 0 ELSE chunks[c]]
      /\ array' = SubSeq(array, i + 1, arraySize)
      /\ keptAt' = IF kept < place THEN 0 ELSE keptAt
      /\ UNCHANGED <<memory, capacity, kept, pushes, moved>>
  <2>1. /\ arraySize' = arraySize - i /\ start' = place
        /\ chunks' = [c \in DOMAIN chunks |->
                        IF c \in ChunkOf(place) - A!Released(place) + 1 .. ChunkOf(place) THEN 0 ELSE chunks[c]]
        /\ array' = SubSeq(array, i + 1, arraySize)
        /\ keptAt' = IF kept < place THEN 0 ELSE keptAt
        /\ UNCHANGED <<memory, capacity, kept, pushes, moved>>
    BY DEF A!EraseToHere, ChunkOf
  <2> QED BY <1>5, <2>1
<1> HIDE DEF place
<1>7. /\ chunks' \in Seq(0 .. Len(memory)) /\ Len(chunks') = Len(chunks)
      /\ \A q \in 1 .. Len(chunks) : chunks'[q] = IF q \in ChunkOf(start) + 1 .. ChunkOf(place) THEN 0 ELSE chunks[q]
  <2>1. \A q \in 1 .. Len(chunks) : chunks[q] \in 0 .. Len(memory)
    BY <1>1
  <2>2. Len(memory) \in Nat
    BY <1>1
  <2>3. chunks' \in [1 .. Len(chunks) -> 0 .. Len(memory)]
    BY <1>1, <1>6, <2>1, <2>2
  <2> QED BY <1>1, <1>6, <2>3
<1>8. /\ array' \in Seq(Nat) /\ Len(array') = arraySize - i
      /\ \A j \in 1 .. arraySize - i : array'[j] = array[i + j]
  <2>1. \A j \in i + 1 .. arraySize : array[j] \in Nat
    BY <1>1, <1>2
  <2>2. i + 1 \in Int /\ arraySize \in Int
    BY <1>1
  <2>3. /\ array' \in Seq(Nat)
        /\ Len(array') = IF i + 1 <= arraySize THEN arraySize - (i + 1) + 1 ELSE 0
        /\ \A j \in 1 .. arraySize - (i + 1) + 1 : array'[j] = array[(i + 1) + j - 1]
    BY <1>6, <2>1, <2>2, SubSeqProperties
  <2>4. /\ arraySize - (i + 1) + 1 = arraySize - i /\ (i + 1 <= arraySize \/ arraySize - i = 0)
        /\ \A j \in 1 .. arraySize - i : (i + 1) + j - 1 = i + j
    BY <1>1, <1>2
  <2>5. Len(array') = arraySize - i
    BY ONLY <2>3, <2>4
  <2>6. \A j \in 1 .. arraySize - i : array'[j] = array[i + j]
    BY ONLY <2>3, <2>4
  <2> QED BY <2>3, <2>5, <2>6
<1>9. place + (arraySize - i) = start + arraySize /\ arraySize - i \in Nat
  BY <1>1, <1>2 DEF place
<1>10. ArrayTypes'
  BY <1>1, <1>2, <1>6, <1>7, <1>8, <1>9 DEF ArrayTypes
<1>11. ASSUME ~moved
       PROVE  /\ \A q \in 1 .. Len(chunks) : chunks[q] = 0 <=> q <= ChunkOf(start)
              /\ \A p, q \in 1 .. Len(chunks) : chunks[p] = chunks[q] /\ chunks[p] # 0 => p = q
              /\ \A p \in start .. start + arraySize - 1 : EntryAt(p) = array[p - start + 1]
              /\ keptAt # 0 => kept \in start .. start + arraySize - 1 /\ array[kept - start + 1] = keptAt
  BY <1>11 DEF ArrayInv, ChunksRight, EntriesRight, IteratorRight
<1>12. ASSUME ~moved PROVE ChunksRight'
  <2>1. ASSUME NEW q \in 1 .. Len(chunks) PROVE chunks'[q] = 0 <=> q <= ChunkOf(place)
    <3>1. CASE q \in ChunkOf(start) + 1 .. ChunkOf(place)
      BY <1>7, <3>1
    <3>2. CASE q \notin ChunkOf(start) + 1 .. ChunkOf(place)
      <4>1. q <= ChunkOf(start) <=> q <= ChunkOf(place)
        BY <1>3, <3>2
      <4> QED BY <1>7, <1>11, <1>12, <3>2, <4>1
    <3> QED BY <3>1, <3>2
  <2>2. ChunkOf(start)' = ChunkOf(place)
    BY <1>6 DEF ChunkOf
  <2>3. \A p, q \in 1 .. Len(chunks) : chunks'[p] = chunks'[q] /\ chunks'[p] # 0 => p = q
    BY <1>7, <1>11, <1>12
  <2> QED BY <1>7, <2>1, <2>2, <2>3 DEF ChunksRight
<1>13. ASSUME NEW p \in place .. start + arraySize - 1
       PROVE  /\ p \in start .. start + arraySize - 1
              /\ EntryAt(p)' = EntryAt(p) /\ p - place + 1 \in 1 .. arraySize - i
              /\ array'[p - place + 1] = array[p - start + 1]
  <2>1. p \in Nat /\ p \in start .. start + arraySize - 1 /\ p < capacity /\ p >= start /\ p >= place
    <3>1. capacity \in Nat
      BY <1>1, ContainersAssumption
    <3> QED BY <1>1, <1>2, <3>1
  <2>2. p - place + 1 \in 1 .. arraySize - i /\ i + (p - place + 1) = p - start + 1
    BY <1>1, <1>2, <2>1 DEF place
  <2>3. ChunkOf(p) + 1 \in 1 .. Len(chunks)
    BY <2>1, InChunks DEF ArrayInv
  <2>4. ChunkOf(place) <= ChunkOf(p) /\ ChunkOf(p) \in Nat
    BY <1>2, <2>1, Places, PlacesInOrder
  <2>5. ChunkOf(p) + 1 \notin ChunkOf(start) + 1 .. ChunkOf(place)
    BY <1>3, <2>4
  <2>6. chunks'[ChunkOf(p) + 1] = chunks[ChunkOf(p) + 1]
    BY <1>7, <2>3, <2>5
  <2>7. EntryAt(p)' = memory[chunks'[ChunkOf(p) + 1]][PlaceOf(p)]
    BY <1>6 DEF EntryAt, ChunkOf, PlaceOf
  <2>8. array'[p - place + 1] = array[i + (p - place + 1)]
    BY <1>8, <2>2
  <2> QED BY <2>1, <2>2, <2>6, <2>7, <2>8 DEF EntryAt
<1>14. ASSUME ~moved PROVE EntriesRight'
  <2>1. start' + arraySize' - 1 = start + arraySize - 1
    BY <1>1, <1>2, <1>6, <1>9
  <2>2. \A p \in place .. start + arraySize - 1 : EntryAt(p)' = array'[p - place + 1]
    BY <1>11, <1>13, <1>14
  <2> QED BY <1>6, <2>1, <2>2 DEF EntriesRight
<1>15. ASSUME ~moved PROVE IteratorRight'
  <2> SUFFICES ASSUME keptAt' # 0
               PROVE  kept' \in start' .. start' + arraySize' - 1 /\ array'[kept' - start' + 1] = keptAt'
    BY DEF IteratorRight
  <2>1. ~(kept < place) /\ keptAt' = keptAt /\ keptAt # 0
    BY <1>6
  <2>2. kept \in start .. start + arraySize - 1 /\ array[kept - start + 1] = keptAt
    BY <1>11, <1>15, <2>1
  <2>3. kept \in place .. start + arraySize - 1
    BY <1>1, <1>2, <2>1, <2>2
  <2>4. start' + arraySize' - 1 = start + arraySize - 1
    BY <1>1, <1>2, <1>6, <1>9
  <2>5. array'[kept - place + 1] = keptAt
    BY <1>13, <2>2, <2>3
  <2> QED BY <1>6, <2>1, <2>3, <2>4, <2>5
<1> QED BY <1>6, <1>10, <1>12, <1>14, <1>15 DEF ArrayInv

\* purge() leaves the number of chunks alone and promises nothing about the entries.
LEMMA PurgeKeepsInv == ASSUME ArrayInv, A!Purge PROVE ArrayInv'
<1> DEFINE distance == ChunkOf(start)
           occupied == ChunkOf(arraySize + PlaceOf(start))
<1>1. /\ memory \in Seq(Blocks) /\ chunks \in Seq(0 .. Len(memory))
      /\ capacity = chunkSize * Len(chunks) /\ start + arraySize <= capacity
      /\ start \in Nat /\ arraySize \in Nat /\ pushes \in Nat /\ kept \in Nat /\ moved \in BOOLEAN
      /\ array \in Seq(Nat) /\ Len(array) = arraySize
      /\ Len(chunks) \in Nat /\ Len(memory) \in Nat /\ DOMAIN chunks = 1 .. Len(chunks)
      /\ \A q \in 1 .. Len(chunks) : chunks[q] \in 0 .. Len(memory)
  BY DEF ArrayInv, ArrayTypes
<1>2. PlaceOf(start) \in Nat /\ PlaceOf(start) <= start /\ distance \in Nat
  <2>1. /\ ChunkOf(start) \in Nat /\ PlaceOf(start) \in 0 .. chunkSize - 1
        /\ start = chunkSize * ChunkOf(start) + PlaceOf(start)
    BY <1>1, Places
  <2>2. chunkSize \in Nat /\ chunkSize * ChunkOf(start) \in Nat
    BY <2>1, ContainersAssumption
  <2> QED BY <2>1, <2>2
<1>3. /\ chunks' = [c \in DOMAIN chunks |-> IF c <= occupied THEN chunks[c + distance] ELSE chunks[c]]
      /\ start' = PlaceOf(start) /\ moved' = TRUE
      /\ UNCHANGED <<memory, capacity, arraySize, kept, array, pushes>>
  <2>1. PlaceOf(start) + arraySize = arraySize + PlaceOf(start)
    BY <1>1, <1>2
  <2> QED BY <2>1 DEF A!Purge, ChunkOf, PlaceOf
<1>4. occupied \in Nat /\ occupied + distance <= Len(chunks)
  <2>1. occupied = ChunkOf(start + arraySize) - distance
    BY <1>1, PlacesBetween
  <2>2. ChunkOf(start + arraySize) <= Len(chunks)
    <3>1. start + arraySize \in Nat /\ capacity \in Nat
      BY <1>1, ContainersAssumption
    <3>2. ChunkOf(start + arraySize) <= ChunkOf(capacity) /\ ChunkOf(capacity) = Len(chunks)
      BY <1>1, <3>1, PlacesInOrder, PlaceBelow
    <3> QED BY <3>2
  <2>3. arraySize + PlaceOf(start) \in Nat /\ start + arraySize \in Nat
    BY <1>1, <1>2
  <2>4. occupied \in Nat /\ ChunkOf(start + arraySize) \in Nat
    BY <2>3, Places
  <2> HIDE DEF occupied, distance
  <2> QED BY <1>1, <1>2, <2>1, <2>2, <2>4
<1> HIDE DEF occupied, distance
<1>5. chunks' \in [1 .. Len(chunks) -> 0 .. Len(memory)]
  <2>1. ASSUME NEW c \in 1 .. Len(chunks) PROVE c <= occupied => c + distance \in 1 .. Len(chunks)
    BY <1>1, <1>2, <1>4
  <2> QED BY <1>1, <1>3, <2>1
<1>6. chunks' \in Seq(0 .. Len(memory)) /\ Len(chunks') = Len(chunks)
  <2>1. Len(chunks) \in Nat
    BY <1>1
  <2> QED BY ONLY <1>5, <2>1
<1>7. start' + arraySize' <= capacity
  BY <1>1, <1>2, <1>3, ContainersAssumption
<1>8. ArrayTypes'
  BY <1>1, <1>2, <1>3, <1>6, <1>7 DEF ArrayTypes
<1> QED BY <1>3, <1>8 DEF ArrayInv

LEMMA ClearKeepsArray == ASSUME ArrayInv, A!Clear PROVE ArrayInv'
<1>1. /\ memory \in Seq(Blocks) /\ pushes \in Nat /\ kept \in Nat
      /\ chunks' = <<>> /\ capacity' = 0 /\ arraySize' = 0 /\ start' = 0
      /\ array' = <<>> /\ keptAt' = 0 /\ moved' = FALSE
      /\ UNCHANGED <<memory, kept, pushes>>
  BY DEF ArrayInv, ArrayTypes, A!Clear
<1>2. /\ <<>> \in Seq(0 .. Len(memory)) /\ <<>> \in Seq(Nat) /\ Len(<<>>) = 0 /\ chunkSize * 0 = 0
      /\ 1 .. 0 = {} /\ 0 .. 0 + 0 - 1 = {} /\ 0 + 0 <= 0
  BY ContainersAssumption
<1>3. ArrayTypes'
  BY <1>1, <1>2 DEF ArrayTypes
<1> QED BY <1>1, <1>2, <1>3 DEF ArrayInv, ChunksRight, EntriesRight, IteratorRight

LEMMA KeepKeepsInv == ASSUME ArrayInv, NEW i \in Nat, A!KeepIterator(i) PROVE ArrayInv'
<1>1. /\ i \in 1 .. arraySize /\ kept' = start + i - 1 /\ keptAt' = array[i]
      /\ UNCHANGED <<memory, chunks, capacity, arraySize, start, array, pushes, moved>>
  BY DEF A!KeepIterator, A!list
<1>2. start \in Nat /\ arraySize \in Nat
  BY DEF ArrayInv, ArrayTypes
<1>3. /\ kept' \in start .. start + arraySize - 1 /\ kept' \in Nat /\ kept' - start + 1 = i
  BY <1>1, <1>2
<1>4. ArrayTypes'
  BY <1>1, <1>3 DEF ArrayInv, ArrayTypes
<1>5. ASSUME ~moved' PROVE ChunksRight' /\ EntriesRight'
  BY <1>1, <1>5 DEF ArrayInv, ChunksRight, EntriesRight, EntryAt, ChunkOf, PlaceOf
<1>6. IteratorRight'
  BY <1>1, <1>3 DEF IteratorRight
<1> QED BY <1>4, <1>5, <1>6 DEF ArrayInv

LEMMA ArrayStep == ArrayInv /\ [A!Next]_arrayVars => ArrayInv'
<1> SUFFICES ASSUME ArrayInv, [A!Next]_arrayVars PROVE ArrayInv'
  OBVIOUS
<1>1. ASSUME NEW i \in 1 .. MaxPushes, A!EraseToHere(i) PROVE ArrayInv'
  <2>1. i \in Nat
    BY ContainersAssumption
  <2> QED BY <1>1, <2>1, EraseKeepsInv
<1>2. ASSUME NEW i \in 1 .. MaxPushes, A!KeepIterator(i) PROVE ArrayInv'
  <2>1. i \in Nat
    BY ContainersAssumption
  <2> QED BY <1>2, <2>1, KeepKeepsInv
<1>3. ASSUME UNCHANGED arrayVars PROVE ArrayInv'
  BY <1>3 DEF arrayVars, ArrayInv, ArrayTypes, ChunksRight, EntriesRight, IteratorRight, EntryAt, ChunkOf, PlaceOf
<1> QED BY <1>1, <1>2, <1>3, PushKeepsInv, PurgeKeepsInv, ClearKeepsArray DEF A!Next

\* The chunks of an ArrayList are different arrays, those in front of it are given up, and
\* the others hold the entries at the places they are looked for.
THEOREM ArrayInvariant == SpecAll => []ArrayInv
<1>1. InitAll => ArrayInv
  <2> SUFFICES ASSUME A!Init PROVE ArrayInv
    BY DEF InitAll
  <2>1. /\ memory = <<>> /\ chunks = <<>> /\ capacity = 0 /\ arraySize = 0 /\ start = 0
        /\ kept = 0 /\ keptAt = 0 /\ array = <<>> /\ pushes = 0 /\ moved = FALSE
    BY DEF A!Init
  <2>2. /\ <<>> \in Seq(Blocks) /\ <<>> \in Seq(0 .. Len(<<>>)) /\ <<>> \in Seq(Nat) /\ Len(<<>>) = 0
        /\ chunkSize * 0 = 0 /\ 1 .. 0 = {} /\ 0 .. 0 + 0 - 1 = {} /\ 0 + 0 <= 0
    BY ContainersAssumption
  <2>3. ArrayTypes
    BY <2>1, <2>2 DEF ArrayTypes
  <2> QED BY <2>1, <2>2, <2>3 DEF ArrayInv, ChunksRight, EntriesRight, IteratorRight
<1>2. ArrayInv /\ [NextAll]_<<vars, container, arrayVars, listVars, lruVars>> => ArrayInv'
  <2> SUFFICES ASSUME ArrayInv, [NextAll]_<<vars, container, arrayVars, listVars, lruVars>> PROVE ArrayInv'
    OBVIOUS
  <2>1. [A!Next]_arrayVars
    BY DEF NextAll
  <2> QED BY <2>1, ArrayStep
<1> QED BY <1>1, <1>2, PTL DEF SpecAll

\* Until purge() moves its chunks, ArrayList holds what was pushed and not erased, a kept
\* iterator stays at its entry, and no chunk is held in front of the list.
THEOREM ArrayIsExact == SpecAll => []ArrayListExact
<1>1. ArrayInv => ArrayListExact
  <2> SUFFICES ASSUME ArrayTypes, ChunksRight, EntriesRight, IteratorRight
               PROVE  /\ arraySize = Len(array) /\ start + arraySize <= capacity
                      /\ \A i \in 1 .. arraySize : /\ chunks[A!Chunk(start + i - 1)] # 0
                                                   /\ A!ElementAt(start + i - 1) = array[i]
                      /\ keptAt # 0 => A!ElementAt(kept) = keptAt
                      /\ \A c \in 1 .. ChunkOf(start) : chunks[c] = 0
    BY DEF ArrayInv, ArrayListExact, A!ArrayListExact, ChunkOf
  <2>1. /\ capacity = chunkSize * Len(chunks) /\ start + arraySize <= capacity /\ Len(chunks) \in Nat
        /\ start \in Nat /\ arraySize \in Nat /\ Len(array) = arraySize /\ capacity \in Nat
    BY ContainersAssumption DEF ArrayTypes
  <2>2. \A p : A!ElementAt(p) = EntryAt(p) /\ A!Chunk(p) = ChunkOf(p) + 1
    BY DEF A!ElementAt, A!Chunk, EntryAt, ChunkOf, PlaceOf
  <2>3. ASSUME NEW i \in 1 .. arraySize
        PROVE  /\ chunks[A!Chunk(start + i - 1)] # 0
               /\ A!ElementAt(start + i - 1) = array[i]
    <3> DEFINE p == start + i - 1
    <3>1. p \in start .. start + arraySize - 1 /\ p \in Nat /\ p < capacity /\ p >= start /\ p - start + 1 = i
      BY <2>1
    <3> HIDE DEF p
    <3>2. ChunkOf(p) + 1 \in 1 .. Len(chunks) /\ ~(ChunkOf(p) + 1 <= ChunkOf(start))
      BY <3>1, InChunks
    <3>3. chunks[ChunkOf(p) + 1] # 0
      BY <3>2 DEF ChunksRight
    <3>4. EntryAt(p) = array[i]
      BY <3>1 DEF EntriesRight
    <3> QED BY <2>2, <3>3, <3>4 DEF p
  <2>4. keptAt # 0 => A!ElementAt(kept) = keptAt
    BY <2>2 DEF EntriesRight, IteratorRight
  <2>5. \A c \in 1 .. ChunkOf(start) : chunks[c] = 0
    <3>1. ChunkOf(start) <= ChunkOf(capacity) /\ ChunkOf(capacity) = Len(chunks) /\ ChunkOf(start) \in Nat
      <4>1. start <= capacity
        BY <2>1
      <4> QED BY <2>1, <4>1, Places, PlacesInOrder, PlaceBelow
    <3> QED BY <2>1, <3>1 DEF ChunksRight
  <2> QED BY <2>1, <2>3, <2>4, <2>5
<1> QED BY <1>1, ArrayInvariant, PTL

-----------------------------------------------------------------------------
(* lru.                                                                    *)

Entries == [key : Keys, data : Data]

\* Inductive: every node is in the list once, the index leads to nodes of the list with
\* the right key, and if no key was inserted twice to all of them, in the order they
\* should have.
LruInv ==
  /\ node \in Seq(Entries) /\ nodes \in Seq(1 .. Len(node))
  /\ \A i, j \in 1 .. Len(nodes) : nodes[i] = nodes[j] => i = j
  /\ \A k \in DOMAIN index : /\ \E i \in 1 .. Len(nodes) : nodes[i] = index[k]
                             /\ node[index[k]].key = k
  /\ twice = {} =>
       /\ recent \in Seq(Entries) /\ Len(recent) = Len(nodes)
       /\ \A i \in 1 .. Len(nodes) : /\ recent[i] = node[nodes[i]]
                                     /\ recent[i].key \in DOMAIN index
                                     /\ index[recent[i].key] = nodes[i]

\* A part of the list is kept, and what the index had of the other nodes is forgotten.
Outside(from, count) == (1 .. from) \cup (from + count + 1 .. Len(nodes))
Kept(from, count) ==
  /\ from + count <= Len(nodes)
  /\ nodes' = SubSeq(nodes, from + 1, from + count) /\ UNCHANGED <<node, twice>>
  /\ index' = [q \in DOMAIN index \ {node[nodes[i]].key : i \in Outside(from, count)} |-> index[q]]
  /\ twice = {} => recent' = SubSeq(recent, from + 1, from + count)

LEMMA ForgetKeepsInv ==
  ASSUME LruInv, NEW from \in Nat, NEW count \in Nat, Kept(from, count)
  PROVE  LruInv'
<1> DEFINE out == Outside(from, count)
<1>0. /\ from + count <= Len(nodes)
      /\ nodes' = SubSeq(nodes, from + 1, from + count) /\ UNCHANGED <<node, twice>>
      /\ index' = [q \in DOMAIN index \ {node[nodes[i]].key : i \in out} |-> index[q]]
      /\ twice = {} => recent' = SubSeq(recent, from + 1, from + count)
      /\ out = (1 .. from) \cup (from + count + 1 .. Len(nodes))
  BY DEF Kept, Outside
<1> HIDE DEF out
<1>1. /\ node \in Seq(Entries) /\ nodes \in Seq(1 .. Len(node)) /\ Len(nodes) \in Nat
      /\ \A i \in 1 .. Len(nodes) : nodes[i] \in 1 .. Len(node)
      /\ \A i, j \in 1 .. Len(nodes) : nodes[i] = nodes[j] => i = j
      /\ \A k \in DOMAIN index : /\ \E i \in 1 .. Len(nodes) : nodes[i] = index[k]
                                 /\ node[index[k]].key = k
  BY DEF LruInv
<1>2. \A S : \A s \in Seq(S) : Len(s) = Len(nodes) =>
        /\ SubSeq(s, from + 1, from + count) \in Seq(S)
        /\ Len(SubSeq(s, from + 1, from + count)) = count
        /\ \A i \in 1 .. count : SubSeq(s, from + 1, from + count)[i] = s[from + i]
  <2> TAKE S
  <2> TAKE s \in Seq(S)
  <2> SUFFICES ASSUME Len(s) = Len(nodes)
               PROVE  /\ SubSeq(s, from + 1, from + count) \in Seq(S)
                      /\ Len(SubSeq(s, from + 1, from + count)) = count
                      /\ \A i \in 1 .. count : SubSeq(s, from + 1, from + count)[i] = s[from + i]
    OBVIOUS
  <2>1. \A i \in from + 1 .. from + count : s[i] \in S
    BY <1>0, <1>1, ElementOfSeq
  <2> DEFINE u == SubSeq(s, from + 1, from + count)
  <2>2. /\ u \in Seq(S)
        /\ Len(u) = IF from + 1 <= from + count THEN (from + count) - (from + 1) + 1 ELSE 0
        /\ \A i \in 1 .. (from + count) - (from + 1) + 1 : u[i] = s[(from + 1) + i - 1]
    BY <2>1, SubSeqProperties
  <2> HIDE DEF u
  <2>3. /\ (from + count) - (from + 1) + 1 = count
        /\ from + 1 <= from + count \/ count = 0
        /\ \A i \in 1 .. count : (from + 1) + i - 1 = from + i
    OBVIOUS
  <2>4. Len(u) = count
    BY ONLY <2>2, <2>3
  <2>5. \A i \in 1 .. count : u[i] = s[from + i]
    BY ONLY <2>2, <2>3
  <2> QED BY <2>2, <2>4, <2>5 DEF u
<1>3. /\ nodes' \in Seq(1 .. Len(node)) /\ Len(nodes') = count
      /\ \A i \in 1 .. count : nodes'[i] = nodes[from + i] /\ from + i \in 1 .. Len(nodes)
  <2>1. /\ nodes' \in Seq(1 .. Len(node)) /\ Len(nodes') = count
        /\ \A i \in 1 .. count : nodes'[i] = nodes[from + i]
    <3>1. LET u == SubSeq(nodes, from + 1, from + count)
          IN u \in Seq(1 .. Len(node)) /\ Len(u) = count /\ \A i \in 1 .. count : u[i] = nodes[from + i]
      BY <1>1, <1>2
    <3> QED BY <1>0, <3>1
  <2>2. \A i \in 1 .. count : from + i \in 1 .. Len(nodes)
    BY <1>0, <1>1
  <2> QED BY <2>1, <2>2
<1>4. \A i, j \in 1 .. Len(nodes') : nodes'[i] = nodes'[j] => i = j
  <2> TAKE i, j \in 1 .. Len(nodes')
  <2>1. i \in 1 .. count /\ j \in 1 .. count
    BY <1>3
  <2>2. /\ nodes'[i] = nodes[from + i] /\ from + i \in 1 .. Len(nodes)
        /\ nodes'[j] = nodes[from + j] /\ from + j \in 1 .. Len(nodes)
    BY <1>3, <2>1
  <2>3. nodes'[i] = nodes'[j] => from + i = from + j
    BY <1>1, <2>2
  <2> QED BY <2>1, <2>3
<1>5. ASSUME NEW k \in DOMAIN index'
      PROVE  /\ \E i \in 1 .. Len(nodes') : nodes'[i] = index'[k]
             /\ node'[index'[k]].key = k
  <2>1. k \in DOMAIN index /\ index'[k] = index[k] /\ \A i \in out : node[nodes[i]].key # k
    BY <1>0
  <2>2. PICK i \in 1 .. Len(nodes) : nodes[i] = index[k]
    BY <1>1, <2>1
  <2>3. node[nodes[i]].key = k
    BY <1>1, <2>1, <2>2
  <2>4. i \notin out
    BY <2>1, <2>3
  <2>5. i - from \in 1 .. count /\ from + (i - from) = i
    BY <1>0, <1>1, <2>4
  <2>6. nodes'[i - from] = index'[k]
    BY <1>3, <2>1, <2>2, <2>5
  <2> QED BY <1>0, <1>1, <1>3, <2>1, <2>5, <2>6
<1>6. ASSUME twice' = {}
      PROVE  /\ recent' \in Seq(Entries) /\ Len(recent') = Len(nodes')
             /\ \A i \in 1 .. Len(nodes') : /\ recent'[i] = node'[nodes'[i]]
                                            /\ recent'[i].key \in DOMAIN index'
                                            /\ index'[recent'[i].key] = nodes'[i]
  <2>1. /\ recent \in Seq(Entries) /\ Len(recent) = Len(nodes)
        /\ \A i \in 1 .. Len(nodes) : /\ recent[i] = node[nodes[i]]
                                      /\ recent[i].key \in DOMAIN index
                                      /\ index[recent[i].key] = nodes[i]
    BY <1>0, <1>6 DEF LruInv
  <2>2. /\ recent' \in Seq(Entries) /\ Len(recent') = count
        /\ \A i \in 1 .. count : recent'[i] = recent[from + i]
    BY <1>0, <1>2, <1>6, <2>1
  <2>3. ASSUME NEW i \in 1 .. count
        PROVE  /\ recent'[i] = node'[nodes'[i]] /\ recent'[i].key \in DOMAIN index'
               /\ index'[recent'[i].key] = nodes'[i]
    <3>1. /\ from + i \in 1 .. Len(nodes) /\ nodes'[i] = nodes[from + i] /\ recent'[i] = recent[from + i]
      BY <1>3, <2>2
    <3>2. \A j \in out : node[nodes[j]].key # recent[from + i].key
      <4> SUFFICES ASSUME NEW j \in out, node[nodes[j]].key = recent[from + i].key PROVE FALSE
        OBVIOUS
      <4>1. j \in 1 .. Len(nodes) /\ j # from + i
        BY <1>0, <1>1
      <4>2. index[recent[j].key] = nodes[j] /\ recent[j].key = recent[from + i].key
        BY <2>1, <4>1
      <4>3. nodes[j] = nodes[from + i]
        BY <2>1, <3>1, <4>2
      <4> QED BY <1>1, <3>1, <4>1, <4>3
    <3>3. recent[from + i].key \in DOMAIN index
      BY <2>1, <3>1
    <3>4. recent[from + i].key \in DOMAIN index' /\ index'[recent[from + i].key] = index[recent[from + i].key]
      BY <1>0, <3>2, <3>3
    <3> QED BY <1>0, <2>1, <3>1, <3>4
  <2> QED BY <1>3, <2>2, <2>3
<1> QED BY <1>0, <1>1, <1>3, <1>4, <1>5, <1>6 DEF LruInv

\* One element of a sequence at its front.
Moved(s, i, m) ==
  /\ Len(m) = Len(s) /\ m[1] = s[i]
  /\ \A j \in 1 .. Len(s) - 1 : m[j + 1] = IF j < i THEN s[j] ELSE s[j + 1]

LEMMA MoveToFront ==
  ASSUME NEW S, NEW s \in Seq(S), NEW i \in 1 .. Len(s)
  PROVE  /\ <<s[i]>> \o U!RemoveAt(s, i) \in Seq(S)
         /\ Moved(s, i, <<s[i]>> \o U!RemoveAt(s, i))
<1> DEFINE n == Len(s)
           a == SubSeq(s, 1, i - 1)
           b == SubSeq(s, i + 1, n)
           m == <<s[i]>> \o (a \o b)
<1>1. n \in Nat /\ i \in Nat /\ i >= 1 /\ i <= n /\ i - 1 \in Int /\ i + 1 \in Int
  BY LenProperties
<1>2. \A j \in 1 .. n : s[j] \in S
  BY ElementOfSeq
<1>3. a \in Seq(S) /\ Len(a) = i - 1 /\ \A j \in 1 .. i - 1 : a[j] = s[j]
  <2>1. /\ a \in Seq(S)
        /\ Len(a) = IF 1 <= i - 1 THEN (i - 1) - 1 + 1 ELSE 0
        /\ \A j \in 1 .. (i - 1) - 1 + 1 : a[j] = s[1 + j - 1]
    BY <1>1, <1>2, SubSeqProperties
  <2> HIDE DEF a
  <2>2. /\ (i - 1) - 1 + 1 = i - 1 /\ (1 <= i - 1 \/ i - 1 = 0)
        /\ \A j \in 1 .. i - 1 : 1 + j - 1 = j
    BY <1>1
  <2>3. Len(a) = i - 1
    BY ONLY <2>1, <2>2
  <2>4. \A j \in 1 .. i - 1 : a[j] = s[j]
    BY ONLY <2>1, <2>2
  <2> QED BY <2>1, <2>3, <2>4
<1>4. b \in Seq(S) /\ Len(b) = n - i /\ \A j \in 1 .. n - i : b[j] = s[i + j]
  <2>1. /\ b \in Seq(S)
        /\ Len(b) = IF i + 1 <= n THEN n - (i + 1) + 1 ELSE 0
        /\ \A j \in 1 .. n - (i + 1) + 1 : b[j] = s[(i + 1) + j - 1]
    BY <1>1, <1>2, SubSeqProperties
  <2> HIDE DEF b
  <2>2. /\ n - (i + 1) + 1 = n - i /\ (i + 1 <= n \/ n - i = 0)
        /\ \A j \in 1 .. n - i : (i + 1) + j - 1 = i + j
    BY <1>1
  <2>3. Len(b) = n - i
    BY ONLY <2>1, <2>2
  <2>4. \A j \in 1 .. n - i : b[j] = s[i + j]
    BY ONLY <2>1, <2>2
  <2> QED BY <2>1, <2>3, <2>4
<1> HIDE DEF a, b
<1>5. /\ a \o b \in Seq(S) /\ Len(a \o b) = n - 1
      /\ \A j \in 1 .. n - 1 : (a \o b)[j] = IF j < i THEN s[j] ELSE s[j + 1]
  <2>1. /\ a \o b \in Seq(S) /\ Len(a \o b) = Len(a) + Len(b)
        /\ \A j \in 1 .. Len(a) + Len(b) : (a \o b)[j] = IF j <= Len(a) THEN a[j] ELSE b[j - Len(a)]
    BY <1>3, <1>4, ConcatProperties
  <2>2. ASSUME NEW j \in 1 .. n - 1
        PROVE  (a \o b)[j] = IF j < i THEN s[j] ELSE s[j + 1]
    <3>1. (a \o b)[j] = IF j <= i - 1 THEN a[j] ELSE b[j - (i - 1)]
      BY <1>1, <1>3, <1>4, <2>1
    <3>2. CASE j < i
      BY <1>1, <1>3, <3>1, <3>2
    <3>3. CASE j >= i
      <4>1. j - (i - 1) \in 1 .. n - i /\ i + (j - (i - 1)) = j + 1
        BY <1>1, <3>3
      <4> QED BY <1>1, <1>4, <3>1, <3>3, <4>1
    <3>4. j < i \/ j >= i
      BY <1>1
    <3> QED BY <3>2, <3>3, <3>4
  <2> QED BY <1>1, <1>3, <1>4, <2>1, <2>2
<1>6. /\ m \in Seq(S) /\ Len(m) = n /\ m[1] = s[i]
      /\ \A j \in 1 .. n - 1 : m[j + 1] = (a \o b)[j]
  BY <1>1, <1>2, <1>5
<1>7. U!RemoveAt(s, i) = a \o b
  BY DEF U!RemoveAt, a, b
<1> QED BY <1>5, <1>6, <1>7 DEF Moved

LEMMA InsertKeepsInv ==
  ASSUME LruInv, NEW k \in Keys, NEW d \in Data, U!Insert(k, d)
  PROVE  LruInv'
<1> DEFINE new == Len(node) + 1
           entry == [key |-> k, data |-> d]
<1>1. /\ node' = Append(node, entry) /\ nodes' = <<new>> \o nodes
      /\ index' = [q \in DOMAIN index \cup {k} |-> IF q \in DOMAIN index THEN index[q] ELSE new]
      /\ recent' = <<entry>> \o U!Without(k)
      /\ twice' = IF k \in DOMAIN index THEN twice \cup {k} ELSE twice
  BY DEF U!Insert
<1>2. /\ node \in Seq(Entries) /\ nodes \in Seq(1 .. Len(node)) /\ Len(nodes) \in Nat /\ Len(node) \in Nat
      /\ \A i \in 1 .. Len(nodes) : nodes[i] \in 1 .. Len(node)
      /\ \A i, j \in 1 .. Len(nodes) : nodes[i] = nodes[j] => i = j
      /\ \A q \in DOMAIN index : /\ \E i \in 1 .. Len(nodes) : nodes[i] = index[q]
                                 /\ node[index[q]].key = q
  BY DEF LruInv
<1>3. entry \in Entries
  BY DEF Entries
<1> HIDE DEF entry
<1>4. /\ node' \in Seq(Entries) /\ Len(node') = new /\ node'[new] = entry
      /\ \A j \in 1 .. Len(node) : node'[j] = node[j]
  BY <1>1, <1>2, <1>3
<1>5. /\ nodes' \in Seq(1 .. new) /\ Len(nodes') = Len(nodes) + 1 /\ nodes'[1] = new
      /\ \A i \in 1 .. Len(nodes) : nodes'[i + 1] = nodes[i]
  <2>1. nodes \in Seq(1 .. new)
    BY <1>2
  <2> QED BY <1>1, <1>2, <2>1
<1>6. ASSUME NEW i \in 1 .. Len(nodes'), i # 1
      PROVE  \E j \in 1 .. Len(nodes) : i = j + 1 /\ nodes'[i] = nodes[j]
  <2>1. i - 1 \in 1 .. Len(nodes) /\ i = (i - 1) + 1
    BY <1>2, <1>5, <1>6
  <2> QED BY <1>5, <2>1
<1>7. ASSUME NEW i \in 1 .. Len(nodes'), NEW j \in 1 .. Len(nodes'), nodes'[i] = nodes'[j]
      PROVE  i = j
  <2>1. \A q \in 1 .. Len(nodes') : q # 1 => nodes'[q] # nodes'[1]
    <3> SUFFICES ASSUME NEW q \in 1 .. Len(nodes'), q # 1 PROVE nodes'[q] # new
      BY <1>5
    <3>1. PICK p \in 1 .. Len(nodes) : nodes'[q] = nodes[p]
      BY <1>6
    <3> QED BY <1>2, <3>1
  <2>2. CASE i = 1 \/ j = 1
    BY <1>7, <2>1, <2>2
  <2>3. CASE i # 1 /\ j # 1
    <3>1. PICK p \in 1 .. Len(nodes) : i = p + 1 /\ nodes'[i] = nodes[p]
      BY <1>6, <2>3
    <3>2. PICK q \in 1 .. Len(nodes) : j = q + 1 /\ nodes'[j] = nodes[q]
      BY <1>6, <2>3
    <3>3. p = q
      BY <1>2, <1>7, <3>1, <3>2
    <3> QED BY <3>1, <3>2, <3>3
  <2> QED BY <2>2, <2>3
<1>8. ASSUME NEW q \in DOMAIN index'
      PROVE  /\ \E i \in 1 .. Len(nodes') : nodes'[i] = index'[q]
             /\ node'[index'[q]].key = q
  <2>1. CASE q \in DOMAIN index
    <3>1. index'[q] = index[q]
      BY <1>1, <2>1
    <3>2. PICK i \in 1 .. Len(nodes) : nodes[i] = index[q]
      BY <1>2, <2>1
    <3>3. i + 1 \in 1 .. Len(nodes') /\ nodes'[i + 1] = index'[q]
      BY <1>2, <1>5, <3>1, <3>2
    <3>4. index[q] \in 1 .. Len(node)
      BY <1>2, <3>2
    <3>5. node'[index'[q]] = node[index[q]] /\ node[index[q]].key = q
      BY <1>2, <1>4, <2>1, <3>1, <3>4
    <3> QED BY <3>3, <3>5
  <2>2. CASE q \notin DOMAIN index
    <3>1. q = k /\ index'[q] = new
      BY <1>1, <2>2
    <3>2. 1 \in 1 .. Len(nodes')
      BY <1>2, <1>5
    <3>3. entry.key = k
      BY DEF entry
    <3> QED BY <1>4, <1>5, <3>1, <3>2, <3>3
  <2> QED BY <2>1, <2>2
<1>9. ASSUME twice' = {}
      PROVE  /\ recent' \in Seq(Entries) /\ Len(recent') = Len(nodes')
             /\ \A i \in 1 .. Len(nodes') : /\ recent'[i] = node'[nodes'[i]]
                                            /\ recent'[i].key \in DOMAIN index'
                                            /\ index'[recent'[i].key] = nodes'[i]
  <2>1. k \notin DOMAIN index /\ twice = {}
    BY <1>1, <1>9
  <2>2. /\ recent \in Seq(Entries) /\ Len(recent) = Len(nodes)
        /\ \A i \in 1 .. Len(nodes) : /\ recent[i] = node[nodes[i]]
                                      /\ recent[i].key \in DOMAIN index
                                      /\ index[recent[i].key] = nodes[i]
    BY <2>1 DEF LruInv
  <2>3. recent' = <<entry>> \o recent
    <3>1. DOMAIN recent = 1 .. Len(recent)
      BY <2>2
    <3>2. ~U!Known(k)
      BY <2>1, <2>2, <3>1 DEF U!Known
    <3> QED BY <1>1, <3>2 DEF U!Without
  <2>4. /\ recent' \in Seq(Entries) /\ Len(recent') = Len(nodes) + 1 /\ recent'[1] = entry
        /\ \A i \in 1 .. Len(nodes) : recent'[i + 1] = recent[i]
    BY <1>2, <1>3, <2>2, <2>3
  <2>5. ASSUME NEW i \in 1 .. Len(nodes')
        PROVE  /\ recent'[i] = node'[nodes'[i]]
               /\ recent'[i].key \in DOMAIN index'
               /\ index'[recent'[i].key] = nodes'[i]
    <3>1. CASE i = 1
      <4>1. entry.key = k
        BY DEF entry
      <4> QED BY <1>1, <1>4, <1>5, <2>1, <2>4, <3>1, <4>1
    <3>2. CASE i # 1
      <4>1. PICK j \in 1 .. Len(nodes) : i = j + 1 /\ nodes'[i] = nodes[j]
        BY <1>6, <3>2
      <4>2. recent'[i] = recent[j]
        BY <2>4, <4>1
      <4>3. node'[nodes[j]] = node[nodes[j]]
        BY <1>2, <1>4
      <4>4. /\ recent[j] = node[nodes[j]]
            /\ recent[j].key \in DOMAIN index
            /\ index[recent[j].key] = nodes[j]
        BY <2>2
      <4>5. recent[j].key \in DOMAIN index' /\ index'[recent[j].key] = index[recent[j].key]
        BY <1>1, <4>4
      <4> QED BY <4>1, <4>2, <4>3, <4>4, <4>5
    <3> QED BY <3>1, <3>2
  <2> QED BY <1>5, <2>4, <2>5
<1> QED BY <1>4, <1>5, <1>7, <1>8, <1>9 DEF LruInv

LEMMA TouchKeepsInv ==
  ASSUME LruInv, NEW k \in Keys, U!Touch(k)
  PROVE  LruInv'
<1> DEFINE at == CHOOSE j \in DOMAIN nodes : nodes[j] = index[k]
<1>1. /\ k \in DOMAIN index
      /\ nodes' = <<index[k]>> \o U!RemoveAt(nodes, at)
      /\ recent' = U!ToFront(k) /\ UNCHANGED <<node, index, twice>>
  BY DEF U!Touch
<1>2. /\ node \in Seq(Entries) /\ nodes \in Seq(1 .. Len(node)) /\ Len(nodes) \in Nat
      /\ DOMAIN nodes = 1 .. Len(nodes)
      /\ \A i, j \in 1 .. Len(nodes) : nodes[i] = nodes[j] => i = j
      /\ \A q \in DOMAIN index : /\ \E i \in 1 .. Len(nodes) : nodes[i] = index[q]
                                 /\ node[index[q]].key = q
  BY DEF LruInv
<1>3. at \in 1 .. Len(nodes) /\ nodes[at] = index[k]
  BY <1>1, <1>2
<1> HIDE DEF at
<1>4. nodes' \in Seq(1 .. Len(node)) /\ Moved(nodes, at, nodes')
  <2>1. nodes' = <<nodes[at]>> \o U!RemoveAt(nodes, at)
    BY <1>1, <1>3
  <2> QED BY <1>2, <1>3, <2>1, MoveToFront
<1> DEFINE from(j) == IF j = 1 THEN at ELSE IF j <= at THEN j - 1 ELSE j
<1>5. ASSUME NEW s, NEW m, Len(s) = Len(nodes), Moved(s, at, m), NEW j \in 1 .. Len(nodes)
      PROVE  m[j] = s[from(j)] /\ from(j) \in 1 .. Len(nodes)
  <2>1. CASE j = 1
    BY <1>3, <1>5, <2>1 DEF Moved
  <2>2. CASE j # 1
    <3>1. j - 1 \in 1 .. Len(s) - 1 /\ (j - 1) + 1 = j /\ (j - 1 < at <=> j <= at)
      BY <1>2, <1>3, <1>5, <2>2
    <3>2. m[j] = IF j <= at THEN s[j - 1] ELSE s[j]
      BY ONLY <1>5, <3>1 DEF Moved
    <3> QED BY <1>2, <1>5, <2>2, <3>1, <3>2
  <2> QED BY <2>1, <2>2
<1>6. Len(nodes') = Len(nodes) /\ \A j \in 1 .. Len(nodes) : nodes'[j] = nodes[from(j)] /\ from(j) \in 1 .. Len(nodes)
  BY <1>4, <1>5 DEF Moved
<1>7. \A i, j \in 1 .. Len(nodes) : from(i) = from(j) => i = j
  BY <1>2, <1>3
<1>8. ASSUME NEW i \in 1 .. Len(nodes) PROVE \E j \in 1 .. Len(nodes) : from(j) = i
  <2>1. CASE i = at
    BY <1>2, <1>3, <2>1
  <2>2. CASE i < at
    <3>1. i + 1 \in 1 .. Len(nodes) /\ i + 1 # 1 /\ i + 1 <= at /\ (i + 1) - 1 = i
      BY <1>2, <1>3, <2>2
    <3> QED BY <3>1
  <2>3. CASE i > at
    <3>1. i # 1 /\ ~(i <= at)
      BY <1>2, <1>3, <2>3
    <3> QED BY <3>1
  <2> QED BY <1>2, <1>3, <2>1, <2>2, <2>3
<1> HIDE DEF from
<1>9. \A i, j \in 1 .. Len(nodes') : nodes'[i] = nodes'[j] => i = j
  <2> TAKE i, j \in 1 .. Len(nodes')
  <2>1. i \in 1 .. Len(nodes) /\ j \in 1 .. Len(nodes)
    BY <1>6
  <2>2. nodes'[i] = nodes'[j] => from(i) = from(j)
    BY <1>2, <1>6, <2>1
  <2> QED BY <1>7, <2>1, <2>2
<1>10. ASSUME NEW q \in DOMAIN index'
       PROVE  /\ \E i \in 1 .. Len(nodes') : nodes'[i] = index'[q]
              /\ node'[index'[q]].key = q
  <2>1. PICK i \in 1 .. Len(nodes) : nodes[i] = index[q]
    BY <1>1, <1>2
  <2>2. PICK j \in 1 .. Len(nodes) : from(j) = i
    BY <1>8
  <2>3. nodes'[j] = index'[q] /\ j \in 1 .. Len(nodes')
    BY <1>1, <1>6, <2>1, <2>2
  <2>4. node'[index'[q]].key = q
    BY <1>1, <1>2
  <2> QED BY <2>3, <2>4
<1>11. ASSUME twice' = {}
       PROVE  /\ recent' \in Seq(Entries) /\ Len(recent') = Len(nodes')
              /\ \A i \in 1 .. Len(nodes') : /\ recent'[i] = node'[nodes'[i]]
                                             /\ recent'[i].key \in DOMAIN index'
                                             /\ index'[recent'[i].key] = nodes'[i]
  <2>1. /\ recent \in Seq(Entries) /\ Len(recent) = Len(nodes)
        /\ \A i \in 1 .. Len(nodes) : /\ recent[i] = node[nodes[i]]
                                      /\ recent[i].key \in DOMAIN index
                                      /\ index[recent[i].key] = nodes[i]
    BY <1>1, <1>11 DEF LruInv
  <2>2. DOMAIN recent = 1 .. Len(nodes)
    BY <2>1
  <2>3. recent[at].key = k
    BY <1>1, <1>2, <1>3, <2>1
  <2>4. U!Place(k) = at
    <3>1. U!Place(k) \in 1 .. Len(nodes) /\ recent[U!Place(k)].key = k
      BY <1>3, <2>2, <2>3 DEF U!Place
    <3>2. nodes[U!Place(k)] = nodes[at]
      BY <1>3, <2>1, <3>1
    <3> QED BY <1>2, <1>3, <3>1, <3>2
  <2>5. U!Known(k)
    BY <1>3, <2>2, <2>3 DEF U!Known
  <2>6. recent' = <<recent[at]>> \o U!RemoveAt(recent, at)
    BY <1>1, <2>4, <2>5 DEF U!ToFront, U!Without
  <2>7. recent' \in Seq(Entries) /\ Moved(recent, at, recent')
    BY <1>3, <2>1, <2>6, MoveToFront
  <2>8. Len(recent') = Len(nodes) /\ \A j \in 1 .. Len(nodes) : recent'[j] = recent[from(j)]
    <3>1. Len(recent') = Len(recent)
      BY <2>7 DEF Moved
    <3>2. \A j \in 1 .. Len(nodes) : recent'[j] = recent[from(j)]
      BY <1>5, <2>1, <2>7
    <3> QED BY <2>1, <3>1, <3>2
  <2> QED BY <1>1, <1>6, <2>1, <2>7, <2>8
<1> QED BY <1>1, <1>2, <1>4, <1>9, <1>10, <1>11 DEF LruInv

LEMMA LruStep == LruInv /\ [U!Next]_lruVars => LruInv'
<1> SUFFICES ASSUME LruInv, [U!Next]_lruVars PROVE LruInv'
  OBVIOUS
<1>0. /\ node \in Seq(Entries) /\ nodes \in Seq(1 .. Len(node)) /\ Len(nodes) \in Nat
      /\ twice = {} => recent \in Seq(Entries) /\ Len(recent) = Len(nodes)
  BY DEF LruInv
<1>1. ASSUME NEW k \in Keys, U!Touch(k) PROVE LruInv'
  BY <1>1, TouchKeepsInv
<1>2. ASSUME NEW k \in Keys, NEW d \in Data, U!Insert(k, d) PROVE LruInv'
  BY <1>2, InsertKeepsInv
<1>3. ASSUME U!PopFront PROVE LruInv'
  <2> DEFINE count == Len(nodes) - 1
             out == Outside(1, count)
  <2>1. /\ nodes # <<>> /\ nodes' = Tail(nodes) /\ UNCHANGED <<node, twice>>
        /\ index' = [q \in DOMAIN index \ {node[Head(nodes)].key} |-> index[q]]
        /\ recent' = SubSeq(recent, 2, Len(recent))
    BY <1>3 DEF U!PopFront, U!Forget
  <2>2. Len(nodes) >= 1 /\ count \in Nat /\ 1 + count = Len(nodes) /\ 1 + 1 = 2 /\ out = {1}
    BY <1>0, <2>1 DEF Outside
  <2>3. nodes' = SubSeq(nodes, 1 + 1, 1 + count) /\ Head(nodes) = nodes[1]
    BY <1>0, <2>1, <2>2
  <2>4. {node[nodes[i]].key : i \in out} = {node[Head(nodes)].key}
    BY <2>2, <2>3
  <2>5. twice = {} => recent' = SubSeq(recent, 1 + 1, 1 + count)
    BY <1>0, <2>1, <2>2
  <2>6. index' = [q \in DOMAIN index \ {node[nodes[i]].key : i \in out} |-> index[q]]
    BY <2>1, <2>4
  <2> HIDE DEF count
  <2>7. Kept(1, count)
    BY <2>1, <2>2, <2>3, <2>5, <2>6 DEF Kept
  <2> QED BY <2>2, <2>7, ForgetKeepsInv
<1>4. ASSUME U!PopBack PROVE LruInv'
  <2> DEFINE count == Len(nodes) - 1
             out == Outside(0, count)
  <2>1. /\ nodes # <<>> /\ nodes' = SubSeq(nodes, 1, count) /\ UNCHANGED <<node, twice>>
        /\ index' = [q \in DOMAIN index \ {node[nodes[Len(nodes)]].key} |-> index[q]]
        /\ recent' = SubSeq(recent, 1, Len(recent) - 1)
    BY <1>4 DEF U!PopBack, U!Forget, U!Front, U!Last
  <2>2. count \in Nat /\ 0 + count <= Len(nodes) /\ 0 + 1 = 1 /\ 0 + count = count /\ out = {Len(nodes)}
    BY <1>0, <2>1 DEF Outside
  <2>3. nodes' = SubSeq(nodes, 0 + 1, 0 + count)
    BY <2>1, <2>2
  <2>4. {node[nodes[i]].key : i \in out} = {node[nodes[Len(nodes)]].key}
    BY <2>2
  <2>5. twice = {} => recent' = SubSeq(recent, 0 + 1, 0 + count)
    BY <1>0, <2>1, <2>2
  <2>6. index' = [q \in DOMAIN index \ {node[nodes[i]].key : i \in out} |-> index[q]]
    BY <2>1, <2>4
  <2> HIDE DEF count
  <2>7. Kept(0, count)
    BY <2>1, <2>2, <2>3, <2>5, <2>6 DEF Kept
  <2> QED BY <2>2, <2>7, ForgetKeepsInv
<1>5. ASSUME NEW count \in 0 .. MaxNodes, U!Resize(count) PROVE LruInv'
  <2> DEFINE out == Outside(0, count)
  <2>1. /\ count \in 0 .. Len(nodes) /\ nodes' = SubSeq(nodes, 1, count) /\ UNCHANGED <<node, twice>>
        /\ index' = [q \in DOMAIN index \ {node[nodes[i]].key : i \in count + 1 .. Len(nodes)} |-> index[q]]
        /\ recent' = IF count < Len(recent) THEN SubSeq(recent, 1, count) ELSE recent
    BY <1>5 DEF U!Resize
  <2>2. /\ count \in Nat /\ 0 + count <= Len(nodes) /\ 0 + 1 = 1 /\ 0 + count = count
        /\ out = count + 1 .. Len(nodes)
    BY <1>0, <2>1 DEF Outside
  <2>3. nodes' = SubSeq(nodes, 0 + 1, 0 + count)
    BY <2>1, <2>2
  <2>4. ASSUME twice = {} PROVE recent' = SubSeq(recent, 0 + 1, 0 + count)
    <3>1. recent \in Seq(Entries) /\ Len(recent) = Len(nodes)
      BY <1>0, <2>4
    <3>2. ~(count < Len(recent)) => count = Len(recent)
      BY <1>0, <2>1, <2>2, <3>1
    <3>3. SubSeq(recent, 1, Len(recent)) = recent
      BY <3>1
    <3> QED BY <2>1, <2>2, <3>2, <3>3
  <2>5. index' = [q \in DOMAIN index \ {node[nodes[i]].key : i \in out} |-> index[q]]
    BY <2>1, <2>2
  <2>6. Kept(0, count)
    BY <2>1, <2>2, <2>3, <2>4, <2>5 DEF Kept
  <2> QED BY <2>2, <2>6, ForgetKeepsInv
<1>6. ASSUME U!Clear PROVE LruInv'
  <2>1. /\ nodes' = <<>> /\ index' = [k \in {} |-> 0] /\ recent' = <<>> /\ node' = node
    BY <1>6 DEF U!Clear
  <2>2. /\ <<>> \in Seq(1 .. Len(node)) /\ <<>> \in Seq(Entries) /\ Len(<<>>) = 0 /\ 1 .. 0 = {}
    OBVIOUS
  <2> QED BY <1>0, <2>1, <2>2 DEF LruInv
<1>7. ASSUME UNCHANGED lruVars PROVE LruInv'
  BY <1>7 DEF lruVars, LruInv
<1> QED BY <1>1, <1>2, <1>3, <1>4, <1>5, <1>6, <1>7 DEF U!Next, U!vars, lruVars

\* Every entry of lru is in the list once, and the index leads to it.
THEOREM LruInvariant == SpecAll => []LruInv
<1>1. InitAll => LruInv
  <2> SUFFICES ASSUME U!Init PROVE LruInv
    BY DEF InitAll
  <2>1. /\ nodes = <<>> /\ node = <<>> /\ index = [k \in {} |-> 0] /\ recent = <<>>
    BY DEF U!Init
  <2>2. /\ <<>> \in Seq(1 .. Len(<<>>)) /\ <<>> \in Seq(Entries) /\ Len(<<>>) = 0 /\ 1 .. 0 = {}
    OBVIOUS
  <2> QED BY <2>1, <2>2 DEF LruInv
<1>2. LruInv /\ [NextAll]_<<vars, container, arrayVars, listVars, lruVars>> => LruInv'
  <2> SUFFICES ASSUME LruInv, [NextAll]_<<vars, container, arrayVars, listVars, lruVars>> PROVE LruInv'
    OBVIOUS
  <2>1. [U!Next]_lruVars
    BY DEF NextAll
  <2> QED BY <2>1, LruStep
<1> QED BY <1>1, <1>2, PTL DEF SpecAll

\* The index never leads to a node that is gone or of another key, and as long as no key
\* was inserted while it was present, lru is the documented container: all its keys by
\* recency, with their data.
THEOREM LruIsExact == SpecAll => []LruExact
<1>1. LruInv => LruExact
  <2> SUFFICES ASSUME LruInv PROVE LruExact
    OBVIOUS
  <2>1. /\ nodes \in Seq(1 .. Len(node)) /\ DOMAIN nodes = 1 .. Len(nodes)
        /\ \A k \in DOMAIN index : /\ \E i \in 1 .. Len(nodes) : nodes[i] = index[k]
                                   /\ node[index[k]].key = k
    BY DEF LruInv
  <2>2. \A k \in DOMAIN index : U!Contains(nodes, index[k]) /\ node[index[k]].key = k
    BY <2>1 DEF U!Contains
  <2>3. ASSUME twice = {}
        PROVE  /\ [i \in DOMAIN nodes |-> node[nodes[i]]] = recent
               /\ DOMAIN index = {recent[i].key : i \in DOMAIN recent}
    <3>1. /\ recent \in Seq(Entries) /\ Len(recent) = Len(nodes)
          /\ \A i \in 1 .. Len(nodes) : /\ recent[i] = node[nodes[i]]
                                        /\ recent[i].key \in DOMAIN index
      BY <2>3 DEF LruInv
    <3>2. DOMAIN recent = 1 .. Len(nodes) /\ recent = [i \in 1 .. Len(nodes) |-> recent[i]]
      BY <3>1
    <3>3. [i \in DOMAIN nodes |-> node[nodes[i]]] = recent
      BY <2>1, <3>1, <3>2
    <3>4. ASSUME NEW k \in DOMAIN index PROVE \E i \in DOMAIN recent : recent[i].key = k
      <4>1. PICK i \in 1 .. Len(nodes) : nodes[i] = index[k]
        BY <2>1
      <4>2. recent[i].key = k /\ i \in DOMAIN recent
        BY <2>1, <3>1, <3>2, <4>1
      <4> QED BY <4>2
    <3>5. \A i \in DOMAIN recent : recent[i].key \in DOMAIN index
      BY <3>1, <3>2
    <3>6. DOMAIN index = {recent[i].key : i \in DOMAIN recent}
      BY <3>4, <3>5
    <3> QED BY <3>3, <3>6
  <2> QED BY <2>2, <2>3 DEF LruExact, U!LruExact
<1> QED BY <1>1, LruInvariant, PTL

=============================================================================
