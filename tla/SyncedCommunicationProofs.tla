---------------------- MODULE SyncedCommunicationProofs ----------------------
(***************************************************************************)
(* For any number of processes and any scenarios of the kinds named in the *)
(* hypotheses: the messages of two syncs are not taken for each other, a   *)
(* sync adds exactly what the neighbours can tell, two processes that have *)
(* finished it list each other for the same indices, no walk or message is *)
(* read beyond its end, every call returns, and data sent over the lists   *)
(* arrives at the entries it is for, all of it.                            *)
(***************************************************************************)
EXTENDS SyncedCommunication, FiniteSetTheorems, SequenceTheorems, WellFoundedInduction, TLAPS

-----------------------------------------------------------------------------
(* Recursive functions on the numbers up to some number.                   *)

\* Induction over the natural numbers, for a set instead of a predicate.
LEMMA InductionOverNat ==
  ASSUME NEW T \in SUBSET Nat, 0 \in T, \A n \in T : n + 1 \in T
  PROVE  T = Nat
<1> DEFINE Less == OpToRel(<, Nat)
<1> SUFFICES ASSUME Nat \ T # {} PROVE FALSE
  OBVIOUS
<1>1. IsWellFoundedOn(Less, Nat)
  BY NatLessThanWellFounded
<1>2. \A x, y \in Nat : <<x, y>> \in Less <=> x < y
  BY DEF OpToRel
<1> HIDE DEF Less
<1>3. PICK m \in Nat \ T : \A n \in Nat \ T : ~(<<n, m>> \in Less)
  BY <1>1, WFMin
<1>4. m # 0 /\ m - 1 \in Nat
  BY <1>3
<1>5. m - 1 \in T
  <2>1. m - 1 < m
    BY <1>4
  <2> QED BY <1>2, <1>3, <1>4, <2>1
<1> QED BY <1>3, <1>4, <1>5

\* Induction up to a number.
LEMMA InductionUpTo ==
  ASSUME NEW n \in Nat, NEW T \in SUBSET (0 .. n), 0 \in T, \A i \in 1 .. n : i - 1 \in T => i \in T
  PROVE  T = 0 .. n
<1> DEFINE U == {i \in Nat : i <= n => i \in T}
<1>1. 0 \in U
  OBVIOUS
<1>2. ASSUME NEW i \in U PROVE i + 1 \in U
  <2> SUFFICES ASSUME i + 1 <= n PROVE i + 1 \in T
    OBVIOUS
  <2>1. i \in T /\ i + 1 \in 1 .. n /\ (i + 1) - 1 = i
    OBVIOUS
  <2> QED BY <2>1
<1>3. U = Nat
  <2> HIDE DEF U
  <2> QED BY <1>1, <1>2, InductionOverNat DEF U
<1>4. ASSUME NEW i \in 0 .. n PROVE i \in T
  <2>1. i \in U /\ i <= n
    BY <1>3
  <2> QED BY <2>1
<1> QED BY <1>4

Recurs(f, n, base, next) == f[0] = base /\ \A i \in 1 .. n : f[i] = next[<<i, f[i - 1]>>]

\* A function on 0 .. n is determined by its first value and by how each value is
\* computed from the one before.
LEMMA Recursion ==
  ASSUME NEW n \in Nat, NEW V, NEW base \in V, NEW next, \A i \in 1 .. n, v \in V : next[<<i, v>>] \in V
  PROVE  \E f \in [0 .. n -> V] : Recurs(f, n, base, next)
<1> DEFINE Upto(f, m) == f[0] = base /\ \A i \in 1 .. m : f[i] = next[<<i, f[i - 1]>>]
           T == {m \in 0 .. n : \E f \in [0 .. m -> V] : Upto(f, m)}
<1>1. 0 \in T
  <2>1. [i \in 0 .. 0 |-> base] \in [0 .. 0 -> V] /\ Upto([i \in 0 .. 0 |-> base], 0)
    OBVIOUS
  <2>2. 0 \in 0 .. n
    OBVIOUS
  <2> HIDE DEF Upto
  <2> QED BY <2>1, <2>2
<1>2. ASSUME NEW m \in 1 .. n, m - 1 \in T PROVE m \in T
  <2>1. PICK f \in [0 .. m - 1 -> V] : Upto(f, m - 1)
    BY <1>2
  <2> DEFINE g == [i \in 0 .. m |-> IF i = m THEN next[<<m, f[m - 1]>>] ELSE f[i]]
  <2>2. g \in [0 .. m -> V] /\ \A i \in 0 .. m - 1 : g[i] = f[i]
    OBVIOUS
  <2>3. g[m] = next[<<m, g[m - 1]>>]
    <3>1. g[m] = next[<<m, f[m - 1]>>] /\ m - 1 \in 0 .. m - 1
      OBVIOUS
    <3> QED BY <2>2, <3>1
  <2>a. next[<<m, f[m - 1]>>] \in V
    OBVIOUS
  <2> HIDE DEF g
  <2>4. ASSUME NEW i \in 1 .. m PROVE g[i] = next[<<i, g[i - 1]>>]
    <3>1. CASE i = m
      BY <3>1, <2>3
    <3>2. CASE i # m
      <4>1. i \in 1 .. m - 1 /\ i \in 0 .. m - 1 /\ i - 1 \in 0 .. m - 1
        BY <3>2
      <4> QED BY <4>1, <2>1, <2>2
    <3> QED BY <3>1, <3>2
  <2>5. g[0] = base
    BY <2>1, <2>2
  <2> QED BY <2>2, <2>4, <2>5, SMTT(20)
<1>3. T = 0 .. n
  <2>1. T \subseteq 0 .. n
    OBVIOUS
  <2> HIDE DEF T
  <2> QED BY <1>1, <1>2, <2>1, InductionUpTo
<1>4. n \in T
  BY <1>3
<1> QED BY <1>4 DEF Recurs

\* Subsequence consists of the members at the chosen positions.
LEMMA SubsequenceStep ==
  ASSUME NEW S, NEW s \in Seq(S), NEW positions
  PROVE  \E f \in [0 .. Len(s) -> Seq(S)] :
           /\ f[0] = <<>> /\ Subsequence(s, positions) = f[Len(s)]
           /\ \A i \in 1 .. Len(s) :
                f[i] = IF i \in positions THEN Append(f[i - 1], s[i]) ELSE f[i - 1]
<1> DEFINE next == [at \in (1 .. Len(s)) \X Seq(S) |->
                      IF at[1] \in positions THEN Append(at[2], s[at[1]]) ELSE at[2]]
<1>1. ASSUME NEW i \in 1 .. Len(s), NEW v \in Seq(S)
      PROVE  /\ next[<<i, v>>] = IF i \in positions THEN Append(v, s[i]) ELSE v
             /\ next[<<i, v>>] \in Seq(S)
  <2>1. s[i] \in S
    OBVIOUS
  <2>2. Append(v, s[i]) \in Seq(S)
    BY <2>1
  <2>3. <<i, v>> \in (1 .. Len(s)) \X Seq(S)
    OBVIOUS
  <2> QED BY <2>2, <2>3
<1>3. Len(s) \in Nat /\ <<>> \in Seq(S)
  OBVIOUS
<1> HIDE DEF next
<1>4. PICK f \in [0 .. Len(s) -> Seq(S)] : Recurs(f, Len(s), <<>>, next)
  <2>1. \A i \in 1 .. Len(s), v \in Seq(S) : next[<<i, v>>] \in Seq(S)
    BY <1>1
  <2> QED BY ONLY <1>3, <2>1, Recursion, Zenon
<1>5. ASSUME NEW i \in 1 .. Len(s)
      PROVE  f[i] = IF i \in positions THEN Append(f[i - 1], s[i]) ELSE f[i - 1]
  <2>1. i - 1 \in 0 .. Len(s)
    BY <1>3
  <2> QED BY <1>1, <1>4, <2>1 DEF Recurs
<1> DEFINE body(g) == [i \in 0 .. Len(s) |->
                         IF i = 0 THEN <<>>
                         ELSE IF i \in positions THEN Append(g[i - 1], s[i]) ELSE g[i - 1]]
           upto == CHOOSE g : g = body(g)
<1>6. f = body(f)
  <2>1. ASSUME NEW i \in 0 .. Len(s) PROVE f[i] = body(f)[i]
    <3>1. i = 0 \/ i \in 1 .. Len(s)
      BY <1>3
    <3> QED BY <3>1, <1>4, <1>5 DEF Recurs
  <2> QED BY <2>1
<1>7. upto = body(upto)
  <2> HIDE DEF body
  <2> QED BY <1>6
<1>8. Subsequence(s, positions) = upto[Len(s)]
  BY Zenon DEF Subsequence
<1> HIDE DEF upto
<1>9. \A i \in 0 .. Len(s) : upto[i] = f[i]
  <2> DEFINE T == {i \in 0 .. Len(s) : upto[i] = f[i]}
  <2>1. 0 \in T
    BY <1>3, <1>4, <1>7 DEF Recurs
  <2>2. ASSUME NEW i \in 1 .. Len(s), i - 1 \in T PROVE i \in T
    <3>1. upto[i] = IF i \in positions THEN Append(upto[i - 1], s[i]) ELSE upto[i - 1]
      <4>1. i \in 0 .. Len(s) /\ i # 0
        BY <1>3
      <4> QED BY <4>1, <1>7
    <3>2. i \in 0 .. Len(s)
      BY <1>3
    <3> QED BY <2>2, <3>1, <3>2, <1>5
  <2>3. T = 0 .. Len(s)
    <3> HIDE DEF T
    <3> QED BY <1>3, <2>1, <2>2, InductionUpTo DEF T
  <2> QED BY <2>3
<1> QED BY <1>3, <1>4, <1>5, <1>8, <1>9 DEF Recurs

-----------------------------------------------------------------------------
(* What Subsequence selects.                                               *)

\* h names the positions of s whose members make up sub, in order.
Selects(h, sub, s, positions) ==
  /\ h \in [1 .. Len(sub) -> positions]
  /\ \A j, k \in 1 .. Len(sub) : j < k => h[j] < h[k]
  /\ \A i \in positions : \E k \in 1 .. Len(sub) : h[k] = i
  /\ \A k \in 1 .. Len(sub) : sub[k] = s[h[k]]

\* A subsequence has the members at the chosen positions, in order.
LEMMA SubsequenceSelects ==
  ASSUME NEW S, NEW s \in Seq(S), NEW positions \in SUBSET DOMAIN s
  PROVE  /\ Subsequence(s, positions) \in Seq(S)
         /\ \E h : Selects(h, Subsequence(s, positions), s, positions)
<1>0. Len(s) \in Nat /\ DOMAIN s = 1 .. Len(s)
  OBVIOUS
<1>1. PICK f \in [0 .. Len(s) -> Seq(S)] :
        /\ f[0] = <<>> /\ Subsequence(s, positions) = f[Len(s)]
        /\ \A i \in 1 .. Len(s) : f[i] = IF i \in positions THEN Append(f[i - 1], s[i]) ELSE f[i - 1]
  BY SubsequenceStep
<1> DEFINE Done(i) == \E h : Selects(h, f[i], s, positions \cap (1 .. i))
           T == {i \in 0 .. Len(s) : Done(i)}
<1>2. Done(0)
  <2> DEFINE h == [k \in {} |-> 0]
  <2>0. Len(<<>>) = 0 /\ 1 .. 0 = {}
    OBVIOUS
  <2>1. Selects(h, <<>>, s, positions \cap (1 .. 0))
    BY <2>0 DEF Selects
  <2> QED BY <2>1, <1>1
<1>3. ASSUME NEW i \in 1 .. Len(s), Done(i - 1) PROVE Done(i)
  <2>0. i - 1 \in 0 .. Len(s) /\ f[i - 1] \in Seq(S) /\ i \in 0 .. Len(s)
    BY <1>0
  <2>1. PICK h : Selects(h, f[i - 1], s, positions \cap (1 .. i - 1))
    BY <1>3
  <2>2. CASE i \notin positions
    <3>1. f[i] = f[i - 1]
      BY <1>1, <2>2
    <3>2. positions \cap (1 .. i) = positions \cap (1 .. i - 1)
      BY <2>2, <1>0
    <3> QED BY <2>1, <3>1, <3>2
  <2>3. CASE i \in positions
    <3> DEFINE m == Len(f[i - 1])
               g == [k \in 1 .. m + 1 |-> IF k = m + 1 THEN i ELSE h[k]]
    <3>1. f[i] = Append(f[i - 1], s[i])
      BY <1>1, <2>3
    <3>2. /\ m \in Nat /\ Len(f[i]) = m + 1 /\ f[i][m + 1] = s[i]
          /\ \A k \in 1 .. m : f[i][k] = f[i - 1][k]
      BY <2>0, <3>1, <1>0
    <3>3. /\ h \in [1 .. m -> positions \cap (1 .. i - 1)]
          /\ \A j, k \in 1 .. m : j < k => h[j] < h[k]
          /\ \A p \in positions \cap (1 .. i - 1) : \E k \in 1 .. m : h[k] = p
          /\ \A k \in 1 .. m : f[i - 1][k] = s[h[k]]
      BY <2>1 DEF Selects
    <3> HIDE DEF m
    <3>4. \A k \in 1 .. m : g[k] = h[k] /\ g[k] \in positions /\ g[k] \in 1 .. i - 1
      BY <3>2, <3>3
    <3>5. g[m + 1] = i
      BY <3>2
    <3>6. \A k \in 1 .. m + 1 : k \in 1 .. m \/ k = m + 1
      BY <3>2
    <3>7. g \in [1 .. m + 1 -> positions \cap (1 .. i)]
      <4>1. \A k \in 1 .. m + 1 : g[k] \in positions \cap (1 .. i)
        <5> HIDE DEF g
        <5> QED BY <3>4, <3>5, <3>6, <2>3
      <4>2. g = [k \in 1 .. m + 1 |-> g[k]]
        OBVIOUS
      <4> HIDE DEF g
      <4> QED BY <4>1, <4>2
    <3> HIDE DEF g
    <3>8. \A j, k \in 1 .. m + 1 : j < k => g[j] < g[k]
      <4> SUFFICES ASSUME NEW j \in 1 .. m + 1, NEW k \in 1 .. m + 1, j < k PROVE g[j] < g[k]
        OBVIOUS
      <4>1. j \in 1 .. m
        BY <3>2
      <4>2. CASE k = m + 1
        BY <4>1, <4>2, <3>4, <3>5
      <4>3. CASE k \in 1 .. m
        BY <4>1, <4>3, <3>3, <3>4
      <4> QED BY <4>2, <4>3, <3>6
    <3>9. \A p \in positions \cap (1 .. i) : \E k \in 1 .. m + 1 : g[k] = p
      <4> SUFFICES ASSUME NEW p \in positions \cap (1 .. i) PROVE \E k \in 1 .. m + 1 : g[k] = p
        OBVIOUS
      <4>1. CASE p = i
        <5>1. m + 1 \in 1 .. m + 1
          BY <3>2
        <5> QED BY <4>1, <3>5, <5>1
      <4>2. CASE p # i
        <5>1. p \in positions \cap (1 .. i - 1)
          BY <4>2
        <5>2. PICK k \in 1 .. m : h[k] = p
          BY <5>1, <3>3
        <5>3. k \in 1 .. m + 1
          BY <3>2
        <5> QED BY <5>2, <5>3, <3>4
      <4> QED BY <4>1, <4>2
    <3>10. \A k \in 1 .. m + 1 : f[i][k] = s[g[k]]
      BY <3>2, <3>3, <3>4, <3>5, <3>6
    <3>11. Selects(g, f[i], s, positions \cap (1 .. i))
      BY <3>2, <3>7, <3>8, <3>9, <3>10 DEF Selects
    <3> QED BY <3>11
  <2> QED BY <2>2, <2>3
<1>4. T = 0 .. Len(s)
  <2>1. 0 \in T /\ \A i \in 1 .. Len(s) : i - 1 \in T => i \in T
    <3> HIDE DEF Done
    <3> QED BY <1>0, <1>2, <1>3
  <2>2. T \subseteq 0 .. Len(s)
    OBVIOUS
  <2> HIDE DEF T
  <2> QED BY <1>0, <2>1, <2>2, InductionUpTo
<1>5. Done(Len(s)) /\ positions \cap (1 .. Len(s)) = positions
  <2>1. Len(s) \in T
    <3> HIDE DEF T
    <3> QED BY <1>4, <1>0
  <2> HIDE DEF Done
  <2> QED BY <2>1, <1>0
<1>6. f[Len(s)] \in Seq(S)
  BY <1>0
<1> QED BY <1>1, <1>5, <1>6

\* Its members, and how many they are.
LEMMA SubsequenceMembers ==
  ASSUME NEW S, NEW s \in Seq(S), NEW positions \in SUBSET DOMAIN s
  PROVE  /\ Subsequence(s, positions) \in Seq(S)
         /\ ToSet(Subsequence(s, positions)) = {s[i] : i \in positions}
         /\ Len(Subsequence(s, positions)) = Cardinality(positions)
<1> DEFINE sub == Subsequence(s, positions)
<1>1. sub \in Seq(S) /\ \E h : Selects(h, sub, s, positions)
  BY SubsequenceSelects
<1> HIDE DEF sub
<1>2. PICK h : Selects(h, sub, s, positions)
  BY <1>1
<1>3. Len(sub) \in Nat /\ DOMAIN sub = 1 .. Len(sub) /\ DOMAIN s = 1 .. Len(s) /\ Len(s) \in Nat
  BY <1>1
<1>4. ToSet(sub) = {s[i] : i \in positions}
  BY <1>2, <1>3 DEF Selects, ToSet
<1>5. ExistsBijection(1 .. Len(sub), positions)
  <2>1. \A j, k \in 1 .. Len(sub) : h[j] = h[k] => j = k
    <3> SUFFICES ASSUME NEW j \in 1 .. Len(sub), NEW k \in 1 .. Len(sub), j # k PROVE h[j] # h[k]
      OBVIOUS
    <3>1. h[j] \in Int /\ h[k] \in Int
      BY <1>2, <1>3 DEF Selects
    <3>2. j < k \/ k < j
      BY <1>3
    <3> QED BY <1>2, <3>1, <3>2 DEF Selects
  <2>2. h \in Bijection(1 .. Len(sub), positions)
    BY <1>2, <2>1 DEF Selects, Bijection, Injection, Surjection, IsInjective
  <2> QED BY <2>2 DEF ExistsBijection
<1>6. Cardinality(positions) = Len(sub)
  BY <1>3, <1>5, FS_CountingElements
<1> QED BY <1>1, <1>4, <1>6 DEF sub

-----------------------------------------------------------------------------
(* The first position, and inserting at it.                                *)

\* A set of numbers has a least one.
LEMMA MinIs ==
  ASSUME NEW S \in SUBSET Nat, S # {}
  PROVE  Min(S) \in S /\ \A i \in S : Min(S) <= i
<1> DEFINE T == {n \in Nat : \A i \in S : i > n}
<1>1. PICK m \in S : \A i \in S : m <= i
  <2> SUFFICES ASSUME \A m \in S : \E i \in S : i < m PROVE FALSE
    OBVIOUS
  <2>1. 0 \in T
    <3>1. 0 \notin S
      OBVIOUS
    <3> QED BY <3>1
  <2>2. ASSUME NEW n \in T PROVE n + 1 \in T
    <3>1. \A i \in S : i > n
      OBVIOUS
    <3>2. n + 1 \notin S
      BY <3>1
    <3>3. ASSUME NEW i \in S PROVE i > n + 1
      BY <3>1, <3>2
    <3> QED BY <3>3
  <2>3. T = Nat
    <3> HIDE DEF T
    <3> QED BY <2>1, <2>2, InductionOverNat DEF T
  <2>4. PICK i \in S : TRUE
    OBVIOUS
  <2>5. i \in T
    BY <2>3
  <2> QED BY <2>5
<1> QED BY <1>1 DEF Min

\* FirstFrom skips a prefix.
LEMMA FirstFromIs ==
  ASSUME NEW S, NEW list \in Seq(S), NEW skipped
  PROVE  /\ FirstFrom(list, skipped) \in 1 .. Len(list) + 1
         /\ \A j \in 1 .. FirstFrom(list, skipped) - 1 : list[j] \in skipped
         /\ FirstFrom(list, skipped) <= Len(list) => list[FirstFrom(list, skipped)] \notin skipped
<1> DEFINE upto == {i \in 1 .. Len(list) : list[i] \notin skipped}
<1>0. Len(list) \in Nat
  OBVIOUS
<1>1. FirstFrom(list, skipped) = IF upto = {} THEN Len(list) + 1 ELSE Min(upto)
  BY DEF FirstFrom
<1>2. CASE upto = {}
  <2>1. FirstFrom(list, skipped) = Len(list) + 1
    BY <1>1, <1>2
  <2>2. \A j \in 1 .. Len(list) : list[j] \in skipped
    BY <1>2
  <2> QED BY <1>0, <2>1, <2>2
<1>3. CASE upto # {}
  <2>1. FirstFrom(list, skipped) = Min(upto)
    BY <1>1, <1>3
  <2>2. upto \in SUBSET Nat
    BY <1>0
  <2>3. Min(upto) \in upto /\ \A i \in upto : Min(upto) <= i
    <3> HIDE DEF upto
    <3> QED BY <2>2, <1>3, MinIs
  <2> DEFINE m == Min(upto)
  <2>4. m \in 1 .. Len(list) /\ list[m] \notin skipped
    BY <2>3
  <2>5. ASSUME NEW j \in 1 .. m - 1, list[j] \notin skipped PROVE FALSE
    <3>1. j \in upto /\ j < m
      BY <2>4, <2>5, <1>0
    <3> QED BY <3>1, <2>3, <2>4
  <2> HIDE DEF m, upto
  <2>6. FirstFrom(list, skipped) = m
    BY <2>1 DEF m
  <2> QED BY <1>0, <2>4, <2>5, <2>6
<1> QED BY <1>2, <1>3

\* InsertAt puts a member before the i-th one.
LEMMA InsertAtIs ==
  ASSUME NEW S, NEW list \in Seq(S), NEW new \in S, NEW i \in 1 .. Len(list) + 1
  PROVE  /\ InsertAt(list, i, new) \in Seq(S)
         /\ Len(InsertAt(list, i, new)) = Len(list) + 1
         /\ \A k \in 1 .. Len(list) + 1 :
              InsertAt(list, i, new)[k] = IF k < i THEN list[k] ELSE IF k = i THEN new ELSE list[k - 1]
         /\ ToSet(InsertAt(list, i, new)) = ToSet(list) \cup {new}
<1> DEFINE front == SubSeq(list, 1, i - 1)
           back == SubSeq(list, i, Len(list))
           whole == front \o <<new>> \o back
<1>0. Len(list) \in Nat /\ i - 1 \in 0 .. Len(list)
  OBVIOUS
<1>1. /\ front \in Seq(S) /\ Len(front) = i - 1
      /\ \A k \in 1 .. i - 1 : front[k] = list[k]
  BY <1>0, SubSeqProperties
<1>2. /\ back \in Seq(S) /\ Len(back) = Len(list) + 1 - i
      /\ \A k \in 1 .. Len(list) + 1 - i : back[k] = list[i + k - 1]
  <2>1. CASE i = Len(list) + 1
    <3>1. back = <<>>
      BY <2>1, <1>0, SubSeqProperties
    <3> HIDE DEF back
    <3> QED BY <2>1, <3>1, <1>0
  <2>2. CASE i # Len(list) + 1
    <3>1. i \in 1 .. Len(list)
      BY <2>2, <1>0
    <3>2. back \in Seq(S) /\ Len(back) = Len(list) - i + 1
      BY <3>1, <1>0, SubSeqProperties
    <3>3. \A k \in 1 .. Len(list) + 1 - i : back[k] = list[i + k - 1]
      BY <3>1, <1>0, SubSeqProperties
    <3> QED BY <3>1, <3>2, <3>3, <1>0
  <2> QED BY <2>1, <2>2
<1> HIDE DEF front, back
<1>3. /\ front \o <<new>> \in Seq(S) /\ Len(front \o <<new>>) = i
      /\ (front \o <<new>>)[i] = new
      /\ \A k \in 1 .. i - 1 : (front \o <<new>>)[k] = list[k]
  <2>1. front \o <<new>> \in Seq(S) /\ Len(front \o <<new>>) = i
    BY <1>0, <1>1
  <2>2. (front \o <<new>>)[i] = new
    BY <1>0, <1>1
  <2>3. \A k \in 1 .. i - 1 : (front \o <<new>>)[k] = front[k]
    BY <1>0, <1>1
  <2> QED BY <2>1, <2>2, <2>3, <1>1
<1>4. whole \in Seq(S) /\ Len(whole) = Len(list) + 1
  BY <1>0, <1>2, <1>3
<1>5. ASSUME NEW k \in 1 .. Len(list) + 1
      PROVE  whole[k] = IF k < i THEN list[k] ELSE IF k = i THEN new ELSE list[k - 1]
  <2>1. CASE k <= i
    <3>1. whole[k] = (front \o <<new>>)[k]
      BY <2>1, <1>0, <1>2, <1>3
    <3> QED BY <2>1, <3>1, <1>3, <1>0
  <2>2. CASE k > i
    <3>1. whole[k] = back[k - i]
      BY <2>2, <1>0, <1>2, <1>3
    <3>2. k - i \in 1 .. Len(list) + 1 - i /\ i + (k - i) - 1 = k - 1
      BY <2>2, <1>0
    <3>3. whole[k] = list[k - 1]
      BY <3>1, <3>2, <1>2
    <3> HIDE DEF whole
    <3> QED BY <2>2, <3>3, <1>0
  <2> HIDE DEF whole
  <2> QED BY <2>1, <2>2, <1>0
<1>6. InsertAt(list, i, new) = whole
  BY DEF InsertAt, front, back
<1> HIDE DEF whole
<1>7. ToSet(whole) = ToSet(list) \cup {new}
  <2>0. DOMAIN whole = 1 .. Len(list) + 1 /\ DOMAIN list = 1 .. Len(list)
    BY <1>4, <1>0
  <2>1. ASSUME NEW k \in 1 .. Len(list) + 1 PROVE whole[k] \in ToSet(list) \cup {new}
    <3>1. k < i => k \in 1 .. Len(list)
      BY <1>0
    <3>2. k > i => k - 1 \in 1 .. Len(list)
      BY <1>0
    <3>3. k < i \/ k = i \/ k > i
      OBVIOUS
    <3> QED BY <3>1, <3>2, <3>3, <1>5, <2>0 DEF ToSet
  <2>2. \E k \in 1 .. Len(list) + 1 : whole[k] = new
    BY <1>5, <1>0
  <2>3. ASSUME NEW j \in 1 .. Len(list) PROVE \E k \in 1 .. Len(list) + 1 : whole[k] = list[j]
    <3>1. CASE j < i
      <4>1. j \in 1 .. Len(list) + 1 /\ whole[j] = list[j]
        BY <3>1, <1>5, <1>0
      <4> QED BY <4>1
    <3>2. CASE j >= i
      <4>1. j + 1 \in 1 .. Len(list) + 1 /\ ~(j + 1 < i) /\ j + 1 # i /\ (j + 1) - 1 = j
        BY <3>2, <1>0
      <4>2. whole[j + 1] = list[j]
        BY <4>1, <1>5
      <4> QED BY <4>1, <4>2
    <3> QED BY <3>1, <3>2
  <2>4. ToSet(whole) = {whole[k] : k \in 1 .. Len(list) + 1} /\ ToSet(list) = {list[j] : j \in 1 .. Len(list)}
    BY <2>0, <1>0 DEF ToSet
  <2> HIDE DEF whole
  <2>5. ToSet(whole) \subseteq ToSet(list) \cup {new}
    BY <2>1, <2>4
  <2>6. new \in ToSet(whole)
    BY <2>2, <2>4
  <2>7. ToSet(list) \subseteq ToSet(whole)
    BY <2>3, <2>4
  <2> QED BY <2>5, <2>6, <2>7
<1> QED BY <1>4, <1>5, <1>6, <1>7

\* The order of the members by their global indices.
Ascending(list) == \A i, j \in 1 .. Len(list) : i < j => list[i].global <= list[j].global

\* Inserting at the right place keeps the order.
LEMMA InsertAscending ==
  ASSUME NEW S, NEW list \in Seq(S), NEW new \in S, NEW i \in 1 .. Len(list) + 1,
         \A e \in S : e.global \in Int, Ascending(list),
         \A j \in 1 .. i - 1 : list[j].global <= new.global,
         i <= Len(list) => new.global <= list[i].global
  PROVE  Ascending(InsertAt(list, i, new))
<1> DEFINE out == InsertAt(list, i, new)
<1>0. Len(list) \in Nat /\ new.global \in Int /\ \A j \in 1 .. Len(list) : list[j].global \in Int
  OBVIOUS
<1>1. /\ Len(out) = Len(list) + 1
      /\ \A k \in 1 .. Len(list) + 1 :
           out[k] = IF k < i THEN list[k] ELSE IF k = i THEN new ELSE list[k - 1]
  BY InsertAtIs
<1> HIDE DEF out
<1>2. \A j \in i .. Len(list) : new.global <= list[j].global
  <2> SUFFICES ASSUME NEW j \in i .. Len(list) PROVE new.global <= list[j].global
    OBVIOUS
  <2>1. i \in 1 .. Len(list) /\ j \in 1 .. Len(list) /\ new.global <= list[i].global
    BY <1>0
  <2>2. i = j \/ list[i].global <= list[j].global
    BY <2>1 DEF Ascending
  <2> QED BY <2>1, <2>2, <1>0
<1>3. ASSUME NEW j \in 1 .. Len(list) + 1, NEW k \in 1 .. Len(list) + 1, j < k
      PROVE  out[j].global <= out[k].global
  <2>1. CASE k < i
    <3>1. out[j] = list[j] /\ out[k] = list[k] /\ j \in 1 .. Len(list) /\ k \in 1 .. Len(list)
      BY <2>1, <1>3, <1>1, <1>0
    <3> QED BY <3>1, <1>3 DEF Ascending
  <2>2. CASE k = i
    <3>1. out[j] = list[j] /\ out[k] = new /\ j \in 1 .. i - 1
      BY <2>2, <1>3, <1>1, <1>0
    <3> QED BY <3>1
  <2>3. CASE k > i /\ j < i
    <3>1. out[j] = list[j] /\ out[k] = list[k - 1] /\ j \in 1 .. Len(list) /\ k - 1 \in 1 .. Len(list)
      BY <2>3, <1>3, <1>1, <1>0
    <3>2. j \in 1 .. i - 1 /\ k - 1 \in i .. Len(list)
      BY <2>3, <1>0
    <3>3. list[j].global <= new.global /\ new.global <= list[k - 1].global
      BY <3>2, <1>2
    <3> QED BY <3>1, <3>3, <1>0
  <2>4. CASE k > i /\ j = i
    <3>1. out[j] = new /\ out[k] = list[k - 1] /\ k - 1 \in i .. Len(list)
      BY <2>4, <1>3, <1>1, <1>0
    <3> QED BY <3>1, <1>2
  <2>5. CASE k > i /\ j > i
    <3>1. out[j] = list[j - 1] /\ out[k] = list[k - 1]
      BY <2>5, <1>3, <1>1, <1>0
    <3>2. j - 1 \in 1 .. Len(list) /\ k - 1 \in 1 .. Len(list) /\ j - 1 < k - 1
      BY <2>5, <1>3, <1>0
    <3> QED BY <3>1, <3>2 DEF Ascending
  <2> QED BY <2>1, <2>2, <2>3, <2>4, <2>5
<1> QED BY <1>1, <1>3 DEF Ascending, out

\* insertIntoRemoteIndexList keeps the type and the order of the list.
LEMMA InsertType ==
  ASSUME NEW list \in Seq(RemoteIndex), NEW new \in RemoteIndex
  PROVE  /\ InsertIntoRemoteIndexList(list, new) \in Seq(RemoteIndex)
         /\ Ascending(list) => Ascending(InsertIntoRemoteIndexList(list, new))
<1> DEFINE skipped == PairsBelow(list, Pair(new))
           i == FirstFrom(list, skipped)
<1>0. Len(list) \in Nat /\ DOMAIN list = 1 .. Len(list)
  OBVIOUS
<1>1. /\ i \in 1 .. Len(list) + 1
      /\ \A j \in 1 .. i - 1 : list[j] \in skipped
      /\ i <= Len(list) => list[i] \notin skipped
  BY FirstFromIs
<1>2. \/ InsertIntoRemoteIndexList(list, new) = list
      \/ InsertIntoRemoteIndexList(list, new) = InsertAt(list, i, new)
  BY Zenon DEF InsertIntoRemoteIndexList
<1>3. InsertAt(list, i, new) \in Seq(RemoteIndex)
  BY <1>1, InsertAtIs
<1>4. \A e \in RemoteIndex : e.global \in Int /\ e.mine \in Int /\ e.theirs \in Int
  BY DEF RemoteIndex
<1>5. \A e \in RemoteIndex : PairLess(Pair(e), Pair(new)) =>  e.global <= new.global
  BY <1>4 DEF PairLess, Pair
<1>6. \A e \in RemoteIndex : ~PairLess(Pair(e), Pair(new)) =>  new.global <= e.global
  BY <1>4 DEF PairLess, Pair
<1>7. \A j \in 1 .. i - 1 : list[j].global <= new.global
  <2> SUFFICES ASSUME NEW j \in 1 .. i - 1 PROVE list[j].global <= new.global
    OBVIOUS
  <2>1. list[j] \in skipped /\ list[j] \in RemoteIndex
    <3>1. j \in 1 .. Len(list)
      BY <1>1, <1>0
    <3> QED BY <1>1, <3>1
  <2> QED BY <2>1, <1>5 DEF PairsBelow
<1>8. ASSUME i <= Len(list) PROVE new.global <= list[i].global
  <2>1. i \in 1 .. Len(list) /\ list[i] \notin skipped /\ list[i] \in RemoteIndex
    BY <1>8, <1>1, <1>0
  <2>2. list[i] \in ToSet(list)
    BY <2>1, <1>0 DEF ToSet
  <2> QED BY <2>1, <2>2, <1>6 DEF PairsBelow
<1> HIDE DEF i, skipped
<1>9. Ascending(list) => Ascending(InsertAt(list, i, new))
  BY <1>1, <1>4, <1>7, <1>8, InsertAscending
<1> QED BY <1>2, <1>3, <1>9

\* InsertAll inserts one entry after the other.
LEMMA InsertAllStep ==
  ASSUME NEW list \in Seq(RemoteIndex), NEW new \in Seq(RemoteIndex)
  PROVE  \E f \in [0 .. Len(new) -> Seq(RemoteIndex)] :
           /\ f[0] = list /\ InsertAll(list, new) = f[Len(new)]
           /\ \A i \in 1 .. Len(new) : f[i] = InsertIntoRemoteIndexList(f[i - 1], new[i])
<1> DEFINE next == [at \in (1 .. Len(new)) \X Seq(RemoteIndex) |->
                      InsertIntoRemoteIndexList(at[2], new[at[1]])]
<1>0. Len(new) \in Nat
  OBVIOUS
<1>1. ASSUME NEW i \in 1 .. Len(new), NEW v \in Seq(RemoteIndex)
      PROVE  /\ next[<<i, v>>] = InsertIntoRemoteIndexList(v, new[i])
             /\ next[<<i, v>>] \in Seq(RemoteIndex)
  <2>1. new[i] \in RemoteIndex
    OBVIOUS
  <2>2. InsertIntoRemoteIndexList(v, new[i]) \in Seq(RemoteIndex)
    BY <2>1, InsertType
  <2>3. <<i, v>> \in (1 .. Len(new)) \X Seq(RemoteIndex)
    OBVIOUS
  <2> QED BY <2>2, <2>3
<1> HIDE DEF next
<1>4. PICK f \in [0 .. Len(new) -> Seq(RemoteIndex)] : Recurs(f, Len(new), list, next)
  <2>1. \A i \in 1 .. Len(new), v \in Seq(RemoteIndex) : next[<<i, v>>] \in Seq(RemoteIndex)
    BY <1>1
  <2>2. list \in Seq(RemoteIndex)
    OBVIOUS
  <2> QED BY ONLY <1>0, <2>1, <2>2, Recursion, Zenon
<1>5. ASSUME NEW i \in 1 .. Len(new)
      PROVE  f[i] = InsertIntoRemoteIndexList(f[i - 1], new[i])
  <2>1. i - 1 \in 0 .. Len(new)
    BY <1>0
  <2> QED BY <1>1, <1>4, <2>1 DEF Recurs
<1> DEFINE body(g) == [i \in 0 .. Len(new) |->
                         IF i = 0 THEN list ELSE InsertIntoRemoteIndexList(g[i - 1], new[i])]
           upto == CHOOSE g : g = body(g)
<1>6. f = body(f)
  <2>1. ASSUME NEW i \in 0 .. Len(new) PROVE f[i] = body(f)[i]
    <3>1. i = 0 \/ i \in 1 .. Len(new)
      BY <1>0
    <3> QED BY <3>1, <1>4, <1>5 DEF Recurs
  <2> QED BY <2>1
<1>7. upto = body(upto)
  <2> HIDE DEF body
  <2> QED BY <1>6
<1>8. InsertAll(list, new) = upto[Len(new)]
  BY Zenon DEF InsertAll
<1> HIDE DEF upto
<1>9. \A i \in 0 .. Len(new) : upto[i] = f[i]
  <2> DEFINE T == {i \in 0 .. Len(new) : upto[i] = f[i]}
  <2>1. 0 \in T
    BY <1>0, <1>4, <1>7 DEF Recurs
  <2>2. ASSUME NEW i \in 1 .. Len(new), i - 1 \in T PROVE i \in T
    <3>1. upto[i] = InsertIntoRemoteIndexList(upto[i - 1], new[i])
      <4>1. i \in 0 .. Len(new) /\ i # 0
        BY <1>0
      <4> QED BY <4>1, <1>7
    <3>2. i \in 0 .. Len(new)
      BY <1>0
    <3> QED BY <2>2, <3>1, <3>2, <1>5
  <2>3. T = 0 .. Len(new)
    <3> HIDE DEF T
    <3> QED BY <1>0, <2>1, <2>2, InductionUpTo DEF T
  <2> QED BY <2>3
<1> QED BY <1>0, <1>4, <1>5, <1>8, <1>9 DEF Recurs

-----------------------------------------------------------------------------
(* What the insertions add to the lists and to the index set.              *)

\* Everything listed for a process has the attribute it has there.
OneTheirs(set) == \A d, e \in set : d.global = e.global => d.theirs = e.theirs

\* If a process has one attribute for an index, inserting an entry adds it and nothing
\* else, and an entry taken to be there is there.
LEMMA InsertMembers ==
  ASSUME NEW list \in Seq(RemoteIndex), NEW new \in RemoteIndex,
         OneTheirs(ToSet(list) \cup {new})
  PROVE  ToSet(InsertIntoRemoteIndexList(list, new)) = ToSet(list) \cup {new}
<1> DEFINE skipped == PairsBelow(list, Pair(new))
           i == FirstFrom(list, skipped)
<1>0. Len(list) \in Nat /\ DOMAIN list = 1 .. Len(list)
  OBVIOUS
<1>1. i \in 1 .. Len(list) + 1
  BY FirstFromIs
<1>2. \/ /\ InsertIntoRemoteIndexList(list, new) = list
         /\ i <= Len(list) /\ Pair(list[i]) = Pair(new)
      \/ InsertIntoRemoteIndexList(list, new) = InsertAt(list, i, new)
  <2> HIDE DEF i
  <2> QED BY Zenon DEF InsertIntoRemoteIndexList, i
<1> HIDE DEF i, skipped
<1>3. ToSet(InsertAt(list, i, new)) = ToSet(list) \cup {new}
  BY <1>1, InsertAtIs
<1>4. ASSUME i <= Len(list), Pair(list[i]) = Pair(new) PROVE new \in ToSet(list)
  <2>1. i \in 1 .. Len(list)
    BY <1>0, <1>1, <1>4
  <2>2. list[i] \in ToSet(list) /\ list[i] \in RemoteIndex
    BY <1>0, <2>1 DEF ToSet
  <2>3. list[i].global = new.global /\ list[i].mine = new.mine
    BY <1>4 DEF Pair
  <2>4. list[i].theirs = new.theirs
    BY <2>2, <2>3 DEF OneTheirs
  <2>5. list[i] = new
    <3>1. \A e \in RemoteIndex : e = [global |-> e.global, mine |-> e.mine, theirs |-> e.theirs]
      BY DEF RemoteIndex
    <3>2. new \in RemoteIndex
      OBVIOUS
    <3> QED BY <2>2, <2>3, <2>4, <3>1, <3>2
  <2> QED BY <2>2, <2>5
<1>5. CASE InsertIntoRemoteIndexList(list, new) = list /\ i <= Len(list) /\ Pair(list[i]) = Pair(new)
  BY <1>4, <1>5
<1>6. CASE InsertIntoRemoteIndexList(list, new) = InsertAt(list, i, new)
  BY <1>3, <1>6
<1> QED BY <1>2, <1>5, <1>6

\* So does inserting entries one after the other, and the order is kept.
LEMMA InsertAllIs ==
  ASSUME NEW list \in Seq(RemoteIndex), NEW new \in Seq(RemoteIndex)
  PROVE  /\ InsertAll(list, new) \in Seq(RemoteIndex)
         /\ Ascending(list) => Ascending(InsertAll(list, new))
         /\ OneTheirs(ToSet(list) \cup ToSet(new))
              => ToSet(InsertAll(list, new)) = ToSet(list) \cup ToSet(new)
<1>0. Len(new) \in Nat /\ DOMAIN new = 1 .. Len(new)
  OBVIOUS
<1>1. PICK f \in [0 .. Len(new) -> Seq(RemoteIndex)] :
        /\ f[0] = list /\ InsertAll(list, new) = f[Len(new)]
        /\ \A i \in 1 .. Len(new) : f[i] = InsertIntoRemoteIndexList(f[i - 1], new[i])
  BY InsertAllStep
<1>2. InsertAll(list, new) \in Seq(RemoteIndex)
  BY <1>0, <1>1
<1>3. ASSUME Ascending(list) PROVE Ascending(InsertAll(list, new))
  <2> DEFINE T == {i \in 0 .. Len(new) : Ascending(f[i])}
  <2>1. 0 \in T
    BY <1>0, <1>1, <1>3
  <2>2. ASSUME NEW i \in 1 .. Len(new), i - 1 \in T PROVE i \in T
    <3>1. i \in 0 .. Len(new) /\ i - 1 \in 0 .. Len(new)
      BY <1>0
    <3>2. f[i - 1] \in Seq(RemoteIndex) /\ new[i] \in RemoteIndex
      BY <3>1
    <3>3. Ascending(f[i])
      BY <1>1, <2>2, <3>2, InsertType
    <3> QED BY <3>1, <3>3
  <2>3. T = 0 .. Len(new)
    <3>1. T \subseteq 0 .. Len(new)
      OBVIOUS
    <3> HIDE DEF T
    <3> QED BY <1>0, <2>1, <2>2, <3>1, InductionUpTo
  <2>4. Len(new) \in T
    <3> HIDE DEF T
    <3> QED BY <1>0, <2>3
  <2> QED BY <1>1, <2>4
<1>4. ASSUME OneTheirs(ToSet(list) \cup ToSet(new))
      PROVE  ToSet(InsertAll(list, new)) = ToSet(list) \cup ToSet(new)
  <2> DEFINE T == {i \in 0 .. Len(new) : ToSet(f[i]) = ToSet(list) \cup {new[j] : j \in 1 .. i}}
  <2>1. 0 \in T
    BY <1>0, <1>1
  <2>2. ASSUME NEW i \in 1 .. Len(new), i - 1 \in T PROVE i \in T
    <3>1. i \in 0 .. Len(new) /\ i - 1 \in 0 .. Len(new)
      BY <1>0
    <3>2. f[i - 1] \in Seq(RemoteIndex) /\ new[i] \in RemoteIndex
      BY <3>1
    <3>3. ToSet(f[i - 1]) = ToSet(list) \cup {new[j] : j \in 1 .. i - 1}
      BY <2>2
    <3>4. \A j \in 1 .. i : new[j] \in ToSet(new)
      BY <1>0 DEF ToSet
    <3>5. OneTheirs(ToSet(f[i - 1]) \cup {new[i]})
      <4>1. ToSet(f[i - 1]) \cup {new[i]} \subseteq ToSet(list) \cup ToSet(new)
        BY <3>1, <3>3, <3>4
      <4> QED BY <1>4, <4>1 DEF OneTheirs
    <3>6. ToSet(f[i]) = ToSet(f[i - 1]) \cup {new[i]}
      BY <1>1, <3>2, <3>5, InsertMembers
    <3>7. {new[j] : j \in 1 .. i} = {new[j] : j \in 1 .. i - 1} \cup {new[i]}
      <4>1. 1 .. i = (1 .. i - 1) \cup {i}
        BY <3>1
      <4> QED BY <4>1
    <3> QED BY <3>1, <3>3, <3>6, <3>7
  <2>3. T = 0 .. Len(new)
    <3>1. T \subseteq 0 .. Len(new)
      OBVIOUS
    <3> HIDE DEF T
    <3> QED BY <1>0, <2>1, <2>2, <3>1, InductionUpTo
  <2>4. Len(new) \in T
    <3> HIDE DEF T
    <3> QED BY <1>0, <2>3
  <2>5. {new[j] : j \in 1 .. Len(new)} = ToSet(new)
    BY <1>0 DEF ToSet
  <2> QED BY <1>1, <2>4, <2>5
<1> QED BY <1>2, <1>3, <1>4

\* Merge sorts the added pairs into the index set.
LEMMA MergeStep ==
  ASSUME NEW set \in Seq(IndexPair), NEW new \in Seq(IndexPair)
  PROVE  \E f \in [0 .. Len(new) -> Seq(IndexPair)] :
           /\ f[0] = set /\ Merge(set, new) = f[Len(new)]
           /\ \A i \in 1 .. Len(new) :
                /\ ToSet(f[i]) = ToSet(f[i - 1]) \cup {new[i]}
                /\ Ascending(f[i - 1]) => Ascending(f[i])
<1> DEFINE place(v, i) == FirstFrom(v, {p \in ToSet(v) : ~PairLess(new[i], p)})
           next == [at \in (1 .. Len(new)) \X Seq(IndexPair) |->
                      InsertAt(at[2], place(at[2], at[1]), new[at[1]])]
<1>0. Len(new) \in Nat
  OBVIOUS
<1>1. ASSUME NEW i \in 1 .. Len(new), NEW v \in Seq(IndexPair)
      PROVE  /\ next[<<i, v>>] = InsertAt(v, place(v, i), new[i])
             /\ next[<<i, v>>] \in Seq(IndexPair)
             /\ ToSet(next[<<i, v>>]) = ToSet(v) \cup {new[i]}
             /\ Ascending(v) => Ascending(next[<<i, v>>])
  <2>0. new[i] \in IndexPair /\ Len(v) \in Nat /\ DOMAIN v = 1 .. Len(v)
    OBVIOUS
  <2> DEFINE skipped == {p \in ToSet(v) : ~PairLess(new[i], p)}
             k == FirstFrom(v, skipped)
  <2>1. /\ k \in 1 .. Len(v) + 1
        /\ \A j \in 1 .. k - 1 : v[j] \in skipped
        /\ k <= Len(v) => v[k] \notin skipped
    BY FirstFromIs
  <2>2. <<i, v>> \in (1 .. Len(new)) \X Seq(IndexPair)
    OBVIOUS
  <2>3. next[<<i, v>>] = InsertAt(v, k, new[i])
    BY <2>2
  <2>4. \A e \in IndexPair : e.global \in Int /\ e.attribute \in Int
    BY DEF IndexPair
  <2>5. \A j \in 1 .. k - 1 : v[j].global <= new[i].global
    <3> SUFFICES ASSUME NEW j \in 1 .. k - 1 PROVE v[j].global <= new[i].global
      OBVIOUS
    <3>1. j \in 1 .. Len(v)
      BY <2>0, <2>1
    <3>2. v[j] \in IndexPair /\ ~PairLess(new[i], v[j])
      BY <2>1, <3>1
    <3> QED BY <2>0, <2>4, <3>2 DEF PairLess
  <2>6. ASSUME k <= Len(v) PROVE new[i].global <= v[k].global
    <3>1. k \in 1 .. Len(v) /\ v[k] \in IndexPair
      BY <2>0, <2>1, <2>6
    <3>2. v[k] \in ToSet(v)
      BY <2>0, <3>1 DEF ToSet
    <3>3. PairLess(new[i], v[k])
      BY <2>1, <2>6, <3>2
    <3>4. new[i].global \in Int /\ v[k].global \in Int
      BY <2>0, <2>4, <3>1
    <3>5. new[i].global < v[k].global \/ new[i].global = v[k].global
      BY <3>3 DEF PairLess
    <3> HIDE DEF k
    <3> QED BY <3>4, <3>5
  <2> HIDE DEF k
  <2>7. /\ InsertAt(v, k, new[i]) \in Seq(IndexPair)
        /\ ToSet(InsertAt(v, k, new[i])) = ToSet(v) \cup {new[i]}
    BY <2>0, <2>1, InsertAtIs
  <2>8. Ascending(v) => Ascending(InsertAt(v, k, new[i]))
    BY <2>0, <2>1, <2>4, <2>5, <2>6, InsertAscending
  <2> HIDE DEF next
  <2> QED BY <2>3, <2>7, <2>8 DEF k
<1> HIDE DEF next
<1>4. PICK f \in [0 .. Len(new) -> Seq(IndexPair)] : Recurs(f, Len(new), set, next)
  <2>1. \A i \in 1 .. Len(new), v \in Seq(IndexPair) : next[<<i, v>>] \in Seq(IndexPair)
    BY <1>1
  <2>2. set \in Seq(IndexPair)
    OBVIOUS
  <2> QED BY ONLY <1>0, <2>1, <2>2, Recursion, Zenon
<1>5. ASSUME NEW i \in 1 .. Len(new)
      PROVE  /\ f[i] = InsertAt(f[i - 1], place(f[i - 1], i), new[i])
             /\ ToSet(f[i]) = ToSet(f[i - 1]) \cup {new[i]}
             /\ Ascending(f[i - 1]) => Ascending(f[i])
  <2>1. i - 1 \in 0 .. Len(new)
    BY <1>0
  <2>2. f[i] = next[<<i, f[i - 1]>>] /\ f[i - 1] \in Seq(IndexPair)
    BY <1>4, <2>1 DEF Recurs
  <2> HIDE DEF place
  <2> QED BY <1>1, <2>2
<1> DEFINE body(g) == [i \in 0 .. Len(new) |->
                         IF i = 0 THEN set
                         ELSE InsertAt(g[i - 1], FirstFrom(g[i - 1], {p \in ToSet(g[i - 1]) :
                                                            ~PairLess(new[i], p)}), new[i])]
           upto == CHOOSE g : g = body(g)
<1>6. f = body(f)
  <2>1. ASSUME NEW i \in 0 .. Len(new) PROVE f[i] = body(f)[i]
    <3>1. i = 0 \/ i \in 1 .. Len(new)
      BY <1>0
    <3> QED BY <3>1, <1>4, <1>5 DEF Recurs
  <2> QED BY <2>1
<1>7. upto = body(upto)
  <2> HIDE DEF body
  <2> QED BY <1>6
<1>8. Merge(set, new) = upto[Len(new)]
  BY Zenon DEF Merge
<1> HIDE DEF upto
<1>9. \A i \in 0 .. Len(new) : upto[i] = f[i]
  <2> DEFINE T == {i \in 0 .. Len(new) : upto[i] = f[i]}
  <2>1. 0 \in T
    BY <1>0, <1>4, <1>7 DEF Recurs
  <2>2. ASSUME NEW i \in 1 .. Len(new), i - 1 \in T PROVE i \in T
    <3>1. upto[i] = InsertAt(upto[i - 1], place(upto[i - 1], i), new[i])
      <4>1. i \in 0 .. Len(new) /\ i # 0
        BY <1>0
      <4> QED BY <4>1, <1>7
    <3>2. i \in 0 .. Len(new) /\ upto[i - 1] = f[i - 1]
      BY <1>0, <2>2
    <3> HIDE DEF place
    <3> QED BY <3>1, <3>2, <1>5
  <2>3. T = 0 .. Len(new)
    <3> HIDE DEF T
    <3> QED BY <1>0, <2>1, <2>2, InductionUpTo DEF T
  <2> QED BY <2>3
<1> HIDE DEF place
<1>10. f[0] = set /\ Merge(set, new) = f[Len(new)]
  <2>1. Len(new) \in 0 .. Len(new)
    BY <1>0
  <2> QED BY <2>1, <1>4, <1>8, <1>9 DEF Recurs
<1>11. \A i \in 1 .. Len(new) : /\ ToSet(f[i]) = ToSet(f[i - 1]) \cup {new[i]}
                                /\ Ascending(f[i - 1]) => Ascending(f[i])
  BY <1>5
<1> QED BY <1>10, <1>11

\* So does sorting the added pairs in, and a sorted index set stays sorted.
LEMMA MergeIs ==
  ASSUME NEW set \in Seq(IndexPair), NEW new \in Seq(IndexPair)
  PROVE  /\ Merge(set, new) \in Seq(IndexPair)
         /\ ToSet(Merge(set, new)) = ToSet(set) \cup ToSet(new)
         /\ Ascending(set) => Ascending(Merge(set, new))
<1>0. Len(new) \in Nat /\ DOMAIN new = 1 .. Len(new)
  OBVIOUS
<1>1. PICK f \in [0 .. Len(new) -> Seq(IndexPair)] :
        /\ f[0] = set /\ Merge(set, new) = f[Len(new)]
        /\ \A i \in 1 .. Len(new) :
             /\ ToSet(f[i]) = ToSet(f[i - 1]) \cup {new[i]}
             /\ Ascending(f[i - 1]) => Ascending(f[i])
  BY MergeStep
<1> DEFINE T == {i \in 0 .. Len(new) : /\ ToSet(f[i]) = ToSet(set) \cup {new[j] : j \in 1 .. i}
                                       /\ Ascending(set) => Ascending(f[i])}
<1>2. 0 \in T
  BY <1>0, <1>1
<1>3. ASSUME NEW i \in 1 .. Len(new), i - 1 \in T PROVE i \in T
  <2>1. i \in 0 .. Len(new)
    BY <1>0
  <2>2. {new[j] : j \in 1 .. i} = {new[j] : j \in 1 .. i - 1} \cup {new[i]}
    <3>1. 1 .. i = (1 .. i - 1) \cup {i}
      BY <2>1
    <3> QED BY <3>1
  <2>3. /\ ToSet(f[i - 1]) = ToSet(set) \cup {new[j] : j \in 1 .. i - 1}
        /\ Ascending(set) => Ascending(f[i - 1])
    BY <1>3
  <2> QED BY <1>1, <2>1, <2>2, <2>3
<1>4. T = 0 .. Len(new)
  <2>1. T \subseteq 0 .. Len(new)
    OBVIOUS
  <2> HIDE DEF T
  <2> QED BY <1>0, <1>2, <1>3, <2>1, InductionUpTo
<1>5. Len(new) \in T
  <2> HIDE DEF T
  <2> QED BY <1>0, <1>4
<1>6. {new[j] : j \in 1 .. Len(new)} = ToSet(new) /\ f[Len(new)] \in Seq(IndexPair)
  BY <1>0 DEF ToSet
<1> QED BY <1>1, <1>5, <1>6

-----------------------------------------------------------------------------
(* The messages.                                                           *)

MessageEntry == [global : Int, attribute : Int, pairs : SUBSET (Rank \X Int)]

\* What packAndSend finds in the lists ls of a process for a global index, and what it
\* packs into the message for d from them and the index set.
KnownIn(ls, global) ==
  {q \in DOMAIN ls : LET i == FirstFrom(ls[q], GlobalsBelow(ls[q], global))
                     IN i <= Len(ls[q]) /\ ls[q][i].global = global}
TheirsIn(ls, q, global) == ls[q][FirstFrom(ls[q], GlobalsBelow(ls[q], global))].theirs
EntryOf(ls, pair) ==
  [global |-> pair.global, attribute |-> pair.attribute,
   pairs |-> {<<q, TheirsIn(ls, q, pair.global)>> : q \in KnownIn(ls, pair.global)}]
SharedWith(set, ls, d) == {i \in DOMAIN set : d \in KnownIn(ls, set[i].global)}
EntriesOf(set, ls, d) ==
  [i \in DOMAIN Subsequence(set, SharedWith(set, ls, d)) |->
     EntryOf(ls, Subsequence(set, SharedWith(set, ls, d))[i])]

\* The message of packAndSend, by what is in the lists.
LEMMA MessageIs ==
  ASSUME NEW r, NEW d
  PROVE  Message(r, d) = [round |-> round[r] + 1, publish |-> Publish(r, d),
                          entries |-> EntriesOf(indexSet[r], lists[r], d)]
<1>1. \A g : KnownBy(r, g) = KnownIn(lists[r], g)
  BY Zenon DEF KnownBy, KnownIn
<1> QED BY <1>1, Zenon DEF Message, EntriesOf, EntryOf, SharedWith, TheirsIn

\* Whoever is found for an index has an attribute in the lists.
LEMMA TheirsType ==
  ASSUME NEW ls, ls \in [DOMAIN ls -> Seq(RemoteIndex)], NEW g \in Int, NEW q \in KnownIn(ls, g)
  PROVE  /\ q \in DOMAIN ls /\ TheirsIn(ls, q, g) \in Int
         /\ \E e \in ToSet(ls[q]) : e.global = g /\ e.theirs = TheirsIn(ls, q, g)
<1>1. q \in DOMAIN ls /\ ls[q] \in Seq(RemoteIndex)
  BY DEF KnownIn
<1> DEFINE i == FirstFrom(ls[q], GlobalsBelow(ls[q], g))
<1>2. i \in 1 .. Len(ls[q]) + 1
  BY <1>1, FirstFromIs
<1>3. i <= Len(ls[q]) /\ ls[q][i].global = g
  BY DEF KnownIn
<1>4. TheirsIn(ls, q, g) = ls[q][i].theirs
  BY DEF TheirsIn
<1> HIDE DEF i
<1>5. i \in 1 .. Len(ls[q]) /\ Len(ls[q]) \in Nat /\ DOMAIN ls[q] = 1 .. Len(ls[q])
  BY <1>1, <1>2, <1>3
<1>6. ls[q][i] \in RemoteIndex /\ ls[q][i] \in ToSet(ls[q])
  BY <1>1, <1>5 DEF ToSet
<1>7. ls[q][i].theirs \in Int
  BY <1>6 DEF RemoteIndex
<1> QED BY <1>1, <1>3, <1>4, <1>6, <1>7

\* The message has an entry for every index that d shares.
LEMMA EntriesAre ==
  ASSUME NEW set \in Seq(IndexPair), NEW ls, ls \in [DOMAIN ls -> Seq(RemoteIndex)],
         DOMAIN ls \subseteq Rank, NEW d
  PROVE  /\ EntriesOf(set, ls, d) \in Seq(MessageEntry)
         /\ Len(EntriesOf(set, ls, d)) = Cardinality(SharedWith(set, ls, d))
         /\ ToSet(EntriesOf(set, ls, d)) = {EntryOf(ls, set[i]) : i \in SharedWith(set, ls, d)}
<1> DEFINE sub == Subsequence(set, SharedWith(set, ls, d))
           es == [i \in DOMAIN sub |-> EntryOf(ls, sub[i])]
<1>1. SharedWith(set, ls, d) \in SUBSET DOMAIN set
  BY DEF SharedWith
<1>2. /\ sub \in Seq(IndexPair) /\ ToSet(sub) = {set[i] : i \in SharedWith(set, ls, d)}
      /\ Len(sub) = Cardinality(SharedWith(set, ls, d))
  BY <1>1, SubsequenceMembers
<1>3. EntriesOf(set, ls, d) = es
  BY DEF EntriesOf
<1> HIDE DEF sub
<1>4. Len(sub) \in Nat /\ DOMAIN sub = 1 .. Len(sub)
  BY <1>2
<1>5. ASSUME NEW pair \in IndexPair PROVE EntryOf(ls, pair) \in MessageEntry
  <2>1. pair.global \in Int /\ pair.attribute \in Int
    BY DEF IndexPair
  <2>2. {<<q, TheirsIn(ls, q, pair.global)>> : q \in KnownIn(ls, pair.global)} \in SUBSET (Rank \X Int)
    <3> SUFFICES ASSUME NEW q \in KnownIn(ls, pair.global)
                 PROVE  <<q, TheirsIn(ls, q, pair.global)>> \in Rank \X Int
      OBVIOUS
    <3>1. q \in DOMAIN ls /\ TheirsIn(ls, q, pair.global) \in Int
      BY <2>1, TheirsType
    <3>2. q \in Rank
      BY <3>1
    <3> QED BY <3>1, <3>2
  <2> QED BY <2>1, <2>2 DEF EntryOf, MessageEntry
<1>6. \A i \in 1 .. Len(sub) : EntryOf(ls, sub[i]) \in MessageEntry
  BY <1>2, <1>5
<1>7. es \in Seq(MessageEntry) /\ Len(es) = Len(sub) /\ DOMAIN es = DOMAIN sub
  BY <1>4, <1>6
<1>8. ToSet(es) = {EntryOf(ls, e) : e \in ToSet(sub)}
  BY <1>7 DEF ToSet
<1> HIDE DEF es
<1>9. ToSet(es) = {EntryOf(ls, set[i]) : i \in SharedWith(set, ls, d)}
  BY <1>2, <1>8
<1> QED BY <1>2, <1>3, <1>7, <1>9

\* The receiver finds its own attribute in an entry, and those of the others.
LEMMA OwnAttribute ==
  ASSUME NEW ls, NEW pair, NEW r \in KnownIn(ls, pair.global)
  PROVE  MyAttribute(r, EntryOf(ls, pair)) = TheirsIn(ls, r, pair.global)
<1> DEFINE pairs == {<<q, TheirsIn(ls, q, pair.global)>> : q \in KnownIn(ls, pair.global)}
<1>1. EntryOf(ls, pair).pairs = pairs
  BY DEF EntryOf
<1>2. <<r, TheirsIn(ls, r, pair.global)>> \in pairs
  OBVIOUS
<1>3. \A p \in pairs : p[1] = r => p = <<r, TheirsIn(ls, r, pair.global)>>
  OBVIOUS
<1> HIDE DEF pairs
<1>4. (CHOOSE p \in pairs : p[1] = r) = <<r, TheirsIn(ls, r, pair.global)>>
  <2>1. \E p \in pairs : p[1] = r
    BY <1>2
  <2> QED BY <1>3, <2>1
<1>5. MyAttribute(r, EntryOf(ls, pair)) = (CHOOSE p \in pairs : p[1] = r)[2]
  BY <1>1, Zenon DEF MyAttribute
<1>6. <<r, TheirsIn(ls, r, pair.global)>>[2] = TheirsIn(ls, r, pair.global)
  OBVIOUS
<1> QED BY <1>4, <1>5, <1>6, Zenon

\* What an entry says of q, if it does: the attribute of the sender itself, or that
\* in the sender's lists.
About(r, source, ls, q, pair) ==
  q = source \/ (q # r /\ q \in KnownIn(ls, pair.global))
TheirsOf(source, ls, q, pair) ==
  IF q = source THEN pair.attribute ELSE TheirsIn(ls, q, pair.global)

AttributeOf(all, q) == (CHOOSE p \in all : p[1] = q)[2]

\* recvAndUnpack finds in an entry what it says, of the sender and of the others.
LEMMA SourceAttribute ==
  ASSUME NEW ls, NEW pair, NEW r, NEW source, source \notin DOMAIN ls, NEW q
  PROVE  /\ (\E p \in SourceAttributes(r, source, EntryOf(ls, pair)) : p[1] = q)
              <=> About(r, source, ls, q, pair)
         /\ About(r, source, ls, q, pair)
              => AttributeOf(SourceAttributes(r, source, EntryOf(ls, pair)), q)
                   = TheirsOf(source, ls, q, pair)
<1> DEFINE all == SourceAttributes(r, source, EntryOf(ls, pair))
<1>1. all = {<<source, pair.attribute>>}
              \cup {<<p, TheirsIn(ls, p, pair.global)>> : p \in KnownIn(ls, pair.global) \ {r}}
  BY DEF SourceAttributes, EntryOf
<1>2. source \notin KnownIn(ls, pair.global)
  BY DEF KnownIn
<1> HIDE DEF all
<1>3. (\E p \in all : p[1] = q) <=> About(r, source, ls, q, pair)
  <2>1. ASSUME NEW p \in all, p[1] = q PROVE About(r, source, ls, q, pair)
    <3>1. CASE p = <<source, pair.attribute>>
      BY <2>1, <3>1 DEF About
    <3>2. CASE p \in {<<t, TheirsIn(ls, t, pair.global)>> : t \in KnownIn(ls, pair.global) \ {r}}
      BY <2>1, <3>2 DEF About
    <3> QED BY <1>1, <3>1, <3>2
  <2>2. ASSUME About(r, source, ls, q, pair) PROVE \E p \in all : p[1] = q
    <3>1. CASE q = source
      <4>1. <<source, pair.attribute>> \in all
        BY <1>1
      <4> QED BY <3>1, <4>1
    <3>2. CASE q # r /\ q \in KnownIn(ls, pair.global)
      <4>1. <<q, TheirsIn(ls, q, pair.global)>> \in all
        BY <1>1, <3>2
      <4> QED BY <4>1
    <3> QED BY <2>2, <3>1, <3>2 DEF About
  <2> QED BY <2>1, <2>2
<1>4. \A p \in all : p[1] = q => p = <<q, TheirsOf(source, ls, q, pair)>>
  BY <1>1, <1>2 DEF TheirsOf
<1>5. ASSUME About(r, source, ls, q, pair)
      PROVE  (CHOOSE p \in all : p[1] = q)[2] = TheirsOf(source, ls, q, pair)
  <2>1. \E p \in all : p[1] = q
    BY <1>3, <1>5
  <2>2. (CHOOSE p \in all : p[1] = q) = <<q, TheirsOf(source, ls, q, pair)>>
    BY <1>4, <2>1
  <2>3. <<q, TheirsOf(source, ls, q, pair)>>[2] = TheirsOf(source, ls, q, pair)
    OBVIOUS
  <2> QED BY <2>2, <2>3, Zenon
<1> QED BY <1>3, <1>5 DEF all, AttributeOf

NewEntry(r, source, ls, q, pair) ==
  [global |-> pair.global, mine |-> TheirsIn(ls, r, pair.global),
   theirs |-> TheirsOf(source, ls, q, pair)]
AboutIn(r, source, set, ls, q) ==
  {i \in SharedWith(set, ls, r) : About(r, source, ls, q, set[i])}

\* What is inserted is an entry of a list.
LEMMA NewEntryType ==
  ASSUME NEW set \in Seq(IndexPair), NEW ls, ls \in [DOMAIN ls -> Seq(RemoteIndex)],
         NEW r, NEW source, NEW q, NEW i \in AboutIn(r, source, set, ls, q)
  PROVE  /\ set[i] \in IndexPair /\ r \in KnownIn(ls, set[i].global)
         /\ TheirsIn(ls, r, set[i].global) \in Int
         /\ NewEntry(r, source, ls, q, set[i]) \in RemoteIndex
<1>1. i \in DOMAIN set /\ r \in KnownIn(ls, set[i].global) /\ About(r, source, ls, q, set[i])
  BY DEF AboutIn, SharedWith
<1>2. set[i] \in IndexPair
  BY <1>1
<1>3. set[i].global \in Int /\ set[i].attribute \in Int
  BY <1>2 DEF IndexPair
<1>4. TheirsIn(ls, r, set[i].global) \in Int
  BY <1>1, <1>3, TheirsType
<1>5. TheirsOf(source, ls, q, set[i]) \in Int
  <2>1. CASE q = source
    BY <2>1, <1>3 DEF TheirsOf
  <2>2. CASE q # source
    <3>1. q \in KnownIn(ls, set[i].global)
      BY <1>1, <2>2 DEF About
    <3>2. TheirsIn(ls, q, set[i].global) \in Int
      BY <3>1, <1>3, TheirsType
    <3> QED BY <2>2, <3>2 DEF TheirsOf
  <2> QED BY <2>1, <2>2
<1> QED BY <1>1, <1>2, <1>3, <1>4, <1>5 DEF NewEntry, RemoteIndex

\* The entries for q that a message holds.
LEMMA EntriesForAre ==
  ASSUME NEW set \in Seq(IndexPair), NEW ls, ls \in [DOMAIN ls -> Seq(RemoteIndex)],
         DOMAIN ls \subseteq Rank, NEW r, NEW source, source \notin DOMAIN ls, NEW q
  PROVE  /\ EntriesFor(r, source, q, EntriesOf(set, ls, r)) \in Seq(RemoteIndex)
         /\ ToSet(EntriesFor(r, source, q, EntriesOf(set, ls, r)))
              = {NewEntry(r, source, ls, q, set[i]) : i \in AboutIn(r, source, set, ls, q)}
<1> DEFINE es == EntriesOf(set, ls, r)
           positions == {i \in DOMAIN es : \E p \in SourceAttributes(r, source, es[i]) : p[1] = q}
           about == Subsequence(es, positions)
           made(e) == [global |-> e.global, mine |-> MyAttribute(r, e),
                       theirs |-> AttributeOf(SourceAttributes(r, source, e), q)]
           out == [i \in DOMAIN about |-> made(about[i])]
           names(e) == \E p \in SourceAttributes(r, source, e) : p[1] = q
           news == {NewEntry(r, source, ls, q, set[i]) : i \in AboutIn(r, source, set, ls, q)}
<1>1. /\ es \in Seq(MessageEntry)
      /\ ToSet(es) = {EntryOf(ls, set[i]) : i \in SharedWith(set, ls, r)}
  BY EntriesAre
<1>2. EntriesFor(r, source, q, es) = out
  BY Zenon DEF EntriesFor, AttributeOf
<1>3. ASSUME NEW i \in SharedWith(set, ls, r)
      PROVE  /\ names(EntryOf(ls, set[i])) <=> About(r, source, ls, q, set[i])
             /\ About(r, source, ls, q, set[i])
                  => made(EntryOf(ls, set[i])) = NewEntry(r, source, ls, q, set[i])
  <2>1. r \in KnownIn(ls, set[i].global)
    BY DEF SharedWith
  <2>2. MyAttribute(r, EntryOf(ls, set[i])) = TheirsIn(ls, r, set[i].global)
    BY <2>1, OwnAttribute
  <2>3. /\ (\E p \in SourceAttributes(r, source, EntryOf(ls, set[i])) : p[1] = q)
             <=> About(r, source, ls, q, set[i])
        /\ About(r, source, ls, q, set[i])
             => AttributeOf(SourceAttributes(r, source, EntryOf(ls, set[i])), q)
                  = TheirsOf(source, ls, q, set[i])
    BY SourceAttribute
  <2>4. EntryOf(ls, set[i]).global = set[i].global
    BY DEF EntryOf
  <2> QED BY <2>2, <2>3, <2>4, Zenon DEF NewEntry
<1> HIDE DEF es, made, names
<1>4. positions \in SUBSET DOMAIN es
  OBVIOUS
<1>5. about \in Seq(MessageEntry) /\ ToSet(about) = {es[i] : i \in positions}
  BY <1>1, <1>4, SubsequenceMembers
<1>6. \A i \in DOMAIN es : i \in positions <=> names(es[i])
  BY DEF names
<1> HIDE DEF positions, about
<1>7. Len(about) \in Nat /\ DOMAIN about = 1 .. Len(about) /\ DOMAIN es = 1 .. Len(es)
  BY <1>1, <1>5
<1>8. ToSet(about) = {e \in ToSet(es) : names(e)}
  <2>1. positions \subseteq DOMAIN es
    BY <1>4
  <2> QED BY <1>5, <1>6, <2>1 DEF ToSet
<1>9. DOMAIN out = 1 .. Len(about) /\ \A i \in 1 .. Len(about) : out[i] = made(about[i])
  BY <1>7
<1> HIDE DEF out
<1>10. \A i \in 1 .. Len(about) : about[i] \in ToSet(about)
  BY <1>7 DEF ToSet
<1>11. {made(e) : e \in ToSet(about)} = news
  <2>1. ASSUME NEW e \in ToSet(about) PROVE made(e) \in news
    <3>1. PICK i \in SharedWith(set, ls, r) : e = EntryOf(ls, set[i])
      BY <1>1, <1>8
    <3>2. About(r, source, ls, q, set[i])
      BY <3>1, <1>3, <1>8
    <3> QED BY <3>1, <3>2, <1>3 DEF AboutIn
  <2>2. ASSUME NEW i \in AboutIn(r, source, set, ls, q)
        PROVE  \E e \in ToSet(about) : made(e) = NewEntry(r, source, ls, q, set[i])
    <3>1. i \in SharedWith(set, ls, r) /\ About(r, source, ls, q, set[i])
      BY DEF AboutIn
    <3>2. EntryOf(ls, set[i]) \in ToSet(about)
      BY <3>1, <1>1, <1>3, <1>8
    <3> QED BY <3>1, <3>2, <1>3
  <2> QED BY <2>1, <2>2
<1>12. news \subseteq RemoteIndex
  BY NewEntryType
<1> HIDE DEF news
<1>13. \A i \in 1 .. Len(about) : out[i] \in RemoteIndex
  BY <1>9, <1>10, <1>11, <1>12
<1>14. out \in Seq(RemoteIndex)
  <2>1. out = [i \in 1 .. Len(about) |-> out[i]]
    BY <1>7, <1>9 DEF out
  <2> QED BY <2>1, <1>7, <1>13
<1>15. ToSet(out) = {made(e) : e \in ToSet(about)}
  BY <1>7, <1>9 DEF ToSet
<1> QED BY <1>2, <1>11, <1>14, <1>15 DEF news, es

OwnPair(r, ls, pair) == [global |-> pair.global, attribute |-> TheirsIn(ls, r, pair.global)]

\* The pairs that a message adds.
LEMMA NewPairsAre ==
  ASSUME NEW set \in Seq(IndexPair), NEW ls, ls \in [DOMAIN ls -> Seq(RemoteIndex)],
         DOMAIN ls \subseteq Rank, NEW r, indexSet[r] \in Seq(IndexPair)
  PROVE  /\ NewPairs(r, EntriesOf(set, ls, r)) \in Seq(IndexPair)
         /\ ToSet(NewPairs(r, EntriesOf(set, ls, r)))
              = {OwnPair(r, ls, set[i]) : i \in SharedWith(set, ls, r)} \ ToSet(indexSet[r])
<1> DEFINE es == EntriesOf(set, ls, r)
           made(e) == [global |-> e.global, attribute |-> MyAttribute(r, e)]
           told == [i \in DOMAIN es |-> made(es[i])]
           positions == {i \in DOMAIN told : ~Contains(indexSet[r], told[i])}
           out == Subsequence(told, positions)
           news == {OwnPair(r, ls, set[i]) : i \in SharedWith(set, ls, r)}
<1>1. /\ es \in Seq(MessageEntry)
      /\ ToSet(es) = {EntryOf(ls, set[i]) : i \in SharedWith(set, ls, r)}
  BY EntriesAre
<1>2. NewPairs(r, es) = out
  BY Zenon DEF NewPairs
<1>3. ASSUME NEW i \in SharedWith(set, ls, r)
      PROVE  /\ made(EntryOf(ls, set[i])) = OwnPair(r, ls, set[i])
             /\ OwnPair(r, ls, set[i]) \in IndexPair
  <2>1. i \in DOMAIN set /\ r \in KnownIn(ls, set[i].global)
    BY DEF SharedWith
  <2>2. MyAttribute(r, EntryOf(ls, set[i])) = TheirsIn(ls, r, set[i].global)
    BY <2>1, OwnAttribute
  <2>3. EntryOf(ls, set[i]).global = set[i].global
    BY DEF EntryOf
  <2>4. set[i].global \in Int
    <3>1. set[i] \in IndexPair
      BY <2>1
    <3> QED BY <3>1 DEF IndexPair
  <2>5. TheirsIn(ls, r, set[i].global) \in Int
    BY <2>1, <2>4, TheirsType
  <2> QED BY <2>2, <2>3, <2>4, <2>5 DEF OwnPair, IndexPair
<1> HIDE DEF es, made
<1>4. DOMAIN es = 1 .. Len(es) /\ Len(es) \in Nat
  BY <1>1
<1>5. {made(e) : e \in ToSet(es)} = news
  BY <1>1, <1>3
<1>6. news \subseteq IndexPair
  BY <1>3
<1> HIDE DEF news
<1>7. \A i \in 1 .. Len(es) : made(es[i]) \in news
  BY <1>4, <1>5 DEF ToSet
<1>8. told \in Seq(IndexPair) /\ DOMAIN told = 1 .. Len(es) /\ \A i \in 1 .. Len(es) : told[i] = made(es[i])
  BY <1>4, <1>6, <1>7
<1>9. ToSet(told) = news
  BY <1>4, <1>5, <1>8 DEF ToSet
<1> HIDE DEF told
<1>10. positions \in SUBSET DOMAIN told
  OBVIOUS
<1>11. out \in Seq(IndexPair) /\ ToSet(out) = {told[i] : i \in positions}
  BY <1>8, <1>10, SubsequenceMembers
<1>12. \A i \in DOMAIN told : i \in positions <=> told[i] \notin ToSet(indexSet[r])
  <2>1. DOMAIN indexSet[r] = 1 .. Len(indexSet[r])
    OBVIOUS
  <2> QED BY <2>1 DEF Contains, ToSet
<1> HIDE DEF positions, out
<1>13. {told[i] : i \in positions} = news \ ToSet(indexSet[r])
  BY <1>9, <1>10, <1>12 DEF ToSet
<1> QED BY <1>2, <1>11, <1>13 DEF news, es

-----------------------------------------------------------------------------
(* What is done with a message.                                            *)

\* The processes that a message to r names besides its sender.
Introduces(set, ls, r) ==
  {q \in DOMAIN ls \ {r} : \E i \in SharedWith(set, ls, r) : q \in KnownIn(ls, set[i].global)}
ListOf(map, q) == IF q \in DOMAIN map THEN map[q] ELSE <<>>

\* The lists after a message is unpacked.
LEMMA UnpackIs ==
  ASSUME NEW set \in Seq(IndexPair), NEW ls, NEW source \in Rank, RemoteLists(source, ls),
         NEW r \in Rank, RemoteLists(r, lists[r]), source \in DOMAIN lists[r]
  PROVE  LET out == UnpackInto(r, source, EntriesOf(set, ls, r))
         IN /\ RemoteLists(r, out)
            /\ DOMAIN out = DOMAIN lists[r] \cup Introduces(set, ls, r)
            /\ \A q \in DOMAIN out :
                 out[q] = InsertAll(ListOf(lists[r], q),
                                    EntriesFor(r, source, q, EntriesOf(set, ls, r)))
<1> DEFINE es == EntriesOf(set, ls, r)
           named == {q \in Rank : EntriesFor(r, source, q, es) # <<>>}
           out == UnpackInto(r, source, es)
<1>1. /\ DOMAIN ls \subseteq Rank /\ ls \in [DOMAIN ls -> Seq(RemoteIndex)] /\ source \notin DOMAIN ls
      /\ DOMAIN lists[r] \subseteq Rank /\ r \notin DOMAIN lists[r] /\ r # source
      /\ lists[r] \in [DOMAIN lists[r] -> Seq(RemoteIndex)]
  BY DEF RemoteLists
<1>2. ASSUME NEW q
      PROVE  /\ EntriesFor(r, source, q, es) \in Seq(RemoteIndex)
             /\ EntriesFor(r, source, q, es) # <<>> <=> AboutIn(r, source, set, ls, q) # {}
  <2>1. /\ EntriesFor(r, source, q, es) \in Seq(RemoteIndex)
        /\ ToSet(EntriesFor(r, source, q, es))
             = {NewEntry(r, source, ls, q, set[i]) : i \in AboutIn(r, source, set, ls, q)}
    BY <1>1, EntriesForAre
  <2> DEFINE s == EntriesFor(r, source, q, es)
  <2> HIDE DEF s
  <2>2. s \in Seq(RemoteIndex) => (s # <<>> <=> ToSet(s) # {})
    <3> SUFFICES ASSUME s \in Seq(RemoteIndex) PROVE s # <<>> <=> ToSet(s) # {}
      OBVIOUS
    <3>1. Len(s) \in Nat /\ DOMAIN s = 1 .. Len(s) /\ (s = <<>> <=> Len(s) = 0)
      OBVIOUS
    <3>2. Len(s) # 0 <=> 1 .. Len(s) # {}
      <4>1. Len(s) # 0 => 1 \in 1 .. Len(s)
        BY <3>1
      <4>2. Len(s) = 0 => 1 .. Len(s) = {}
        BY <3>1
      <4> QED BY <4>1, <4>2
    <3> QED BY <3>1, <3>2 DEF ToSet
  <2> QED BY <2>1, <2>2 DEF s
<1>3. out = [q \in DOMAIN lists[r] \cup named |->
               InsertAll(ListOf(lists[r], q), EntriesFor(r, source, q, es))]
  BY Zenon DEF UnpackInto, ListOf
<1> HIDE DEF out
<1>4. DOMAIN lists[r] \cup named = DOMAIN lists[r] \cup Introduces(set, ls, r)
  <2>1. ASSUME NEW q \in named, q # source PROVE q \in Introduces(set, ls, r)
    <3>1. PICK i \in AboutIn(r, source, set, ls, q) : TRUE
      BY <1>2
    <3>2. i \in SharedWith(set, ls, r) /\ q # r /\ q \in KnownIn(ls, set[i].global)
      BY <2>1 DEF AboutIn, About
    <3>3. q \in DOMAIN ls
      BY <3>2 DEF KnownIn
    <3> QED BY <3>2, <3>3 DEF Introduces
  <2>2. ASSUME NEW q \in Introduces(set, ls, r) PROVE q \in named
    <3>1. q \in DOMAIN ls /\ q # r
      BY DEF Introduces
    <3>2. PICK i \in SharedWith(set, ls, r) : q \in KnownIn(ls, set[i].global)
      BY DEF Introduces
    <3>3. i \in AboutIn(r, source, set, ls, q)
      BY <3>1, <3>2 DEF AboutIn, About
    <3> QED BY <1>1, <1>2, <3>1, <3>3
  <2> HIDE DEF named
  <2> QED BY <2>1, <2>2
<1>5. r \notin named
  <2>1. AboutIn(r, source, set, ls, r) = {}
    BY <1>1 DEF AboutIn, About
  <2> QED BY <1>2, <2>1
<1>6. named \subseteq Rank
  OBVIOUS
<1> HIDE DEF named, es
<1>7. \A q : ListOf(lists[r], q) \in Seq(RemoteIndex)
  BY <1>1 DEF ListOf
<1>8. \A q : InsertAll(ListOf(lists[r], q), EntriesFor(r, source, q, es)) \in Seq(RemoteIndex)
  BY <1>2, <1>7, InsertAllIs
<1>9. DOMAIN out = DOMAIN lists[r] \cup named
  BY <1>3
<1>10. out \in [DOMAIN out -> Seq(RemoteIndex)]
  BY <1>3, <1>8, <1>9
<1>11. DOMAIN out \subseteq Rank \ {r}
  BY <1>1, <1>5, <1>6, <1>9
<1> QED BY <1>3, <1>4, <1>9, <1>10, <1>11 DEF RemoteLists, out, es

-----------------------------------------------------------------------------
\* What the variables hold, and what the messages are.

N(r, k) == DOMAIN before[r][k].lists

\* r has what p sent it in the k-th sync.
Got(r, k, p) == round[p] > k \/ (round[p] = k /\ r \notin DOMAIN sent[p])

SetsInv ==
  \A r \in Rank :
    /\ indexSet[r] \in Seq(IndexPair) /\ newIndices[r] \in Seq(IndexPair)
    /\ RemoteLists(r, lists[r])

CountInv ==
  \A r \in Rank :
    /\ round[r] \in Nat /\ pc[r] \in {"user", "syncing", "undefined"}
    /\ round[r] = 0 => pc[r] = "user"
    /\ round[r] <= scenario.rounds
    /\ expected[r] \in SUBSET Rank
    /\ pc[r] = "user" => expected[r] = {} /\ DOMAIN sent[r] = {}

Before == [set : Seq(IndexPair), lists : UNION {[near -> Seq(RemoteIndex)] : near \in SUBSET Rank}]

BeforeInv ==
  \A r \in Rank :
    /\ before[r] \in Seq(Before) /\ Len(before[r]) = round[r]
    /\ \A k \in 1 .. round[r] : RemoteLists(r, before[r][k].lists)

SentInv ==
  \A p \in Rank :
    /\ sent[p] = [d \in DOMAIN sent[p] |-> sent[p][d]]
    /\ round[p] = 0 => DOMAIN sent[p] = {}
    /\ round[p] > 0 => DOMAIN sent[p] \subseteq N(p, round[p])
    /\ \A d \in DOMAIN sent[p] :
         /\ sent[p][d].round = round[p]
         /\ sent[p][d].entries = EntriesOf(before[p][round[p]].set, before[p][round[p]].lists, d)

TypeInv ==
  /\ scenario \in Scenarios
  /\ DOMAIN round = Rank /\ DOMAIN pc = Rank /\ DOMAIN indexSet = Rank /\ DOMAIN newIndices = Rank
  /\ DOMAIN lists = Rank /\ DOMAIN expected = Rank /\ DOMAIN sent = Rank /\ DOMAIN before = Rank
  /\ SetsInv /\ CountInv /\ BeforeInv /\ SentInv

-----------------------------------------------------------------------------
\* Which process knows which, and how far it is.

\* The neighbours whose message of this sync r does not have yet.
Waiting(r) == {p \in N(r, round[r]) : ~Got(r, round[r], p)}

\* The neighbours of r when it has what those in heard sent it in the k-th sync.
After(r, k, heard) ==
  N(r, k) \cup UNION {Introduces(before[t][k].set, before[t][k].lists, r) : t \in heard}

\* Neighbours name each other.
SymmetricInv ==
  \A r, q \in Rank : \A k \in 1 .. round[r] :
    k <= round[q] => (q \in N(r, k) <=> r \in N(q, k))

\* A message is received in its sync, by a process that waits for no other of that sync.
HeardInv ==
  \A r \in Rank :
    /\ \A k \in 1 .. round[r] : k < round[r] => \A p \in N(r, k) : Got(r, k, p)
    /\ round[r] > 0 => /\ Cardinality(expected[r]) = Cardinality(Waiting(r))
                       /\ scenario.fixedOrder => expected[r] = Waiting(r)

ReceivedInv ==
  \A p \in Rank : \A k \in 1 .. round[p] : \A r \in N(p, k) : Got(r, k, p) => round[r] >= k

KnownInv ==
  \A r \in Rank :
    /\ round[r] = 0 => lists[r] = scenario.lists[r]
    /\ round[r] > 0 => /\ N(r, 1) = DOMAIN scenario.lists[r]
                       /\ DOMAIN lists[r] = After(r, round[r], N(r, round[r]) \ Waiting(r))
    /\ \A k \in 1 .. round[r] : k < round[r] => N(r, k + 1) = After(r, k, N(r, k))

RoundInv == SymmetricInv /\ HeardInv /\ ReceivedInv /\ KnownInv

\* The executions in which the messages of two syncs cannot be taken for each other, and
\* those in which all that is said of attributes is true.
OrderlyScenarios == \A s \in Scenarios : Orderly(s)
TruthfulScenarios == \A s \in Scenarios : Truthful(s)

Known(s, r, pairs, map) ==
  /\ \A p \in pairs : <<r, p.global, p.attribute>> \in Claims(s)
  /\ \A q \in DOMAIN map :
       /\ Ascending(map[q])
       /\ \A e \in ToSet(map[q]) :
            Pair(e) \in pairs /\ <<q, e.global, e.theirs>> \in Claims(s)

Heard(r) == N(r, round[r]) \ Waiting(r)

TruthInv ==
  \A r \in Rank :
    /\ Known(scenario, r, ToSet(indexSet[r]) \cup ToSet(newIndices[r]), lists[r])
    /\ \A k \in 1 .. round[r] : Known(scenario, r, ToSet(before[r][k].set), before[r][k].lists)
    /\ pc[r] = "user" => newIndices[r] = <<>>

ToldInv ==
  \A r \in Rank : round[r] > 0 =>
    /\ ToSet(indexSet[r]) \cup ToSet(newIndices[r]) = PairsAfter(r, round[r], Heard(r))
    /\ \A q \in DOMAIN lists[r] :
         ToSet(lists[r][q]) = EntriesAfter(r, round[r], q, Heard(r))

DataInv == TruthInv /\ ToldInv

SyncInv == TypeInv /\ RoundInv

-----------------------------------------------------------------------------
(* The types.                                                              *)

\* There are finitely many processes.
LEMMA Ranks == Rank \in SUBSET Nat /\ IsFiniteSet(Rank)
<1>1. Rank = 0 .. procs - 1 /\ procs \in Nat
  BY IndicesSyncerAssumption DEF Rank
<1> QED BY <1>1, FS_Interval

\* What an execution is.
LEMMA ScenarioType ==
  ASSUME NEW s \in Scenarios
  PROVE  /\ s.rounds \in Nat /\ s.fixedOrder \in BOOLEAN /\ s.sameSyncer \in BOOLEAN
         /\ DOMAIN s.indexSet = Rank /\ DOMAIN s.lists = Rank
         /\ \A r \in Rank : s.indexSet[r] \in Seq(IndexPair) /\ RemoteLists(r, s.lists[r])
         /\ \A r, q \in Rank : q \in DOMAIN s.lists[r] <=> r \in DOMAIN s.lists[q]
BY IndicesSyncerAssumption DEF Scenario

\* What is remembered of a sync.
LEMMA NeighboursType ==
  ASSUME TypeInv, NEW r \in Rank, NEW k \in 1 .. round[r]
  PROVE  /\ N(r, k) \subseteq Rank \ {r} /\ before[r][k].lists \in [N(r, k) -> Seq(RemoteIndex)]
         /\ before[r][k].set \in Seq(IndexPair)
<1>1. before[r] \in Seq(Before) /\ Len(before[r]) = round[r] /\ RemoteLists(r, before[r][k].lists)
  BY DEF TypeInv, BeforeInv
<1>2. before[r][k] \in Before
  BY <1>1
<1> QED BY <1>1, <1>2 DEF Before, RemoteLists, N

\* The invariant of the syncs holds in the beginning.
LEMMA SyncInit == Init => SyncInv
<1> SUFFICES ASSUME Init PROVE SyncInv
  OBVIOUS
<1>0. scenario \in Scenarios /\ indexSet = scenario.indexSet /\ lists = scenario.lists
  BY DEF Init
<1>1. \A r \in Rank : /\ round[r] = 0 /\ pc[r] = "user" /\ newIndices[r] = <<>> /\ before[r] = <<>>
                      /\ expected[r] = {} /\ sent[r] = Nothing
  BY DEF Init
<1>2. SetsInv
  <2>1. <<>> \in Seq(IndexPair)
    OBVIOUS
  <2>2. \A r \in Rank : indexSet[r] \in Seq(IndexPair) /\ RemoteLists(r, lists[r])
    BY <1>0, ScenarioType
  <2> QED BY <1>1, <2>1, <2>2 DEF SetsInv
<1>3. DOMAIN Nothing = {}
  BY DEF Nothing
<1>4. CountInv
  <2>1. scenario.rounds \in Nat
    BY <1>0, ScenarioType
  <2> QED BY <1>1, <1>3, <2>1 DEF CountInv
<1>5. BeforeInv
  <2>1. <<>> \in Seq(Before) /\ Len(<<>>) = 0 /\ 1 .. 0 = {}
    OBVIOUS
  <2> QED BY <1>1, <2>1 DEF BeforeInv
<1>6. SentInv
  <2>1. Nothing = [d \in DOMAIN Nothing |-> Nothing[d]]
    BY DEF Nothing
  <2> HIDE DEF Nothing
  <2> QED BY <1>1, <1>3, <2>1 DEF SentInv
<1>7. TypeInv
  BY <1>0, <1>2, <1>4, <1>5, <1>6, ScenarioType DEF TypeInv, Init
<1>8. RoundInv
  BY <1>0, <1>1 DEF RoundInv, SymmetricInv, HeardInv, ReceivedInv, KnownInv
<1> QED BY <1>7, <1>8 DEF SyncInv

\* What the actions do to the variables, process by process.
LEMMA StartEffect ==
  ASSUME TypeInv, NEW r \in Rank, StartSync(r)
  PROVE  /\ pc[r] = "user" /\ round[r] < scenario.rounds /\ scenario' = scenario
         /\ round'[r] = round[r] + 1 /\ pc'[r] = "syncing" /\ expected'[r] = DOMAIN lists[r]
         /\ sent'[r] = [d \in DOMAIN lists[r] |-> Message(r, d)]
         /\ before'[r] = Append(before[r], [set |-> indexSet[r], lists |-> lists[r]])
         /\ \A p \in Rank \ {r} : /\ round'[p] = round[p] /\ pc'[p] = pc[p]
                                  /\ expected'[p] = expected[p] /\ sent'[p] = sent[p]
                                  /\ before'[p] = before[p]
         /\ indexSet' = indexSet /\ newIndices' = newIndices /\ lists' = lists
BY DEF StartSync, MayStart, TypeInv

\* recvAndUnpack touches the receiver and what its sender has in flight.
LEMMA ReceiveEffect ==
  ASSUME TypeInv, NEW r \in Rank, NEW source \in Rank, RecvAndUnpack(r, source)
  PROVE  /\ scenario' = scenario /\ round' = round /\ indexSet' = indexSet /\ before' = before
         /\ pc[r] = "syncing" /\ pc'[r] \in {"syncing", "undefined"}
         /\ \A p \in Rank \ {r} : /\ pc'[p] = pc[p] /\ expected'[p] = expected[p]
                                  /\ lists'[p] = lists[p] /\ newIndices'[p] = newIndices[p]
         /\ lists'[r] = UnpackInto(r, source, sent[source][r].entries)
         /\ newIndices'[r] = newIndices[r] \o NewPairs(r, sent[source][r].entries)
         /\ expected'[r] = expected[r] \ {Min(expected[r])} /\ expected[r] # {}
         /\ sent'[source] = [d \in DOMAIN sent[source] \ {r} |-> sent[source][d]]
         /\ r \in DOMAIN sent[source]
         /\ \A p \in Rank \ {source} : sent'[p] = sent[p]
<1>1. pc[r] = "syncing"
  BY DEF RecvAndUnpack, MayReceive
<1>2. pc'[r] \in {"syncing", "undefined"} /\ \A p \in Rank \ {r} : pc'[p] = pc[p]
  BY <1>1 DEF RecvAndUnpack, TypeInv
<1> QED BY <1>1, <1>2 DEF RecvAndUnpack, MayReceive, TypeInv

\* The end of sync() touches the process that ends it.
LEMMA FinishEffect ==
  ASSUME TypeInv, NEW r \in Rank, FinishSync(r)
  PROVE  /\ scenario' = scenario /\ round' = round /\ before' = before /\ lists' = lists
         /\ expected' = expected /\ sent' = sent
         /\ pc[r] = "syncing" /\ pc'[r] \in {"user", "undefined"}
         /\ expected[r] = {} /\ DOMAIN sent[r] = {}
         /\ indexSet'[r] = Merge(indexSet[r], newIndices[r]) /\ newIndices'[r] = <<>>
         /\ \A p \in Rank \ {r} : /\ pc'[p] = pc[p] /\ indexSet'[p] = indexSet[p]
                                  /\ newIndices'[p] = newIndices[p]
<1>1. pc[r] = "syncing" /\ expected[r] = {} /\ DOMAIN sent[r] = {}
  BY DEF FinishSync, MayFinish, Nothing
<1>2. pc'[r] \in {"user", "undefined"} /\ \A p \in Rank \ {r} : pc'[p] = pc[p]
  BY DEF FinishSync, TypeInv
<1> QED BY <1>1, <1>2 DEF FinishSync, TypeInv

\* The domains stay as they are.
LEMMA DomainsStay ==
  ASSUME TypeInv, [Next]_vars
  PROVE  /\ DOMAIN round' = Rank /\ DOMAIN pc' = Rank /\ DOMAIN indexSet' = Rank
         /\ DOMAIN newIndices' = Rank /\ DOMAIN lists' = Rank /\ DOMAIN expected' = Rank
         /\ DOMAIN sent' = Rank /\ DOMAIN before' = Rank /\ scenario' \in Scenarios
<1> USE DEF TypeInv
<1> DEFINE Same == /\ DOMAIN round' = Rank /\ DOMAIN pc' = Rank /\ DOMAIN indexSet' = Rank
                   /\ DOMAIN newIndices' = Rank /\ DOMAIN lists' = Rank /\ DOMAIN expected' = Rank
                   /\ DOMAIN sent' = Rank /\ DOMAIN before' = Rank /\ scenario' \in Scenarios
<1>1. ASSUME NEW r \in Rank, StartSync(r) PROVE Same
  BY <1>1 DEF StartSync
<1>2. ASSUME NEW r \in Rank, FinishSync(r) PROVE Same
  BY <1>2 DEF FinishSync
<1>3. ASSUME NEW r \in Rank, NEW source \in Rank, RecvAndUnpack(r, source) PROVE Same
  BY <1>3 DEF RecvAndUnpack
<1>4. CASE UNCHANGED vars
  BY <1>4 DEF vars
<1> HIDE DEF Same
<1> QED BY <1>1, <1>2, <1>3, <1>4 DEF Next, Step, Same

\* The history of a process only gets longer.
LEMMA HistoryGrows ==
  ASSUME TypeInv, NEW r \in Rank, StartSync(r)
  PROVE  /\ \A p \in Rank : \A k \in 1 .. round[p] : before'[p][k] = before[p][k]
         /\ before'[r] \in Seq(Before) /\ Len(before'[r]) = round[r] + 1
         /\ before'[r][round[r] + 1].set = indexSet[r]
         /\ before'[r][round[r] + 1].lists = lists[r]
<1>1. /\ before'[r] = Append(before[r], [set |-> indexSet[r], lists |-> lists[r]])
      /\ \A p \in Rank \ {r} : before'[p] = before[p]
  BY StartEffect
<1>2. before[r] \in Seq(Before) /\ Len(before[r]) = round[r] /\ round[r] \in Nat
  BY DEF TypeInv, BeforeInv, CountInv
<1>3. [set |-> indexSet[r], lists |-> lists[r]] \in Before
  BY DEF TypeInv, SetsInv, RemoteLists, Before
<1> DEFINE e == [set |-> indexSet[r], lists |-> lists[r]]
<1>4. e.set = indexSet[r] /\ e.lists = lists[r]
  OBVIOUS
<1> HIDE DEF e
<1>5. /\ before'[r] \in Seq(Before) /\ Len(before'[r]) = round[r] + 1
      /\ before'[r][round[r] + 1] = e /\ \A k \in 1 .. round[r] : before'[r][k] = before[r][k]
  BY <1>1, <1>2, <1>3 DEF e
<1> QED BY <1>1, <1>4, <1>5

\* Each action keeps the types.
LEMMA StartType ==
  ASSUME TypeInv, NEW r \in Rank, StartSync(r)
  PROVE  TypeInv'
<1>1. /\ pc[r] = "user" /\ round[r] < scenario.rounds /\ scenario' = scenario
      /\ round'[r] = round[r] + 1 /\ pc'[r] = "syncing" /\ expected'[r] = DOMAIN lists[r]
      /\ sent'[r] = [d \in DOMAIN lists[r] |-> Message(r, d)]
      /\ \A p \in Rank \ {r} : /\ round'[p] = round[p] /\ pc'[p] = pc[p]
                               /\ expected'[p] = expected[p] /\ sent'[p] = sent[p]
                               /\ before'[p] = before[p]
      /\ indexSet' = indexSet /\ newIndices' = newIndices /\ lists' = lists
  BY StartEffect
<1>2. /\ \A p \in Rank : \A k \in 1 .. round[p] : before'[p][k] = before[p][k]
      /\ before'[r] \in Seq(Before) /\ Len(before'[r]) = round[r] + 1
      /\ before'[r][round[r] + 1].set = indexSet[r]
      /\ before'[r][round[r] + 1].lists = lists[r]
  BY HistoryGrows
<1>3. SetsInv'
  BY <1>1 DEF TypeInv, SetsInv
<1>4. CountInv'
  <2>1. \A p \in Rank : /\ round[p] \in Nat /\ pc[p] \in {"user", "syncing", "undefined"}
                        /\ round[p] = 0 => pc[p] = "user"
                        /\ round[p] <= scenario.rounds
                        /\ expected[p] \in SUBSET Rank
                        /\ pc[p] = "user" => expected[p] = {} /\ DOMAIN sent[p] = {}
    BY DEF TypeInv, CountInv
  <2>2. DOMAIN lists[r] \subseteq Rank
    BY DEF TypeInv, SetsInv, RemoteLists
  <2>3. scenario.rounds \in Nat
    BY ScenarioType DEF TypeInv
  <2>4. /\ round'[r] \in Nat /\ round'[r] # 0 /\ round'[r] <= scenario'.rounds
    BY <1>1, <2>1, <2>3
  <2> QED BY <1>1, <2>1, <2>2, <2>4 DEF CountInv
<1>5. BeforeInv'
  <2>1. ASSUME NEW p \in Rank
        PROVE  /\ before'[p] \in Seq(Before) /\ Len(before'[p]) = round'[p]
               /\ \A k \in 1 .. round'[p] : RemoteLists(p, before'[p][k].lists)
    <3>1. /\ before[p] \in Seq(Before) /\ Len(before[p]) = round[p] /\ round[p] \in Nat
          /\ \A k \in 1 .. round[p] : RemoteLists(p, before[p][k].lists)
      BY DEF TypeInv, BeforeInv, CountInv
    <3>2. CASE p = r
      <4>1. RemoteLists(r, lists[r])
        BY DEF TypeInv, SetsInv
      <4>2. \A k \in 1 .. round[r] + 1 : k \in 1 .. round[r] \/ k = round[r] + 1
        BY <3>1, <3>2
      <4>3. before'[r] \in Seq(Before) /\ Len(before'[r]) = round'[r] /\ round'[r] = round[r] + 1
        BY <1>1, <1>2
      <4>4. ASSUME NEW k \in 1 .. round[r] + 1 PROVE RemoteLists(r, before'[r][k].lists)
        <5>1. CASE k \in 1 .. round[r]
          BY <1>2, <3>1, <3>2, <5>1
        <5>2. CASE k = round[r] + 1
          BY <1>2, <4>1, <5>2
        <5> QED BY <4>2, <5>1, <5>2
      <4> QED BY <3>2, <4>3, <4>4
    <3>3. CASE p # r
      BY <1>1, <3>1, <3>3
    <3> QED BY <3>2, <3>3
  <2> QED BY <2>1 DEF BeforeInv
<1>6. SentInv'
  <2>1. ASSUME NEW p \in Rank
        PROVE  /\ sent'[p] = [d \in DOMAIN sent'[p] |-> sent'[p][d]]
               /\ round'[p] = 0 => DOMAIN sent'[p] = {}
               /\ round'[p] > 0 => DOMAIN sent'[p] \subseteq N(p, round[p])'
               /\ \A d \in DOMAIN sent'[p] :
                    /\ sent'[p][d].round = round'[p]
                    /\ sent'[p][d].entries
                         = EntriesOf(before'[p][round'[p]].set, before'[p][round'[p]].lists, d)
    <3>1. round[p] \in Nat
      BY DEF TypeInv, CountInv
    <3>2. CASE p = r
      <4>1. DOMAIN sent'[r] = DOMAIN lists[r] /\ N(r, round[r])' = DOMAIN lists[r]
        BY <1>1, <1>2 DEF N
      <4>2. sent'[r] = [d \in DOMAIN sent'[r] |-> sent'[r][d]]
        BY <1>1
      <4>3. ASSUME NEW d \in DOMAIN lists[r]
            PROVE  /\ sent'[r][d].round = round'[r]
                   /\ sent'[r][d].entries = EntriesOf(indexSet[r], lists[r], d)
        <5>1. sent'[r][d] = Message(r, d)
          BY <1>1
        <5>2. Message(r, d) = [round |-> round[r] + 1, publish |-> Publish(r, d),
                               entries |-> EntriesOf(indexSet[r], lists[r], d)]
          BY MessageIs
        <5> QED BY <1>1, <5>1, <5>2
      <4>4. round'[r] > 0
        BY <1>1, <3>1, <3>2
      <4>5. \A d \in DOMAIN sent'[r] :
              /\ sent'[r][d].round = round'[r]
              /\ sent'[r][d].entries
                   = EntriesOf(before'[r][round'[r]].set, before'[r][round'[r]].lists, d)
        <5>1. /\ before'[r][round'[r]].set = indexSet[r]
              /\ before'[r][round'[r]].lists = lists[r]
          BY <1>1, <1>2
        <5> QED BY <4>1, <4>3, <5>1
      <4>6. DOMAIN sent'[r] \subseteq N(r, round[r])' /\ round'[r] # 0
        BY <4>1, <4>4
      <4> HIDE DEF N
      <4> QED BY <3>2, <4>2, <4>5, <4>6
    <3>3. CASE p # r
      <4>1. /\ sent[p] = [d \in DOMAIN sent[p] |-> sent[p][d]]
            /\ round[p] = 0 => DOMAIN sent[p] = {}
            /\ round[p] > 0 => DOMAIN sent[p] \subseteq N(p, round[p])
            /\ \A d \in DOMAIN sent[p] :
                 /\ sent[p][d].round = round[p]
                 /\ sent[p][d].entries
                      = EntriesOf(before[p][round[p]].set, before[p][round[p]].lists, d)
        BY DEF TypeInv, SentInv
      <4>2. round'[p] = round[p] /\ sent'[p] = sent[p] /\ before'[p] = before[p]
        BY <1>1, <3>3
      <4> QED BY <4>1, <4>2 DEF N
    <3> QED BY <3>2, <3>3
  <2> QED BY <2>1 DEF SentInv
<1>7. [Next]_vars
  BY DEF Next, Step
<1> QED BY <1>3, <1>4, <1>5, <1>6, <1>7, DomainsStay DEF TypeInv

\* So does the end of a sync.
LEMMA FinishType ==
  ASSUME TypeInv, NEW r \in Rank, FinishSync(r)
  PROVE  TypeInv'
<1>1. /\ scenario' = scenario /\ round' = round /\ before' = before /\ lists' = lists
      /\ expected' = expected /\ sent' = sent
      /\ pc[r] = "syncing" /\ pc'[r] \in {"user", "undefined"}
      /\ expected[r] = {} /\ DOMAIN sent[r] = {}
      /\ indexSet'[r] = Merge(indexSet[r], newIndices[r]) /\ newIndices'[r] = <<>>
      /\ \A p \in Rank \ {r} : /\ pc'[p] = pc[p] /\ indexSet'[p] = indexSet[p]
                               /\ newIndices'[p] = newIndices[p]
  BY FinishEffect
<1>2. SetsInv'
  <2>1. Merge(indexSet[r], newIndices[r]) \in Seq(IndexPair)
    BY MergeIs DEF TypeInv, SetsInv
  <2>2. <<>> \in Seq(IndexPair)
    OBVIOUS
  <2> QED BY <1>1, <2>1, <2>2 DEF TypeInv, SetsInv
<1>3. CountInv'
  BY <1>1 DEF TypeInv, CountInv
<1>4. BeforeInv'
  BY <1>1 DEF TypeInv, BeforeInv
<1>5. SentInv'
  BY <1>1 DEF TypeInv, SentInv, N
<1>6. [Next]_vars
  BY DEF Next, Step
<1> QED BY <1>2, <1>3, <1>4, <1>5, <1>6, DomainsStay DEF TypeInv

\* What is received is of this sync, and was waited for.
LEMMA RightRound ==
  ASSUME OrderlyScenarios, SyncInv, NEW r \in Rank, NEW source \in Rank, MayReceive(r, source)
  PROVE  /\ round[source] = round[r] /\ round[r] > 0 /\ source \in Waiting(r)
         /\ source \in N(r, round[r]) /\ r \in N(source, round[source])
<1>1. /\ pc[r] = "syncing" /\ expected[r] # {} /\ r \in DOMAIN sent[source]
      /\ scenario.fixedOrder => source = Min(expected[r])
  BY DEF MayReceive
<1>2. PICK k \in Nat, j \in Nat : k = round[r] /\ j = round[source]
  BY DEF SyncInv, TypeInv, CountInv
<1>3. k > 0 /\ j > 0
  BY <1>1, <1>2 DEF SyncInv, TypeInv, CountInv, SentInv
<1>4. r \in N(source, j)
  BY <1>1, <1>2, <1>3 DEF SyncInv, TypeInv, SentInv
<1>5. scenario \in Scenarios /\ Orderly(scenario)
  BY DEF SyncInv, TypeInv, OrderlyScenarios
<1>6. CASE scenario.fixedOrder
  <2>1. expected[r] = Waiting(r) /\ expected[r] \in SUBSET Rank
    BY <1>2, <1>3, <1>6 DEF SyncInv, RoundInv, HeardInv, TypeInv, CountInv
  <2>2. source \in expected[r]
    <3>1. expected[r] \in SUBSET Nat
      BY <2>1, Ranks
    <3>2. Min(expected[r]) \in expected[r]
      BY <1>1, <3>1, MinIs
    <3> QED BY <1>1, <1>6, <3>2
  <2>3. source \in N(r, k) /\ ~Got(r, k, source)
    BY <1>2, <2>1, <2>2 DEF Waiting
  <2>4. j <= k
    BY <1>2, <2>3 DEF Got
  <2>5. ASSUME j < k PROVE FALSE
    <3>1. j \in 1 .. k
      BY <1>3, <2>5
    <3>2. source \in N(r, j)
      BY <1>2, <1>3, <1>4, <3>1 DEF SyncInv, RoundInv, SymmetricInv
    <3>3. Got(r, j, source)
      BY <1>2, <2>5, <3>1, <3>2 DEF SyncInv, RoundInv, HeardInv
    <3> QED BY <1>1, <1>2, <3>3 DEF Got
  <2>6. j = k
    BY <2>4, <2>5
  <2> QED BY <1>2, <1>3, <1>4, <2>1, <2>2, <2>3, <2>6
<1>7. CASE ~scenario.fixedOrder
  <2>1. scenario.rounds <= 1 /\ scenario.rounds \in Nat
    BY <1>5, <1>7, ScenarioType DEF Orderly
  <2>2. k <= scenario.rounds /\ j <= scenario.rounds
    BY <1>2 DEF SyncInv, TypeInv, CountInv
  <2>3. k = 1 /\ j = 1
    BY <1>3, <2>1, <2>2
  <2>4. source \in N(r, 1)
    <3>1. 1 \in 1 .. round[source] /\ 1 <= round[r] /\ r \in N(source, 1)
      BY <1>2, <1>4, <2>3
    <3> QED BY <3>1 DEF SyncInv, RoundInv, SymmetricInv
  <2>5. ~Got(r, 1, source)
    BY <1>1, <1>2, <2>3 DEF Got
  <2> QED BY <1>2, <1>3, <1>4, <2>3, <2>4, <2>5 DEF Waiting
<1> QED BY <1>6, <1>7

-----------------------------------------------------------------------------
(* Who knows whom, and in which sync a message is received.                *)

\* The lists after a receive.
LEMMA ReceivedLists ==
  ASSUME OrderlyScenarios, SyncInv, NEW r \in Rank, NEW source \in Rank, RecvAndUnpack(r, source)
  PROVE  /\ RemoteLists(r, lists'[r])
         /\ DOMAIN lists'[r] = DOMAIN lists[r] \cup
              Introduces(before[source][round[r]].set, before[source][round[r]].lists, r)
         /\ \A q \in DOMAIN lists'[r] :
              lists'[r][q] = InsertAll(ListOf(lists[r], q),
                EntriesFor(r, source, q, EntriesOf(before[source][round[r]].set,
                                                   before[source][round[r]].lists, r)))
         /\ newIndices'[r] = newIndices[r] \o NewPairs(r, EntriesOf(before[source][round[r]].set,
                                                                    before[source][round[r]].lists, r))
         /\ newIndices'[r] \in Seq(IndexPair)
<1>1. MayReceive(r, source)
  BY DEF RecvAndUnpack
<1>2. /\ round[source] = round[r] /\ round[r] > 0 /\ source \in N(r, round[r])
      /\ source \in Waiting(r) /\ r \in N(source, round[source])
  BY <1>1, RightRound
<1>3. /\ lists'[r] = UnpackInto(r, source, sent[source][r].entries)
      /\ newIndices'[r] = newIndices[r] \o NewPairs(r, sent[source][r].entries)
      /\ r \in DOMAIN sent[source]
  BY ReceiveEffect DEF SyncInv
<1> DEFINE set == before[source][round[r]].set
           ls == before[source][round[r]].lists
<1>4. sent[source][r].entries = EntriesOf(set, ls, r)
  BY <1>2, <1>3 DEF SyncInv, TypeInv, SentInv
<1>5. round[r] \in 1 .. round[source]
  BY <1>2 DEF SyncInv, TypeInv, CountInv
<1>6. set \in Seq(IndexPair) /\ RemoteLists(source, ls)
  BY <1>5, NeighboursType DEF SyncInv, TypeInv, BeforeInv
<1>7. source \in DOMAIN lists[r]
  BY <1>2 DEF SyncInv, RoundInv, KnownInv, After
<1>8. RemoteLists(r, lists[r]) /\ indexSet[r] \in Seq(IndexPair) /\ newIndices[r] \in Seq(IndexPair)
  BY DEF SyncInv, TypeInv, SetsInv
<1>9. DOMAIN ls \subseteq Rank /\ ls \in [DOMAIN ls -> Seq(RemoteIndex)]
  BY <1>6 DEF RemoteLists
<1> HIDE DEF set, ls
<1>10. LET out == UnpackInto(r, source, EntriesOf(set, ls, r))
       IN /\ RemoteLists(r, out)
          /\ DOMAIN out = DOMAIN lists[r] \cup Introduces(set, ls, r)
          /\ \A q \in DOMAIN out :
               out[q] = InsertAll(ListOf(lists[r], q),
                                  EntriesFor(r, source, q, EntriesOf(set, ls, r)))
  BY <1>6, <1>7, <1>8, UnpackIs
<1>11. NewPairs(r, EntriesOf(set, ls, r)) \in Seq(IndexPair)
  BY <1>6, <1>8, <1>9, NewPairsAre
<1>12. newIndices[r] \o NewPairs(r, EntriesOf(set, ls, r)) \in Seq(IndexPair)
  BY <1>8, <1>11
<1> QED BY <1>3, <1>4, <1>10, <1>12 DEF set, ls

\* So does a receive.
LEMMA ReceiveType ==
  ASSUME OrderlyScenarios, SyncInv, NEW r \in Rank, NEW source \in Rank, RecvAndUnpack(r, source)
  PROVE  TypeInv'
<1>0. TypeInv
  BY DEF SyncInv
<1>1. /\ scenario' = scenario /\ round' = round /\ indexSet' = indexSet /\ before' = before
      /\ pc[r] = "syncing" /\ pc'[r] \in {"syncing", "undefined"}
      /\ \A p \in Rank \ {r} : /\ pc'[p] = pc[p] /\ expected'[p] = expected[p]
                               /\ lists'[p] = lists[p] /\ newIndices'[p] = newIndices[p]
      /\ expected'[r] = expected[r] \ {Min(expected[r])} /\ expected[r] # {}
      /\ sent'[source] = [d \in DOMAIN sent[source] \ {r} |-> sent[source][d]]
      /\ \A p \in Rank \ {source} : sent'[p] = sent[p]
  BY <1>0, ReceiveEffect
<1>2. RemoteLists(r, lists'[r]) /\ newIndices'[r] \in Seq(IndexPair)
  BY ReceivedLists
<1>3. SetsInv'
  BY <1>0, <1>1, <1>2 DEF TypeInv, SetsInv
<1>a. \A p \in Rank : DOMAIN sent'[p] \subseteq DOMAIN sent[p] /\ \A d \in DOMAIN sent'[p] : sent'[p][d] = sent[p][d]
  <2>1. DOMAIN sent'[source] = DOMAIN sent[source] \ {r} /\ \A d \in DOMAIN sent'[source] : sent'[source][d] = sent[source][d]
    BY <1>1
  <2> QED BY <1>1, <2>1
<1>4. CountInv'
  <2>1. ASSUME NEW p \in Rank
        PROVE  /\ round'[p] \in Nat /\ pc'[p] \in {"user", "syncing", "undefined"}
               /\ round'[p] = 0 => pc'[p] = "user"
               /\ round'[p] <= scenario'.rounds
               /\ expected'[p] \in SUBSET Rank
               /\ pc'[p] = "user" => expected'[p] = {} /\ DOMAIN sent'[p] = {}
    <3>1. /\ round[p] \in Nat /\ pc[p] \in {"user", "syncing", "undefined"}
          /\ round[p] = 0 => pc[p] = "user"
          /\ round[p] <= scenario.rounds
          /\ expected[p] \in SUBSET Rank
          /\ pc[p] = "user" => expected[p] = {} /\ DOMAIN sent[p] = {}
      BY <1>0 DEF TypeInv, CountInv
    <3>2. pc'[p] = "user" => pc[p] = "user" /\ p # r
      BY <1>1
    <3>3. expected'[p] \subseteq expected[p]
      BY <1>1
    <3>4. DOMAIN sent'[p] \subseteq DOMAIN sent[p]
      BY <1>a
    <3>5. pc'[p] \in {"user", "syncing", "undefined"} /\ (round[p] = 0 => pc'[p] = "user")
      BY <1>1, <3>1
    <3> QED BY <1>1, <3>1, <3>2, <3>3, <3>4, <3>5
  <2> QED BY <2>1 DEF CountInv
<1>5. BeforeInv'
  BY <1>0, <1>1 DEF TypeInv, BeforeInv
<1>6. SentInv'
  <2>1. ASSUME NEW p \in Rank PROVE sent'[p] = [d \in DOMAIN sent'[p] |-> sent'[p][d]]
    <3>1. sent[p] = [d \in DOMAIN sent[p] |-> sent[p][d]]
      BY <1>0 DEF TypeInv, SentInv
    <3>2. sent'[source] = [d \in DOMAIN sent'[source] |-> sent'[source][d]]
      BY <1>1
    <3> QED BY <1>1, <3>1, <3>2
  <2>2. ASSUME NEW p \in Rank
        PROVE  /\ sent'[p] = [d \in DOMAIN sent'[p] |-> sent'[p][d]]
               /\ round'[p] = 0 => DOMAIN sent'[p] = {}
               /\ round'[p] > 0 => DOMAIN sent'[p] \subseteq N(p, round[p])'
               /\ \A d \in DOMAIN sent'[p] :
                    /\ sent'[p][d].round = round'[p]
                    /\ sent'[p][d].entries
                         = EntriesOf(before'[p][round'[p]].set, before'[p][round'[p]].lists, d)
    <3>1. /\ round[p] = 0 => DOMAIN sent[p] = {}
          /\ round[p] > 0 => DOMAIN sent[p] \subseteq N(p, round[p])
          /\ \A d \in DOMAIN sent[p] :
               /\ sent[p][d].round = round[p]
               /\ sent[p][d].entries
                    = EntriesOf(before[p][round[p]].set, before[p][round[p]].lists, d)
      BY <1>0 DEF TypeInv, SentInv
    <3>2. N(p, round[p])' = N(p, round[p])
      BY <1>1 DEF N
    <3>3. /\ round'[p] = round[p] /\ before'[p] = before[p]
          /\ DOMAIN sent'[p] \subseteq DOMAIN sent[p]
          /\ \A d \in DOMAIN sent'[p] : sent'[p][d] = sent[p][d]
      BY <1>1, <1>a
    <3> QED BY <2>1, <3>1, <3>2, <3>3
  <2> QED BY <2>2 DEF SentInv
<1>7. [Next]_vars
  BY DEF Next, Step
<1> QED BY <1>0, <1>3, <1>4, <1>5, <1>6, <1>7, DomainsStay DEF TypeInv

\* A message received is waited for no longer.
LEMMA ReceiveWaiting ==
  ASSUME OrderlyScenarios, SyncInv, NEW r \in Rank, NEW source \in Rank, RecvAndUnpack(r, source)
  PROVE  /\ \A x : \A k : \A p \in Rank :
              Got(x, k, p)' <=> Got(x, k, p) \/ (x = r /\ p = source /\ k = round[r])
         /\ \A x \in Rank : round[x] > 0 =>
              /\ N(x, round[x]) \subseteq Rank
              /\ Waiting(x)' = IF x = r THEN Waiting(x) \ {source} ELSE Waiting(x)
              /\ Heard(x)' = IF x = r THEN Heard(x) \cup {source} ELSE Heard(x)
<1>0. TypeInv /\ MayReceive(r, source)
  BY DEF SyncInv, RecvAndUnpack
<1>1. /\ scenario' = scenario /\ round' = round /\ before' = before
      /\ \A p \in Rank \ {r} : expected'[p] = expected[p] /\ lists'[p] = lists[p]
      /\ expected'[r] = expected[r] \ {Min(expected[r])} /\ expected[r] # {}
      /\ sent'[source] = [d \in DOMAIN sent[source] \ {r} |-> sent[source][d]]
      /\ \A p \in Rank \ {source} : sent'[p] = sent[p]
  BY <1>0, ReceiveEffect, ZenonT(30)
<1>2. /\ round[source] = round[r] /\ round[r] > 0 /\ source \in N(r, round[r])
      /\ source \in Waiting(r) /\ r \in N(source, round[source])
  BY <1>0, RightRound
<1>3. \A x, k : N(x, k)' = N(x, k)
  BY <1>1 DEF N
<1>4. \A x : \A k : \A p \in Rank :
        Got(x, k, p)' <=> Got(x, k, p) \/ (x = r /\ p = source /\ k = round[r])
  <2>1. DOMAIN sent'[source] = DOMAIN sent[source] \ {r}
    BY <1>1
  <2>2. ASSUME NEW x, NEW k, NEW p \in Rank
        PROVE  Got(x, k, p)' <=> Got(x, k, p) \/ (x = r /\ p = source /\ k = round[r])
    <3>1. CASE p = source
      BY <1>1, <1>2, <2>1, <3>1 DEF Got
    <3>2. CASE p # source
      BY <1>1, <3>2 DEF Got
    <3> QED BY <3>1, <3>2
  <2> QED BY <2>2
<1>5. \A x \in Rank : round[x] > 0 => N(x, round[x]) \subseteq Rank
  <2> SUFFICES ASSUME NEW x \in Rank, round[x] > 0 PROVE N(x, round[x]) \subseteq Rank
    OBVIOUS
  <2>1. round[x] \in 1 .. round[x]
    BY <1>0 DEF TypeInv, CountInv
  <2> QED BY <1>0, <2>1, NeighboursType
<1>6. \A x \in Rank : round[x] > 0 =>
        Waiting(x)' = IF x = r THEN Waiting(x) \ {source} ELSE Waiting(x)
  <2> SUFFICES ASSUME NEW x \in Rank, round[x] > 0
               PROVE  Waiting(x)' = IF x = r THEN Waiting(x) \ {source} ELSE Waiting(x)
    OBVIOUS
  <2>0. PICK k : k = round[x]
    OBVIOUS
  <2>1. Waiting(x)' = {p \in N(x, k) : ~Got(x, k, p)'} /\ Waiting(x) = {p \in N(x, k) : ~Got(x, k, p)}
    BY <1>1, <1>3, <2>0 DEF Waiting
  <2>2. \A p \in N(x, k) : Got(x, k, p)' <=> Got(x, k, p) \/ (x = r /\ p = source)
    BY <1>4, <1>5, <2>0
  <2> QED BY <2>1, <2>2
<1>7. \A x \in Rank : round[x] > 0 =>
        Heard(x)' = IF x = r THEN Heard(x) \cup {source} ELSE Heard(x)
  <2> SUFFICES ASSUME NEW x \in Rank, round[x] > 0
               PROVE  Heard(x)' = IF x = r THEN Heard(x) \cup {source} ELSE Heard(x)
    OBVIOUS
  <2>1. N(x, round[x])' = N(x, round[x])
    BY <1>1 DEF N
  <2>2. Heard(x)' = N(x, round[x])' \ Waiting(x)' /\ Heard(x) = N(x, round[x]) \ Waiting(x)
    BY DEF Heard
  <2>3. Waiting(x)' = IF x = r THEN Waiting(x) \ {source} ELSE Waiting(x)
    BY <1>6
  <2>4. x = r => source \in N(x, round[x])
    BY <1>2
  <2> QED BY <2>1, <2>2, <2>3, <2>4
<1> QED BY <1>4, <1>5, <1>6, <1>7

\* Who has received a message knows those it names, and nothing else is changed.
LEMMA ReceiveRounds ==
  ASSUME OrderlyScenarios, SyncInv, NEW r \in Rank, NEW source \in Rank, RecvAndUnpack(r, source)
  PROVE  RoundInv'
<1>0. TypeInv /\ MayReceive(r, source)
  BY DEF SyncInv, RecvAndUnpack
<1>1. /\ scenario' = scenario /\ round' = round /\ before' = before
      /\ \A p \in Rank \ {r} : expected'[p] = expected[p] /\ lists'[p] = lists[p]
      /\ expected'[r] = expected[r] \ {Min(expected[r])} /\ expected[r] # {}
      /\ sent'[source] = [d \in DOMAIN sent[source] \ {r} |-> sent[source][d]]
      /\ \A p \in Rank \ {source} : sent'[p] = sent[p]
  BY <1>0, ReceiveEffect, ZenonT(30)
<1>2. /\ round[source] = round[r] /\ round[r] > 0 /\ source \in N(r, round[r])
      /\ source \in Waiting(r) /\ r \in N(source, round[source])
  BY <1>0, RightRound
<1>3. \A x, k : N(x, k)' = N(x, k)
  BY <1>1 DEF N
<1>4. \A x : \A k : \A p \in Rank :
        Got(x, k, p)' <=> Got(x, k, p) \/ (x = r /\ p = source /\ k = round[r])
  BY ReceiveWaiting
<1>5. \A x \in Rank : round[x] > 0 => N(x, round[x]) \subseteq Rank
  BY ReceiveWaiting
<1>6. \A x \in Rank : round[x] > 0 =>
        Waiting(x)' = IF x = r THEN Waiting(x) \ {source} ELSE Waiting(x)
  BY ReceiveWaiting
<1>7. SymmetricInv'
  BY <1>1, <1>3 DEF SyncInv, RoundInv, SymmetricInv
<1>8. HeardInv'
  <2>1. ASSUME NEW x \in Rank, NEW k \in 1 .. round[x], k < round[x], NEW p \in N(x, k)
        PROVE  Got(x, k, p)'
    <3>1. p \in Rank
      BY <1>0, NeighboursType
    <3>2. Got(x, k, p)
      BY <2>1 DEF SyncInv, RoundInv, HeardInv
    <3> QED BY <1>4, <3>1, <3>2
  <2>2. ASSUME NEW x \in Rank, round[x] > 0
        PROVE  /\ Cardinality(expected'[x]) = Cardinality(Waiting(x)')
               /\ scenario.fixedOrder => expected'[x] = Waiting(x)'
    <3>1. /\ Cardinality(expected[x]) = Cardinality(Waiting(x))
          /\ scenario.fixedOrder => expected[x] = Waiting(x)
      BY <2>2 DEF SyncInv, RoundInv, HeardInv
    <3>2. CASE x # r
      BY <1>1, <1>6, <2>2, <3>1, <3>2
    <3>3. CASE x = r
      <4>1. expected[r] \in SUBSET Rank /\ Waiting(r) \subseteq Rank
        BY <1>0, <1>2, <1>5 DEF TypeInv, CountInv, Waiting
      <4>2. IsFiniteSet(expected[r]) /\ IsFiniteSet(Waiting(r)) /\ expected[r] \in SUBSET Nat
        BY <4>1, Ranks, FS_Subset
      <4>3. Min(expected[r]) \in expected[r]
        BY <1>1, <4>2, MinIs
      <4>4. Cardinality(expected[r] \ {Min(expected[r])}) = Cardinality(expected[r]) - 1
        BY <4>2, <4>3, FS_RemoveElement
      <4>5. Cardinality(Waiting(r) \ {source}) = Cardinality(Waiting(r)) - 1
        BY <1>2, <4>2, FS_RemoveElement
      <4>6. scenario.fixedOrder => source = Min(expected[r])
        BY <1>0 DEF MayReceive
      <4>7. Waiting(r)' = Waiting(r) \ {source}
        BY <1>2, <1>6
      <4> QED BY <1>1, <3>1, <3>3, <4>4, <4>5, <4>6, <4>7
    <3> QED BY <3>2, <3>3
  <2> QED BY <1>1, <1>3, <2>1, <2>2 DEF HeardInv
<1>9. ReceivedInv'
  <2> SUFFICES ASSUME NEW p \in Rank, NEW k \in 1 .. round[p], NEW x \in N(p, k), Got(x, k, p)'
               PROVE  round[x] >= k
    BY <1>1, <1>3 DEF ReceivedInv
  <2>1. Got(x, k, p) \/ (x = r /\ k = round[r])
    BY <1>4
  <2>2. Got(x, k, p) => round[x] >= k
    BY DEF SyncInv, RoundInv, ReceivedInv
  <2>3. round[r] >= round[r]
    BY <1>0 DEF TypeInv, CountInv
  <2> QED BY <2>1, <2>2, <2>3
<1>10. KnownInv'
  <2>1. \A x, k, heard : After(x, k, heard)'
                           = N(x, k) \cup UNION {Introduces(before[t][k].set, before[t][k].lists, x) : t \in heard'}
    BY <1>1 DEF After, N
  <2>2. ASSUME NEW x \in Rank, round[x] > 0
        PROVE  DOMAIN lists'[x] = After(x, round[x], N(x, round[x]) \ Waiting(x))'
    <3>1. DOMAIN lists[x] = After(x, round[x], N(x, round[x]) \ Waiting(x))
      BY <2>2 DEF SyncInv, RoundInv, KnownInv
    <3> DEFINE W == Waiting(x)
    <3>2. (N(x, round[x]) \ Waiting(x))' = N(x, round[x]) \ (IF x = r THEN W \ {source} ELSE W)
      BY <1>1, <1>3, <1>6, <2>2
    <3>3. After(x, round[x], N(x, round[x]) \ Waiting(x))'
            = N(x, round[x]) \cup UNION {Introduces(before[t][round[x]].set, before[t][round[x]].lists, x) :
                                            t \in N(x, round[x]) \ (IF x = r THEN W \ {source} ELSE W)}
      BY <1>1, <1>3, <3>2 DEF After, N
    <3>4. CASE x # r
      BY <1>1, <3>1, <3>3, <3>4 DEF After
    <3>5. CASE x = r
      <4> DEFINE I(t) == Introduces(before[t][round[x]].set, before[t][round[x]].lists, x)
                 H == N(x, round[x]) \ Waiting(x)
      <4>1. N(x, round[x]) \ (Waiting(x) \ {source}) = H \cup {source}
        BY <1>2, <3>5
      <4>2. DOMAIN lists'[x] = DOMAIN lists[x] \cup I(source)
        BY <3>5, ReceivedLists
      <4>3. DOMAIN lists[x] = N(x, round[x]) \cup UNION {I(t) : t \in H}
        BY <3>1 DEF After
      <4>4. After(x, round[x], N(x, round[x]) \ Waiting(x))' = N(x, round[x]) \cup UNION {I(t) : t \in H \cup {source}}
        <5>1. (IF x = r THEN W \ {source} ELSE W) = Waiting(x) \ {source}
          BY <3>5
        <5> QED BY <3>3, <4>1, <5>1
      <4> HIDE DEF I, H, W
      <4>5. UNION {I(t) : t \in H \cup {source}} = (UNION {I(t) : t \in H}) \cup I(source)
        OBVIOUS
      <4> QED BY <4>2, <4>3, <4>4, <4>5
    <3> QED BY <3>4, <3>5
  <2>3. ASSUME NEW x \in Rank
        PROVE  /\ round[x] = 0 => lists'[x] = scenario.lists[x]
               /\ round[x] > 0 => N(x, 1) = DOMAIN scenario.lists[x]
               /\ \A k \in 1 .. round[x] : k < round[x] => N(x, k + 1) = After(x, k, N(x, k))'
    <3>1. \A k : After(x, k, N(x, k))' = After(x, k, N(x, k))
      BY <1>1 DEF After, N
    <3>2. round[x] = 0 => x # r
      BY <1>2
    <3> QED BY <1>1, <3>1, <3>2, ZenonT(30) DEF SyncInv, RoundInv, KnownInv
  <2> QED BY <1>1, <1>3, <2>2, <2>3 DEF KnownInv
<1> QED BY <1>7, <1>8, <1>9, <1>10 DEF RoundInv

\* A message that names q to r would name r to q.
LEMMA IntroducesBoth ==
  ASSUME NEW set, NEW ls, NEW r, NEW q, q \in Introduces(set, ls, r)
  PROVE  r \in Introduces(set, ls, q)
<1>1. q # r
  BY DEF Introduces
<1>2. PICK i \in SharedWith(set, ls, r) : q \in KnownIn(ls, set[i].global)
  BY DEF Introduces
<1>3. i \in DOMAIN set /\ r \in KnownIn(ls, set[i].global)
  BY DEF SharedWith
<1>4. r \in DOMAIN ls
  BY <1>3 DEF KnownIn
<1> QED BY <1>1, <1>2, <1>3, <1>4 DEF Introduces, SharedWith

\* The end of a sync and what others do leave the rounds alone.
LEMMA RoundStays ==
  ASSUME SyncInv, UNCHANGED <<scenario, round, before, lists, expected, sent>>
  PROVE  RoundInv'
<1>1. /\ scenario' = scenario /\ round' = round /\ before' = before /\ lists' = lists
      /\ expected' = expected /\ sent' = sent
  OBVIOUS
<1>2. \A x, k : N(x, k)' = N(x, k)
  BY <1>1 DEF N
<1>3. \A x, k, p : Got(x, k, p)' <=> Got(x, k, p)
  BY <1>1 DEF Got
<1>4. \A x : Waiting(x)' = Waiting(x)
  <2> SUFFICES ASSUME NEW x PROVE Waiting(x)' = Waiting(x)
    OBVIOUS
  <2>1. PICK k : k = round[x]
    OBVIOUS
  <2> QED BY <1>1, <1>2, <1>3, <2>1 DEF Waiting
<1>5. SymmetricInv'
  BY <1>1, <1>2 DEF SyncInv, RoundInv, SymmetricInv
<1>6. HeardInv'
  BY <1>1, <1>2, <1>3, <1>4 DEF SyncInv, RoundInv, HeardInv
<1>7. ReceivedInv'
  BY <1>1, <1>2, <1>3 DEF SyncInv, RoundInv, ReceivedInv
<1>8. KnownInv'
  <2>1. \A x : (N(x, round[x]) \ Waiting(x))' = N(x, round[x]) \ Waiting(x)
    BY <1>1, <1>2, <1>4
  <2>2. \A x : After(x, round[x], N(x, round[x]) \ Waiting(x))' = After(x, round[x], N(x, round[x]) \ Waiting(x))
    BY <1>1, <2>1 DEF After, N
  <2>3. \A x, k : After(x, k, N(x, k))' = After(x, k, N(x, k))
    BY <1>1 DEF After, N
  <2>4. ASSUME NEW x \in Rank
        PROVE  /\ round'[x] = 0 => lists'[x] = scenario'.lists[x]
               /\ round'[x] > 0 => /\ N(x, 1)' = DOMAIN scenario'.lists[x]
                                   /\ DOMAIN lists'[x] = After(x, round[x], N(x, round[x]) \ Waiting(x))'
               /\ \A k \in 1 .. round'[x] : k < round'[x] => N(x, k + 1)' = After(x, k, N(x, k))'
    <3>1. /\ round[x] = 0 => lists[x] = scenario.lists[x]
          /\ round[x] > 0 => /\ N(x, 1) = DOMAIN scenario.lists[x]
                             /\ DOMAIN lists[x] = After(x, round[x], N(x, round[x]) \ Waiting(x))
          /\ \A k \in 1 .. round[x] : k < round[x] => N(x, k + 1) = After(x, k, N(x, k))
      BY DEF SyncInv, RoundInv, KnownInv
    <3>2. round'[x] = round[x] /\ lists'[x] = lists[x] /\ scenario' = scenario
      BY <1>1, <1>2
    <3>3. \A k : N(x, k)' = N(x, k)
      BY <1>1 DEF N
    <3>4. round'[x] = 0 => lists'[x] = scenario'.lists[x]
      BY <3>1, <3>2
    <3>5. round'[x] > 0 => /\ N(x, 1)' = DOMAIN scenario'.lists[x]
                           /\ DOMAIN lists'[x] = After(x, round[x], N(x, round[x]) \ Waiting(x))'
      BY <2>2, <3>1, <3>2, <3>3
    <3>6. ASSUME NEW k \in 1 .. round'[x], k < round'[x] PROVE N(x, k + 1)' = After(x, k, N(x, k))'
      BY <2>3, <3>1, <3>2, <3>3, <3>6
    <3> QED BY <3>4, <3>5, <3>6
  <2> QED BY <2>4 DEF KnownInv
<1> QED BY <1>5, <1>6, <1>7, <1>8 DEF RoundInv

\* Everybody a process has heard of in a sync has come to it.
LEMMA HeardCame ==
  ASSUME SyncInv, NEW r \in Rank, NEW k \in 1 .. round[r], NEW t \in N(r, k), Got(r, k, t)
  PROVE  t \in Rank /\ t # r /\ k \in 1 .. round[t] /\ r \in N(t, k)
<1>1. t \in Rank /\ t # r
  BY NeighboursType DEF SyncInv
<1>2. round[t] \in Nat /\ round[r] \in Nat
  BY <1>1 DEF SyncInv, TypeInv, CountInv
<1>3. k \in 1 .. round[t]
  BY <1>2 DEF Got
<1>4. r \in N(t, k)
  BY <1>1, <1>2, <1>3 DEF SyncInv, RoundInv, SymmetricInv
<1> QED BY <1>1, <1>3, <1>4

\* Two that have all messages of a sync know each other after it or do not.
LEMMA AfterOneWay ==
  ASSUME SyncInv, NEW r \in Rank, NEW q \in Rank, NEW k \in 1 .. round[r], k \in 1 .. round[q],
         \A t \in N(r, k) : Got(r, k, t), q \in After(r, k, N(r, k))
  PROVE  r \in After(q, k, N(q, k))
<1>1. round[r] \in Nat /\ round[q] \in Nat
  BY DEF SyncInv, TypeInv, CountInv
<1>2. CASE q \in N(r, k)
  <2>1. r \in N(q, k)
    BY <1>1, <1>2 DEF SyncInv, RoundInv, SymmetricInv
  <2> QED BY <2>1 DEF After
<1>3. ASSUME NEW t \in N(r, k), q \in Introduces(before[t][k].set, before[t][k].lists, r)
      PROVE  r \in After(q, k, N(q, k))
  <2>1. t \in Rank /\ k \in 1 .. round[t] /\ r \in N(t, k)
    BY HeardCame
  <2>2. q \in N(t, k)
    BY <1>3 DEF Introduces, N
  <2>3. t \in N(q, k)
    BY <1>1, <2>1, <2>2 DEF SyncInv, RoundInv, SymmetricInv
  <2>4. r \in Introduces(before[t][k].set, before[t][k].lists, q)
    BY <1>3, IntroducesBoth
  <2> QED BY <2>3, <2>4 DEF After
<1> QED BY <1>2, <1>3 DEF After

\* A process in the user's code waits for nobody.
LEMMA UserHeard ==
  ASSUME SyncInv, NEW r \in Rank, pc[r] = "user", round[r] > 0
  PROVE  /\ Waiting(r) = {} /\ round[r] \in 1 .. round[r]
         /\ \A t \in N(r, round[r]) : Got(r, round[r], t)
         /\ DOMAIN lists[r] = After(r, round[r], N(r, round[r]))
<1>1. round[r] \in 1 .. round[r]
  BY DEF SyncInv, TypeInv, CountInv
<1>2. Cardinality(Waiting(r)) = Cardinality(expected[r]) /\ expected[r] = {}
  BY DEF SyncInv, TypeInv, CountInv, RoundInv, HeardInv
<1>3. IsFiniteSet(Waiting(r))
  <2>1. Waiting(r) \subseteq Rank
    BY <1>1, NeighboursType DEF SyncInv, Waiting
  <2> QED BY <2>1, Ranks, FS_Subset
<1>4. Waiting(r) = {}
  BY <1>2, <1>3, FS_EmptySet
<1>5. \A t \in N(r, round[r]) : Got(r, round[r], t)
  BY <1>4 DEF Waiting
<1>6. DOMAIN lists[r] = After(r, round[r], N(r, round[r]) \ Waiting(r))
  BY DEF SyncInv, RoundInv, KnownInv
<1>7. N(r, round[r]) \ Waiting(r) = N(r, round[r])
  BY <1>4
<1> QED BY <1>1, <1>4, <1>5, <1>6, <1>7

\* Who comes to a sync has the neighbours in it that have it as theirs.
LEMMA NewNeighbours ==
  ASSUME SyncInv, NEW r \in Rank, pc[r] = "user", NEW q \in Rank, round[q] >= round[r] + 1
  PROVE  q \in DOMAIN lists[r] <=> r \in N(q, round[r] + 1)
<1>1. round[r] \in Nat /\ round[q] \in Nat
  BY DEF SyncInv, TypeInv, CountInv
<1>2. CASE round[r] = 0
  <2>0. round[q] > 0
    BY <1>1, <1>2
  <2>1. lists[r] = scenario.lists[r] /\ N(q, 1) = DOMAIN scenario.lists[q]
    BY <1>2, <2>0 DEF SyncInv, RoundInv, KnownInv
  <2>2. q \in DOMAIN scenario.lists[r] <=> r \in DOMAIN scenario.lists[q]
    BY ScenarioType DEF SyncInv, TypeInv
  <2> QED BY <1>2, <2>1, <2>2
<1>3. CASE round[r] > 0
  <2>1. PICK k : k = round[r]
    OBVIOUS
  <2>2. k \in 1 .. round[r] /\ k \in 1 .. round[q] /\ k < round[q]
    BY <1>1, <1>3, <2>1
  <2>3. (\A t \in N(r, k) : Got(r, k, t)) /\ DOMAIN lists[r] = After(r, k, N(r, k))
    BY <1>3, <2>1, UserHeard
  <2>4. (\A t \in N(q, k) : Got(q, k, t)) /\ N(q, k + 1) = After(q, k, N(q, k))
    BY <2>2 DEF SyncInv, RoundInv, HeardInv, KnownInv
  <2>5. q \in DOMAIN lists[r] => r \in N(q, k + 1)
    BY <2>2, <2>3, <2>4, AfterOneWay
  <2>6. r \in N(q, k + 1) => q \in DOMAIN lists[r]
    BY <2>2, <2>3, <2>4, AfterOneWay
  <2> QED BY <2>1, <2>5, <2>6
<1> QED BY <1>1, <1>2, <1>3

\* Who begins a sync waits for all neighbours, and nobody has got more or less by it.
LEMMA StartGot ==
  ASSUME SyncInv, NEW r \in Rank, StartSync(r), NEW K, K = round[r] + 1
  PROVE  /\ \A x \in Rank : \A k \in 1 .. round[x] : \A p \in N(x, k) : Got(x, k, p)' <=> Got(x, k, p)
         /\ \A k \in Nat : k <= round[r] => \A x : Got(x, k, r)
         /\ \A x \in Rank : Got(x, K, r)' => x \notin DOMAIN lists[r]
         /\ \A p \in DOMAIN lists[r] : ~Got(r, K, p)'
<1>0. TypeInv
  BY DEF SyncInv
<1>1. /\ pc[r] = "user" /\ round'[r] = round[r] + 1 /\ DOMAIN sent'[r] = DOMAIN lists[r]
      /\ \A p \in Rank \ {r} : round'[p] = round[p] /\ sent'[p] = sent[p]
  BY <1>0, StartEffect
<1>2. DOMAIN sent[r] = {} /\ \A x \in Rank : round[x] \in Nat
  BY <1>0, <1>1 DEF TypeInv, CountInv
<1>3. ASSUME NEW k \in Nat, k <= round[r], NEW x PROVE Got(x, k, r)
  BY <1>2, <1>3 DEF Got
<1>4. ASSUME NEW x \in Rank, Got(x, K, r)'
      PROVE  x \notin DOMAIN lists[r]
  BY <1>1, <1>2, <1>4 DEF Got
<1>5. ASSUME NEW x \in Rank, NEW k \in 1 .. round[x], NEW p \in N(x, k)
      PROVE  Got(x, k, p)' <=> Got(x, k, p)
  <2>1. p \in Rank /\ p # x
    BY <1>0, NeighboursType
  <2>2. CASE p # r
    BY <1>1, <2>1, <2>2 DEF Got
  <2>3. CASE p = r
    <3>1. CASE k <= round[r]
      <4>1. Got(x, k, r)
        BY <1>3, <3>1
      <4>2. Got(x, k, r)'
        BY <1>1, <1>2, <3>1 DEF Got
      <4> QED BY <2>3, <4>1, <4>2
    <3>2. CASE k = round[r] + 1
      <4>1. x \in DOMAIN lists[r]
        <5>1. round[x] >= round[r] + 1 /\ r \in N(x, round[r] + 1)
          BY <1>2, <2>3, <3>2
        <5> QED BY <1>1, <5>1, NewNeighbours
      <4>2. ~Got(x, k, r)'
        BY <1>1, <1>2, <3>2, <4>1 DEF Got
      <4>3. ~Got(x, k, r)
        BY <1>2, <3>2 DEF Got
      <4> QED BY <2>3, <4>2, <4>3
    <3>3. CASE k > round[r] + 1
      BY <1>1, <1>2, <2>3, <3>3 DEF Got
    <3>4. k <= round[r] \/ k = round[r] + 1 \/ k > round[r] + 1
      BY <1>2
    <3> QED BY <3>1, <3>2, <3>3, <3>4
  <2> QED BY <2>2, <2>3
<1>6. ASSUME NEW p \in DOMAIN lists[r], Got(r, K, p)'
      PROVE  FALSE
  <2>1. p \in Rank /\ p # r
    BY <1>0 DEF TypeInv, SetsInv, RemoteLists
  <2>2. Got(r, K, p) /\ K \in Nat
    BY <1>1, <1>2, <1>6, <2>1 DEF Got
  <2>3. round[p] >= round[r] + 1 /\ K \in 1 .. round[p]
    BY <1>2, <2>1, <2>2 DEF Got
  <2>4. r \in N(p, K)
    BY <1>1, <2>1, <2>3, NewNeighbours
  <2>5. round[r] >= K
    BY <2>1, <2>2, <2>3, <2>4 DEF SyncInv, RoundInv, ReceivedInv
  <2> QED BY <1>2, <2>5
<1> QED BY <1>3, <1>4, <1>5, <1>6

\* Who begins a sync only adds to the history.
LEMMA StartHistory ==
  ASSUME SyncInv, NEW r \in Rank, StartSync(r), NEW K, K = round[r] + 1
  PROVE  /\ \A x \in Rank : \A k \in 1 .. round[x] : N(x, k)' = N(x, k)
         /\ N(r, K)' = DOMAIN lists[r]
         /\ \A x \in Rank : \A k \in 1 .. round[x] : \A heard \in SUBSET Rank :
              (\A t \in heard : k \in 1 .. round[t])
                => After(x, k, heard)' = After(x, k, heard)
<1>1. /\ \A p \in Rank : \A k \in 1 .. round[p] : before'[p][k] = before[p][k]
      /\ before'[r][round[r] + 1].lists = lists[r]
  BY HistoryGrows DEF SyncInv
<1>2. ASSUME NEW x \in Rank, NEW k \in 1 .. round[x], NEW heard \in SUBSET Rank,
             \A t \in heard : k \in 1 .. round[t]
      PROVE  After(x, k, heard)' = After(x, k, heard)
  <2>1. \A t \in heard : before'[t][k] = before[t][k]
    BY <1>1, <1>2
  <2>2. before'[x][k] = before[x][k]
    BY <1>1
  <2> QED BY <2>1, <2>2 DEF After, N
<1> QED BY <1>1, <1>2 DEF N

\* Who begins a sync waits for all its neighbours; the others wait as before.
LEMMA StartWaiting ==
  ASSUME SyncInv, NEW r \in Rank, StartSync(r)
  PROVE  /\ \A x \in Rank \ {r} : round[x] > 0 =>
              /\ Waiting(x)' = Waiting(x)
              /\ (N(x, round[x]) \ Waiting(x))' = N(x, round[x]) \ Waiting(x)
              /\ Heard(x)' = Heard(x)
         /\ Waiting(r)' = DOMAIN lists[r] /\ (N(r, round[r]) \ Waiting(r))' = {}
         /\ Heard(r)' = {}
<1>0. TypeInv
  BY DEF SyncInv
<1>1. /\ pc[r] = "user" /\ scenario' = scenario /\ lists' = lists
      /\ round'[r] = round[r] + 1 /\ expected'[r] = DOMAIN lists[r]
      /\ \A p \in Rank \ {r} : round'[p] = round[p] /\ expected'[p] = expected[p]
  BY <1>0, StartEffect
<1>2. \A x \in Rank : round[x] \in Nat /\ round'[x] \in Nat /\ round'[x] >= round[x]
  <2>1. \A x \in Rank : round[x] \in Nat
    BY <1>0 DEF TypeInv, CountInv
  <2> QED BY <1>1, <2>1
<1>3. PICK K \in Nat : K = round[r] + 1
  BY <1>2
<1>4. /\ \A x \in Rank : \A k \in 1 .. round[x] : N(x, k)' = N(x, k)
      /\ N(r, K)' = DOMAIN lists[r]
      /\ \A x \in Rank : \A k \in 1 .. round[x] : \A heard \in SUBSET Rank :
           (\A t \in heard : k \in 1 .. round[t]) => After(x, k, heard)' = After(x, k, heard)
  BY <1>3, StartHistory
<1>5. /\ \A x \in Rank : \A k \in 1 .. round[x] : \A p \in N(x, k) : Got(x, k, p)' <=> Got(x, k, p)
      /\ \A k \in Nat : k <= round[r] => \A x : Got(x, k, r)
      /\ \A x \in Rank : Got(x, K, r)' => x \notin DOMAIN lists[r]
      /\ \A p \in DOMAIN lists[r] : ~Got(r, K, p)'
  BY <1>3, StartGot
<1>6. \A x \in Rank \ {r} : round[x] > 0 =>
         /\ Waiting(x)' = Waiting(x)
         /\ (N(x, round[x]) \ Waiting(x))' = N(x, round[x]) \ Waiting(x)
  <2> SUFFICES ASSUME NEW x \in Rank \ {r}, round[x] > 0
               PROVE  /\ Waiting(x)' = Waiting(x)
                      /\ (N(x, round[x]) \ Waiting(x))' = N(x, round[x]) \ Waiting(x)
    OBVIOUS
  <2>1. PICK k : k = round[x]
    OBVIOUS
  <2>2. k = round'[x] /\ k \in 1 .. round[x]
    BY <1>1, <1>2, <2>1
  <2>3. N(x, k)' = N(x, k) /\ \A p \in N(x, k) : Got(x, k, p)' <=> Got(x, k, p)
    BY <1>4, <1>5, <2>2
  <2>4. Waiting(x)' = {p \in N(x, k)' : ~Got(x, k, p)'} /\ Waiting(x) = {p \in N(x, k) : ~Got(x, k, p)}
    BY <2>1, <2>2 DEF Waiting
  <2>5. Waiting(x)' = Waiting(x)
    BY <2>3, <2>4
  <2>6. N(x, round[x])' = N(x, round[x])
    BY <2>1, <2>2, <2>3 DEF N
  <2> QED BY <2>5, <2>6
<1>7. Waiting(r)' = DOMAIN lists[r] /\ (N(r, round[r]) \ Waiting(r))' = {}
  <2>1. K = round'[r]
    BY <1>1, <1>3
  <2>2. Waiting(r)' = {p \in N(r, K)' : ~Got(r, K, p)'}
    BY <2>1 DEF Waiting
  <2>3. N(r, round[r])' = N(r, K)'
    BY <2>1 DEF N
  <2>4. Waiting(r)' = DOMAIN lists[r]
    BY <1>4, <1>5, <2>2
  <2> QED BY <1>4, <2>3, <2>4
<1> QED BY <1>6, <1>7 DEF Heard

\* Who begins a sync has the neighbours in it that the others have it as.
LEMMA StartRounds ==
  ASSUME SyncInv, NEW r \in Rank, StartSync(r)
  PROVE  RoundInv'
<1>0. TypeInv
  BY DEF SyncInv
<1>1. /\ pc[r] = "user" /\ scenario' = scenario /\ lists' = lists
      /\ round'[r] = round[r] + 1 /\ expected'[r] = DOMAIN lists[r]
      /\ \A p \in Rank \ {r} : round'[p] = round[p] /\ expected'[p] = expected[p]
  BY <1>0, StartEffect
<1>2. \A x \in Rank : round[x] \in Nat /\ round'[x] \in Nat /\ round'[x] >= round[x]
  <2>1. \A x \in Rank : round[x] \in Nat
    BY <1>0 DEF TypeInv, CountInv
  <2> QED BY <1>1, <2>1
<1>3. PICK K \in Nat : K = round[r] + 1
  BY <1>2
<1>4. /\ \A x \in Rank : \A k \in 1 .. round[x] : N(x, k)' = N(x, k)
      /\ N(r, K)' = DOMAIN lists[r]
      /\ \A x \in Rank : \A k \in 1 .. round[x] : \A heard \in SUBSET Rank :
           (\A t \in heard : k \in 1 .. round[t]) => After(x, k, heard)' = After(x, k, heard)
  BY <1>3, StartHistory
<1>5. /\ \A x \in Rank : \A k \in 1 .. round[x] : \A p \in N(x, k) : Got(x, k, p)' <=> Got(x, k, p)
      /\ \A k \in Nat : k <= round[r] => \A x : Got(x, k, r)
      /\ \A x \in Rank : Got(x, K, r)' => x \notin DOMAIN lists[r]
      /\ \A p \in DOMAIN lists[r] : ~Got(r, K, p)'
  BY <1>3, StartGot
<1>6. \A x \in Rank : \A k \in 1 .. round'[x] : k \in 1 .. round[x] \/ (x = r /\ k = K)
  BY <1>1, <1>2, <1>3
<1>7. \A x \in Rank : \A k \in 1 .. round[x] : N(x, k) \subseteq Rank \ {x}
  BY <1>0, NeighboursType
<1>8. DOMAIN lists[r] \subseteq Rank \ {r}
  BY <1>0 DEF TypeInv, SetsInv, RemoteLists
<1>9. \A q \in Rank : round[q] >= K => (q \in DOMAIN lists[r] <=> r \in N(q, K))
  BY <1>1, <1>3, NewNeighbours
<1>10. /\ \A x \in Rank \ {r} : round[x] > 0 =>
            /\ Waiting(x)' = Waiting(x)
            /\ (N(x, round[x]) \ Waiting(x))' = N(x, round[x]) \ Waiting(x)
       /\ Waiting(r)' = DOMAIN lists[r] /\ (N(r, round[r]) \ Waiting(r))' = {}
  BY StartWaiting
<1>12. SymmetricInv'
  <2>1. ASSUME NEW x \in Rank, NEW q \in Rank, NEW k \in 1 .. round'[x], k <= round'[q]
        PROVE  q \in N(x, k)' <=> x \in N(q, k)'
    <3>1. k \in 1 .. round'[q]
      BY <1>2, <2>1
    <3>2. CASE k \in 1 .. round[x] /\ k \in 1 .. round[q]
      <4>1. q \in N(x, k) <=> x \in N(q, k)
        BY <1>2, <3>2 DEF SyncInv, RoundInv, SymmetricInv
      <4> QED BY <1>4, <3>2, <4>1
    <3>3. CASE x = r /\ k = K /\ k \in 1 .. round[q]
      <4>1. round[q] >= K
        BY <1>2, <3>3
      <4> QED BY <1>4, <1>9, <3>3, <4>1
    <3>4. CASE q = r /\ k = K /\ k \in 1 .. round[x]
      <4>1. round[x] >= K
        BY <1>2, <3>4
      <4> QED BY <1>4, <1>9, <3>4, <4>1
    <3>5. CASE x = r /\ q = r
      BY <3>5
    <3> QED BY <1>6, <3>1, <3>2, <3>3, <3>4, <3>5
  <2> QED BY <2>1 DEF SymmetricInv
<1>13. HeardInv'
  <2>1. ASSUME NEW x \in Rank, NEW k \in 1 .. round'[x], k < round'[x], NEW p \in N(x, k)'
        PROVE  Got(x, k, p)'
    <3>1. k \in 1 .. round[x]
      BY <1>1, <1>2, <1>3, <1>6, <2>1
    <3>2. p \in N(x, k)
      BY <1>4, <3>1
    <3>3. Got(x, k, p)
      <4>1. CASE k < round[x]
        BY <3>1, <3>2, <4>1 DEF SyncInv, RoundInv, HeardInv
      <4>2. CASE x = r /\ k = round[r]
        <5>1. round[r] > 0
          BY <1>2, <3>1, <4>2
        <5>2. \A t \in N(r, round[r]) : Got(r, round[r], t)
          BY <1>1, <5>1, UserHeard
        <5> QED BY <3>2, <4>2, <5>2
      <4> QED BY <1>1, <1>2, <2>1, <3>1, <4>1, <4>2
    <3> QED BY <1>5, <3>1, <3>2, <3>3
  <2>2. ASSUME NEW x \in Rank, round'[x] > 0
        PROVE  /\ Cardinality(expected'[x]) = Cardinality(Waiting(x)')
               /\ scenario'.fixedOrder => expected'[x] = Waiting(x)'
    <3>1. CASE x = r
      BY <1>1, <1>10, <3>1
    <3>2. CASE x # r
      <4>1. round[x] > 0 /\ expected'[x] = expected[x] /\ x \in Rank \ {r}
        BY <1>1, <2>2, <3>2
      <4>2. Waiting(x)' = Waiting(x)
        BY <1>10, <4>1
      <4>3. /\ Cardinality(expected[x]) = Cardinality(Waiting(x))
            /\ scenario.fixedOrder => expected[x] = Waiting(x)
        BY <4>1 DEF SyncInv, RoundInv, HeardInv
      <4> QED BY <1>1, <4>1, <4>2, <4>3
    <3> QED BY <3>1, <3>2
  <2> QED BY <2>1, <2>2 DEF HeardInv
<1>14. ReceivedInv'
  <2>1. ASSUME NEW p \in Rank, NEW k \in 1 .. round'[p], NEW x \in N(p, k)', Got(x, k, p)'
        PROVE  round'[x] >= k
    <3>1. CASE k \in 1 .. round[p]
      <4>1. x \in N(p, k) /\ x \in Rank
        BY <1>4, <1>7, <3>1
      <4>2. Got(x, k, p)
        <5>1. CASE p = r
          <6>1. k \in Nat /\ k <= round[r]
            BY <1>2, <3>1, <5>1
          <6> QED BY <1>5, <5>1, <6>1
        <5>2. CASE p # r
          <6>1. round'[p] = round[p] /\ sent'[p] = sent[p]
            BY <1>0, <5>2, StartEffect
          <6> QED BY <2>1, <6>1 DEF Got
        <5> QED BY <5>1, <5>2
      <4>3. round[x] >= k
        BY <3>1, <4>1, <4>2 DEF SyncInv, RoundInv, ReceivedInv
      <4> QED BY <1>2, <3>1, <4>1, <4>3
    <3>2. CASE p = r /\ k = K
      <4>1. x \in DOMAIN lists[r] /\ x \in Rank
        BY <1>4, <1>8, <3>2
      <4> QED BY <1>5, <2>1, <3>2, <4>1
    <3> QED BY <1>6, <3>1, <3>2
  <2> QED BY <2>1 DEF ReceivedInv
<1>15. KnownInv'
  <2>1. ASSUME NEW x \in Rank
        PROVE  /\ round'[x] = 0 => lists'[x] = scenario'.lists[x]
               /\ round'[x] > 0 => N(x, 1)' = DOMAIN scenario'.lists[x]
    <3>1. CASE round[x] > 0
      <4>1. 1 \in 1 .. round[x] /\ round'[x] # 0
        BY <1>2, <3>1
      <4> QED BY <1>1, <1>4, <3>1, <4>1 DEF SyncInv, RoundInv, KnownInv
    <3>2. CASE round[x] = 0 /\ x # r
      <4>1. lists[x] = scenario.lists[x]
        BY <3>2 DEF SyncInv, RoundInv, KnownInv
      <4>2. round'[x] = 0
        BY <1>1, <3>2
      <4> QED BY <1>1, <4>1, <4>2
    <3>3. CASE round[x] = 0 /\ x = r
      <4>1. lists[r] = scenario.lists[r]
        BY <3>3 DEF SyncInv, RoundInv, KnownInv
      <4>2. K = 1 /\ round'[x] # 0
        BY <1>1, <1>3, <3>3
      <4> QED BY <1>1, <1>4, <3>3, <4>1, <4>2
    <3> QED BY <1>2, <3>1, <3>2, <3>3
  <2>2. ASSUME NEW x \in Rank, round'[x] > 0
        PROVE  DOMAIN lists'[x] = After(x, round[x], N(x, round[x]) \ Waiting(x))'
    <3>1. CASE x = r
      <4>1. After(x, round[x], N(x, round[x]) \ Waiting(x))' = N(r, round[r])' \cup UNION {}
        BY <1>10, <3>1 DEF After
      <4>2. N(r, round[r])' = N(r, K)'
        BY <1>1, <1>3 DEF N
      <4> QED BY <1>1, <1>4, <3>1, <4>1, <4>2
    <3>2. CASE x # r
      <4>1. x \in Rank \ {r} /\ round[x] > 0 /\ round'[x] = round[x]
        BY <1>1, <2>2, <3>2
      <4>2. PICK k, heard : k = round[x] /\ heard = N(x, round[x]) \ Waiting(x)
        OBVIOUS
      <4>3. k \in 1 .. round[x]
        BY <1>2, <4>1, <4>2
      <4>4. \A t \in heard : t \in Rank /\ k \in 1 .. round[t]
        BY <4>2, <4>3, HeardCame DEF Waiting
      <4>5. After(x, k, heard)' = After(x, k, heard)
        BY <1>4, <4>3, <4>4
      <4>6. k = round'[x] /\ heard = (N(x, round[x]) \ Waiting(x))'
        BY <1>10, <4>1, <4>2
      <4>7. After(x, round[x], N(x, round[x]) \ Waiting(x))' = After(x, k, heard)'
        BY <4>6 DEF After
      <4>8. DOMAIN lists[x] = After(x, k, heard)
        BY <4>1, <4>2 DEF SyncInv, RoundInv, KnownInv
      <4> QED BY <1>1, <4>5, <4>7, <4>8
    <3> QED BY <3>1, <3>2
  <2>3. ASSUME NEW x \in Rank, NEW k \in 1 .. round'[x], k < round'[x]
        PROVE  N(x, k + 1)' = After(x, k, N(x, k))'
    <3>1. k \in 1 .. round[x]
      BY <1>1, <1>2, <1>3, <1>6, <2>3
    <3>2. PICK heard : heard = N(x, k)
      OBVIOUS
    <3>3. \A t \in heard : t \in Rank /\ k \in 1 .. round[t]
      <4>1. \A t \in N(x, k) : Got(x, k, t)
        <5>1. CASE k < round[x]
          BY <3>1, <5>1 DEF SyncInv, RoundInv, HeardInv
        <5>2. CASE x = r /\ k = round[r]
          <6>1. round[r] > 0
            BY <1>2, <3>1, <5>2
          <6> QED BY <1>1, <5>2, <6>1, UserHeard
        <5> QED BY <1>1, <1>2, <2>3, <3>1, <5>1, <5>2
      <4> QED BY <3>1, <3>2, <4>1, HeardCame
    <3>4. After(x, k, heard)' = After(x, k, heard)
      BY <1>4, <3>1, <3>3
    <3>5. N(x, k)' = heard
      BY <1>4, <3>1, <3>2
    <3>6. After(x, k, N(x, k))' = After(x, k, heard)'
      BY <3>5 DEF After
    <3>7. N(x, k + 1)' = After(x, k, heard)
      <4>1. CASE k < round[x]
        <5>1. k + 1 \in 1 .. round[x]
          BY <1>2, <3>1, <4>1
        <5>2. N(x, k + 1)' = N(x, k + 1)
          BY <1>4, <5>1
        <5> QED BY <3>1, <3>2, <4>1, <5>2 DEF SyncInv, RoundInv, KnownInv
      <4>2. CASE x = r /\ k = round[r]
        <5>1. round[r] > 0 /\ k + 1 = K
          BY <1>2, <1>3, <3>1, <4>2
        <5>2. DOMAIN lists[r] = After(r, k, heard)
          BY <1>1, <3>2, <4>2, <5>1, UserHeard
        <5> QED BY <1>4, <4>2, <5>1, <5>2
      <4> QED BY <1>1, <1>2, <2>3, <3>1, <4>1, <4>2
    <3> QED BY <3>4, <3>6, <3>7
  <2> QED BY <2>1, <2>2, <2>3 DEF KnownInv
<1> QED BY <1>12, <1>13, <1>14, <1>15 DEF RoundInv

\* Nothing happens when nothing happens.
LEMMA StaySync == ASSUME SyncInv, UNCHANGED vars PROVE SyncInv'
<1>1. /\ scenario' = scenario /\ round' = round /\ pc' = pc /\ indexSet' = indexSet
      /\ newIndices' = newIndices /\ lists' = lists /\ expected' = expected
      /\ sent' = sent /\ before' = before
  BY DEF vars
<1>2. TypeInv'
  BY <1>1 DEF SyncInv, TypeInv, SetsInv, CountInv, BeforeInv, SentInv, N
<1>3. RoundInv'
  BY <1>1, RoundStays
<1> QED BY <1>2, <1>3 DEF SyncInv

\* The invariant of the syncs is kept by every step.
LEMMA SyncStep ==
  ASSUME OrderlyScenarios, SyncInv, [Next]_vars
  PROVE  SyncInv'
<1>1. ASSUME NEW r \in Rank, StartSync(r) PROVE SyncInv'
  BY <1>1, StartType, StartRounds DEF SyncInv
<1>2. ASSUME NEW r \in Rank, FinishSync(r) PROVE SyncInv'
  <2>1. TypeInv'
    BY <1>2, FinishType DEF SyncInv
  <2>2. UNCHANGED <<scenario, round, before, lists, expected, sent>>
    BY <1>2, FinishEffect DEF SyncInv
  <2> QED BY <2>1, <2>2, RoundStays DEF SyncInv
<1>3. ASSUME NEW r \in Rank, NEW source \in Rank, RecvAndUnpack(r, source) PROVE SyncInv'
  BY <1>3, ReceiveType, ReceiveRounds DEF SyncInv
<1>4. CASE UNCHANGED vars
  BY <1>4, StaySync
<1> QED BY <1>1, <1>2, <1>3, <1>4 DEF Next, Step

\* SyncInv: neighbours of a sync name each other, whoever waits for a message of a sync is
\* sent one, and nobody is received from out of turn (sync, recvAndUnpack).
THEOREM SyncRounds == ASSUME OrderlyScenarios PROVE Spec => []SyncInv
<1>1. Init => SyncInv
  BY SyncInit
<1>2. SyncInv /\ [Next]_vars => SyncInv'
  BY SyncStep
<1> QED BY <1>1, <1>2, PTL DEF Spec

\* RoundsApart: although the messages of all syncs have one tag, recvAndUnpack never takes
\* one of the next sync for one of this sync.
THEOREM SyncRoundsApart == ASSUME OrderlyScenarios PROVE Spec => []RoundsApart
<1>1. SyncInv => RoundsApart
  <2> SUFFICES ASSUME SyncInv, NEW r \in Rank, NEW source \in Rank, MayReceive(r, source)
               PROVE  sent[source][r].round = round[r]
    BY DEF RoundsApart
  <2>1. round[source] = round[r] /\ r \in DOMAIN sent[source]
    BY RightRound DEF MayReceive
  <2> QED BY <2>1 DEF SyncInv, TypeInv, SentInv
<1> QED BY <1>1, SyncRounds, PTL

\* A step of the whole system is one of the syncer or leaves it alone.
LEMMA SyncedStep == NextSynced => [Next]_vars
BY DEF NextSynced, Next, Build, Communicate

\* Building an interface and communicating change nothing of the synchronisation: the
\* composed system implements IndicesSyncer's specification.
THEOREM SyncedIsSync == SpecSynced => Spec
<1>1. InitSynced => Init
  BY DEF InitSynced
<1>2. [NextSynced]_<<vars, communicatorVars>> => [Next]_vars
  BY SyncedStep
<1> QED BY <1>1, <1>2, PTL DEF SpecSynced, Spec

-----------------------------------------------------------------------------
(* What is told.                                                           *)

\* Two claims about an index of a process agree.
LEMMA OneClaim ==
  ASSUME NEW s, Truthful(s), NEW r, NEW g, NEW a, NEW b,
         <<r, g, a>> \in Claims(s), <<r, g, b>> \in Claims(s)
  PROVE  a = b
<1>1. \A c, d \in Claims(s) : c[1] = d[1] /\ c[2] = d[2] => c[3] = d[3]
  BY DEF Truthful
<1> DEFINE c == <<r, g, a>>
           d == <<r, g, b>>
<1>2. c[1] = r /\ c[2] = g /\ c[3] = a /\ d[1] = r /\ d[2] = g /\ d[3] = b
  OBVIOUS
<1>3. c \in Claims(s) /\ d \in Claims(s)
  OBVIOUS
<1> HIDE DEF c, d
<1> QED BY <1>1, <1>2, <1>3

\* In a sorted list the search finds what is there.
LEMMA FoundListed ==
  ASSUME NEW ls, ls \in [DOMAIN ls -> Seq(RemoteIndex)], NEW q \in DOMAIN ls,
         Ascending(ls[q]), NEW e \in ToSet(ls[q])
  PROVE  q \in KnownIn(ls, e.global)
<1>1. PICK list \in Seq(RemoteIndex) : list = ls[q]
  OBVIOUS
<1>2. Len(list) \in Nat /\ DOMAIN list = 1 .. Len(list)
  OBVIOUS
<1>3. PICK j \in 1 .. Len(list) : list[j] = e
  BY <1>1, <1>2 DEF ToSet
<1>4. \A i \in 1 .. Len(list) : list[i] \in RemoteIndex /\ list[i].global \in Int
  <2>1. \A i \in 1 .. Len(list) : list[i] \in RemoteIndex
    BY <1>2
  <2>2. \A d \in RemoteIndex : d.global \in Int
    BY DEF RemoteIndex
  <2> QED BY <2>1, <2>2
<1> DEFINE below == GlobalsBelow(list, e.global)
           i == FirstFrom(list, below)
<1>5. /\ i \in 1 .. Len(list) + 1 /\ \A k \in 1 .. i - 1 : list[k] \in below
      /\ i <= Len(list) => list[i] \notin below
  BY FirstFromIs
<1>6. \A k \in 1 .. Len(list) : list[k] \in below <=> list[k].global < e.global
  BY <1>2 DEF GlobalsBelow, ToSet
<1> HIDE DEF i, below
<1>7. i <= j
  <2>1. list[j] \notin below
    BY <1>3, <1>4, <1>6
  <2> QED BY <1>2, <1>3, <1>5, <2>1
<1>8. i \in 1 .. Len(list)
  BY <1>2, <1>3, <1>5, <1>7
<1>9. list[i].global >= e.global
  BY <1>3, <1>4, <1>5, <1>6, <1>8
<1>10. list[i].global <= e.global
  <2>1. CASE i = j
    BY <1>3, <1>4, <2>1
  <2>2. CASE i < j
    BY <1>1, <1>3, <1>8, <2>2 DEF Ascending
  <2> QED BY <1>2, <1>7, <1>8, <2>1, <2>2
<1>11. list[i].global = e.global
  BY <1>3, <1>4, <1>8, <1>9, <1>10
<1>12. LET n == FirstFrom(ls[q], GlobalsBelow(ls[q], e.global))
       IN n <= Len(ls[q]) /\ ls[q][n].global = e.global
  BY <1>1, <1>8, <1>11 DEF i, below
<1> QED BY <1>12 DEF KnownIn

\* What packAndSend finds of a process in the lists is what is listed of it.
LEMMA TruthTheirs ==
  ASSUME NEW s, Truthful(s), NEW p, NEW pairs, NEW ls, ls \in [DOMAIN ls -> Seq(RemoteIndex)],
         Known(s, p, pairs, ls), NEW q \in DOMAIN ls, NEW e \in ToSet(ls[q])
  PROVE  /\ q \in KnownIn(ls, e.global) /\ TheirsIn(ls, q, e.global) = e.theirs
         /\ e \in RemoteIndex
<1>1. Ascending(ls[q]) /\ \A d \in ToSet(ls[q]) : <<q, d.global, d.theirs>> \in Claims(s)
  BY DEF Known
<1>2. q \in KnownIn(ls, e.global)
  BY <1>1, FoundListed
<1>3. e \in RemoteIndex
  BY DEF ToSet
<1>4. e.global \in Int
  BY <1>3 DEF RemoteIndex
<1>5. PICK d \in ToSet(ls[q]) : d.global = e.global /\ d.theirs = TheirsIn(ls, q, e.global)
  BY <1>2, <1>4, TheirsType
<1>6. d.theirs = e.theirs
  <2>1. <<q, e.global, d.theirs>> \in Claims(s) /\ <<q, e.global, e.theirs>> \in Claims(s)
    BY <1>1, <1>5
  <2> QED BY <2>1, OneClaim
<1> QED BY <1>2, <1>3, <1>5, <1>6

\* What a message tells, as the lists of its sender have it.
LEMMA SharedAre ==
  ASSUME NEW s, Truthful(s), NEW set \in Seq(IndexPair), NEW p, NEW ls,
         ls \in [DOMAIN ls -> Seq(RemoteIndex)], Known(s, p, ToSet(set), ls), NEW r
  PROVE  /\ \A i \in SharedWith(set, ls, r) : \E e \in Listed(ls, r) :
              /\ e.global = set[i].global /\ e.theirs = TheirsIn(ls, r, set[i].global)
              /\ e.mine = set[i].attribute
         /\ \A e \in Listed(ls, r) : \E i \in SharedWith(set, ls, r) : set[i] = Pair(e)
<1>1. ASSUME NEW i \in SharedWith(set, ls, r)
      PROVE  \E e \in Listed(ls, r) :
              /\ e.global = set[i].global /\ e.theirs = TheirsIn(ls, r, set[i].global)
              /\ e.mine = set[i].attribute
  <2>1. i \in DOMAIN set /\ r \in KnownIn(ls, set[i].global)
    BY DEF SharedWith
  <2>2. set[i] \in IndexPair /\ set[i] \in ToSet(set) /\ set[i].global \in Int
    <3>1. set[i] \in IndexPair
      BY <2>1
    <3>2. set[i] \in ToSet(set)
      BY <2>1 DEF ToSet
    <3> QED BY <3>1, <3>2 DEF IndexPair
  <2>3. PICK e \in ToSet(ls[r]) : e.global = set[i].global /\ e.theirs = TheirsIn(ls, r, set[i].global)
    BY <2>1, <2>2, TheirsType
  <2>4. r \in DOMAIN ls /\ e \in Listed(ls, r)
    BY <2>1, <2>2, TheirsType DEF Listed
  <2>5. /\ <<p, set[i].global, set[i].attribute>> \in Claims(s)
        /\ Pair(e) \in ToSet(set)
    BY <2>2, <2>4 DEF Known
  <2>6. Pair(e).global = set[i].global /\ Pair(e).attribute = e.mine
    BY <2>3 DEF Pair
  <2>7. <<p, set[i].global, e.mine>> \in Claims(s)
    BY <2>5, <2>6 DEF Known
  <2>8. e.mine = set[i].attribute
    BY <2>5, <2>7, OneClaim
  <2> QED BY <2>3, <2>4, <2>8
<1>2. ASSUME NEW e \in Listed(ls, r)
      PROVE  \E i \in SharedWith(set, ls, r) : set[i] = Pair(e)
  <2>1. r \in DOMAIN ls /\ e \in ToSet(ls[r])
    BY DEF Listed
  <2>2. r \in KnownIn(ls, e.global)
    BY <2>1, TruthTheirs
  <2>3. Pair(e) \in ToSet(set)
    BY <2>1 DEF Known
  <2>4. PICK i \in DOMAIN set : set[i] = Pair(e)
    BY <2>3 DEF ToSet
  <2>5. set[i].global = e.global
    BY <2>4 DEF Pair
  <2>6. i \in SharedWith(set, ls, r)
    BY <2>2, <2>5 DEF SharedWith
  <2> QED BY <2>4, <2>6
<1> QED BY <1>1, <1>2

\* The pairs a message adds are those its sender lists the receiver for.
LEMMA PairsToldAre ==
  ASSUME NEW s, Truthful(s), NEW set \in Seq(IndexPair), NEW p, NEW ls,
         ls \in [DOMAIN ls -> Seq(RemoteIndex)], Known(s, p, ToSet(set), ls), NEW r
  PROVE  {OwnPair(r, ls, set[i]) : i \in SharedWith(set, ls, r)} = PairsTold(ls, r)
<1>1. ASSUME NEW i \in SharedWith(set, ls, r) PROVE OwnPair(r, ls, set[i]) \in PairsTold(ls, r)
  <2>1. PICK e \in Listed(ls, r) : e.global = set[i].global /\ e.theirs = TheirsIn(ls, r, set[i].global)
    BY SharedAre
  <2> QED BY <2>1 DEF OwnPair, PairsTold
<1>2. ASSUME NEW e \in Listed(ls, r)
      PROVE  [global |-> e.global, attribute |-> e.theirs] \in {OwnPair(r, ls, set[i]) : i \in SharedWith(set, ls, r)}
  <2>1. PICK i \in SharedWith(set, ls, r) : set[i] = Pair(e)
    BY SharedAre
  <2>2. set[i].global = e.global
    BY <2>1 DEF Pair
  <2>3. TheirsIn(ls, r, e.global) = e.theirs
    BY TruthTheirs DEF Listed
  <2> QED BY <2>2, <2>3 DEF OwnPair
<1> QED BY <1>1, <1>2 DEF PairsTold

\* The entries for q that a message adds are those its sender can tell of q.
LEMMA EntriesToldAre ==
  ASSUME NEW s, Truthful(s), NEW set \in Seq(IndexPair), NEW p, NEW ls,
         ls \in [DOMAIN ls -> Seq(RemoteIndex)], Known(s, p, ToSet(set), ls), p \notin DOMAIN ls,
         NEW r, NEW q, q # r
  PROVE  {NewEntry(r, p, ls, q, set[i]) : i \in AboutIn(r, p, set, ls, q)} = EntriesTold(p, ls, r, q)
<1> DEFINE news == {NewEntry(r, p, ls, q, set[i]) : i \in AboutIn(r, p, set, ls, q)}
<1>1. \A e \in Listed(ls, r) : TheirsIn(ls, r, e.global) = e.theirs
  BY TruthTheirs DEF Listed
<1>2. CASE q = p
  <2>1. \A i : i \in AboutIn(r, p, set, ls, q) <=> i \in SharedWith(set, ls, r)
    BY <1>2 DEF AboutIn, About
  <2>2. \A i : NewEntry(r, p, ls, q, set[i]) = [global |-> set[i].global,
          mine |-> TheirsIn(ls, r, set[i].global), theirs |-> set[i].attribute]
    BY <1>2 DEF NewEntry, TheirsOf
  <2>3. EntriesTold(p, ls, r, q)
          = {[global |-> e.global, mine |-> e.theirs, theirs |-> e.mine] : e \in Listed(ls, r)}
    BY <1>2 DEF EntriesTold
  <2>4. ASSUME NEW i \in SharedWith(set, ls, r) PROVE NewEntry(r, p, ls, q, set[i]) \in EntriesTold(p, ls, r, q)
    <3>1. PICK e \in Listed(ls, r) : /\ e.global = set[i].global /\ e.theirs = TheirsIn(ls, r, set[i].global)
                                     /\ e.mine = set[i].attribute
      BY SharedAre
    <3> QED BY <2>2, <2>3, <3>1
  <2>5. ASSUME NEW e \in Listed(ls, r)
        PROVE  [global |-> e.global, mine |-> e.theirs, theirs |-> e.mine] \in news
    <3>1. PICK i \in SharedWith(set, ls, r) : set[i] = Pair(e)
      BY SharedAre
    <3>2. set[i].global = e.global /\ set[i].attribute = e.mine
      BY <3>1 DEF Pair
    <3>3. NewEntry(r, p, ls, q, set[i]) = [global |-> e.global, mine |-> e.theirs, theirs |-> e.mine]
      BY <1>1, <2>2, <3>2
    <3> QED BY <2>1, <3>1, <3>3
  <2>6. news \subseteq EntriesTold(p, ls, r, q)
    BY <2>1, <2>4
  <2>7. EntriesTold(p, ls, r, q) \subseteq news
    BY <2>3, <2>5
  <2> QED BY <2>6, <2>7
<1>3. CASE q # p
  <2>1. \A i : i \in AboutIn(r, p, set, ls, q) <=> i \in SharedWith(set, ls, r) /\ q \in KnownIn(ls, set[i].global)
    BY <1>3 DEF AboutIn, About
  <2>2. \A i : NewEntry(r, p, ls, q, set[i]) = [global |-> set[i].global,
          mine |-> TheirsIn(ls, r, set[i].global), theirs |-> TheirsIn(ls, q, set[i].global)]
    BY <1>3 DEF NewEntry, TheirsOf
  <2> DEFINE both == {b \in Listed(ls, r) \X Listed(ls, q) : b[1].global = b[2].global}
             told(b) == [global |-> b[1].global, mine |-> b[1].theirs, theirs |-> b[2].theirs]
  <2>3. EntriesTold(p, ls, r, q) = {told(b) : b \in both}
    BY <1>3 DEF EntriesTold
  <2>4. ASSUME NEW i \in AboutIn(r, p, set, ls, q) PROVE NewEntry(r, p, ls, q, set[i]) \in {told(b) : b \in both}
    <3>0. i \in SharedWith(set, ls, r) /\ q \in KnownIn(ls, set[i].global)
      BY <2>1
    <3>1. PICK e \in Listed(ls, r) : e.global = set[i].global /\ e.theirs = TheirsIn(ls, r, set[i].global)
      BY <3>0, SharedAre
    <3>2. set[i].global \in Int
      <4>1. set[i] \in IndexPair
        BY <3>0 DEF SharedWith
      <4> QED BY <4>1 DEF IndexPair
    <3>3. PICK f \in Listed(ls, q) : f.global = set[i].global /\ f.theirs = TheirsIn(ls, q, set[i].global)
      BY <3>0, <3>2, TheirsType DEF Listed
    <3>4. <<e, f>> \in both /\ told(<<e, f>>) = NewEntry(r, p, ls, q, set[i])
      <4>1. <<e, f>> \in both
        BY <3>1, <3>3
      <4>2. told(<<e, f>>) = [global |-> e.global, mine |-> e.theirs, theirs |-> f.theirs]
        OBVIOUS
      <4> QED BY <2>2, <3>1, <3>3, <4>1, <4>2
    <3> HIDE DEF both, told
    <3> QED BY <3>4
  <2>5. ASSUME NEW b \in both PROVE told(b) \in news
    <3>1. b[1] \in Listed(ls, r) /\ b[2] \in Listed(ls, q) /\ b[1].global = b[2].global
      OBVIOUS
    <3>2. PICK i \in SharedWith(set, ls, r) : set[i] = Pair(b[1])
      BY <3>1, SharedAre
    <3>3. set[i].global = b[1].global
      BY <3>2 DEF Pair
    <3>4. q \in KnownIn(ls, b[2].global) /\ TheirsIn(ls, q, b[2].global) = b[2].theirs
      <4>1. q \in DOMAIN ls /\ b[2] \in ToSet(ls[q])
        BY <3>1 DEF Listed
      <4> QED BY <4>1, TruthTheirs
    <3>5. i \in AboutIn(r, p, set, ls, q)
      BY <2>1, <3>1, <3>2, <3>3, <3>4
    <3>6. told(b) = NewEntry(r, p, ls, q, set[i])
      BY <1>1, <2>2, <3>1, <3>3, <3>4
    <3> QED BY <3>5, <3>6
  <2> HIDE DEF both, told
  <2> QED BY <2>3, <2>4, <2>5
<1> QED BY <1>2, <1>3

\* What is told is true, and of indices that the receiver is told it has.
LEMMA ToldTrue ==
  ASSUME NEW s, NEW p, NEW pairs, NEW ls, Known(s, p, pairs, ls), NEW r, NEW q, q # r
  PROVE  /\ \A x \in PairsTold(ls, r) : <<r, x.global, x.attribute>> \in Claims(s)
         /\ \A y \in EntriesTold(p, ls, r, q) :
              Pair(y) \in PairsTold(ls, r) /\ <<q, y.global, y.theirs>> \in Claims(s)
<1>1. \A t : \A e \in Listed(ls, t) : Pair(e) \in pairs /\ <<t, e.global, e.theirs>> \in Claims(s)
  BY DEF Known, Listed
<1>2. \A e \in Listed(ls, r) : <<p, e.global, e.mine>> \in Claims(s)
  <2>1. \A e \in Listed(ls, r) : <<p, Pair(e).global, Pair(e).attribute>> \in Claims(s)
    BY <1>1 DEF Known
  <2> QED BY <2>1 DEF Pair
<1>3. \A x \in PairsTold(ls, r) : <<r, x.global, x.attribute>> \in Claims(s)
  BY <1>1 DEF PairsTold
<1>4. ASSUME NEW y \in EntriesTold(p, ls, r, q)
      PROVE  Pair(y) \in PairsTold(ls, r) /\ <<q, y.global, y.theirs>> \in Claims(s)
  <2>1. CASE q = p
    <3>1. PICK e \in Listed(ls, r) : y = [global |-> e.global, mine |-> e.theirs, theirs |-> e.mine]
      BY <2>1 DEF EntriesTold
    <3>2. y.global = e.global /\ y.mine = e.theirs /\ y.theirs = e.mine
      BY <3>1
    <3> QED BY <1>2, <2>1, <3>2 DEF Pair, PairsTold
  <2>2. CASE q # p
    <3>1. PICK b \in {b \in Listed(ls, r) \X Listed(ls, q) : b[1].global = b[2].global} :
            y = [global |-> b[1].global, mine |-> b[1].theirs, theirs |-> b[2].theirs]
      BY <2>2 DEF EntriesTold
    <3>2. b[1] \in Listed(ls, r) /\ b[2] \in Listed(ls, q) /\ b[1].global = b[2].global
      BY <3>1
    <3>3. y.global = b[1].global /\ y.mine = b[1].theirs /\ y.theirs = b[2].theirs
      BY <3>1
    <3>4. <<q, b[2].global, b[2].theirs>> \in Claims(s)
      BY <1>1, <3>2
    <3> QED BY <3>2, <3>3, <3>4 DEF Pair, PairsTold
  <2> QED BY <2>1, <2>2
<1> QED BY <1>3, <1>4

\* What is told in a sync is a matter of its history.
LEMMA ToldStays ==
  ASSUME NEW r, NEW k, NEW heard, before'[r][k] = before[r][k],
         \A t \in heard : before'[t][k] = before[t][k]
  PROVE  /\ PairsAfter(r, k, heard)' = PairsAfter(r, k, heard)
         /\ \A q : EntriesAfter(r, k, q, heard)' = EntriesAfter(r, k, q, heard)
<1>1. PairsAfter(r, k, heard)' = PairsAfter(r, k, heard)
  BY DEF PairsAfter
<1>2. ASSUME NEW q PROVE EntriesAfter(r, k, q, heard)' = EntriesAfter(r, k, q, heard)
  BY DEF EntriesAfter
<1> QED BY <1>1, <1>2

\* The claims of an execution.
LEMMA ClaimsAre ==
  ASSUME NEW s, NEW r \in Rank
  PROVE  /\ \A p \in ToSet(s.indexSet[r]) : <<r, p.global, p.attribute>> \in Claims(s)
         /\ \A q \in DOMAIN s.lists[r] : \A e \in ToSet(s.lists[r][q]) :
              <<q, e.global, e.theirs>> \in Claims(s)
<1> DEFINE own(x) == {<<x, pair.global, pair.attribute>> : pair \in ToSet(s.indexSet[x])}
           of(x, q) == {<<q, e.global, e.theirs>> : e \in ToSet(s.lists[x][q])}
           others(x) == UNION {of(x, q) : q \in DOMAIN s.lists[x]}
<1>1. Claims(s) = (UNION {own(x) : x \in Rank}) \cup (UNION {others(x) : x \in Rank})
  BY DEF Claims
<1>2. \A p \in ToSet(s.indexSet[r]) : <<r, p.global, p.attribute>> \in own(r)
  OBVIOUS
<1>3. \A q \in DOMAIN s.lists[r] : \A e \in ToSet(s.lists[r][q]) : <<q, e.global, e.theirs>> \in of(r, q)
  OBVIOUS
<1>4. \A q \in DOMAIN s.lists[r] : of(r, q) \subseteq others(r)
  <2> HIDE DEF of
  <2> QED OBVIOUS
<1> HIDE DEF own, of, others
<1>5. own(r) \subseteq Claims(s) /\ others(r) \subseteq Claims(s)
  <2>1. own(r) \subseteq UNION {own(x) : x \in Rank}
    OBVIOUS
  <2>2. others(r) \subseteq UNION {others(x) : x \in Rank}
    OBVIOUS
  <2> QED BY <1>1, <2>1, <2>2
<1> QED BY <1>2, <1>3, <1>4, <1>5

\* In the beginning all that is listed is true.
LEMMA DataInit == ASSUME TruthfulScenarios, Init PROVE DataInv
<1>1. scenario \in Scenarios /\ indexSet = scenario.indexSet /\ lists = scenario.lists
  BY DEF Init
<1>2. \A r \in Rank : round[r] = 0 /\ newIndices[r] = <<>>
  BY DEF Init
<1>3. Truthful(scenario) /\ DOMAIN scenario.lists = Rank
  BY <1>1, ScenarioType DEF TruthfulScenarios
<1>4. ToSet(<<>>) = {}
  BY DEF ToSet
<1>5. ASSUME NEW r \in Rank PROVE Known(scenario, r, ToSet(scenario.indexSet[r]), scenario.lists[r])
  <2>1. \A p \in ToSet(scenario.indexSet[r]) : <<r, p.global, p.attribute>> \in Claims(scenario)
    BY ClaimsAre
  <2>2. \A q \in DOMAIN scenario.lists[r] : \A e \in ToSet(scenario.lists[r][q]) :
          <<q, e.global, e.theirs>> \in Claims(scenario)
    BY ClaimsAre
  <2>3. \A q \in DOMAIN scenario.lists[r] : \A e \in ToSet(scenario.lists[r][q]) :
          Pair(e) \in ToSet(scenario.indexSet[r])
    BY <1>3 DEF Truthful, Pair
  <2>4. \A q \in DOMAIN scenario.lists[r] : Ascending(scenario.lists[r][q])
    BY <1>3 DEF Truthful, Ascending
  <2> QED BY <2>1, <2>2, <2>3, <2>4 DEF Known
<1>6. TruthInv
  <2>1. ASSUME NEW r \in Rank
        PROVE  /\ ToSet(indexSet[r]) \cup ToSet(newIndices[r]) = ToSet(scenario.indexSet[r])
               /\ lists[r] = scenario.lists[r] /\ 1 .. round[r] = {}
    BY <1>1, <1>2, <1>4
  <2> QED BY <1>2, <1>5, <2>1 DEF TruthInv
<1>7. ToldInv
  BY <1>2 DEF ToldInv
<1> QED BY <1>6, <1>7 DEF DataInv

\* Who begins a sync has been told nothing in it yet.
LEMMA StartData ==
  ASSUME SyncInv, DataInv, NEW r \in Rank, StartSync(r)
  PROVE  DataInv'
<1>0. TypeInv
  BY DEF SyncInv
<1>1. /\ pc[r] = "user" /\ scenario' = scenario /\ round'[r] = round[r] + 1 /\ pc'[r] = "syncing"
      /\ \A p \in Rank \ {r} : round'[p] = round[p] /\ pc'[p] = pc[p]
      /\ indexSet' = indexSet /\ newIndices' = newIndices /\ lists' = lists
  BY <1>0, StartEffect
<1>2. /\ \A p \in Rank : \A k \in 1 .. round[p] : before'[p][k] = before[p][k]
      /\ before'[r][round[r] + 1].set = indexSet[r]
      /\ before'[r][round[r] + 1].lists = lists[r]
  BY <1>0, HistoryGrows
<1>3. \A x \in Rank : round[x] \in Nat
  BY <1>0 DEF TypeInv, CountInv
<1>4. ToSet(<<>>) = {}
  BY DEF ToSet
<1>5. newIndices[r] = <<>> /\ ToSet(indexSet[r]) \cup ToSet(newIndices[r]) = ToSet(indexSet[r])
  BY <1>1, <1>4 DEF DataInv, TruthInv
<1>6. TruthInv'
  <2>1. ASSUME NEW x \in Rank, NEW k \in 1 .. round'[x]
        PROVE  Known(scenario, x, ToSet(before'[x][k].set), before'[x][k].lists)
    <3>1. CASE k \in 1 .. round[x]
      <4>1. before'[x][k] = before[x][k]
        BY <1>2, <3>1
      <4>2. Known(scenario, x, ToSet(before[x][k].set), before[x][k].lists)
        BY <3>1 DEF DataInv, TruthInv
      <4> QED BY <4>1, <4>2
    <3>2. CASE x = r /\ k = round[r] + 1
      <4>1. Known(scenario, r, ToSet(indexSet[r]) \cup ToSet(newIndices[r]), lists[r])
        BY DEF DataInv, TruthInv
      <4> QED BY <1>2, <1>5, <3>2, <4>1
    <3> QED BY <1>1, <1>3, <3>1, <3>2
  <2>2. ASSUME NEW x \in Rank
        PROVE  /\ Known(scenario', x, ToSet(indexSet'[x]) \cup ToSet(newIndices'[x]), lists'[x])
               /\ pc'[x] = "user" => newIndices'[x] = <<>>
    <3>1. pc'[x] = "user" => pc[x] = "user"
      BY <1>1
    <3> QED BY <1>1, <3>1 DEF DataInv, TruthInv
  <2> QED BY <1>1, <2>1, <2>2 DEF TruthInv
<1>7. ToldInv'
  <2>1. ASSUME NEW x \in Rank, round'[x] > 0
        PROVE  /\ ToSet(indexSet'[x]) \cup ToSet(newIndices'[x]) = PairsAfter(x, round[x], Heard(x))'
               /\ \A q \in DOMAIN lists'[x] :
                    ToSet(lists'[x][q]) = EntriesAfter(x, round[x], q, Heard(x))'
    <3>1. CASE x = r
      <4>1. Heard(r)' = {}
        BY StartWaiting
      <4>2. PICK k, heard : k = round'[r] /\ heard = {}
        OBVIOUS
      <4>3. before'[r][k].set = indexSet[r] /\ before'[r][k].lists = lists[r]
        BY <1>1, <1>2, <4>2
      <4>4. PairsAfter(x, round[x], Heard(x))' = PairsAfter(r, k, heard)'
        BY <3>1, <4>1, <4>2 DEF PairsAfter
      <4>5. \A q : EntriesAfter(x, round[x], q, Heard(x))' = EntriesAfter(r, k, q, heard)'
        BY <3>1, <4>1, <4>2 DEF EntriesAfter
      <4>6. PairsAfter(r, k, heard)' = ToSet(indexSet[r])
        BY <4>2, <4>3 DEF PairsAfter
      <4>7. \A q : EntriesAfter(r, k, q, heard)' = Listed(lists[r], q)
        BY <4>2, <4>3 DEF EntriesAfter
      <4> QED BY <1>1, <1>5, <3>1, <4>4, <4>5, <4>6, <4>7 DEF Listed
    <3>2. CASE x # r
      <4>1. round[x] > 0 /\ round'[x] = round[x] /\ Heard(x)' = Heard(x)
        BY <1>1, <2>1, <3>2, StartWaiting
      <4>2. PICK k, heard : k = round[x] /\ heard = Heard(x)
        OBVIOUS
      <4>3. k \in 1 .. round[x]
        BY <1>3, <4>1, <4>2
      <4>4. \A t \in heard : t \in Rank /\ k \in 1 .. round[t]
        BY <4>2, <4>3, HeardCame DEF Heard, Waiting
      <4>5. /\ PairsAfter(x, k, heard)' = PairsAfter(x, k, heard)
            /\ \A q : EntriesAfter(x, k, q, heard)' = EntriesAfter(x, k, q, heard)
        BY <1>2, <4>3, <4>4, ToldStays
      <4>6. PairsAfter(x, round[x], Heard(x))' = PairsAfter(x, k, heard)'
        BY <4>1, <4>2 DEF PairsAfter
      <4>7. \A q : EntriesAfter(x, round[x], q, Heard(x))' = EntriesAfter(x, k, q, heard)'
        BY <4>1, <4>2 DEF EntriesAfter
      <4>8. /\ ToSet(indexSet[x]) \cup ToSet(newIndices[x]) = PairsAfter(x, k, heard)
            /\ \A q \in DOMAIN lists[x] : ToSet(lists[x][q]) = EntriesAfter(x, k, q, heard)
        BY <4>1, <4>2 DEF DataInv, ToldInv
      <4> QED BY <1>1, <4>5, <4>6, <4>7, <4>8
    <3> QED BY <3>1, <3>2
  <2> QED BY <2>1 DEF ToldInv
<1> QED BY <1>6, <1>7 DEF DataInv

\* The end of a sync moves the added pairs to the index set.
LEMMA FinishData ==
  ASSUME SyncInv, DataInv, NEW r \in Rank, FinishSync(r)
  PROVE  DataInv'
<1>0. TypeInv
  BY DEF SyncInv
<1>1. /\ scenario' = scenario /\ round' = round /\ before' = before /\ lists' = lists /\ sent' = sent
      /\ indexSet'[r] = Merge(indexSet[r], newIndices[r]) /\ newIndices'[r] = <<>>
      /\ \A p \in Rank \ {r} : /\ pc'[p] = pc[p] /\ indexSet'[p] = indexSet[p]
                               /\ newIndices'[p] = newIndices[p]
  BY <1>0, FinishEffect
<1>2. ToSet(<<>>) = {}
  BY DEF ToSet
<1>3. ToSet(indexSet'[r]) = ToSet(indexSet[r]) \cup ToSet(newIndices[r])
  BY <1>0, <1>1, MergeIs DEF TypeInv, SetsInv
<1>4. \A x \in Rank : ToSet(indexSet'[x]) \cup ToSet(newIndices'[x]) = ToSet(indexSet[x]) \cup ToSet(newIndices[x])
  BY <1>1, <1>2, <1>3
<1>5. \A x \in Rank : pc'[x] = "user" => newIndices'[x] = <<>>
  BY <1>1 DEF DataInv, TruthInv
<1>6. TruthInv'
  BY <1>1, <1>4, <1>5 DEF DataInv, TruthInv
<1>7. \A x : Heard(x)' = Heard(x)
  <2> SUFFICES ASSUME NEW x PROVE Heard(x)' = Heard(x)
    OBVIOUS
  <2>1. PICK k : k = round[x]
    OBVIOUS
  <2>2. N(x, round[x])' = N(x, k) /\ N(x, k)' = N(x, k) /\ \A p : Got(x, k, p)' <=> Got(x, k, p)
    BY <1>1, <2>1 DEF N, Got
  <2>3. Waiting(x)' = Waiting(x)
    BY <1>1, <2>1, <2>2 DEF Waiting
  <2> QED BY <2>1, <2>2, <2>3 DEF Heard
<1>8. ToldInv'
  <2>1. ASSUME NEW x \in Rank, round[x] > 0
        PROVE  /\ ToSet(indexSet'[x]) \cup ToSet(newIndices'[x]) = PairsAfter(x, round[x], Heard(x))'
               /\ \A q \in DOMAIN lists'[x] :
                    ToSet(lists'[x][q]) = EntriesAfter(x, round[x], q, Heard(x))'
    <3>1. PairsAfter(x, round[x], Heard(x))' = PairsAfter(x, round[x], Heard(x))
      BY <1>1, <1>7 DEF PairsAfter
    <3>2. \A q : EntriesAfter(x, round[x], q, Heard(x))' = EntriesAfter(x, round[x], q, Heard(x))
      BY <1>1, <1>7 DEF EntriesAfter
    <3> QED BY <1>1, <1>4, <2>1, <3>1, <3>2 DEF DataInv, ToldInv
  <2> QED BY <1>1, <2>1 DEF ToldInv
<1> QED BY <1>6, <1>8 DEF DataInv

\* Who is told of is introduced.
LEMMA ToldIntroduces ==
  ASSUME NEW s, Truthful(s), NEW set \in Seq(IndexPair), NEW p, NEW ls,
         ls \in [DOMAIN ls -> Seq(RemoteIndex)], Known(s, p, ToSet(set), ls), p \notin DOMAIN ls,
         NEW r, NEW q, q # r, q # p
  PROVE  EntriesTold(p, ls, r, q) # {} <=> q \in Introduces(set, ls, r)
<1>1. {NewEntry(r, p, ls, q, set[i]) : i \in AboutIn(r, p, set, ls, q)} = EntriesTold(p, ls, r, q)
  BY EntriesToldAre
<1>2. EntriesTold(p, ls, r, q) # {} <=> \E i \in AboutIn(r, p, set, ls, q) : TRUE
  BY <1>1
<1>3. \A i : i \in AboutIn(r, p, set, ls, q)
               <=> i \in SharedWith(set, ls, r) /\ q \in KnownIn(ls, set[i].global)
  BY DEF AboutIn, About
<1>4. \A g : q \in KnownIn(ls, g) => q \in DOMAIN ls
  BY DEF KnownIn
<1> QED BY <1>2, <1>3, <1>4 DEF Introduces

\* What the history says of a process that was heard of.
LEMMA HeardKnows ==
  ASSUME SyncInv, DataInv, NEW r \in Rank, NEW k \in 1 .. round[r], NEW t \in N(r, k), Got(r, k, t)
  PROVE  /\ t \in Rank /\ t # r /\ before[t][k].set \in Seq(IndexPair)
         /\ before[t][k].lists \in [DOMAIN before[t][k].lists -> Seq(RemoteIndex)]
         /\ DOMAIN before[t][k].lists \subseteq Rank /\ t \notin DOMAIN before[t][k].lists
         /\ Known(scenario, t, ToSet(before[t][k].set), before[t][k].lists)
<1>1. t \in Rank /\ t # r /\ k \in 1 .. round[t]
  BY HeardCame
<1>2. /\ N(t, k) \subseteq Rank \ {t} /\ before[t][k].lists \in [N(t, k) -> Seq(RemoteIndex)]
      /\ before[t][k].set \in Seq(IndexPair)
  BY <1>1, NeighboursType DEF SyncInv
<1>3. Known(scenario, t, ToSet(before[t][k].set), before[t][k].lists)
  BY <1>1 DEF DataInv, TruthInv
<1> QED BY <1>1, <1>2, <1>3 DEF N

\* The neighbours after a sync are those there were and those there are entries for.
LEMMA AfterEntries ==
  ASSUME SyncInv, DataInv, Truthful(scenario), NEW r \in Rank, NEW k \in 1 .. round[r],
         NEW heard, heard \subseteq N(r, k), \A t \in heard : Got(r, k, t),
         NEW q, q # r
  PROVE  q \in After(r, k, heard)
           <=> q \in N(r, k) \/ EntriesAfter(r, k, q, heard) # {}
<1>1. \A t \in heard :
        /\ t \in N(r, k) /\ t # r
        /\ q # t => (EntriesTold(t, before[t][k].lists, r, q) # {}
                       <=> q \in Introduces(before[t][k].set, before[t][k].lists, r))
  <2> SUFFICES ASSUME NEW t \in heard
               PROVE  /\ t \in N(r, k) /\ t # r
                      /\ q # t => (EntriesTold(t, before[t][k].lists, r, q) # {}
                                     <=> q \in Introduces(before[t][k].set, before[t][k].lists, r))
    OBVIOUS
  <2>1. t \in N(r, k) /\ Got(r, k, t)
    OBVIOUS
  <2>2. /\ t # r /\ before[t][k].set \in Seq(IndexPair)
        /\ before[t][k].lists \in [DOMAIN before[t][k].lists -> Seq(RemoteIndex)]
        /\ t \notin DOMAIN before[t][k].lists
        /\ Known(scenario, t, ToSet(before[t][k].set), before[t][k].lists)
    BY <2>1, HeardKnows
  <2> QED BY <2>1, <2>2, ToldIntroduces
<1>2. q \notin N(r, k) => Listed(before[r][k].lists, q) = {}
  BY DEF Listed, N
<1>3. EntriesAfter(r, k, q, heard) = Listed(before[r][k].lists, q)
        \cup UNION {EntriesTold(t, before[t][k].lists, r, q) : t \in heard}
  BY DEF EntriesAfter
<1>4. After(r, k, heard) = N(r, k)
        \cup UNION {Introduces(before[t][k].set, before[t][k].lists, r) : t \in heard}
  BY DEF After
<1>5. ASSUME q \notin N(r, k)
      PROVE  q \in After(r, k, heard) <=> EntriesAfter(r, k, q, heard) # {}
  <2>1. \A t \in heard : EntriesTold(t, before[t][k].lists, r, q) # {}
                           <=> q \in Introduces(before[t][k].set, before[t][k].lists, r)
    BY <1>1, <1>5
  <2>2. EntriesAfter(r, k, q, heard) # {}
          <=> \E t \in heard : EntriesTold(t, before[t][k].lists, r, q) # {}
    BY <1>2, <1>3, <1>5
  <2>3. q \in After(r, k, heard)
          <=> \E t \in heard : q \in Introduces(before[t][k].set, before[t][k].lists, r)
    BY <1>4, <1>5
  <2> QED BY <2>1, <2>2, <2>3
<1> QED BY <1>4, <1>5

\* A received message adds to the lists what its sender told.
LEMMA ReceiveLists ==
  ASSUME OrderlyScenarios, SyncInv, DataInv, Truthful(scenario),
         NEW r \in Rank, NEW source \in Rank, RecvAndUnpack(r, source)
  PROVE  /\ Known(scenario, r, ToSet(indexSet[r]) \cup ToSet(newIndices'[r]), lists'[r])
         /\ ToSet(indexSet[r]) \cup ToSet(newIndices'[r])
              = ToSet(indexSet[r]) \cup ToSet(newIndices[r]) \cup PairsTold(before[source][round[r]].lists, r)
         /\ \A q \in DOMAIN lists'[r] :
              ToSet(lists'[r][q]) = Listed(lists[r], q) \cup EntriesTold(source, before[source][round[r]].lists, r, q)
<1>1. PICK k, ls : k = round[r] /\ ls = before[source][k].lists
  OBVIOUS
<1>2. /\ round[source] = k /\ k \in 1 .. round[r] /\ source \in N(r, k) /\ source # r
      /\ k \in 1 .. round[source]
  <2>1. MayReceive(r, source)
    BY DEF RecvAndUnpack
  <2>2. round[source] = k /\ k > 0 /\ source \in N(r, k)
    BY <1>1, <2>1, RightRound
  <2>3. k \in 1 .. round[r] /\ k \in Nat
    BY <1>1, <2>2 DEF SyncInv, TypeInv, CountInv
  <2>4. source # r
    BY <2>2, <2>3, NeighboursType DEF SyncInv
  <2> QED BY <2>2, <2>3, <2>4
<1>3. PICK set : set = before[source][k].set
  OBVIOUS
<1>4. /\ set \in Seq(IndexPair) /\ ls \in [DOMAIN ls -> Seq(RemoteIndex)] /\ DOMAIN ls \subseteq Rank
      /\ source \notin DOMAIN ls
  BY <1>1, <1>2, <1>3, NeighboursType DEF SyncInv, N
<1>5. Known(scenario, source, ToSet(set), ls)
  BY <1>1, <1>2, <1>3 DEF DataInv, TruthInv
<1>6. /\ RemoteLists(r, lists'[r])
      /\ \A q \in DOMAIN lists'[r] :
           lists'[r][q] = InsertAll(ListOf(lists[r], q),
                                    EntriesFor(r, source, q, EntriesOf(set, ls, r)))
      /\ newIndices'[r] = newIndices[r] \o NewPairs(r, EntriesOf(set, ls, r))
  BY <1>1, <1>3, ReceivedLists
<1>7. /\ indexSet[r] \in Seq(IndexPair) /\ newIndices[r] \in Seq(IndexPair) /\ RemoteLists(r, lists[r])
  BY DEF SyncInv, TypeInv, SetsInv
<1>8. Known(scenario, r, ToSet(indexSet[r]) \cup ToSet(newIndices[r]), lists[r])
  BY DEF DataInv, TruthInv
<1>9. /\ \A x \in PairsTold(ls, r) : <<r, x.global, x.attribute>> \in Claims(scenario)
      /\ \A q : q # r => \A y \in EntriesTold(source, ls, r, q) :
           Pair(y) \in PairsTold(ls, r) /\ <<q, y.global, y.theirs>> \in Claims(scenario)
  <2>1. \A q : q # r =>
          /\ \A x \in PairsTold(ls, r) : <<r, x.global, x.attribute>> \in Claims(scenario)
          /\ \A y \in EntriesTold(source, ls, r, q) :
               Pair(y) \in PairsTold(ls, r) /\ <<q, y.global, y.theirs>> \in Claims(scenario)
    BY <1>5, ToldTrue
  <2> QED BY <1>2, <2>1
<1>10. ToSet(indexSet[r]) \cup ToSet(newIndices'[r])
         = ToSet(indexSet[r]) \cup ToSet(newIndices[r]) \cup PairsTold(ls, r)
  <2> DEFINE new == NewPairs(r, EntriesOf(set, ls, r))
  <2>1. /\ new \in Seq(IndexPair)
        /\ ToSet(new) = {OwnPair(r, ls, set[i]) : i \in SharedWith(set, ls, r)} \ ToSet(indexSet[r])
    BY <1>4, <1>7, NewPairsAre
  <2>2. {OwnPair(r, ls, set[i]) : i \in SharedWith(set, ls, r)} = PairsTold(ls, r)
    BY <1>4, <1>5, PairsToldAre
  <2> HIDE DEF new
  <2>3. ToSet(newIndices[r] \o new) = ToSet(newIndices[r]) \cup ToSet(new)
    <3>1. PICK a \in Seq(IndexPair), b \in Seq(IndexPair) : a = newIndices[r] /\ b = new
      BY <1>7, <2>1
    <3>2. /\ Len(a) \in Nat /\ Len(b) \in Nat /\ DOMAIN a = 1 .. Len(a) /\ DOMAIN b = 1 .. Len(b)
          /\ DOMAIN (a \o b) = 1 .. Len(a) + Len(b)
      OBVIOUS
    <3>3. \A i \in 1 .. Len(a) + Len(b) :
            (a \o b)[i] = IF i <= Len(a) THEN a[i] ELSE b[i - Len(a)]
      BY <3>2
    <3>4. ASSUME NEW i \in 1 .. Len(a) + Len(b) PROVE (a \o b)[i] \in ToSet(a) \cup ToSet(b)
      <4>1. CASE i <= Len(a)
        <5>1. i \in 1 .. Len(a) /\ (a \o b)[i] = a[i]
          BY <3>2, <3>3, <4>1
        <5> QED BY <3>2, <5>1 DEF ToSet
      <4>2. CASE ~(i <= Len(a))
        <5>1. i - Len(a) \in 1 .. Len(b) /\ (a \o b)[i] = b[i - Len(a)]
          BY <3>2, <3>3, <4>2
        <5> QED BY <3>2, <5>1 DEF ToSet
      <4> QED BY <4>1, <4>2
    <3>5. ASSUME NEW i \in 1 .. Len(a) PROVE a[i] \in ToSet(a \o b)
      <4>1. i \in DOMAIN (a \o b) /\ (a \o b)[i] = a[i]
        BY <3>2, <3>3
      <4> QED BY <4>1 DEF ToSet
    <3>6. ASSUME NEW i \in 1 .. Len(b) PROVE b[i] \in ToSet(a \o b)
      <4>1. Len(a) + i \in DOMAIN (a \o b) /\ (a \o b)[Len(a) + i] = b[i]
        BY <3>2, <3>3
      <4> QED BY <4>1 DEF ToSet
    <3>7. ToSet(a \o b) \subseteq ToSet(a) \cup ToSet(b)
      BY <3>2, <3>4 DEF ToSet
    <3>8. ToSet(a) \subseteq ToSet(a \o b) /\ ToSet(b) \subseteq ToSet(a \o b)
      BY <3>2, <3>5, <3>6 DEF ToSet
    <3> QED BY <3>1, <3>7, <3>8
  <2>4. newIndices'[r] = newIndices[r] \o new
    BY <1>6 DEF new
  <2> QED BY <2>1, <2>2, <2>3, <2>4
<1>11. ASSUME NEW q \in DOMAIN lists'[r]
       PROVE  /\ ToSet(lists'[r][q]) = Listed(lists[r], q) \cup EntriesTold(source, ls, r, q)
              /\ Ascending(lists'[r][q])
  <2> DEFINE old == ListOf(lists[r], q)
             new == EntriesFor(r, source, q, EntriesOf(set, ls, r))
  <2>1. q # r
    BY <1>6 DEF RemoteLists
  <2>2. /\ new \in Seq(RemoteIndex)
        /\ ToSet(new) = {NewEntry(r, source, ls, q, set[i]) : i \in AboutIn(r, source, set, ls, q)}
    BY <1>4, EntriesForAre
  <2>3. ToSet(new) = EntriesTold(source, ls, r, q)
    BY <1>4, <1>5, <2>1, <2>2, EntriesToldAre
  <2>4. /\ old \in Seq(RemoteIndex) /\ ToSet(old) = Listed(lists[r], q) /\ Ascending(old)
        /\ \A e \in ToSet(old) : <<q, e.global, e.theirs>> \in Claims(scenario)
    <3>1. CASE q \in DOMAIN lists[r]
      BY <1>7, <1>8, <3>1 DEF ListOf, Listed, Known, RemoteLists
    <3>2. CASE q \notin DOMAIN lists[r]
      <4>1. old = <<>> /\ Listed(lists[r], q) = {}
        BY <3>2 DEF ListOf, Listed
      <4>2. ToSet(<<>>) = {} /\ <<>> \in Seq(RemoteIndex)
        BY DEF ToSet
      <4>3. Ascending(<<>>)
        BY DEF Ascending
      <4> QED BY <4>1, <4>2, <4>3
    <3> QED BY <3>1, <3>2
  <2>5. OneTheirs(ToSet(old) \cup ToSet(new))
    <3>1. \A e \in ToSet(old) \cup ToSet(new) : <<q, e.global, e.theirs>> \in Claims(scenario)
      BY <1>9, <2>1, <2>3, <2>4
    <3> HIDE DEF old, new
    <3>2. ASSUME NEW d \in ToSet(old) \cup ToSet(new), NEW e \in ToSet(old) \cup ToSet(new), d.global = e.global
          PROVE  d.theirs = e.theirs
      <4>1. <<q, e.global, d.theirs>> \in Claims(scenario) /\ <<q, e.global, e.theirs>> \in Claims(scenario)
        BY <3>1, <3>2
      <4> QED BY <4>1, OneClaim
    <3> QED BY <3>2 DEF OneTheirs
  <2>6. lists'[r][q] = InsertAll(old, new)
    BY <1>6
  <2> HIDE DEF old, new
  <2>7. /\ ToSet(InsertAll(old, new)) = ToSet(old) \cup ToSet(new)
        /\ Ascending(InsertAll(old, new))
    BY <2>2, <2>4, <2>5, InsertAllIs
  <2> QED BY <2>3, <2>4, <2>6, <2>7
<1>12. Known(scenario, r, ToSet(indexSet[r]) \cup ToSet(newIndices'[r]), lists'[r])
  <2> DEFINE pairs == ToSet(indexSet[r]) \cup ToSet(newIndices[r])
  <2>1. \A p \in pairs \cup PairsTold(ls, r) : <<r, p.global, p.attribute>> \in Claims(scenario)
    BY <1>8, <1>9 DEF Known
  <2>2. ASSUME NEW q \in DOMAIN lists'[r], NEW e \in ToSet(lists'[r][q])
        PROVE  Pair(e) \in pairs \cup PairsTold(ls, r) /\ <<q, e.global, e.theirs>> \in Claims(scenario)
    <3>0. q # r
      BY <1>6 DEF RemoteLists
    <3>1. e \in Listed(lists[r], q) \/ e \in EntriesTold(source, ls, r, q)
      BY <1>11
    <3>2. CASE e \in Listed(lists[r], q)
      BY <1>8, <3>2 DEF Listed, Known
    <3>3. CASE e \in EntriesTold(source, ls, r, q)
      BY <1>9, <3>0, <3>3
    <3> QED BY <3>1, <3>2, <3>3
  <2> HIDE DEF pairs
  <2>3. ToSet(indexSet[r]) \cup ToSet(newIndices'[r]) = pairs \cup PairsTold(ls, r)
    BY <1>10 DEF pairs
  <2> QED BY <1>11, <2>1, <2>2, <2>3 DEF Known
<1> QED BY <1>1, <1>10, <1>11, <1>12

\* A received message adds what its sender can tell, and that is true.
LEMMA ReceiveData ==
  ASSUME OrderlyScenarios, SyncInv, DataInv, Truthful(scenario),
         NEW r \in Rank, NEW source \in Rank, RecvAndUnpack(r, source)
  PROVE  DataInv'
<1>0. TypeInv
  BY DEF SyncInv
<1>1. /\ scenario' = scenario /\ round' = round /\ indexSet' = indexSet /\ before' = before
      /\ pc[r] = "syncing" /\ pc'[r] \in {"syncing", "undefined"}
      /\ \A p \in Rank \ {r} : /\ pc'[p] = pc[p] /\ lists'[p] = lists[p] /\ newIndices'[p] = newIndices[p]
  BY <1>0, ReceiveEffect
<1>2. PICK k, ls : k = round[r] /\ ls = before[source][k].lists
  OBVIOUS
<1>3. /\ Known(scenario, r, ToSet(indexSet[r]) \cup ToSet(newIndices'[r]), lists'[r])
      /\ ToSet(indexSet[r]) \cup ToSet(newIndices'[r])
           = ToSet(indexSet[r]) \cup ToSet(newIndices[r]) \cup PairsTold(ls, r)
      /\ \A q \in DOMAIN lists'[r] :
           ToSet(lists'[r][q]) = Listed(lists[r], q) \cup EntriesTold(source, ls, r, q)
  BY <1>2, ReceiveLists
<1>4. TruthInv'
  <2>1. ASSUME NEW x \in Rank
        PROVE  /\ Known(scenario, x, ToSet(indexSet[x]) \cup ToSet(newIndices'[x]), lists'[x])
               /\ pc'[x] = "user" => newIndices'[x] = <<>>
    <3>1. CASE x = r
      BY <1>1, <1>3, <3>1
    <3>2. CASE x # r
      BY <1>1, <3>2 DEF DataInv, TruthInv
    <3> QED BY <3>1, <3>2
  <2> QED BY <1>1, <2>1 DEF DataInv, TruthInv
<1>5. /\ round[source] = k /\ k \in 1 .. round[r] /\ k > 0 /\ source \in N(r, k)
  <2>1. MayReceive(r, source)
    BY DEF RecvAndUnpack
  <2>2. round[source] = k /\ k > 0 /\ source \in N(r, k)
    BY <1>2, <2>1, RightRound
  <2>3. k \in 1 .. round[r]
    BY <1>2, <2>2 DEF SyncInv, TypeInv, CountInv
  <2> QED BY <2>2, <2>3
<1>6. ToldInv'
  <2>1. ASSUME NEW x \in Rank, round[x] > 0
        PROVE  /\ ToSet(indexSet[x]) \cup ToSet(newIndices'[x]) = PairsAfter(x, round[x], Heard(x))'
               /\ \A q \in DOMAIN lists'[x] :
                    ToSet(lists'[x][q]) = EntriesAfter(x, round[x], q, Heard(x))'
    <3>1. /\ ToSet(indexSet[x]) \cup ToSet(newIndices[x]) = PairsAfter(x, round[x], Heard(x))
          /\ \A q \in DOMAIN lists[x] : ToSet(lists[x][q]) = EntriesAfter(x, round[x], q, Heard(x))
      BY <2>1 DEF DataInv, ToldInv
    <3>2. CASE x # r
      <4>1. Heard(x)' = Heard(x)
        BY <2>1, <3>2, ReceiveWaiting
      <4>2. PairsAfter(x, round[x], Heard(x))' = PairsAfter(x, round[x], Heard(x))
        BY <1>1, <4>1 DEF PairsAfter
      <4>3. \A q : EntriesAfter(x, round[x], q, Heard(x))' = EntriesAfter(x, round[x], q, Heard(x))
        BY <1>1, <4>1 DEF EntriesAfter
      <4> QED BY <1>1, <3>1, <3>2, <4>2, <4>3
    <3>3. CASE x = r
      <4>1. PICK heard : heard = Heard(r)
        OBVIOUS
      <4>2. Heard(x)' = heard \cup {source}
        BY <2>1, <3>3, <4>1, ReceiveWaiting
      <4>3. /\ k = round'[x] /\ k = round[x]
            /\ ls = before[source][k].lists /\ before' = before
        BY <1>1, <1>2, <3>3
      <4>4. PairsAfter(x, round[x], Heard(x))' = PairsAfter(x, k, heard) \cup PairsTold(ls, r)
        <5>1. PairsAfter(x, round[x], Heard(x))' = ToSet(before[x][k].set)
                \cup UNION {PairsTold(before[p][k].lists, x) : p \in heard \cup {source}}
          BY <4>2, <4>3 DEF PairsAfter
        <5>2. PairsAfter(x, k, heard) = ToSet(before[x][k].set)
                \cup UNION {PairsTold(before[p][k].lists, x) : p \in heard}
          BY DEF PairsAfter
        <5> QED BY <3>3, <4>3, <5>1, <5>2
      <4>5. ASSUME NEW q
            PROVE  EntriesAfter(x, round[x], q, Heard(x))'
                     = EntriesAfter(x, k, q, heard) \cup EntriesTold(source, ls, r, q)
        <5>1. EntriesAfter(x, round[x], q, Heard(x))' = Listed(before[x][k].lists, q)
                \cup UNION {EntriesTold(p, before[p][k].lists, x, q) : p \in heard \cup {source}}
          BY <4>2, <4>3 DEF EntriesAfter
        <5>2. EntriesAfter(x, k, q, heard) = Listed(before[x][k].lists, q)
                \cup UNION {EntriesTold(p, before[p][k].lists, x, q) : p \in heard}
          BY DEF EntriesAfter
        <5> QED BY <3>3, <4>3, <5>1, <5>2
      <4>6. ASSUME NEW q \in DOMAIN lists'[r]
            PROVE  Listed(lists[r], q) = EntriesAfter(r, k, q, heard)
        <5>1. CASE q \in DOMAIN lists[r]
          BY <1>2, <3>1, <3>3, <4>1, <5>1 DEF Listed
        <5>2. CASE q \notin DOMAIN lists[r]
          <6>1. DOMAIN lists[r] = After(r, k, heard)
            BY <1>2, <1>5, <4>1 DEF SyncInv, RoundInv, KnownInv, Heard
          <6>2. q # r
            <7>1. RemoteLists(r, lists'[r])
              BY ReceivedLists
            <7> QED BY <7>1 DEF RemoteLists
          <6>3. heard \subseteq N(r, k) /\ \A t \in heard : Got(r, k, t)
            BY <1>2, <4>1 DEF Heard, Waiting
          <6>4. ~(q \in N(r, k) \/ EntriesAfter(r, k, q, heard) # {})
            BY <1>5, <5>2, <6>1, <6>2, <6>3, AfterEntries
          <6> QED BY <5>2, <6>4 DEF Listed
        <5> QED BY <5>1, <5>2
      <4>7. ToSet(indexSet[r]) \cup ToSet(newIndices'[r]) = PairsAfter(x, round[x], Heard(x))'
        <5>1. ToSet(indexSet[r]) \cup ToSet(newIndices[r]) = PairsAfter(x, k, heard)
          BY <1>2, <3>1, <3>3, <4>1
        <5> QED BY <1>3, <4>4, <5>1
      <4>8. \A q \in DOMAIN lists'[r] : ToSet(lists'[r][q]) = EntriesAfter(x, round[x], q, Heard(x))'
        BY <1>3, <3>3, <4>5, <4>6
      <4> QED BY <3>3, <4>7, <4>8
    <3> QED BY <3>2, <3>3
  <2> QED BY <1>1, <2>1 DEF ToldInv
<1> QED BY <1>4, <1>6 DEF DataInv

\* What is known stays when nothing happens.
LEMMA StayData == ASSUME DataInv, UNCHANGED vars PROVE DataInv'
<1>1. /\ scenario' = scenario /\ round' = round /\ pc' = pc /\ indexSet' = indexSet
      /\ newIndices' = newIndices /\ lists' = lists
      /\ sent' = sent /\ before' = before
  BY DEF vars
<1>2. TruthInv'
  BY <1>1 DEF DataInv, TruthInv
<1>3. \A x : Heard(x)' = Heard(x)
  <2> SUFFICES ASSUME NEW x PROVE Heard(x)' = Heard(x)
    OBVIOUS
  <2>1. PICK k : k = round[x]
    OBVIOUS
  <2>2. N(x, round[x])' = N(x, k) /\ N(x, k)' = N(x, k) /\ \A p : Got(x, k, p)' <=> Got(x, k, p)
    BY <1>1, <2>1 DEF N, Got
  <2>3. Waiting(x)' = Waiting(x)
    BY <1>1, <2>1, <2>2 DEF Waiting
  <2> QED BY <2>1, <2>2, <2>3 DEF Heard
<1>4. \A x : PairsAfter(x, round[x], Heard(x))' = PairsAfter(x, round[x], Heard(x))
  BY <1>1, <1>3 DEF PairsAfter
<1>5. \A x, q : EntriesAfter(x, round[x], q, Heard(x))' = EntriesAfter(x, round[x], q, Heard(x))
  BY <1>1, <1>3 DEF EntriesAfter
<1>6. ToldInv'
  BY <1>1, <1>4, <1>5 DEF DataInv, ToldInv
<1> QED BY <1>2, <1>6 DEF DataInv

\* What is known is what has been told, after every step.
LEMMA DataStep ==
  ASSUME OrderlyScenarios, TruthfulScenarios, SyncInv, DataInv, [Next]_vars
  PROVE  DataInv'
<1>1. ASSUME NEW r \in Rank, StartSync(r) PROVE DataInv'
  BY <1>1, StartData
<1>2. ASSUME NEW r \in Rank, FinishSync(r) PROVE DataInv'
  BY <1>2, FinishData
<1>3. ASSUME NEW r \in Rank, NEW source \in Rank, RecvAndUnpack(r, source) PROVE DataInv'
  <2>1. Truthful(scenario)
    BY DEF TruthfulScenarios, SyncInv, TypeInv
  <2> QED BY <1>3, <2>1, ReceiveData
<1>4. CASE UNCHANGED vars
  BY <1>4, StayData
<1> QED BY <1>1, <1>2, <1>3, <1>4 DEF Next, Step

\* What a process that has finished a sync knows.
LEMMA FinishedKnows ==
  ASSUME SyncInv, DataInv, Truthful(scenario), NEW r \in Rank, Finished(r)
  PROVE  /\ round[r] \in 1 .. round[r] /\ Heard(r) = N(r, round[r])
         /\ \A t \in N(r, round[r]) : Got(r, round[r], t)
         /\ DOMAIN lists[r] = After(r, round[r], N(r, round[r]))
         /\ ToSet(indexSet[r]) = PairsAfter(r, round[r], N(r, round[r]))
         /\ \A q \in DOMAIN lists[r] : ToSet(lists[r][q]) = EntriesAfter(r, round[r], q, N(r, round[r]))
         /\ \A q \in DOMAIN lists[r] : \A e \in ToSet(lists[r][q]) : Pair(e) \in ToSet(indexSet[r])
<1>1. pc[r] = "user" /\ round[r] > 0
  BY DEF Finished
<1>2. /\ Waiting(r) = {} /\ round[r] \in 1 .. round[r]
      /\ \A t \in N(r, round[r]) : Got(r, round[r], t)
      /\ DOMAIN lists[r] = After(r, round[r], N(r, round[r]))
  BY <1>1, UserHeard
<1>3. Heard(r) = N(r, round[r])
  BY <1>2 DEF Heard
<1>4. newIndices[r] = <<>> /\ ToSet(<<>>) = {}
  <2>1. newIndices[r] = <<>>
    BY <1>1 DEF DataInv, TruthInv
  <2>2. ToSet(<<>>) = {}
    BY DEF ToSet
  <2> QED BY <2>1, <2>2
<1>5. ToSet(indexSet[r]) \cup ToSet(newIndices[r]) = ToSet(indexSet[r])
  BY <1>4
<1>6. Known(scenario, r, ToSet(indexSet[r]), lists[r])
  BY <1>5 DEF DataInv, TruthInv
<1>7. /\ ToSet(indexSet[r]) = PairsAfter(r, round[r], N(r, round[r]))
      /\ \A q \in DOMAIN lists[r] : ToSet(lists[r][q]) = EntriesAfter(r, round[r], q, N(r, round[r]))
  BY <1>1, <1>3, <1>5 DEF DataInv, ToldInv
<1> QED BY <1>2, <1>3, <1>6, <1>7 DEF Known

\* A process that is back from sync() has heard all its neighbours.
LEMMA ExactThen ==
  ASSUME SyncInv, DataInv, Truthful(scenario)
  PROVE  SyncExact
<1> SUFFICES ASSUME NEW r \in Rank, Finished(r)
             PROVE  LET near == DOMAIN before[r][round[r]].lists
                    IN /\ ToSet(indexSet[r]) = PairsAfter(r, round[r], near)
                       /\ DOMAIN lists[r]
                            = near \cup {q \in Rank \ {r} : EntriesAfter(r, round[r], q, near) # {}}
                       /\ \A q \in DOMAIN lists[r] :
                            ToSet(lists[r][q]) = EntriesAfter(r, round[r], q, near)
  BY DEF SyncExact
<1>1. PICK k, near : k = round[r] /\ near = N(r, k)
  OBVIOUS
<1>2. near = DOMAIN before[r][round[r]].lists
  BY <1>1 DEF N
<1>3. /\ k \in 1 .. round[r]
      /\ \A t \in near : Got(r, k, t)
      /\ DOMAIN lists[r] = After(r, k, near)
      /\ ToSet(indexSet[r]) = PairsAfter(r, k, near)
      /\ \A q \in DOMAIN lists[r] : ToSet(lists[r][q]) = EntriesAfter(r, k, q, near)
  BY <1>1, FinishedKnows
<1>4. \A q : q # r => (q \in After(r, k, near) <=> q \in near \/ EntriesAfter(r, k, q, near) # {})
  BY <1>1, <1>3, AfterEntries
<1>5. DOMAIN lists[r] \subseteq Rank \ {r} /\ near \subseteq Rank \ {r}
  BY <1>1, <1>3, NeighboursType DEF SyncInv, TypeInv, SetsInv, RemoteLists
<1>6. DOMAIN lists[r] = near \cup {q \in Rank \ {r} : EntriesAfter(r, k, q, near) # {}}
  BY <1>3, <1>4, <1>5
<1> QED BY <1>1, <1>2, <1>3, <1>6

\* What p and q come to know of each other in the k-th sync is the same.
LEMMA MirroredEntries ==
  ASSUME SyncInv, NEW r \in Rank, NEW q \in Rank, NEW k \in 1 .. round[r], k \in 1 .. round[q],
         \A t \in N(r, k) : Got(r, k, t),
         NEW e \in EntriesAfter(r, k, q, N(r, k)), q # r
  PROVE  [global |-> e.global, mine |-> e.theirs, theirs |-> e.mine]
           \in EntriesAfter(q, k, r, N(q, k))
<1> DEFINE mirror(d) == [global |-> d.global, mine |-> d.theirs, theirs |-> d.mine]
<1>0. round[r] \in Nat /\ round[q] \in Nat
  BY DEF SyncInv, TypeInv, CountInv
<1>1. \A t \in N(q, k) : EntriesTold(t, before[t][k].lists, q, r) \subseteq EntriesAfter(q, k, r, N(q, k))
  BY DEF EntriesAfter
<1>2. /\ Listed(before[q][k].lists, r) \subseteq EntriesAfter(q, k, r, N(q, k))
      /\ EntriesAfter(r, k, q, N(r, k)) = Listed(before[r][k].lists, q)
           \cup UNION {EntriesTold(t, before[t][k].lists, r, q) : t \in N(r, k)}
  BY DEF EntriesAfter
<1>3. ASSUME e \in Listed(before[r][k].lists, q)
      PROVE  mirror(e) \in EntriesAfter(q, k, r, N(q, k))
  <2>1. q \in N(r, k)
    BY <1>3 DEF Listed, N
  <2>2. r \in N(q, k)
    BY <1>0, <2>1 DEF SyncInv, RoundInv, SymmetricInv
  <2>3. mirror(e) \in EntriesTold(r, before[r][k].lists, q, r)
    BY <1>3 DEF EntriesTold
  <2> QED BY <1>1, <2>2, <2>3
<1>4. ASSUME NEW t \in N(r, k), e \in EntriesTold(t, before[t][k].lists, r, q)
      PROVE  mirror(e) \in EntriesAfter(q, k, r, N(q, k))
  <2>1. t \in Rank /\ k \in 1 .. round[t] /\ r \in N(t, k) /\ t # r
    BY HeardCame
  <2>2. CASE q = t
    <3>1. PICK d \in Listed(before[q][k].lists, r) : e = [global |-> d.global, mine |-> d.theirs, theirs |-> d.mine]
      BY <1>4, <2>2 DEF EntriesTold
    <3>2. d \in RemoteIndex
      <4>1. r \in DOMAIN before[q][k].lists /\ d \in ToSet(before[q][k].lists[r])
        BY DEF Listed
      <4>2. before[q][k].lists[r] \in Seq(RemoteIndex)
        BY <4>1, NeighboursType DEF SyncInv, N
      <4> QED BY <4>1, <4>2 DEF ToSet
    <3>3. mirror(e) = d
      BY <3>1, <3>2 DEF RemoteIndex
    <3> QED BY <1>2, <3>3
  <2>3. CASE q # t
    <3>1. PICK b \in {b \in Listed(before[t][k].lists, r) \X Listed(before[t][k].lists, q) : b[1].global = b[2].global} :
            e = [global |-> b[1].global, mine |-> b[1].theirs, theirs |-> b[2].theirs]
      BY <1>4, <2>3 DEF EntriesTold
    <3>2. /\ b[1] \in Listed(before[t][k].lists, r) /\ b[2] \in Listed(before[t][k].lists, q)
          /\ b[1].global = b[2].global
      BY <3>1
    <3>3. q \in N(t, k)
      BY <3>2 DEF Listed, N
    <3>4. t \in N(q, k)
      <4>1. round[t] \in Nat
        BY <2>1 DEF SyncInv, TypeInv, CountInv
      <4> QED BY <1>0, <2>1, <3>3, <4>1 DEF SyncInv, RoundInv, SymmetricInv
    <3>5. mirror(e) = [global |-> b[2].global, mine |-> b[2].theirs, theirs |-> b[1].theirs]
      BY <3>1, <3>2
    <3>6. mirror(e) \in EntriesTold(t, before[t][k].lists, q, r)
      <4> DEFINE turned == {c \in Listed(before[t][k].lists, q) \X Listed(before[t][k].lists, r) : c[1].global = c[2].global}
      <4>1. EntriesTold(t, before[t][k].lists, q, r)
              = {[global |-> c[1].global, mine |-> c[1].theirs, theirs |-> c[2].theirs] : c \in turned}
        BY <2>1 DEF EntriesTold
      <4>2. PICK c : c = <<b[2], b[1]>>
        OBVIOUS
      <4>3. c \in turned /\ c[1] = b[2] /\ c[2] = b[1]
        BY <3>2, <4>2
      <4> HIDE DEF turned
      <4> QED BY <3>5, <4>1, <4>3
    <3> QED BY <1>1, <3>4, <3>6
  <2> QED BY <2>2, <2>3
<1> HIDE DEF mirror
<1>5. mirror(e) \in EntriesAfter(q, k, r, N(q, k))
  <2>1. e \in Listed(before[r][k].lists, q)
          \/ \E t \in N(r, k) : e \in EntriesTold(t, before[t][k].lists, r, q)
    BY <1>2
  <2> QED BY <1>3, <1>4, <2>1
<1> QED BY <1>5 DEF mirror

\* Contains is membership.
LEMMA ContainsIs ==
  ASSUME NEW S, NEW s \in Seq(S), NEW e, e \in ToSet(s) PROVE Contains(s, e)
BY DEF ToSet, Contains

\* Two processes that are back from the same sync have been told of each other alike.
LEMMA MutualThen ==
  ASSUME SyncInv, DataInv, Truthful(scenario)
  PROVE  MutualAfterSync
<1> SUFFICES ASSUME NEW r \in Rank, NEW q \in Rank, Finished(r), Finished(q), round[r] = round[q]
             PROVE  /\ q \in DOMAIN lists[r] <=> r \in DOMAIN lists[q]
                    /\ q \in DOMAIN lists[r] => \A e \in ToSet(lists[r][q]) :
                         /\ Contains(indexSet[r], Pair(e))
                         /\ Contains(indexSet[q], [global |-> e.global, attribute |-> e.theirs])
                         /\ Contains(lists[q][r], [global |-> e.global, mine |-> e.theirs, theirs |-> e.mine])
  BY DEF MutualAfterSync
<1>1. PICK k : k = round[r]
  OBVIOUS
<1>2. /\ k \in 1 .. round[r] /\ \A t \in N(r, k) : Got(r, k, t)
      /\ DOMAIN lists[r] = After(r, k, N(r, k))
      /\ \A p \in DOMAIN lists[r] : ToSet(lists[r][p]) = EntriesAfter(r, k, p, N(r, k))
      /\ \A p \in DOMAIN lists[r] : \A e \in ToSet(lists[r][p]) : Pair(e) \in ToSet(indexSet[r])
  BY <1>1, FinishedKnows
<1>3. /\ k \in 1 .. round[q] /\ \A t \in N(q, k) : Got(q, k, t)
      /\ DOMAIN lists[q] = After(q, k, N(q, k))
      /\ \A p \in DOMAIN lists[q] : ToSet(lists[q][p]) = EntriesAfter(q, k, p, N(q, k))
      /\ \A p \in DOMAIN lists[q] : \A e \in ToSet(lists[q][p]) : Pair(e) \in ToSet(indexSet[q])
  BY <1>1, FinishedKnows
<1>4. q \in DOMAIN lists[r] => r \in DOMAIN lists[q]
  BY <1>2, <1>3, AfterOneWay
<1>5. r \in DOMAIN lists[q] => q \in DOMAIN lists[r]
  BY <1>2, <1>3, AfterOneWay
<1>6. /\ RemoteLists(r, lists[r]) /\ RemoteLists(q, lists[q])
      /\ indexSet[r] \in Seq(IndexPair) /\ indexSet[q] \in Seq(IndexPair)
  BY DEF SyncInv, TypeInv, SetsInv
<1>7. ASSUME q \in DOMAIN lists[r], NEW e \in ToSet(lists[r][q])
      PROVE  /\ Contains(indexSet[r], Pair(e))
             /\ Contains(indexSet[q], [global |-> e.global, attribute |-> e.theirs])
             /\ Contains(lists[q][r], [global |-> e.global, mine |-> e.theirs, theirs |-> e.mine])
  <2>1. q # r /\ r \in DOMAIN lists[q] /\ lists[q][r] \in Seq(RemoteIndex)
    BY <1>4, <1>6, <1>7 DEF RemoteLists
  <2>2. PICK d : d = [global |-> e.global, mine |-> e.theirs, theirs |-> e.mine]
    OBVIOUS
  <2>3. d \in ToSet(lists[q][r])
    <3>1. e \in EntriesAfter(r, k, q, N(r, k))
      BY <1>2, <1>7
    <3>2. d \in EntriesAfter(q, k, r, N(q, k))
      BY <1>2, <1>3, <2>1, <2>2, <3>1, MirroredEntries
    <3> QED BY <1>3, <2>1, <3>2
  <2>4. Pair(d) \in ToSet(indexSet[q]) /\ Pair(d) = [global |-> e.global, attribute |-> e.theirs]
    BY <1>3, <2>1, <2>2, <2>3 DEF Pair
  <2>5. Pair(e) \in ToSet(indexSet[r])
    BY <1>2, <1>7
  <2> QED BY <1>6, <2>1, <2>2, <2>3, <2>4, <2>5, ContainsIs
<1> QED BY <1>4, <1>5, <1>7

\* DataInv: all that is listed is true, and a process knows what it knew when it came to the
\* sync and what those it has received from could tell.
THEOREM SyncData ==
  ASSUME OrderlyScenarios, TruthfulScenarios PROVE Spec => [](SyncInv /\ DataInv)
<1>1. Init => SyncInv /\ DataInv
  BY SyncInit, DataInit
<1>2. SyncInv /\ DataInv /\ [Next]_vars => (SyncInv /\ DataInv)'
  BY SyncStep, DataStep
<1> QED BY <1>1, <1>2, PTL DEF Spec

\* The scenario of a behaviour is one of those considered.
LEMMA TruthOfScenario ==
  ASSUME TruthfulScenarios, SyncInv PROVE Truthful(scenario)
BY DEF TruthfulScenarios, SyncInv, TypeInv

\* SyncExact: sync() adds every index and every remote index that the neighbours could tell
\* of and nothing else, in whatever order their messages arrive.
THEOREM SyncAddsExactly ==
  ASSUME OrderlyScenarios, TruthfulScenarios PROVE Spec => []SyncExact
<1>1. SyncInv /\ DataInv => SyncExact
  BY TruthOfScenario, ExactThen
<1> QED BY <1>1, SyncData, PTL

\* MutualAfterSync: two processes that are back from the same sync list each other for the same
\* indices with the same attributes, and have them.
THEOREM SyncMutual ==
  ASSUME OrderlyScenarios, TruthfulScenarios PROVE Spec => []MutualAfterSync
<1>1. SyncInv /\ DataInv => MutualAfterSync
  BY TruthOfScenario, MutualThen
<1> QED BY <1>1, SyncData, PTL

\* All three hold while interfaces are built and data is communicated after the syncs, too.
THEOREM SyncedIsExact ==
  ASSUME OrderlyScenarios, TruthfulScenarios
  PROVE  SpecSynced => [](RoundsApart /\ SyncExact /\ MutualAfterSync)
BY SyncedIsSync, SyncRoundsApart, SyncAddsExactly, SyncMutual, PTL

-----------------------------------------------------------------------------
(* The lists are strictly in order.                                          *)

\* A list that is in order is sorted.
LEMMA OrderAscends ==
  ASSUME NEW list, \A i \in 1 .. Len(list) : list[i].global \in Int, InOrder(list)
  PROVE  Ascending(list)
BY DEF InOrder, Ascending

\* Inserting an index that is not there at the right place keeps the order.
LEMMA InsertInOrder ==
  ASSUME NEW S, NEW list \in Seq(S), NEW new \in S, NEW i \in 1 .. Len(list) + 1,
         \A e \in S : e.global \in Int, InOrder(list),
         \A j \in 1 .. i - 1 : list[j].global < new.global,
         i <= Len(list) => new.global < list[i].global
  PROVE  InOrder(InsertAt(list, i, new))
<1> DEFINE out == InsertAt(list, i, new)
<1>0. Len(list) \in Nat /\ new.global \in Int /\ \A j \in 1 .. Len(list) : list[j].global \in Int
  OBVIOUS
<1>1. /\ Len(out) = Len(list) + 1
      /\ \A k \in 1 .. Len(list) + 1 :
           out[k] = IF k < i THEN list[k] ELSE IF k = i THEN new ELSE list[k - 1]
  BY InsertAtIs
<1> HIDE DEF out
<1>2. \A j \in i .. Len(list) : new.global < list[j].global
  <2> SUFFICES ASSUME NEW j \in i .. Len(list) PROVE new.global < list[j].global
    OBVIOUS
  <2>1. i \in 1 .. Len(list) /\ j \in 1 .. Len(list) /\ new.global < list[i].global
    BY <1>0
  <2>2. i = j \/ list[i].global < list[j].global
    BY <2>1 DEF InOrder
  <2> QED BY <2>1, <2>2, <1>0
<1>3. ASSUME NEW j \in 1 .. Len(list) + 1, NEW k \in 1 .. Len(list) + 1, j < k
      PROVE  out[j].global < out[k].global
  <2>1. CASE k < i
    <3>1. out[j] = list[j] /\ out[k] = list[k] /\ j \in 1 .. Len(list) /\ k \in 1 .. Len(list)
      BY <2>1, <1>3, <1>1, <1>0
    <3> QED BY <3>1, <1>3 DEF InOrder
  <2>2. CASE k = i
    <3>1. out[j] = list[j] /\ out[k] = new /\ j \in 1 .. i - 1
      BY <2>2, <1>3, <1>1, <1>0
    <3> QED BY <3>1
  <2>3. CASE k > i /\ j < i
    <3>1. out[j] = list[j] /\ out[k] = list[k - 1] /\ j \in 1 .. Len(list) /\ k - 1 \in 1 .. Len(list)
      BY <2>3, <1>3, <1>1, <1>0
    <3>2. j \in 1 .. i - 1 /\ k - 1 \in i .. Len(list)
      BY <2>3, <1>0
    <3>3. list[j].global < new.global /\ new.global < list[k - 1].global
      BY <3>2, <1>2
    <3> QED BY <3>1, <3>3, <1>0
  <2>4. CASE k > i /\ j = i
    <3>1. out[j] = new /\ out[k] = list[k - 1] /\ k - 1 \in i .. Len(list)
      BY <2>4, <1>3, <1>1, <1>0
    <3> QED BY <3>1, <1>2
  <2>5. CASE k > i /\ j > i
    <3>1. out[j] = list[j - 1] /\ out[k] = list[k - 1]
      BY <2>5, <1>3, <1>1, <1>0
    <3>2. j - 1 \in 1 .. Len(list) /\ k - 1 \in 1 .. Len(list) /\ j - 1 < k - 1
      BY <2>5, <1>3, <1>0
    <3> QED BY <3>1, <3>2 DEF InOrder
  <2> QED BY <2>1, <2>2, <2>3, <2>4, <2>5
<1> QED BY <1>1, <1>3 DEF InOrder, out

\* Everything listed for an index has the attribute the own process has for it.
OneMine(set) == \A d, e \in set : d.global = e.global => d.mine = e.mine

\* insertIntoRemoteIndexList finds an entry with one attribute that is there, so that it
\* keeps the list free of repetitions unless it is given one with two for the second time.
LEMMA InsertOnce ==
  ASSUME NEW list \in Seq(RemoteIndex), NEW new \in RemoteIndex, InOrder(list),
         OneMine(ToSet(list) \cup {new}),
         new.mine = new.theirs \/ \A e \in ToSet(list) : e.global # new.global
  PROVE  InOrder(InsertIntoRemoteIndexList(list, new))
<1> DEFINE skipped == PairsBelow(list, Pair(new))
           i == FirstFrom(list, skipped)
<1>0. Len(list) \in Nat /\ DOMAIN list = 1 .. Len(list)
  OBVIOUS
<1>1. /\ i \in 1 .. Len(list) + 1
      /\ \A j \in 1 .. i - 1 : list[j] \in skipped
      /\ i <= Len(list) => list[i] \notin skipped
  BY FirstFromIs
<1>2. /\ i <= Len(list) /\ Pair(list[i]) = Pair(new) /\ new.mine = new.theirs
           => InsertIntoRemoteIndexList(list, new) = list
      /\ ~(i <= Len(list) /\ Pair(list[i]) = Pair(new) /\ new.mine = new.theirs)
           => InsertIntoRemoteIndexList(list, new) = InsertAt(list, i, new)
  <2> HIDE DEF i
  <2> QED BY Zenon DEF InsertIntoRemoteIndexList, i
<1>3. \A e \in RemoteIndex : e.global \in Int /\ e.mine \in Int
  BY DEF RemoteIndex
<1>4. \A e \in ToSet(list) : e \in RemoteIndex /\ (e.global = new.global => e.mine = new.mine)
  <2>1. \A e \in ToSet(list) : e \in RemoteIndex
    BY <1>0 DEF ToSet
  <2> QED BY <2>1 DEF OneMine
<1>5. \A e \in ToSet(list) : e \in skipped <=> e.global < new.global
  <2> SUFFICES ASSUME NEW e \in ToSet(list) PROVE e \in skipped <=> e.global < new.global
    OBVIOUS
  <2>1. e.global \in Int /\ new.global \in Int /\ e.mine \in Int /\ new.mine \in Int
    BY <1>3, <1>4
  <2>2. PairLess(Pair(e), Pair(new)) <=> e.global < new.global
    BY <2>1, <1>4 DEF PairLess, Pair
  <2> QED BY <2>2 DEF PairsBelow
<1> HIDE DEF i, skipped
<1>6. \A j \in 1 .. Len(list) : list[j] \in ToSet(list)
  BY <1>0 DEF ToSet
<1>7. \A j \in 1 .. i - 1 : list[j].global < new.global
  BY <1>0, <1>1, <1>5, <1>6
<1>8. i <= Len(list) => /\ i \in 1 .. Len(list) /\ list[i].global \in Int /\ new.global \in Int
                        /\ ~(list[i].global < new.global)
  <2> SUFFICES ASSUME i <= Len(list)
               PROVE  /\ i \in 1 .. Len(list) /\ list[i].global \in Int /\ new.global \in Int
                      /\ ~(list[i].global < new.global)
    OBVIOUS
  <2>1. i \in 1 .. Len(list) /\ list[i] \in ToSet(list)
    BY <1>0, <1>1, <1>6
  <2> QED BY <1>1, <1>3, <1>4, <1>5, <2>1
<1>9. CASE i <= Len(list) /\ list[i].global = new.global
  <2>1. list[i] \in ToSet(list)
    BY <1>6, <1>8, <1>9
  <2>2. Pair(list[i]) = Pair(new) /\ new.mine = new.theirs
    BY <1>4, <1>9, <2>1 DEF Pair
  <2> QED BY <1>2, <1>9, <2>2
<1>10. CASE ~(i <= Len(list) /\ list[i].global = new.global)
  <2>1. i <= Len(list) => new.global < list[i].global
    BY <1>8, <1>10
  <2>2. InOrder(InsertAt(list, i, new))
    BY <1>1, <1>3, <1>7, <2>1, InsertInOrder
  <2>3. ~(i <= Len(list) /\ Pair(list[i]) = Pair(new))
    BY <1>10 DEF Pair
  <2> QED BY <1>2, <2>2, <2>3
<1> QED BY <1>9, <1>10

\* So does inserting entries one after the other.
LEMMA InsertAllOnce ==
  ASSUME NEW list \in Seq(RemoteIndex), NEW new \in Seq(RemoteIndex), InOrder(list),
         OneMine(ToSet(list) \cup ToSet(new)), OneTheirs(ToSet(list) \cup ToSet(new)),
         \/ \A e \in ToSet(new) : e.mine = e.theirs
         \/ /\ InOrder(new)
            /\ \A e \in ToSet(new) : e.mine # e.theirs => \A d \in ToSet(list) : d.global # e.global
  PROVE  InOrder(InsertAll(list, new))
<1>0. Len(new) \in Nat /\ DOMAIN new = 1 .. Len(new)
  OBVIOUS
<1>1. PICK f \in [0 .. Len(new) -> Seq(RemoteIndex)] :
        /\ f[0] = list /\ InsertAll(list, new) = f[Len(new)]
        /\ \A i \in 1 .. Len(new) : f[i] = InsertIntoRemoteIndexList(f[i - 1], new[i])
  BY InsertAllStep
<1> DEFINE T == {i \in 0 .. Len(new) : /\ InOrder(f[i])
                                       /\ ToSet(f[i]) = ToSet(list) \cup {new[j] : j \in 1 .. i}}
<1>2. 0 \in T
  BY <1>0, <1>1
<1>3. ASSUME NEW i \in 1 .. Len(new), i - 1 \in T PROVE i \in T
  <2>1. i \in 0 .. Len(new) /\ i - 1 \in 0 .. Len(new)
    BY <1>0
  <2>2. f[i - 1] \in Seq(RemoteIndex) /\ new[i] \in RemoteIndex
    BY <2>1
  <2>3. ToSet(f[i - 1]) = ToSet(list) \cup {new[j] : j \in 1 .. i - 1} /\ InOrder(f[i - 1])
    BY <1>3
  <2>4. \A j \in 1 .. i : new[j] \in ToSet(new)
    BY <1>0 DEF ToSet
  <2>5. ToSet(f[i - 1]) \cup {new[i]} \subseteq ToSet(list) \cup ToSet(new)
    BY <2>1, <2>3, <2>4
  <2>6. OneTheirs(ToSet(f[i - 1]) \cup {new[i]}) /\ OneMine(ToSet(f[i - 1]) \cup {new[i]})
    BY <2>5 DEF OneTheirs, OneMine
  <2>7. ToSet(f[i]) = ToSet(f[i - 1]) \cup {new[i]}
    BY <1>1, <2>2, <2>6, InsertMembers
  <2>8. {new[j] : j \in 1 .. i} = {new[j] : j \in 1 .. i - 1} \cup {new[i]}
    <3>1. 1 .. i = (1 .. i - 1) \cup {i}
      BY <2>1
    <3> QED BY <3>1
  <2>9. new[i] \in ToSet(new)
    BY <2>1, <2>4
  <2>10. new[i].mine = new[i].theirs \/ \A e \in ToSet(f[i - 1]) : e.global # new[i].global
    <3> SUFFICES ASSUME new[i].mine # new[i].theirs, NEW e \in ToSet(f[i - 1]), e.global = new[i].global
                 PROVE  FALSE
      OBVIOUS
    <3>1. InOrder(new) /\ \A d \in ToSet(list) : d.global # new[i].global
      BY <2>9
    <3>2. PICK j \in 1 .. i - 1 : e = new[j]
      BY <2>3, <3>1
    <3>3. j \in 1 .. Len(new) /\ i \in 1 .. Len(new) /\ j < i
      BY <1>0
    <3>4. new[j].global < new[i].global
      BY <3>1, <3>3 DEF InOrder
    <3>5. new[j].global \in Int /\ new[i].global \in Int
      <4>1. new[j] \in RemoteIndex /\ new[i] \in RemoteIndex
        BY <3>3
      <4> QED BY <4>1 DEF RemoteIndex
    <3> QED BY <3>2, <3>4, <3>5
  <2>11. InOrder(f[i])
    <3>1. f[i] = InsertIntoRemoteIndexList(f[i - 1], new[i])
      BY <1>1
    <3> QED BY <2>2, <2>3, <2>6, <2>10, <3>1, InsertOnce
  <2> QED BY <2>1, <2>3, <2>7, <2>8, <2>11
<1>4. T = 0 .. Len(new)
  <2>1. T \subseteq 0 .. Len(new)
    OBVIOUS
  <2> HIDE DEF T
  <2> QED BY <1>0, <1>2, <1>3, <2>1, InductionUpTo
<1>5. Len(new) \in T
  <2> HIDE DEF T
  <2> QED BY <1>0, <1>4
<1> QED BY <1>1, <1>5

\* A subsequence of a list in order is in order.
LEMMA SubsequenceInOrder ==
  ASSUME NEW S, NEW s \in Seq(S), NEW positions \in SUBSET DOMAIN s, InOrder(s)
  PROVE  InOrder(Subsequence(s, positions))
<1> DEFINE sub == Subsequence(s, positions)
<1>1. PICK h : Selects(h, sub, s, positions)
  BY SubsequenceSelects
<1>2. /\ h \in [1 .. Len(sub) -> positions]
      /\ \A j, k \in 1 .. Len(sub) : j < k => h[j] < h[k]
      /\ \A k \in 1 .. Len(sub) : sub[k] = s[h[k]]
  BY <1>1 DEF Selects
<1> HIDE DEF sub
<1>3. ASSUME NEW j \in 1 .. Len(sub), NEW k \in 1 .. Len(sub), j < k
      PROVE  sub[j].global < sub[k].global
  <2>1. h[j] \in 1 .. Len(s) /\ h[k] \in 1 .. Len(s) /\ h[j] < h[k]
    BY <1>2, <1>3
  <2> QED BY <1>2, <2>1 DEF InOrder
<1> QED BY <1>3 DEF InOrder, sub

\* A message made from an index set in order has its entries in order.
LEMMA EntriesForInOrder ==
  ASSUME NEW set \in Seq(IndexPair), NEW ls, ls \in [DOMAIN ls -> Seq(RemoteIndex)],
         DOMAIN ls \subseteq Rank, NEW r, NEW source, NEW q, InOrder(set)
  PROVE  InOrder(EntriesFor(r, source, q, EntriesOf(set, ls, r)))
<1> DEFINE sub == Subsequence(set, SharedWith(set, ls, r))
           es == EntriesOf(set, ls, r)
           positions == {i \in DOMAIN es : \E p \in SourceAttributes(r, source, es[i]) : p[1] = q}
           about == Subsequence(es, positions)
           made(e) == [global |-> e.global, mine |-> MyAttribute(r, e),
                       theirs |-> AttributeOf(SourceAttributes(r, source, e), q)]
           out == [i \in DOMAIN about |-> made(about[i])]
<1>1. SharedWith(set, ls, r) \in SUBSET DOMAIN set
  BY DEF SharedWith
<1>2. InOrder(sub) /\ sub \in Seq(IndexPair)
  BY <1>1, SubsequenceInOrder, SubsequenceSelects
<1>3. es = [i \in DOMAIN sub |-> EntryOf(ls, sub[i])] /\ es \in Seq(MessageEntry)
  BY EntriesAre DEF EntriesOf
<1> HIDE DEF sub
<1>4. DOMAIN es = 1 .. Len(sub) /\ Len(es) = Len(sub) /\ \A i \in 1 .. Len(sub) : es[i].global = sub[i].global
  BY <1>2, <1>3 DEF EntryOf
<1> HIDE DEF es
<1>5. InOrder(es)
  BY <1>2, <1>4 DEF InOrder
<1>6. positions \in SUBSET DOMAIN es
  OBVIOUS
<1>7. InOrder(about) /\ about \in Seq(MessageEntry)
  BY <1>3, <1>5, <1>6, SubsequenceInOrder, SubsequenceSelects
<1>8. EntriesFor(r, source, q, es) = out
  BY Zenon DEF EntriesFor, AttributeOf
<1> HIDE DEF about, positions
<1>9. Len(out) = Len(about) /\ \A i \in 1 .. Len(about) : out[i].global = about[i].global
  <2>1. DOMAIN about = 1 .. Len(about) /\ Len(about) \in Nat
    BY <1>7
  <2>2. DOMAIN out = 1 .. Len(about)
    BY <2>1
  <2>3. \A e : made(e).global = e.global
    OBVIOUS
  <2>4. \A i \in 1 .. Len(about) : out[i] = made(about[i])
    BY <2>1
  <2> HIDE DEF made
  <2>5. Len(out) = Len(about)
    BY <2>1, <2>2
  <2> QED BY <2>3, <2>4, <2>5
<1> HIDE DEF out
<1> QED BY <1>7, <1>8, <1>9 DEF InOrder, es

\* calculateMessageSizes counts the entries that packAndSend packs, since a process has but
\* one attribute for an index.
LEMMA PublishIs ==
  ASSUME NEW s, Truthful(s), NEW r, NEW d, indexSet[r] \in Seq(IndexPair),
         lists[r] \in [DOMAIN lists[r] -> Seq(RemoteIndex)], DOMAIN lists[r] \subseteq Rank,
         Known(s, r, ToSet(indexSet[r]), lists[r]), Carried(r, d) = 0
  PROVE  Publish(r, d) = Len(EntriesOf(indexSet[r], lists[r], d))
<1> DEFINE set == indexSet[r]
           ls == lists[r]
           counted == {i \in DOMAIN set : d \in CountedFor(r, set[i])}
<1>1. ASSUME NEW i \in DOMAIN set
      PROVE  d \in CountedFor(r, set[i]) <=> d \in KnownIn(ls, set[i].global)
  <2>1. CASE d \notin DOMAIN ls
    BY <2>1 DEF CountedFor, KnownIn
  <2>2. CASE d \in DOMAIN ls
    <3>1. PICK list \in Seq(RemoteIndex) : list = ls[d]
      BY <2>2
    <3>2. PICK pair \in IndexPair : pair = set[i] /\ pair \in ToSet(set)
      BY DEF ToSet
    <3>3. \A e \in ToSet(list) : e \in RemoteIndex
      BY DEF ToSet
    <3>4. ASSUME NEW e \in ToSet(list), e.global = pair.global PROVE e.mine = pair.attribute
      <4>1. Pair(e) \in ToSet(set) /\ \A p \in ToSet(set) : <<r, p.global, p.attribute>> \in Claims(s)
        BY <2>2, <3>1 DEF Known
      <4>2. Pair(e).global = e.global /\ Pair(e).attribute = e.mine
        BY DEF Pair
      <4>3. <<r, e.global, e.mine>> \in Claims(s) /\ <<r, e.global, pair.attribute>> \in Claims(s)
        BY <3>2, <3>4, <4>1, <4>2
      <4> QED BY <4>3, OneClaim
    <3>5. \A e \in ToSet(list) : Pair(e) = pair <=> e.global = pair.global
      <4>1. \A e \in ToSet(list) : Pair(e) = [global |-> e.global, attribute |-> e.mine]
        BY DEF Pair
      <4>2. pair = [global |-> pair.global, attribute |-> pair.attribute]
        BY DEF IndexPair
      <4> QED BY <3>4, <4>1, <4>2
    <3>6. PairsBelow(list, pair) = GlobalsBelow(list, pair.global)
      <4>1. ASSUME NEW e \in ToSet(list) PROVE PairLess(Pair(e), pair) <=> e.global < pair.global
        <5>1. e.global \in Int /\ pair.global \in Int /\ e.mine \in Int /\ pair.attribute \in Int
          BY <3>3 DEF RemoteIndex, IndexPair
        <5>2. Pair(e).global = e.global /\ Pair(e).attribute = e.mine
          BY DEF Pair
        <5> QED BY <3>4, <5>1, <5>2 DEF PairLess
      <4> QED BY <4>1 DEF PairsBelow, GlobalsBelow
    <3> DEFINE n == FirstFrom(list, GlobalsBelow(list, pair.global))
    <3>7. n \in 1 .. Len(list) + 1
      BY FirstFromIs
    <3>8. /\ d \in CountedFor(r, set[i]) <=> n <= Len(list) /\ Pair(list[n]) = pair
          /\ d \in KnownIn(ls, set[i].global) <=> n <= Len(list) /\ list[n].global = pair.global
      BY <2>2, <3>1, <3>2, <3>6 DEF CountedFor, KnownIn
    <3> HIDE DEF n
    <3>9. n <= Len(list) => list[n] \in ToSet(list)
      <4>1. n <= Len(list) => n \in DOMAIN list
        BY <3>7
      <4> QED BY <4>1 DEF ToSet
    <3> QED BY <3>5, <3>8, <3>9
  <2> QED BY <2>1, <2>2
<1>2. counted = SharedWith(set, ls, d)
  BY <1>1 DEF SharedWith
<1>3. Publish(r, d) = 0 + Cardinality(counted)
  BY DEF Publish
<1>4. Len(EntriesOf(set, ls, d)) = Cardinality(SharedWith(set, ls, d)) /\ EntriesOf(set, ls, d) \in Seq(MessageEntry)
  BY EntriesAre
<1>5. Len(EntriesOf(set, ls, d)) \in Nat
  BY <1>4
<1> HIDE DEF counted
<1>6. Publish(r, d) = Len(EntriesOf(set, ls, d))
  BY <1>2, <1>3, <1>4, <1>5
<1> QED BY <1>6

\* The walk of repairLocalIndexPointers through a sorted index set finds the pairs of a
\* list in order, if all are there.
LEMMA WalkFinds ==
  ASSUME NEW set \in Seq(IndexPair), NEW list \in Seq(RemoteIndex), Ascending(set), InOrder(list),
         \A e \in ToSet(list) : Pair(e) \in ToSet(set)
  PROVE  Repairable(set, list)
<1>0. Len(set) \in Nat /\ DOMAIN set = 1 .. Len(set) /\ Len(list) \in Nat /\ DOMAIN list = 1 .. Len(list)
  OBVIOUS
<1> DEFINE step(k, i) == LET j == IF i = 0 THEN 0 ELSE FoundFrom(set, i, Pair(list[k]))
                         IN IF j = 0 THEN 0 ELSE j + 1
           Good(k, i) == /\ i \in 1 .. Len(set) + 1
                         /\ k = 0 => i = 1
                         /\ k > 0 => i > 1 /\ set[i - 1] = Pair(list[k])
<1>1. \A k \in 1 .. Len(list) : Pair(list[k]) \in ToSet(set) /\ Pair(list[k]).global = list[k].global
                               /\ list[k].global \in Int
  <2>1. \A k \in 1 .. Len(list) : list[k] \in ToSet(list) /\ list[k] \in RemoteIndex
    BY <1>0 DEF ToSet
  <2> QED BY <2>1 DEF Pair, RemoteIndex
<1>2. \A j \in 1 .. Len(set) : set[j].global \in Int
  <2>1. \A j \in 1 .. Len(set) : set[j] \in IndexPair
    BY <1>0
  <2> QED BY <2>1 DEF IndexPair
<1>3. ASSUME NEW k \in 1 .. Len(list), NEW i, Good(k - 1, i)
      PROVE  Good(k, step(k, i))
  <2> DEFINE pair == Pair(list[k])
             same == {j \in DOMAIN set : set[j] = pair}
             ahead == {j \in same : j >= i}
  <2>1. PICK j \in 1 .. Len(set) : set[j] = pair
    BY <1>0, <1>1 DEF ToSet
  <2>2. i \in 1 .. Len(set) + 1 /\ i # 0
    BY <1>0, <1>3
  <2>3. j >= i
    <3>1. CASE k = 1
      BY <1>0, <1>3, <2>1, <3>1
    <3>3. CASE k > 1
      <4>1. i > 1 /\ set[i - 1] = Pair(list[k - 1]) /\ k - 1 \in 1 .. Len(list)
        BY <1>0, <1>3, <3>3
      <4>2. list[k - 1].global < list[k].global
        BY <1>0, <4>1 DEF InOrder
      <4>3. i - 1 \in 1 .. Len(set) /\ set[i - 1].global < set[j].global
        BY <1>0, <1>1, <2>1, <2>2, <4>1, <4>2
      <4>4. ~(j < i - 1) /\ j # i - 1
        BY <1>2, <2>1, <4>3 DEF Ascending
      <4> QED BY <2>1, <2>2, <4>4
    <3> QED BY <1>0, <3>1, <3>3
  <2>4. j \in ahead /\ ahead # {} /\ ahead \in SUBSET Nat
    BY <1>0, <2>1, <2>3
  <2>5. FoundFrom(set, i, pair) = Min(ahead)
    BY <2>4 DEF FoundFrom
  <2>6. Min(ahead) \in ahead
    <3> HIDE DEF ahead
    <3> QED BY <2>4, MinIs
  <2>7. PICK m : m = Min(ahead)
    OBVIOUS
  <2>8. m \in 1 .. Len(set) /\ set[m] = pair /\ step(k, i) = m + 1
    <3>1. m \in 1 .. Len(set) /\ set[m] = pair
      BY <1>0, <2>6, <2>7
    <3> QED BY <1>0, <2>2, <2>5, <2>7, <3>1
  <2> HIDE DEF step, pair
  <2>9. m + 1 \in 1 .. Len(set) + 1 /\ m + 1 > 1 /\ (m + 1) - 1 = m
    BY <1>0, <2>8
  <2> QED BY <2>8, <2>9 DEF pair
<1>4. ASSUME NEW k \in 1 .. Len(list), NEW i \in Nat PROVE step(k, i) \in Nat
  <2> DEFINE same == {j \in DOMAIN set : set[j] = Pair(list[k])}
             ahead == {j \in same : j >= i}
  <2>1. same \in SUBSET Nat /\ ahead \in SUBSET Nat
    BY <1>0
  <2>2. FoundFrom(set, i, Pair(list[k])) \in {Min(ahead), Min(same), 0}
        /\ (ahead = {} /\ same = {} => FoundFrom(set, i, Pair(list[k])) = 0)
        /\ (ahead = {} => FoundFrom(set, i, Pair(list[k])) \in {0, Min(same)})
        /\ (ahead # {} => FoundFrom(set, i, Pair(list[k])) = Min(ahead))
    BY DEF FoundFrom
  <2>3. (ahead # {} => Min(ahead) \in Nat) /\ (same # {} => Min(same) \in Nat)
    <3> HIDE DEF ahead, same
    <3> QED BY <2>1, MinIs
  <2> HIDE DEF ahead, same
  <2>4. FoundFrom(set, i, Pair(list[k])) \in Nat
    BY <2>2, <2>3
  <2> QED BY <2>4
<1> HIDE DEF step
<1> DEFINE rule == [at \in (1 .. Len(list)) \X Nat |-> step(at[1], at[2])]
<1>5. ASSUME NEW k \in 1 .. Len(list), NEW i \in Nat
      PROVE  rule[<<k, i>>] = step(k, i) /\ rule[<<k, i>>] \in Nat
  BY <1>4
<1> HIDE DEF rule
<1>6. PICK f \in [0 .. Len(list) -> Nat] : Recurs(f, Len(list), 1, rule)
  BY <1>0, <1>5, Recursion
<1>7. f[0] = 1 /\ \A k \in 1 .. Len(list) : f[k] = step(k, f[k - 1])
  <2>1. \A k \in 1 .. Len(list) : k - 1 \in 0 .. Len(list)
    BY <1>0
  <2> QED BY <1>5, <1>6, <2>1 DEF Recurs
<1> DEFINE body(g) == [k \in 0 .. Len(list) |->
                         IF k = 0 THEN 1
                         ELSE LET j == IF g[k - 1] = 0 THEN 0 ELSE FoundFrom(set, g[k - 1], Pair(list[k]))
                              IN IF j = 0 THEN 0 ELSE j + 1]
           next == CHOOSE g : g = body(g)
<1>8. \A g : body(g) = [k \in 0 .. Len(list) |-> IF k = 0 THEN 1 ELSE step(k, g[k - 1])]
  BY DEF step
<1>9. f = body(f)
  <2>1. ASSUME NEW k \in 0 .. Len(list) PROVE f[k] = IF k = 0 THEN 1 ELSE step(k, f[k - 1])
    <3>1. k = 0 \/ k \in 1 .. Len(list)
      BY <1>0
    <3> QED BY <1>7, <3>1
  <2>2. f = [k \in 0 .. Len(list) |-> IF k = 0 THEN 1 ELSE step(k, f[k - 1])]
    BY <2>1
  <2> HIDE DEF body
  <2> QED BY <1>8, <2>2
<1>10. next = body(next)
  <2> HIDE DEF body
  <2> QED BY <1>9
<1>11. Repairable(set, list) <=> next[Len(list)] # 0
  BY Zenon DEF Repairable
<1> HIDE DEF next
<1>12. next = [k \in 0 .. Len(list) |-> IF k = 0 THEN 1 ELSE step(k, next[k - 1])]
  <2> HIDE DEF body
  <2> QED BY <1>8, <1>10
<1> DEFINE T == {k \in 0 .. Len(list) : Good(k, next[k])}
<1>13. 0 \in T
  <2>1. next[0] = 1
    BY <1>0, <1>12
  <2> QED BY <1>0, <2>1
<1>14. ASSUME NEW k \in 1 .. Len(list), k - 1 \in T PROVE k \in T
  <2>1. next[k] = step(k, next[k - 1]) /\ k \in 0 .. Len(list)
    <3>1. k \in 0 .. Len(list) /\ k # 0
      BY <1>0
    <3> QED BY <1>12, <3>1
  <2>2. Good(k - 1, next[k - 1])
    BY <1>14
  <2> HIDE DEF Good
  <2>3. Good(k, step(k, next[k - 1]))
    BY <1>3, <2>2
  <2> QED BY <2>1, <2>3
<1>15. T = 0 .. Len(list)
  <2>1. T \subseteq 0 .. Len(list)
    OBVIOUS
  <2> HIDE DEF T
  <2> QED BY <1>0, <1>13, <1>14, <2>1, InductionUpTo
<1>16. Len(list) \in T
  <2> HIDE DEF T
  <2> QED BY <1>0, <1>15
<1>17. next[Len(list)] \in 1 .. Len(set) + 1
  BY <1>16
<1> QED BY <1>0, <1>11, <1>17

-----------------------------------------------------------------------------
(* No process reads beyond its data.                                       *)

\* The executions of a new syncer for every sync, in which no list is given an entry with
\* two attributes twice.
PlainScenarios == \A s \in Scenarios : Plain(s)

StartInv ==
  \A r \in Rank :
    /\ round[r] = 0 => /\ indexSet[r] = scenario.indexSet[r] /\ lists[r] = scenario.lists[r]
                       /\ infoSend[r] = Nothing
    /\ round[r] > 0 => /\ before[r][1].set = scenario.indexSet[r]
                       /\ before[r][1].lists = scenario.lists[r]

OrderInv ==
  \A r \in Rank : Ascending(indexSet[r]) /\ \A q \in DOMAIN lists[r] : InOrder(lists[r][q])

PublishInv ==
  \A p \in Rank : \A d \in DOMAIN sent[p] : sent[p][d].publish = Len(sent[p][d].entries)

PlainInv == DOMAIN infoSend = Rank /\ StartInv /\ OrderInv /\ PublishInv /\ PointersRepaired

\* An index set in order is sorted.
LEMMA SetAscends == ASSUME NEW set \in Seq(IndexPair), InOrder(set) PROVE Ascending(set)
<1>1. \A i \in 1 .. Len(set) : set[i].global \in Int
  <2>1. \A i \in 1 .. Len(set) : set[i] \in IndexPair
    OBVIOUS
  <2> QED BY <2>1 DEF IndexPair
<1> QED BY <1>1, OrderAscends

\* In the beginning everything is as the scenario says.
LEMMA PlainInit == ASSUME PlainScenarios, Init PROVE PlainInv
<1>1. /\ scenario \in Scenarios /\ indexSet = scenario.indexSet /\ lists = scenario.lists
      /\ infoSend = [r \in Rank |-> Nothing]
      /\ \A r \in Rank : round[r] = 0 /\ pc[r] = "user" /\ sent[r] = Nothing
  BY DEF Init
<1>2. Plain(scenario)
  BY <1>1 DEF PlainScenarios
<1>3. StartInv /\ DOMAIN infoSend = Rank /\ PointersRepaired
  BY <1>1 DEF StartInv, PointersRepaired
<1>4. DOMAIN Nothing = {}
  BY DEF Nothing
<1>5. PublishInv
  BY <1>1, <1>4 DEF PublishInv
<1>6. OrderInv
  <2>1. \A r \in Rank : scenario.indexSet[r] \in Seq(IndexPair)
    BY <1>1, ScenarioType
  <2>2. \A r \in Rank : Ascending(scenario.indexSet[r])
    BY <1>2, <2>1, SetAscends DEF Plain
  <2> QED BY <1>1, <1>2, <2>2 DEF OrderInv, Plain
<1> QED BY <1>3, <1>5, <1>6 DEF PlainInv

\* A syncer of its own counts the entries of a message right.
LEMMA StartPlain ==
  ASSUME SyncInv, DataInv, PlainInv, Truthful(scenario), Plain(scenario), NEW r \in Rank, StartSync(r)
  PROVE  PlainInv'
<1>0. TypeInv
  BY DEF SyncInv
<1>1. /\ pc[r] = "user" /\ round[r] < scenario.rounds /\ scenario' = scenario
      /\ round'[r] = round[r] + 1 /\ pc'[r] = "syncing"
      /\ sent'[r] = [d \in DOMAIN lists[r] |-> Message(r, d)]
      /\ \A p \in Rank \ {r} : /\ round'[p] = round[p] /\ pc'[p] = pc[p] /\ sent'[p] = sent[p]
                               /\ before'[p] = before[p]
      /\ indexSet' = indexSet /\ newIndices' = newIndices /\ lists' = lists
  BY <1>0, StartEffect
<1>2. /\ \A p \in Rank : \A k \in 1 .. round[p] : before'[p][k] = before[p][k]
      /\ before'[r][round[r] + 1].set = indexSet[r]
      /\ before'[r][round[r] + 1].lists = lists[r]
  BY <1>0, HistoryGrows
<1>3. \A x \in Rank : round[x] \in Nat
  BY <1>0 DEF TypeInv, CountInv
<1>4. /\ indexSet[r] \in Seq(IndexPair) /\ lists[r] \in [DOMAIN lists[r] -> Seq(RemoteIndex)]
      /\ DOMAIN lists[r] \subseteq Rank
  BY <1>0 DEF TypeInv, SetsInv, RemoteLists
<1>5. DOMAIN infoSend' = Rank /\ \A p \in Rank \ {r} : infoSend'[p] = infoSend[p]
  <2>1. infoSend' = [infoSend EXCEPT ![r] = [d \in DOMAIN lists[r] |-> Publish(r, d)]] /\ DOMAIN infoSend = Rank
    BY DEF StartSync, PlainInv
  <2> QED BY <2>1
<1>6. StartInv'
  <2>1. ASSUME NEW x \in Rank
        PROVE  /\ round'[x] = 0 => /\ indexSet'[x] = scenario'.indexSet[x] /\ lists'[x] = scenario'.lists[x]
                                   /\ infoSend'[x] = Nothing
               /\ round'[x] > 0 => /\ before'[x][1].set = scenario'.indexSet[x]
                                   /\ before'[x][1].lists = scenario'.lists[x]
    <3>1. CASE x # r
      BY <1>1, <1>5, <3>1 DEF PlainInv, StartInv
    <3>2. CASE x = r /\ round[r] = 0
      BY <1>1, <1>2, <3>2 DEF PlainInv, StartInv
    <3>3. CASE x = r /\ round[r] # 0
      <4>1. 1 \in 1 .. round[r] /\ round[r] > 0 /\ round'[r] # 0
        BY <1>1, <1>3, <3>3
      <4> QED BY <1>1, <1>2, <3>3, <4>1 DEF PlainInv, StartInv
    <3> QED BY <3>1, <3>2, <3>3
  <2> QED BY <2>1 DEF StartInv
<1>7. OrderInv'
  BY <1>1 DEF PlainInv, OrderInv
<1>8. PointersRepaired'
  <2>1. \A x \in Rank : pc'[x] # "undefined"
    BY <1>1 DEF PlainInv, PointersRepaired
  <2> QED BY <2>1 DEF PointersRepaired
<1>9. \A d \in DOMAIN lists[r] : Carried(r, d) = 0
  <2> SUFFICES ASSUME NEW d \in DOMAIN lists[r] PROVE Carried(r, d) = 0
    OBVIOUS
  <2>1. CASE ~scenario.sameSyncer
    BY <2>1 DEF Carried
  <2>2. CASE scenario.sameSyncer
    <3>1. scenario.rounds = 1
      BY <2>2 DEF Plain
    <3>2. round[r] = 0
      BY <1>1, <1>3, <3>1
    <3>3. infoSend[r] = Nothing
      BY <3>2 DEF PlainInv, StartInv
    <3> QED BY <3>3 DEF Carried, Nothing
  <2> QED BY <2>1, <2>2
<1>10. Known(scenario, r, ToSet(indexSet[r]), lists[r])
  <2>1. ToSet(<<>>) = {}
    BY DEF ToSet
  <2>2. newIndices[r] = <<>> /\ Known(scenario, r, ToSet(indexSet[r]) \cup ToSet(newIndices[r]), lists[r])
    BY <1>1 DEF DataInv, TruthInv
  <2>3. ToSet(indexSet[r]) \cup ToSet(newIndices[r]) = ToSet(indexSet[r])
    BY <2>1, <2>2
  <2> QED BY <2>2, <2>3
<1>11. PublishInv'
  <2>1. ASSUME NEW x \in Rank, NEW d \in DOMAIN sent'[x]
        PROVE  sent'[x][d].publish = Len(sent'[x][d].entries)
    <3>1. CASE x # r
      BY <1>1, <2>1, <3>1 DEF PlainInv, PublishInv
    <3>2. CASE x = r
      <4>1. d \in DOMAIN lists[r] /\ sent'[x][d] = Message(r, d)
        BY <1>1, <3>2
      <4>2. Publish(r, d) = Len(EntriesOf(indexSet[r], lists[r], d))
        BY <1>4, <1>9, <1>10, <4>1, PublishIs
      <4> QED BY <4>1, <4>2, MessageIs
    <3> QED BY <3>1, <3>2
  <2> QED BY <2>1 DEF PublishInv
<1> QED BY <1>5, <1>6, <1>7, <1>8, <1>11 DEF PlainInv

\* The pointers can be repaired.
LEMMA FinishPlain ==
  ASSUME SyncInv, DataInv, PlainInv, NEW r \in Rank, FinishSync(r)
  PROVE  PlainInv'
<1>0. TypeInv
  BY DEF SyncInv
<1>1. /\ scenario' = scenario /\ round' = round /\ before' = before /\ lists' = lists /\ sent' = sent
      /\ indexSet'[r] = Merge(indexSet[r], newIndices[r])
      /\ \A p \in Rank \ {r} : pc'[p] = pc[p] /\ indexSet'[p] = indexSet[p]
      /\ pc[r] = "syncing"
  BY <1>0, FinishEffect
<1>2. infoSend' = infoSend
  BY DEF FinishSync
<1>3. /\ indexSet[r] \in Seq(IndexPair) /\ newIndices[r] \in Seq(IndexPair)
      /\ lists[r] \in [DOMAIN lists[r] -> Seq(RemoteIndex)] /\ round[r] # 0
  BY <1>0, <1>1 DEF TypeInv, SetsInv, RemoteLists, CountInv
<1> DEFINE merged == Merge(indexSet[r], newIndices[r])
<1>4. /\ merged \in Seq(IndexPair) /\ ToSet(merged) = ToSet(indexSet[r]) \cup ToSet(newIndices[r])
      /\ Ascending(merged)
  BY <1>3, MergeIs DEF PlainInv, OrderInv
<1>5. \A q \in DOMAIN lists[r] : Repairable(merged, lists[r][q])
  <2> HIDE DEF merged
  <2> SUFFICES ASSUME NEW q \in DOMAIN lists[r] PROVE Repairable(merged, lists[r][q])
    OBVIOUS
  <2>1. lists[r][q] \in Seq(RemoteIndex) /\ InOrder(lists[r][q])
    BY <1>3 DEF PlainInv, OrderInv
  <2>2. \A e \in ToSet(lists[r][q]) : Pair(e) \in ToSet(merged)
    BY <1>4 DEF DataInv, TruthInv, Known
  <2> QED BY <1>4, <2>1, <2>2, WalkFinds
<1>6. pc'[r] = "user"
  <2>1. pc' = [pc EXCEPT ![r] = IF \A q \in DOMAIN lists[r] : Repairable(merged, lists[r][q])
                                THEN "user" ELSE "undefined"]
    BY DEF FinishSync
  <2>2. DOMAIN pc = Rank
    BY <1>0 DEF TypeInv
  <2> HIDE DEF merged
  <2> QED BY <1>5, <2>1, <2>2
<1> HIDE DEF merged
<1>7. StartInv'
  <2>1. \A x \in Rank : round[x] = 0 => x # r
    BY <1>3
  <2>2. \A x \in Rank : round[x] = 0 => indexSet'[x] = indexSet[x]
    BY <1>1, <2>1
  <2> QED BY <1>1, <1>2, <2>2 DEF PlainInv, StartInv
<1>8. OrderInv'
  <2>1. \A x \in Rank : Ascending(indexSet'[x])
    BY <1>1, <1>4 DEF PlainInv, OrderInv, merged
  <2> QED BY <1>1, <2>1 DEF PlainInv, OrderInv
<1>9. PublishInv'
  BY <1>1 DEF PlainInv, PublishInv
<1>10. PointersRepaired'
  BY <1>1, <1>6 DEF PlainInv, PointersRepaired
<1> QED BY <1>2, <1>7, <1>8, <1>9, <1>10 DEF PlainInv

\* What the lists of a process hold has one attribute for an index on either side.
LEMMA OneEach ==
  ASSUME NEW s, Truthful(s), NEW r, NEW pairs, NEW map, Known(s, r, pairs, map), NEW q \in DOMAIN map
  PROVE  OneMine(ToSet(map[q])) /\ OneTheirs(ToSet(map[q]))
<1>1. \A e \in ToSet(map[q]) : /\ <<q, e.global, e.theirs>> \in Claims(s)
                               /\ <<r, e.global, e.mine>> \in Claims(s)
  <2>1. \A e : Pair(e).global = e.global /\ Pair(e).attribute = e.mine
    BY DEF Pair
  <2> QED BY <2>1 DEF Known
<1>2. ASSUME NEW d \in ToSet(map[q]), NEW e \in ToSet(map[q]), d.global = e.global
      PROVE  d.mine = e.mine /\ d.theirs = e.theirs
  <2>1. /\ <<q, e.global, d.theirs>> \in Claims(s) /\ <<q, e.global, e.theirs>> \in Claims(s)
        /\ <<r, e.global, d.mine>> \in Claims(s) /\ <<r, e.global, e.mine>> \in Claims(s)
    BY <1>1, <1>2
  <2> QED BY <2>1, OneClaim
<1> QED BY <1>2 DEF OneMine, OneTheirs

\* What a process is told for the first time is not in its lists yet.
LEMMA ToldOnce ==
  ASSUME OrderlyScenarios, SyncInv, DataInv, PlainInv, Truthful(scenario), scenario.rounds = 1,
         NEW r \in Rank, NEW source \in Rank, RecvAndUnpack(r, source), NEW q \in Rank \ {r},
         NEW e \in EntriesTold(source, before[source][round[r]].lists, r, q),
         NEW d \in Listed(lists[r], q), d = e
  PROVE  \E p \in Rank \ {source} : e \in Tells(scenario, source, r, q) \cap Tells(scenario, p, r, q)
<1>1. round[source] = 1 /\ round[r] = 1 /\ source \in N(r, 1) /\ source \in Waiting(r) /\ source # r
  <2>1. MayReceive(r, source)
    BY DEF RecvAndUnpack
  <2>2. round[source] = round[r] /\ round[r] > 0 /\ source \in N(r, round[r]) /\ source \in Waiting(r)
    BY <2>1, RightRound
  <2>3. round[r] \in Nat /\ round[r] <= 1
    BY DEF SyncInv, TypeInv, CountInv
  <2>4. round[r] = 1 /\ round[r] \in 1 .. round[r]
    BY <2>2, <2>3
  <2>5. source # r
    BY <2>2, <2>4, NeighboursType DEF SyncInv
  <2> QED BY <2>2, <2>4, <2>5
<1>2. \A p \in Rank : round[p] > 0 => before[p][1].lists = scenario.lists[p]
  BY DEF PlainInv, StartInv
<1>3. e \in Tells(scenario, source, r, q)
  <2>1. before[source][round[r]].lists = scenario.lists[source]
    BY <1>1, <1>2
  <2> QED BY <1>1, <2>1 DEF Tells
<1>4. e \in EntriesAfter(r, 1, q, Heard(r))
  <2>1. q \in DOMAIN lists[r] /\ d \in ToSet(lists[r][q])
    BY DEF Listed
  <2>2. ToSet(lists[r][q]) = EntriesAfter(r, round[r], q, Heard(r))
    BY <1>1, <2>1 DEF DataInv, ToldInv
  <2> QED BY <1>1, <2>1, <2>2
<1>5. CASE e \in Listed(before[r][1].lists, q)
  <2>1. e \in Tells(scenario, r, r, q)
    BY <1>1, <1>2, <1>5 DEF Tells
  <2> QED BY <1>1, <1>3, <2>1
<1>6. CASE \E p \in Heard(r) : e \in EntriesTold(p, before[p][1].lists, r, q)
  <2>1. PICK p \in Heard(r) : e \in EntriesTold(p, before[p][1].lists, r, q)
    BY <1>6
  <2>2. p \in N(r, 1) /\ Got(r, 1, p) /\ p # source
    BY <1>1, <2>1 DEF Heard, Waiting
  <2>3. p \in Rank /\ p # r /\ 1 \in 1 .. round[p]
    <3>1. 1 \in 1 .. round[r]
      BY <1>1
    <3> QED BY <2>2, <3>1, HeardCame
  <2>4. before[p][1].lists = scenario.lists[p]
    <3>1. round[p] \in Nat
      BY <2>3 DEF SyncInv, TypeInv, CountInv
    <3>2. round[p] > 0
      BY <2>3, <3>1
    <3> QED BY <1>2, <2>3, <3>2
  <2>5. e \in Tells(scenario, p, r, q)
    BY <2>1, <2>3, <2>4 DEF Tells
  <2> QED BY <1>3, <2>2, <2>3, <2>5
<1> QED BY <1>4, <1>5, <1>6 DEF EntriesAfter

\* A received message leaves the lists free of repetitions.
LEMMA ReceiveOrder ==
  ASSUME OrderlyScenarios, SyncInv, DataInv, PlainInv, Truthful(scenario), Plain(scenario),
         NEW r \in Rank, NEW source \in Rank, RecvAndUnpack(r, source), NEW q \in DOMAIN lists'[r]
  PROVE  InOrder(lists'[r][q])
<1>1. PICK k, ls, set : k = round[r] /\ ls = before[source][k].lists /\ set = before[source][k].set
  OBVIOUS
<1>2. /\ round[source] = k /\ k \in 1 .. round[source] /\ source # r
  <2>1. MayReceive(r, source)
    BY DEF RecvAndUnpack
  <2>2. round[source] = k /\ k > 0 /\ source \in N(r, k)
    BY <1>1, <2>1, RightRound
  <2>3. k \in 1 .. round[r] /\ k \in Nat
    BY <1>1, <2>2 DEF SyncInv, TypeInv, CountInv
  <2>4. source # r
    BY <2>2, <2>3, NeighboursType DEF SyncInv
  <2> QED BY <2>2, <2>3, <2>4
<1>3. /\ set \in Seq(IndexPair) /\ ls \in [DOMAIN ls -> Seq(RemoteIndex)] /\ DOMAIN ls \subseteq Rank
      /\ source \notin DOMAIN ls
  BY <1>1, <1>2, NeighboursType DEF SyncInv, N
<1>4. Known(scenario, source, ToSet(set), ls)
  BY <1>1, <1>2 DEF DataInv, TruthInv
<1> DEFINE old == ListOf(lists[r], q)
           new == EntriesFor(r, source, q, EntriesOf(set, ls, r))
<1>5. RemoteLists(r, lists'[r]) /\ lists'[r][q] = InsertAll(old, new)
  BY <1>1, ReceivedLists
<1>6. q \in Rank \ {r}
  BY <1>5 DEF RemoteLists
<1>7. new \in Seq(RemoteIndex) /\ ToSet(new) = EntriesTold(source, ls, r, q)
  <2>1. /\ new \in Seq(RemoteIndex)
        /\ ToSet(new) = {NewEntry(r, source, ls, q, set[i]) : i \in AboutIn(r, source, set, ls, q)}
    BY <1>3, EntriesForAre
  <2>2. q # r
    BY <1>6
  <2>3. {NewEntry(r, source, ls, q, set[i]) : i \in AboutIn(r, source, set, ls, q)}
          = EntriesTold(source, ls, r, q)
    BY <1>3, <1>4, <2>2, EntriesToldAre
  <2> QED BY <2>1, <2>3
<1>8. old \in Seq(RemoteIndex) /\ InOrder(old) /\ ToSet(old) = Listed(lists[r], q)
  <2>1. RemoteLists(r, lists[r])
    BY DEF SyncInv, TypeInv, SetsInv
  <2>2. CASE q \in DOMAIN lists[r]
    BY <2>1, <2>2 DEF RemoteLists, ListOf, Listed, PlainInv, OrderInv
  <2>3. CASE q \notin DOMAIN lists[r]
    <3>1. old = <<>> /\ ToSet(<<>>) = {} /\ <<>> \in Seq(RemoteIndex) /\ InOrder(<<>>)
      BY <2>3 DEF ListOf, ToSet, InOrder
    <3> QED BY <2>3, <3>1 DEF Listed
  <2> QED BY <2>2, <2>3
<1>9. /\ Known(scenario, r, ToSet(indexSet[r]) \cup ToSet(newIndices'[r]), lists'[r])
      /\ ToSet(lists'[r][q]) = Listed(lists[r], q) \cup EntriesTold(source, ls, r, q)
  BY <1>1, ReceiveLists
<1>10. OneMine(ToSet(old) \cup ToSet(new)) /\ OneTheirs(ToSet(old) \cup ToSet(new))
  <2>1. OneMine(ToSet(lists'[r][q])) /\ OneTheirs(ToSet(lists'[r][q]))
    BY <1>9, OneEach
  <2> QED BY <1>7, <1>8, <1>9, <2>1
<1> HIDE DEF old
<1>11. \A e \in ToSet(new) : /\ <<r, e.global, e.mine>> \in Claims(scenario)
                             /\ <<q, e.global, e.theirs>> \in Claims(scenario)
  <2>1. \A e : Pair(e).global = e.global /\ Pair(e).attribute = e.mine
    BY DEF Pair
  <2>2. \A e \in ToSet(new) : e \in ToSet(lists'[r][q])
    BY <1>7, <1>9
  <2> HIDE DEF new
  <2> QED BY <1>9, <2>1, <2>2 DEF Known
<1>12. CASE \A c, d \in Claims(scenario) : c[2] = d[2] => c[3] = d[3]
  <2>1. ASSUME NEW e \in ToSet(new) PROVE e.mine = e.theirs
    <3>1. PICK c, d : c = <<r, e.global, e.mine>> /\ d = <<q, e.global, e.theirs>>
      OBVIOUS
    <3>2. c \in Claims(scenario) /\ d \in Claims(scenario)
      BY <1>11, <3>1
    <3>3. c[2] = d[2] => c[3] = d[3]
      BY <1>12, <3>2
    <3> QED BY <3>1, <3>3
  <2> HIDE DEF new
  <2> QED BY <1>5, <1>7, <1>8, <1>10, <2>1, InsertAllOnce
<1>13. CASE /\ scenario.rounds = 1
            /\ \A x, y, p, t \in Rank : x # y =>
                 \A e \in Tells(scenario, p, x, y) \cap Tells(scenario, t, x, y) :
                   e.mine # e.theirs => p = t
  <2>1. InOrder(new)
    <3>1. k = 1
      <4>1. k \in Nat /\ k <= 1
        BY <1>1, <1>13 DEF SyncInv, TypeInv, CountInv
      <4> QED BY <1>2, <4>1
    <3>2. set = scenario.indexSet[source]
      <4>1. round[source] > 0
        BY <1>2, <3>1
      <4> QED BY <1>1, <3>1, <4>1 DEF PlainInv, StartInv
    <3>3. InOrder(set)
      BY <3>2 DEF Plain
    <3> QED BY <1>3, <3>3, EntriesForInOrder
  <2>2. ASSUME NEW e \in ToSet(new), e.mine # e.theirs, NEW d \in ToSet(old), d.global = e.global
        PROVE  FALSE
    <3>1. d = e
      <4>1. d.mine = e.mine /\ d.theirs = e.theirs
        BY <1>10, <2>2 DEF OneMine, OneTheirs
      <4>2. d \in RemoteIndex /\ e \in RemoteIndex
        BY <1>7, <1>8 DEF ToSet
      <4>3. \A x \in RemoteIndex : x = [global |-> x.global, mine |-> x.mine, theirs |-> x.theirs]
        BY DEF RemoteIndex
      <4> QED BY <2>2, <4>1, <4>2, <4>3
    <3>2. e \in EntriesTold(source, before[source][round[r]].lists, r, q) /\ d \in Listed(lists[r], q)
      BY <1>1, <1>7, <1>8
    <3>3. PICK p \in Rank \ {source} : e \in Tells(scenario, source, r, q) \cap Tells(scenario, p, r, q)
      BY <1>6, <1>13, <3>1, <3>2, ToldOnce
    <3>4. q \in Rank /\ r # q /\ p \in Rank
      BY <1>6
    <3> QED BY <1>13, <2>2, <3>3, <3>4
  <2> HIDE DEF new
  <2> QED BY <1>5, <1>7, <1>8, <1>10, <2>1, <2>2, InsertAllOnce
<1> QED BY <1>12, <1>13 DEF Plain, NoneTwice

\* recvAndUnpack reads as many entries as there are.
LEMMA ReceivePlain ==
  ASSUME OrderlyScenarios, SyncInv, DataInv, PlainInv, Truthful(scenario), Plain(scenario),
         NEW r \in Rank, NEW source \in Rank, RecvAndUnpack(r, source)
  PROVE  PlainInv'
<1>0. TypeInv
  BY DEF SyncInv
<1>1. /\ scenario' = scenario /\ round' = round /\ indexSet' = indexSet /\ before' = before
      /\ pc[r] = "syncing"
      /\ \A p \in Rank \ {r} : pc'[p] = pc[p] /\ lists'[p] = lists[p]
      /\ sent'[source] = [d \in DOMAIN sent[source] \ {r} |-> sent[source][d]]
      /\ r \in DOMAIN sent[source]
      /\ \A p \in Rank \ {source} : sent'[p] = sent[p]
  BY <1>0, ReceiveEffect, ZenonT(30)
<1>2. infoSend' = infoSend
  BY DEF RecvAndUnpack
<1>3. pc'[r] = "syncing"
  <2>1. pc' = [pc EXCEPT ![r] = IF sent[source][r].publish = Len(sent[source][r].entries) THEN @
                                ELSE "undefined"]
    BY DEF RecvAndUnpack
  <2>2. DOMAIN pc = Rank
    BY <1>0 DEF TypeInv
  <2>3. sent[source][r].publish = Len(sent[source][r].entries)
    BY <1>1 DEF PlainInv, PublishInv
  <2> QED BY <1>1, <2>1, <2>2, <2>3
<1>4. round[r] # 0
  BY <1>0, <1>1 DEF TypeInv, CountInv
<1>5. StartInv'
  <2>1. \A x \in Rank : round[x] = 0 => lists'[x] = lists[x]
    BY <1>1, <1>4
  <2> QED BY <1>1, <1>2, <2>1 DEF PlainInv, StartInv
<1>6. OrderInv'
  <2>1. ASSUME NEW x \in Rank, NEW q \in DOMAIN lists'[x] PROVE InOrder(lists'[x][q])
    <3>1. CASE x = r
      BY <3>1, ReceiveOrder
    <3>2. CASE x # r
      BY <1>1, <3>2 DEF PlainInv, OrderInv
    <3> QED BY <3>1, <3>2
  <2> QED BY <1>1, <2>1 DEF PlainInv, OrderInv
<1>7. PublishInv'
  <2>1. ASSUME NEW x \in Rank, NEW d \in DOMAIN sent'[x]
        PROVE  sent'[x][d].publish = Len(sent'[x][d].entries)
    <3>1. d \in DOMAIN sent[x] /\ sent'[x][d] = sent[x][d]
      BY <1>1
    <3> QED BY <3>1 DEF PlainInv, PublishInv
  <2> QED BY <2>1 DEF PublishInv
<1>8. PointersRepaired'
  BY <1>1, <1>3 DEF PlainInv, PointersRepaired
<1> QED BY <1>2, <1>5, <1>6, <1>7, <1>8 DEF PlainInv

\* Nothing is read beyond its end in any step.
LEMMA PlainStep ==
  ASSUME OrderlyScenarios, TruthfulScenarios, PlainScenarios, SyncInv, DataInv, PlainInv, [Next]_vars
  PROVE  PlainInv'
<1>1. Truthful(scenario) /\ Plain(scenario)
  BY DEF TruthfulScenarios, PlainScenarios, SyncInv, TypeInv
<1>2. ASSUME NEW r \in Rank, StartSync(r) PROVE PlainInv'
  BY <1>1, <1>2, StartPlain
<1>3. ASSUME NEW r \in Rank, FinishSync(r) PROVE PlainInv'
  BY <1>3, FinishPlain
<1>4. ASSUME NEW r \in Rank, NEW source \in Rank, RecvAndUnpack(r, source) PROVE PlainInv'
  BY <1>1, <1>4, ReceivePlain
<1>5. CASE UNCHANGED vars
  BY <1>5 DEF vars, PlainInv, StartInv, OrderInv, PublishInv, PointersRepaired
<1> QED BY <1>2, <1>3, <1>4, <1>5 DEF Next, Step

\* PlainInv: with a new syncer for every sync and no entry with two attributes told twice, the
\* lists stay free of repetitions, and no read goes beyond the data.
THEOREM SyncPlain ==
  ASSUME OrderlyScenarios, TruthfulScenarios, PlainScenarios
  PROVE  Spec => [](SyncInv /\ DataInv /\ PlainInv)
<1>1. Init => SyncInv /\ DataInv /\ PlainInv
  BY SyncInit, DataInit, PlainInit
<1>2. SyncInv /\ DataInv /\ PlainInv /\ [Next]_vars => (SyncInv /\ DataInv /\ PlainInv)'
  BY SyncStep, DataStep, PlainStep
<1> QED BY <1>1, <1>2, PTL DEF Spec

\* PointersRepaired: repairLocalIndexPointers finds every pair of every list in the merged index
\* set, and every message holds as many entries as its header counts.
THEOREM SyncRepairs ==
  ASSUME OrderlyScenarios, TruthfulScenarios, PlainScenarios
  PROVE  Spec => []PointersRepaired
<1>1. PlainInv => PointersRepaired
  BY DEF PlainInv
<1> QED BY <1>1, SyncPlain, PTL

-----------------------------------------------------------------------------
(* Somebody can go on.                                                     *)

\* As long as a process has a sync() to go, one can begin, receive in or end it: the one that
\* has come least far waits for nobody who waits for it.
LEMMA SyncGoesOn ==
  ASSUME SyncInv, PointersRepaired, NEW o \in Rank, ~(pc[o] = "user" /\ round[o] = scenario.rounds)
  PROVE  \E r \in Rank : MayStart(r) \/ MayFinish(r) \/ \E source \in Rank : MayReceive(r, source)
<1> SUFFICES ASSUME \A r \in Rank : /\ ~MayStart(r) /\ ~MayFinish(r)
                                    /\ \A source \in Rank : ~MayReceive(r, source)
             PROVE  FALSE
  OBVIOUS
<1>0. TypeInv /\ scenario.rounds \in Nat
  BY ScenarioType DEF SyncInv, TypeInv
<1>1. \A r \in Rank : /\ round[r] \in Nat /\ round[r] <= scenario.rounds
                      /\ pc[r] \in {"user", "syncing"} /\ expected[r] \in SUBSET Rank
                      /\ round[r] = 0 => pc[r] = "user"
  BY <1>0 DEF TypeInv, CountInv, PointersRepaired
<1>2. \A r \in Rank : pc[r] = "user" => round[r] = scenario.rounds
  <2>1. \A r \in Rank : ~(pc[r] = "user" /\ round[r] < scenario.rounds)
    BY DEF MayStart
  <2> QED BY <1>0, <1>1, <2>1
<1> DEFINE going == {round[r] : r \in {p \in Rank : pc[p] = "syncing"}}
<1>3. going \in SUBSET Nat /\ round[o] \in going
  BY <1>1, <1>2
<1>4. PICK m : m \in going /\ \A i \in going : m <= i
  <2> HIDE DEF going
  <2>1. Min(going) \in going /\ \A i \in going : Min(going) <= i
    BY <1>3, MinIs
  <2> QED BY <2>1
<1>5. PICK x \in Rank : pc[x] = "syncing" /\ round[x] = m
  BY <1>4
<1>6. m \in Nat /\ m > 0 /\ m <= scenario.rounds
  BY <1>1, <1>5
<1>7. \A r \in Rank : round[r] >= m
  <2> SUFFICES ASSUME NEW r \in Rank PROVE round[r] >= m
    OBVIOUS
  <2>1. CASE pc[r] = "user"
    BY <1>0, <1>2, <1>6, <2>1
  <2>2. CASE pc[r] = "syncing"
    BY <1>1, <1>4, <1>6, <2>2
  <2> QED BY <1>1, <2>1, <2>2
<1> HIDE DEF going
<1>8. \A z \in Rank : round[z] = m =>
        /\ IsFiniteSet(Waiting(z)) /\ Cardinality(expected[z]) = Cardinality(Waiting(z))
        /\ scenario.fixedOrder => expected[z] = Waiting(z)
  <2> SUFFICES ASSUME NEW z \in Rank, round[z] = m
               PROVE  /\ IsFiniteSet(Waiting(z)) /\ Cardinality(expected[z]) = Cardinality(Waiting(z))
                      /\ scenario.fixedOrder => expected[z] = Waiting(z)
    OBVIOUS
  <2>1. m \in 1 .. round[z] /\ round[z] > 0
    BY <1>6
  <2>2. N(z, m) \subseteq Rank
    BY <1>0, <2>1, NeighboursType
  <2>3. IsFiniteSet(Waiting(z))
    <3>1. Waiting(z) \subseteq Rank
      BY <2>2 DEF Waiting
    <3> QED BY <3>1, Ranks, FS_Subset
  <2> QED BY <2>1, <2>3 DEF SyncInv, RoundInv, HeardInv
<1>9. ASSUME NEW z \in Rank, pc[z] = "syncing", round[z] = m
      PROVE  expected[z] = {} /\ Waiting(z) = {}
  <2>1. IsFiniteSet(expected[z]) /\ (expected[z] = {} <=> Waiting(z) = {})
    <3>1. IsFiniteSet(expected[z])
      BY <1>1, Ranks, FS_Subset
    <3> QED BY <1>8, <1>9, <3>1, FS_EmptySet
  <2> SUFFICES ASSUME expected[z] # {} PROVE FALSE
    BY <2>1
  <2>2. PICK p \in Waiting(z) : scenario.fixedOrder => p = Min(expected[z])
    <3>1. CASE scenario.fixedOrder
      <4>1. expected[z] \in SUBSET Nat
        BY <1>1, Ranks
      <4>2. Min(expected[z]) \in expected[z]
        BY <4>1, MinIs
      <4> QED BY <1>8, <1>9, <3>1, <4>2
    <3>2. CASE ~scenario.fixedOrder
      BY <2>1, <3>2
    <3> QED BY <3>1, <3>2
  <2>3. p \in N(z, m) /\ ~Got(z, m, p)
    BY <1>9, <2>2 DEF Waiting
  <2>4. p \in Rank
    <3>1. m \in 1 .. round[z]
      BY <1>6, <1>9
    <3> QED BY <1>0, <2>3, <3>1, NeighboursType
  <2>5. z \in DOMAIN sent[p]
    BY <1>1, <1>6, <1>7, <2>3, <2>4 DEF Got
  <2>6. MayReceive(z, p)
    BY <1>9, <2>2, <2>5 DEF MayReceive
  <2> QED BY <2>4, <2>6
<1>10. DOMAIN sent[x] = {}
  <2> SUFFICES ASSUME NEW d \in DOMAIN sent[x] PROVE FALSE
    OBVIOUS
  <2>1. m \in 1 .. round[x] /\ d \in N(x, m)
    BY <1>0, <1>5, <1>6 DEF TypeInv, SentInv
  <2>2. d \in Rank
    BY <1>0, <2>1, NeighboursType
  <2>3. x \in N(d, m) /\ m \in 1 .. round[d]
    BY <1>1, <1>6, <1>7, <2>1, <2>2 DEF SyncInv, RoundInv, SymmetricInv
  <2>4. ~Got(d, m, x)
    BY <1>5, <1>6 DEF Got
  <2>5. round[d] = m
    <3>1. ~(m < round[d])
      BY <2>2, <2>3, <2>4 DEF SyncInv, RoundInv, HeardInv
    <3> QED BY <1>1, <1>6, <1>7, <2>2, <3>1
  <2>6. x \in Waiting(d)
    BY <2>3, <2>4, <2>5 DEF Waiting
  <2>7. CASE pc[d] = "user"
    <3>1. Waiting(d) = {}
      BY <1>6, <2>2, <2>5, <2>7, UserHeard
    <3> QED BY <2>6, <3>1
  <2>8. CASE pc[d] = "syncing"
    BY <1>9, <2>2, <2>5, <2>6, <2>8
  <2> QED BY <1>1, <2>2, <2>7, <2>8
<1>11. sent[x] = Nothing
  <2>1. sent[x] = [d \in DOMAIN sent[x] |-> sent[x][d]]
    BY <1>0 DEF TypeInv, SentInv
  <2> QED BY <1>10, <2>1 DEF Nothing
<1>12. MayFinish(x)
  BY <1>5, <1>9, <1>11 DEF MayFinish
<1> QED BY <1>12

-----------------------------------------------------------------------------
(* Both ends of an interface have the same entries in the same order.      *)

Increasing(s) == \A i, j \in 1 .. Len(s) : i < j => s[i] < s[j]

\* Two increasing sequences of the same numbers are no further apart than one is long.
LEMMA SamePrefix ==
  ASSUME NEW a \in Seq(Int), NEW b \in Seq(Int), Increasing(a), Increasing(b), ToSet(a) = ToSet(b)
  PROVE  Len(a) <= Len(b) /\ \A i \in 1 .. Len(a) : a[i] = b[i]
<1>0. /\ Len(a) \in Nat /\ Len(b) \in Nat /\ DOMAIN a = 1 .. Len(a) /\ DOMAIN b = 1 .. Len(b)
      /\ \A i \in 1 .. Len(a) : a[i] \in Int
      /\ \A i \in 1 .. Len(b) : b[i] \in Int
  OBVIOUS
<1> DEFINE T == {k \in 0 .. Len(a) : k <= Len(b) /\ \A j \in 1 .. k : a[j] = b[j]}
<1>1. 0 \in T
  BY <1>0
<1>2. ASSUME NEW k \in 1 .. Len(a), k - 1 \in T PROVE k \in T
  <2>0. k - 1 <= Len(b) /\ \A j \in 1 .. k - 1 : a[j] = b[j]
    BY <1>2
  <2>1. PICK j \in 1 .. Len(b) : b[j] = a[k]
    <3>1. a[k] \in ToSet(b)
      BY <1>0 DEF ToSet
    <3> QED BY <1>0, <3>1 DEF ToSet
  <2>2. j >= k
    <3> SUFFICES ASSUME j < k PROVE FALSE
      BY <1>0
    <3>1. j \in 1 .. k - 1 /\ j \in 1 .. Len(a)
      BY <1>0
    <3>2. a[j] < a[k] /\ a[j] = b[j]
      BY <2>0, <3>1 DEF Increasing
    <3> QED BY <1>0, <2>1, <3>1, <3>2
  <2>3. k \in 1 .. Len(b) /\ b[k] <= a[k]
    <3>1. k \in 1 .. Len(b)
      BY <1>0, <2>2
    <3>2. k = j \/ b[k] < b[j]
      BY <1>0, <2>2, <3>1 DEF Increasing
    <3> QED BY <1>0, <2>1, <3>1, <3>2
  <2>4. PICK i \in 1 .. Len(a) : a[i] = b[k]
    <3>1. b[k] \in ToSet(a)
      BY <1>0, <2>3 DEF ToSet
    <3> QED BY <1>0, <3>1 DEF ToSet
  <2>5. i >= k
    <3> SUFFICES ASSUME i < k PROVE FALSE
      BY <1>0
    <3>1. i \in 1 .. k - 1 /\ i \in 1 .. Len(b)
      BY <1>0, <2>3
    <3>2. b[i] < b[k] /\ a[i] = b[i]
      BY <2>0, <2>3, <3>1 DEF Increasing
    <3> QED BY <1>0, <2>3, <2>4, <3>1, <3>2
  <2>6. a[k] <= b[k]
    <3>1. k = i \/ a[k] < a[i]
      BY <1>0, <2>5 DEF Increasing
    <3> QED BY <1>0, <2>4, <3>1
  <2>7. a[k] = b[k]
    BY <1>0, <2>3, <2>6
  <2>8. \A x \in 1 .. k : x \in 1 .. k - 1 \/ x = k
    BY <1>0
  <2> QED BY <1>0, <2>0, <2>3, <2>7, <2>8, SMTT(20)
<1>3. T = 0 .. Len(a)
  <2>1. T \subseteq 0 .. Len(a)
    OBVIOUS
  <2> HIDE DEF T
  <2> QED BY <1>0, <1>1, <1>2, <2>1, InductionUpTo
<1>4. Len(a) \in T
  <2> HIDE DEF T
  <2> QED BY <1>0, <1>3
<1> QED BY <1>4

\* So they are equal.
LEMMA SameIncreasing ==
  ASSUME NEW a \in Seq(Int), NEW b \in Seq(Int), Increasing(a), Increasing(b), ToSet(a) = ToSet(b)
  PROVE  a = b
<1>1. Len(a) <= Len(b) /\ \A i \in 1 .. Len(a) : a[i] = b[i]
  BY SamePrefix
<1>2. Len(b) <= Len(a)
  BY SamePrefix
<1>3. Len(a) \in Nat /\ Len(b) \in Nat /\ DOMAIN a = 1 .. Len(a) /\ DOMAIN b = 1 .. Len(b)
  OBVIOUS
<1>4. Len(a) = Len(b)
  <2>1. Len(a) <= Len(b)
    BY <1>1
  <2>2. PICK m \in Nat, n \in Nat : m = Len(a) /\ n = Len(b)
    BY <1>3
  <2>3. m <= n /\ n <= m
    BY <1>2, <2>1, <2>2
  <2>4. m = n
    BY <2>3
  <2> QED BY <2>2, <2>4
<1> QED BY <1>1, <1>3, <1>4

\* The entries of an interface, as they are in the list.
LEMMA EntriesInOrder ==
  ASSUME NEW list \in Seq(RemoteIndex), InOrder(list), NEW mine, NEW theirs
  PROVE  /\ Entries(list, mine, theirs) \in Seq(Int) /\ Increasing(Entries(list, mine, theirs))
         /\ ToSet(Entries(list, mine, theirs))
              = {e.global : e \in {d \in ToSet(list) : d.mine \in mine /\ d.theirs \in theirs}}
<1> DEFINE positions == {i \in DOMAIN list : list[i].mine \in mine /\ list[i].theirs \in theirs}
           chosen == Subsequence(list, positions)
           out == [i \in DOMAIN chosen |-> chosen[i].global]
<1>1. positions \in SUBSET DOMAIN list
  OBVIOUS
<1>2. /\ chosen \in Seq(RemoteIndex) /\ InOrder(chosen)
      /\ ToSet(chosen) = {list[i] : i \in positions}
  <2> HIDE DEF positions
  <2> QED BY <1>1, SubsequenceInOrder, SubsequenceMembers
<1>3. ToSet(chosen) = {d \in ToSet(list) : d.mine \in mine /\ d.theirs \in theirs}
  BY <1>2 DEF ToSet
<1>4. Entries(list, mine, theirs) = out
  BY Zenon DEF Entries
<1> HIDE DEF positions, chosen
<1>5. DOMAIN chosen = 1 .. Len(chosen) /\ Len(chosen) \in Nat
  BY <1>2
<1>6. \A i \in 1 .. Len(chosen) : chosen[i].global \in Int
  <2>1. \A i \in 1 .. Len(chosen) : chosen[i] \in RemoteIndex
    BY <1>2, <1>5
  <2> QED BY <2>1 DEF RemoteIndex
<1>7. out \in Seq(Int) /\ Len(out) = Len(chosen) /\ \A i \in 1 .. Len(chosen) : out[i] = chosen[i].global
  BY <1>5, <1>6
<1>8. Increasing(out)
  BY <1>2, <1>7 DEF Increasing, InOrder
<1>9. ToSet(out) = {e.global : e \in ToSet(chosen)}
  BY <1>5, <1>7 DEF ToSet
<1> HIDE DEF out
<1> QED BY <1>3, <1>4, <1>7, <1>8, <1>9

\* What r sends to q and gets from it by its interface, nothing if it is no neighbour.
Keys(r, q, side) == IF q \in DOMAIN interfaces[r] THEN interfaces[r][q][side] ELSE <<>>

\* An interface that was built is one of the lists.
LEMMA KeysAre ==
  ASSUME TypeInv, OrderInv, NEW r \in Rank, interfaces[r] = Strip(Interface(r))
  PROVE  /\ DOMAIN interfaces[r] \subseteq Rank \ {r}
         /\ \A q \in DOMAIN interfaces[r] : \A side \in C!Side : interfaces[r][q][side] \in Seq(Int)
         /\ \A q \in DOMAIN interfaces[r] : Keys(r, q, "first") # <<>> \/ Keys(r, q, "second") # <<>>
         /\ \A q : \A side \in C!Side :
              /\ Keys(r, q, side) \in Seq(Int)
              /\ q \notin DOMAIN lists[r] => Keys(r, q, side) = <<>>
         /\ \A q \in DOMAIN lists[r] :
              /\ Keys(r, q, "first") = Entries(lists[r][q], sourceFlags, destFlags)
              /\ Keys(r, q, "second") = Entries(lists[r][q], destFlags, sourceFlags)
<1>1. RemoteLists(r, lists[r])
  BY DEF TypeInv, SetsInv
<1>2. DOMAIN interfaces[r] = {p \in DOMAIN lists[r] : Interface(r)[p].first # <<>> \/ Interface(r)[p].second # <<>>}
      /\ \A q \in DOMAIN interfaces[r] : interfaces[r][q] = Interface(r)[q]
  BY DEF Strip, Interface
<1>3. \A q \in DOMAIN lists[r] :
        /\ Interface(r)[q].first = Entries(lists[r][q], sourceFlags, destFlags)
        /\ Interface(r)[q].second = Entries(lists[r][q], destFlags, sourceFlags)
        /\ Interface(r)[q]["first"] = Interface(r)[q].first
        /\ Interface(r)[q]["second"] = Interface(r)[q].second
  BY DEF Interface
<1>4. \A q \in DOMAIN lists[r] : \A mine, theirs : Entries(lists[r][q], mine, theirs) \in Seq(Int)
  <2>1. \A q \in DOMAIN lists[r] : lists[r][q] \in Seq(RemoteIndex) /\ InOrder(lists[r][q])
    BY <1>1 DEF RemoteLists, OrderInv
  <2> QED BY <2>1, EntriesInOrder
<1>5. \A side \in C!Side : side = "first" \/ side = "second"
  BY DEF C!Side
<1>6. \A q \in DOMAIN interfaces[r] : \A side \in C!Side : interfaces[r][q][side] \in Seq(Int)
  <2> SUFFICES ASSUME NEW q \in DOMAIN interfaces[r]
               PROVE  interfaces[r][q]["first"] \in Seq(Int) /\ interfaces[r][q]["second"] \in Seq(Int)
    BY <1>5
  <2>1. q \in DOMAIN lists[r] /\ interfaces[r][q] = Interface(r)[q]
    BY <1>2
  <2>2. /\ Entries(lists[r][q], sourceFlags, destFlags) \in Seq(Int)
        /\ Entries(lists[r][q], destFlags, sourceFlags) \in Seq(Int)
    BY <1>4, <2>1
  <2>3. /\ interfaces[r][q]["first"] = Entries(lists[r][q], sourceFlags, destFlags)
        /\ interfaces[r][q]["second"] = Entries(lists[r][q], destFlags, sourceFlags)
    BY <1>3, <2>1
  <2> QED BY <2>2, <2>3
<1>7. \A q \in DOMAIN lists[r] :
        /\ Keys(r, q, "first") = Entries(lists[r][q], sourceFlags, destFlags)
        /\ Keys(r, q, "second") = Entries(lists[r][q], destFlags, sourceFlags)
  BY <1>2, <1>3 DEF Keys
<1>8. <<>> \in Seq(Int)
  OBVIOUS
<1>9. \A q : \A side \in C!Side : Keys(r, q, side) \in Seq(Int)
  BY <1>6, <1>8 DEF Keys
<1>10. \A q : q \notin DOMAIN lists[r] => \A side : Keys(r, q, side) = <<>>
  BY <1>2 DEF Keys
<1>11. \A q \in DOMAIN interfaces[r] : Keys(r, q, "first") # <<>> \/ Keys(r, q, "second") # <<>>
  BY <1>2, <1>3 DEF Keys
<1> QED BY <1>1, <1>2, <1>6, <1>7, <1>9, <1>10, <1>11 DEF RemoteLists

\* Two processes that have finished the same sync choose the same entries, in the same order.
LEMMA EntriesAgree ==
  ASSUME TypeInv, OrderInv, MutualAfterSync, NEW r \in Rank, NEW q \in Rank, Finished(r), Finished(q),
         round[r] = round[q], q \in DOMAIN lists[r], NEW mine, NEW theirs
  PROVE  r \in DOMAIN lists[q] /\ Entries(lists[r][q], mine, theirs) = Entries(lists[q][r], theirs, mine)
<1>1. r \in DOMAIN lists[q]
  BY DEF MutualAfterSync
<1> DEFINE picked(set, m, t) == {e.global : e \in {d \in set : d.mine \in m /\ d.theirs \in t}}
<1>2. ASSUME NEW x \in Rank, NEW y \in Rank, Finished(x), Finished(y), round[x] = round[y],
             y \in DOMAIN lists[x], NEW m, NEW t, x \in DOMAIN lists[y]
      PROVE  picked(ToSet(lists[x][y]), m, t) \subseteq picked(ToSet(lists[y][x]), t, m)
  <2> SUFFICES ASSUME NEW e \in ToSet(lists[x][y]), e.mine \in m, e.theirs \in t
               PROVE  \E d \in ToSet(lists[y][x]) : d.mine \in t /\ d.theirs \in m /\ d.global = e.global
    OBVIOUS
  <2>1. Contains(lists[y][x], [global |-> e.global, mine |-> e.theirs, theirs |-> e.mine])
    BY <1>2 DEF MutualAfterSync
  <2>2. [global |-> e.global, mine |-> e.theirs, theirs |-> e.mine] \in ToSet(lists[y][x])
    BY <2>1 DEF Contains, ToSet
  <2> QED BY <2>2
<1>3. picked(ToSet(lists[r][q]), mine, theirs) = picked(ToSet(lists[q][r]), theirs, mine)
  <2>1. picked(ToSet(lists[r][q]), mine, theirs) \subseteq picked(ToSet(lists[q][r]), theirs, mine)
    BY <1>1, <1>2
  <2>2. picked(ToSet(lists[q][r]), theirs, mine) \subseteq picked(ToSet(lists[r][q]), mine, theirs)
    BY <1>1, <1>2
  <2> HIDE DEF picked
  <2> QED BY <2>1, <2>2
<1>4. /\ lists[r][q] \in Seq(RemoteIndex) /\ InOrder(lists[r][q])
      /\ lists[q][r] \in Seq(RemoteIndex) /\ InOrder(lists[q][r])
  BY <1>1 DEF TypeInv, SetsInv, RemoteLists, OrderInv
<1> DEFINE a == Entries(lists[r][q], mine, theirs)
           b == Entries(lists[q][r], theirs, mine)
<1>5. /\ a \in Seq(Int) /\ Increasing(a) /\ ToSet(a) = picked(ToSet(lists[r][q]), mine, theirs)
      /\ b \in Seq(Int) /\ Increasing(b) /\ ToSet(b) = picked(ToSet(lists[q][r]), theirs, mine)
  BY <1>4, EntriesInOrder
<1> HIDE DEF a, b, picked
<1>6. a = b
  BY <1>3, <1>5, SameIncreasing
<1> QED BY <1>1, <1>6 DEF a, b

-----------------------------------------------------------------------------
(* forward() and backward().                                               *)

\* What the variables of a communicator are; nothing is under way before the first call.
CallTypeInv ==
  /\ DOMAIN interfaces = Rank /\ DOMAIN information = Rank /\ DOMAIN buffers = Rank
  /\ DOMAIN call = Rank /\ DOMAIN receiving = Rank /\ DOMAIN arrived = Rank
  /\ DOMAIN sending = Rank /\ DOMAIN scattered = Rank
  /\ \A r \in Rank :
       /\ call[r] \in -1 .. 2
       /\ call[r] < 1 => receiving[r] = {} /\ arrived[r] = {} /\ sending[r] = {} /\ scattered[r] = {}

\* The message information that build() makes of an interface.
Information(interface) ==
  [q \in DOMAIN interface |-> [side \in C!Side |-> [start |-> C!Start(interface, side, q),
                                                    size |-> Len(interface[q][side])]]]

\* A communicator is built when the syncs are over.
BuiltInv ==
  \A r \in Rank : call[r] >= 0 =>
    /\ pc[r] = "user" /\ round[r] = scenario.rounds
    /\ interfaces[r] = Strip(Interface(r)) /\ information[r] = Information(interfaces[r])

\* Only messages with an entry are sent and received.
RequestInv ==
  \A r \in Rank :
    /\ \A q \in sending[r] : Keys(r, q, C!Outgoing(call[r])) # <<>>
    /\ \A q \in receiving[r] \cup arrived[r] : Keys(r, q, C!Incoming(call[r])) # <<>>
    /\ receiving[r] \cap arrived[r] = {}

\* r has given q its message of the call c, and r has taken that of q.
Given(r, q, c) == call[r] > c \/ (call[r] = c /\ q \notin sending[r])
Taken(r, q, c) == call[r] > c \/ (call[r] = c /\ q \notin receiving[r])

\* No message is taken without having been given, in that very call, nor the other way.
MatchInv ==
  \A r, q \in Rank : \A c \in 1 .. 2 :
    /\ Keys(r, q, C!Outgoing(c)) # <<>> /\ Given(r, q, c) => Taken(q, r, c)
    /\ Keys(q, r, C!Incoming(c)) # <<>> /\ Taken(q, r, c) => Given(r, q, c)

CallInv == CallTypeInv /\ BuiltInv /\ RequestInv /\ MatchInv

\* forward() and backward() send one side of an interface and receive the other.
LEMMA Sides ==
  /\ \A c : C!Outgoing(c) \in C!Side /\ C!Incoming(c) \in C!Side /\ C!Outgoing(c) # C!Incoming(c)
  /\ \A c : \/ C!Outgoing(c) = "first" /\ C!Incoming(c) = "second"
            \/ C!Outgoing(c) = "second" /\ C!Incoming(c) = "first"
BY DEF C!Outgoing, C!Incoming, C!Side

\* What build() changes.
LEMMA BuildEffect ==
  ASSUME CallTypeInv, NEW r \in Rank, Build(r)
  PROVE  /\ pc[r] = "user" /\ round[r] = scenario.rounds /\ call[r] = -1 /\ call'[r] = 0
         /\ interfaces'[r] = Strip(Interface(r)) /\ information'[r] = Information(interfaces'[r])
         /\ buffers'[r] = [side \in C!Side |-> [i \in 1 .. C!Total(interfaces'[r], side) |-> <<>>]]
         /\ \A p \in Rank \ {r} : /\ call'[p] = call[p] /\ interfaces'[p] = interfaces[p]
                                  /\ information'[p] = information[p] /\ buffers'[p] = buffers[p]
         /\ receiving' = receiving /\ arrived' = arrived /\ sending' = sending
         /\ scattered' = scattered /\ UNCHANGED vars
         /\ DOMAIN interfaces' = Rank /\ DOMAIN information' = Rank /\ DOMAIN buffers' = Rank
         /\ DOMAIN call' = Rank
<1> DEFINE made == Strip(Interface(r))
           named == {q \in DOMAIN made : made[q].first # <<>> \/ made[q].second # <<>>}
           about(q) == [side \in C!Side |-> [start |-> C!Start(made, side, q), size |-> Len(made[q][side])]]
<1>1. /\ MayBuild(r) /\ UNCHANGED vars
      /\ interfaces' = [interfaces EXCEPT ![r] = made]
      /\ information' = [information EXCEPT ![r] = [q \in named |-> about(q)]]
      /\ buffers' = [buffers EXCEPT ![r] =
                       [side \in C!Side |-> [i \in 1 .. C!Total(made, side) |-> <<>>]]]
      /\ call' = [call EXCEPT ![r] = 0]
      /\ receiving' = receiving /\ arrived' = arrived /\ sending' = sending /\ scattered' = scattered
  BY DEF Build, C!Build
<1>2. named = DOMAIN made
  BY DEF Strip
<1>3. Information(made) = [q \in named |-> about(q)]
  BY <1>2 DEF Information
<1> HIDE DEF made, named, about
<1>4. interfaces'[r] = made /\ information'[r] = Information(made) /\ call'[r] = 0
      /\ buffers'[r] = [side \in C!Side |-> [i \in 1 .. C!Total(made, side) |-> <<>>]]
  BY <1>1, <1>3 DEF CallTypeInv
<1> QED BY <1>1, <1>4 DEF CallTypeInv, MayBuild, made

\* What the beginning of forward() or backward() changes.
LEMMA StartCallEffect ==
  ASSUME CallTypeInv, BuiltInv, TypeInv, OrderInv, NEW r \in Rank, C!StartCall(r)
  PROVE  LET c == call[r] + 1
         IN /\ c \in 1 .. 2 /\ call'[r] = c
            /\ receiving[r] = {} /\ arrived[r] = {} /\ sending[r] = {}
            /\ buffers'[r] = [buffers[r] EXCEPT ![C!Outgoing(c)] = C!Gather(r, C!Outgoing(c), c)]
            /\ \A q : q \in receiving'[r] <=> Keys(r, q, C!Incoming(c)) # <<>>
            /\ \A q : q \in sending'[r] <=> Keys(r, q, C!Outgoing(c)) # <<>>
            /\ \A p \in Rank \ {r} : /\ call'[p] = call[p] /\ buffers'[p] = buffers[p]
                                     /\ receiving'[p] = receiving[p] /\ sending'[p] = sending[p]
            /\ interfaces' = interfaces /\ information' = information /\ arrived' = arrived
            /\ scattered' = scattered
            /\ DOMAIN buffers' = Rank /\ DOMAIN call' = Rank /\ DOMAIN receiving' = Rank
            /\ DOMAIN sending' = Rank
<1> DEFINE c == call[r] + 1
           with(side) == {q \in DOMAIN information[r] : information[r][q][side].size > 0}
<1>1. /\ C!MayStartCall(r)
      /\ call' = [call EXCEPT ![r] = c]
      /\ buffers' = [buffers EXCEPT ![r][C!Outgoing(c)] = C!Gather(r, C!Outgoing(c), c)]
      /\ receiving' = [receiving EXCEPT ![r] = with(C!Incoming(c))]
      /\ sending' = [sending EXCEPT ![r] = with(C!Outgoing(c))]
      /\ interfaces' = interfaces /\ information' = information /\ arrived' = arrived
      /\ scattered' = scattered
  BY DEF C!StartCall
<1>2. call[r] \in 0 .. 1 /\ receiving[r] = {} /\ arrived[r] = {} /\ sending[r] = {}
  BY <1>1 DEF C!MayStartCall, C!Idle
<1>3. ASSUME NEW side \in C!Side, NEW q PROVE q \in with(side) <=> Keys(r, q, side) # <<>>
  <2>1. interfaces[r] = Strip(Interface(r)) /\ information[r] = Information(interfaces[r])
    BY <1>2 DEF BuiltInv
  <2>2. \A p \in DOMAIN interfaces[r] : interfaces[r][p][side] \in Seq(Int)
    BY <2>1, KeysAre
  <2>3. DOMAIN information[r] = DOMAIN interfaces[r]
        /\ \A p \in DOMAIN interfaces[r] : information[r][p][side].size = Len(interfaces[r][p][side])
    BY <2>1 DEF Information
  <2>4. \A s \in Seq(Int) : Len(s) > 0 <=> s # <<>>
    OBVIOUS
  <2>5. CASE q \in DOMAIN interfaces[r]
    BY <2>2, <2>3, <2>4, <2>5 DEF Keys
  <2>6. CASE q \notin DOMAIN interfaces[r]
    BY <2>3, <2>6 DEF Keys
  <2> QED BY <2>5, <2>6
<1>4. C!Incoming(c) \in C!Side /\ C!Outgoing(c) \in C!Side
  BY Sides
<1> HIDE DEF with
<1>5. receiving'[r] = with(C!Incoming(c)) /\ sending'[r] = with(C!Outgoing(c)) /\ call'[r] = c
      /\ buffers'[r] = [buffers[r] EXCEPT ![C!Outgoing(c)] = C!Gather(r, C!Outgoing(c), c)]
  BY <1>1 DEF CallTypeInv
<1>6. c \in 1 .. 2
  BY <1>2
<1>7. \A p \in Rank \ {r} : /\ call'[p] = call[p] /\ buffers'[p] = buffers[p]
                            /\ receiving'[p] = receiving[p] /\ sending'[p] = sending[p]
  BY <1>1 DEF CallTypeInv
<1>8. /\ DOMAIN buffers' = Rank /\ DOMAIN call' = Rank /\ DOMAIN receiving' = Rank
      /\ DOMAIN sending' = Rank
  BY <1>1 DEF CallTypeInv
<1> HIDE DEF c
<1>9. /\ \A q : q \in receiving'[r] <=> Keys(r, q, C!Incoming(c)) # <<>>
      /\ \A q : q \in sending'[r] <=> Keys(r, q, C!Outgoing(c)) # <<>>
  BY <1>3, <1>4, <1>5
<1> QED BY <1>1, <1>2, <1>5, <1>6, <1>7, <1>8, <1>9 DEF c

\* What the delivery of a message changes.
LEMMA TransferEffect ==
  ASSUME CallTypeInv, NEW r \in Rank, NEW q \in Rank, C!Transfer(r, q)
  PROVE  /\ q \in sending[r] /\ r \in receiving[q]
         /\ sending'[r] = sending[r] \ {q} /\ receiving'[q] = receiving[q] \ {r}
         /\ arrived'[q] = arrived[q] \cup {r}
         /\ \A p \in Rank \ {r} : sending'[p] = sending[p]
         /\ \A p \in Rank \ {q} : /\ receiving'[p] = receiving[p] /\ arrived'[p] = arrived[p]
                                  /\ buffers'[p] = buffers[p]
         /\ interfaces' = interfaces /\ information' = information /\ call' = call
         /\ scattered' = scattered
         /\ DOMAIN buffers' = Rank /\ DOMAIN arrived' = Rank /\ DOMAIN receiving' = Rank
         /\ DOMAIN sending' = Rank
<1>1. /\ C!MayTransfer(r, q)
      /\ sending' = [sending EXCEPT ![r] = @ \ {q}]
      /\ receiving' = [receiving EXCEPT ![q] = @ \ {r}]
      /\ arrived' = [arrived EXCEPT ![q] = @ \cup {r}]
      /\ interfaces' = interfaces /\ information' = information /\ call' = call
      /\ scattered' = scattered
  BY DEF C!Transfer
<1>2. DOMAIN buffers' = Rank /\ \A p \in Rank \ {q} : buffers'[p] = buffers[p]
  <2>1. PICK new : buffers' = [buffers EXCEPT ![q][C!Incoming(call[q])] = new]
    <3> DEFINE message == SubSeq(buffers[r][C!Outgoing(call[r])],
                                 information[r][q][C!Outgoing(call[r])].start + 1,
                                 information[r][q][C!Outgoing(call[r])].start + information[r][q][C!Outgoing(call[r])].size)
               to == information[q][r][C!Incoming(call[q])]
               written == [i \in DOMAIN buffers[q][C!Incoming(call[q])] |->
                             IF i - to.start \in DOMAIN message THEN message[i - to.start]
                             ELSE buffers[q][C!Incoming(call[q])][i]]
    <3>1. buffers' = [buffers EXCEPT ![q][C!Incoming(call[q])] = written]
      BY DEF C!Transfer
    <3> QED BY <3>1
  <2> QED BY <2>1 DEF CallTypeInv
<1> QED BY <1>1, <1>2 DEF CallTypeInv, C!MayTransfer

\* What scattering a message changes.
LEMMA ScatterEffect ==
  ASSUME CallTypeInv, NEW r \in Rank, NEW q \in Rank, C!Scatter(r, q)
  PROVE  /\ q \in arrived[r] /\ arrived'[r] = arrived[r] \ {q}
         /\ \A p \in Rank \ {r} : arrived'[p] = arrived[p] /\ scattered'[p] = scattered[p]
         /\ interfaces' = interfaces /\ information' = information /\ call' = call
         /\ buffers' = buffers /\ receiving' = receiving /\ sending' = sending
         /\ DOMAIN arrived' = Rank /\ DOMAIN scattered' = Rank
         /\ scattered'[r] = scattered[r] \cup
              {[call |-> call[r], from |-> q, entry |-> interfaces[r][q][C!Incoming(call[r])][i],
                item |-> buffers[r][C!Incoming(call[r])][information[r][q][C!Incoming(call[r])].start + i]] :
                  i \in DOMAIN interfaces[r][q][C!Incoming(call[r])]}
BY Zenon DEF C!Scatter, CallTypeInv

\* Before anything is built, CallInv holds.
LEMMA CallInit == ASSUME InitSynced PROVE CallInv
<1>1. \A r \in Rank : call[r] = -1 /\ receiving[r] = {} /\ arrived[r] = {} /\ sending[r] = {} /\ scattered[r] = {}
  BY DEF InitSynced, C!Init, C!Rank, Rank
<1>2. CallTypeInv
  BY <1>1 DEF InitSynced, C!Init, C!Rank, Rank, CallTypeInv
<1>3. BuiltInv /\ RequestInv
  BY <1>1 DEF BuiltInv, RequestInv
<1>4. MatchInv
  <2>1. \A r \in Rank : \A c \in 1 .. 2 : ~(call[r] > c) /\ call[r] # c
    BY <1>1
  <2> QED BY <2>1 DEF MatchInv, Given, Taken
<1> QED BY <1>2, <1>3, <1>4 DEF CallInv

\* What a process is to get is what the other one is to send.
LEMMA KeysAgree ==
  ASSUME SyncInv, DataInv, PlainInv, Truthful(scenario), Plain(scenario), CallTypeInv, BuiltInv,
         NEW r \in Rank, NEW q \in Rank, call[r] >= 0, call[q] >= 0, NEW c
  PROVE  Keys(r, q, C!Outgoing(c)) = Keys(q, r, C!Incoming(c))
<1>1. MutualAfterSync /\ TypeInv /\ OrderInv
  BY MutualThen DEF SyncInv, PlainInv
<1>2. \A x \in Rank : call[x] >= 0 => /\ Finished(x) /\ round[x] = scenario.rounds
                                      /\ interfaces[x] = Strip(Interface(x))
  BY DEF BuiltInv, Finished, Plain
<1>3. ASSUME NEW x \in Rank, NEW y \in Rank, call[x] >= 0, call[y] >= 0
      PROVE  Keys(x, y, "first") = Keys(y, x, "second")
  <2>0. /\ Finished(x) /\ Finished(y) /\ round[x] = round[y]
        /\ interfaces[x] = Strip(Interface(x)) /\ interfaces[y] = Strip(Interface(y))
    BY <1>2, <1>3
  <2>1. CASE y \in DOMAIN lists[x]
    <3>1. x \in DOMAIN lists[y]
          /\ Entries(lists[x][y], sourceFlags, destFlags) = Entries(lists[y][x], destFlags, sourceFlags)
      BY <1>1, <2>0, <2>1, EntriesAgree
    <3>2. Keys(x, y, "first") = Entries(lists[x][y], sourceFlags, destFlags)
      BY <1>1, <2>0, <2>1, KeysAre
    <3>3. Keys(y, x, "second") = Entries(lists[y][x], destFlags, sourceFlags)
      BY <1>1, <2>0, <3>1, KeysAre
    <3> QED BY <3>1, <3>2, <3>3
  <2>2. CASE y \notin DOMAIN lists[x]
    <3>1. x \notin DOMAIN lists[y]
      BY <1>1, <2>0, <2>2 DEF MutualAfterSync
    <3>2. Keys(x, y, "first") = <<>>
      BY <1>1, <2>0, <2>2, KeysAre DEF C!Side
    <3>3. Keys(y, x, "second") = <<>>
      BY <1>1, <2>0, <3>1, KeysAre DEF C!Side
    <3> QED BY <3>2, <3>3
  <2> QED BY <2>1, <2>2
<1>4. Keys(r, q, "first") = Keys(q, r, "second") /\ Keys(q, r, "first") = Keys(r, q, "second")
  BY <1>3
<1> QED BY <1>4, Sides

\* A process that is in a sync has not built its interface yet.
LEMMA SyncKeepsCalls ==
  ASSUME TypeInv, CallInv, NEW x \in Rank, Step(x), UNCHANGED communicatorVars
  PROVE  CallInv'
<1>1. /\ interfaces' = interfaces /\ information' = information /\ buffers' = buffers
      /\ call' = call /\ receiving' = receiving /\ arrived' = arrived /\ sending' = sending
      /\ scattered' = scattered
  BY DEF communicatorVars
<1>2. CallTypeInv' /\ RequestInv' /\ MatchInv'
  BY <1>1 DEF CallInv, CallTypeInv, RequestInv, MatchInv, Given, Taken, Keys
<1>3. ~(pc[x] = "user" /\ round[x] = scenario.rounds)
  <2>1. scenario.rounds \in Nat
    BY ScenarioType DEF TypeInv
  <2>2. CASE StartSync(x)
    BY <2>1, <2>2 DEF StartSync, MayStart
  <2>3. CASE FinishSync(x)
    BY <2>3 DEF FinishSync, MayFinish
  <2>4. CASE \E source \in Rank : RecvAndUnpack(x, source)
    BY <2>4 DEF RecvAndUnpack, MayReceive
  <2> QED BY <2>2, <2>3, <2>4 DEF Step
<1>4. ASSUME NEW r \in Rank, r # x
      PROVE  pc'[r] = pc[r] /\ round'[r] = round[r] /\ scenario' = scenario /\ lists'[r] = lists[r]
  <2>1. CASE StartSync(x)
    BY <1>4, <2>1, StartEffect
  <2>2. CASE FinishSync(x)
    BY <1>4, <2>2, FinishEffect
  <2>3. ASSUME NEW source \in Rank, RecvAndUnpack(x, source)
        PROVE  pc'[r] = pc[r] /\ round'[r] = round[r] /\ scenario' = scenario /\ lists'[r] = lists[r]
    BY <1>4, <2>3, ReceiveEffect
  <2> QED BY <2>1, <2>2, <2>3 DEF Step
<1>5. BuiltInv'
  <2> SUFFICES ASSUME NEW r \in Rank, call[r] >= 0
               PROVE  /\ pc'[r] = "user" /\ round'[r] = scenario'.rounds
                      /\ interfaces'[r] = Strip(Interface(r))' /\ information'[r] = Information(interfaces'[r])
    BY <1>1 DEF BuiltInv, Information, C!Side, C!Start
  <2>1. /\ pc[r] = "user" /\ round[r] = scenario.rounds
        /\ interfaces[r] = Strip(Interface(r)) /\ information[r] = Information(interfaces[r])
    BY DEF CallInv, BuiltInv
  <2>2. r # x
    BY <1>3, <2>1
  <2>3. pc'[r] = pc[r] /\ round'[r] = round[r] /\ scenario' = scenario /\ lists'[r] = lists[r]
    BY <1>4, <2>2
  <2>4. Strip(Interface(r))' = Strip(Interface(r))
    BY <2>3 DEF Strip, Interface
  <2> QED BY <1>1, <2>1, <2>3, <2>4
<1> QED BY <1>2, <1>5 DEF CallInv

\* With the communicator's steps the lists stay as they are.
LEMMA BuiltStays ==
  ASSUME UNCHANGED vars, NEW r \in Rank, call[r] >= 0, BuiltInv,
         interfaces'[r] = interfaces[r], information'[r] = information[r]
  PROVE  /\ pc'[r] = "user" /\ round'[r] = scenario'.rounds
         /\ interfaces'[r] = Strip(Interface(r))' /\ information'[r] = Information(interfaces'[r])
<1>1. scenario' = scenario /\ pc' = pc /\ round' = round /\ lists' = lists
  BY DEF vars
<1>2. Strip(Interface(r))' = Strip(Interface(r))
  BY <1>1 DEF Strip, Interface
<1> QED BY <1>1, <1>2 DEF BuiltInv

\* build() keeps CallInv.
LEMMA BuildKeepsCalls ==
  ASSUME CallInv, NEW r \in Rank, Build(r) PROVE CallInv'
<1>0. CallTypeInv
  BY DEF CallInv
<1>1. /\ pc[r] = "user" /\ round[r] = scenario.rounds /\ call[r] = -1 /\ call'[r] = 0
      /\ interfaces'[r] = Strip(Interface(r)) /\ information'[r] = Information(interfaces'[r])
      /\ \A p \in Rank \ {r} : /\ call'[p] = call[p] /\ interfaces'[p] = interfaces[p]
                               /\ information'[p] = information[p]
      /\ receiving' = receiving /\ arrived' = arrived /\ sending' = sending
      /\ scattered' = scattered /\ UNCHANGED vars
      /\ DOMAIN interfaces' = Rank /\ DOMAIN information' = Rank /\ DOMAIN buffers' = Rank
      /\ DOMAIN call' = Rank
  BY <1>0, BuildEffect
<1>2. CallTypeInv'
  <2>1. \A p \in Rank : call'[p] \in -1 .. 2
    BY <1>0, <1>1 DEF CallTypeInv
  <2>2. call[r] < 1
    BY <1>1
  <2>3. \A p \in Rank : call'[p] < 1 => call[p] < 1
    BY <1>1, <2>2
  <2> QED BY <1>0, <1>1, <2>1, <2>3 DEF CallTypeInv
<1>3. BuiltInv'
  <2> SUFFICES ASSUME NEW p \in Rank, call'[p] >= 0
               PROVE  /\ pc'[p] = "user" /\ round'[p] = scenario'.rounds
                      /\ interfaces'[p] = Strip(Interface(p))' /\ information'[p] = Information(interfaces'[p])
    BY DEF BuiltInv, Information, C!Side, C!Start
  <2>1. CASE p = r
    <3>1. scenario' = scenario /\ pc' = pc /\ round' = round /\ lists' = lists
      BY <1>1 DEF vars
    <3>2. Strip(Interface(r))' = Strip(Interface(r))
      BY <3>1 DEF Strip, Interface
    <3> QED BY <1>1, <2>1, <3>1, <3>2
  <2>2. CASE p # r
    BY <1>1, <2>2, BuiltStays DEF CallInv
  <2> QED BY <2>1, <2>2
<1>4. receiving[r] = {} /\ sending[r] = {} /\ arrived[r] = {}
  <2>1. call[r] < 1
    BY <1>1
  <2> QED BY <1>0, <2>1 DEF CallTypeInv
<1>5. \A p \in Rank \ {r} : \A q, side : Keys(p, q, side)' = Keys(p, q, side)
  BY <1>1 DEF Keys
<1>6. RequestInv'
  <2>1. ASSUME NEW p \in Rank
        PROVE  (/\ \A q \in sending[p] : Keys(p, q, C!Outgoing(call[p])) # <<>>
                /\ \A q \in receiving[p] \cup arrived[p] : Keys(p, q, C!Incoming(call[p])) # <<>>
                /\ receiving[p] \cap arrived[p] = {})'
    <3>1. CASE p = r
      BY <1>1, <1>4, <3>1
    <3>2. CASE p # r
      <4>1. interfaces'[p] = interfaces[p] /\ call'[p] = call[p]
        BY <1>1, <3>2
      <4>2. /\ \A q \in sending[p] : Keys(p, q, C!Outgoing(call[p])) # <<>>
            /\ \A q \in receiving[p] \cup arrived[p] : Keys(p, q, C!Incoming(call[p])) # <<>>
            /\ receiving[p] \cap arrived[p] = {}
        BY DEF CallInv, RequestInv
      <4> QED BY <1>1, <4>1, <4>2 DEF Keys, C!Incoming, C!Outgoing
    <3> QED BY <3>1, <3>2
  <2> QED BY <2>1 DEF RequestInv
<1>7. MatchInv'
  <2>1. \A q : \A c \in 1 .. 2 : ~Given(r, q, c)' /\ ~Taken(r, q, c)' /\ ~Given(r, q, c) /\ ~Taken(r, q, c)
    BY <1>1 DEF Given, Taken
  <2>2. \A p \in Rank \ {r} : \A q : \A c \in 1 .. 2 : (Given(p, q, c)' <=> Given(p, q, c)) /\ (Taken(p, q, c)' <=> Taken(p, q, c))
    BY <1>1 DEF Given, Taken
  <2>3. ASSUME NEW p \in Rank, NEW q \in Rank, NEW c \in 1 .. 2
        PROVE  /\ Keys(p, q, C!Outgoing(c))' # <<>> /\ Given(p, q, c)' => Taken(q, p, c)'
               /\ Keys(q, p, C!Incoming(c))' # <<>> /\ Taken(q, p, c)' => Given(p, q, c)'
    <3>1. Keys(p, q, C!Outgoing(c)) # <<>> /\ Given(p, q, c) => Taken(q, p, c)
      BY DEF CallInv, MatchInv
    <3>2. Keys(q, p, C!Incoming(c)) # <<>> /\ Taken(q, p, c) => Given(p, q, c)
      BY DEF CallInv, MatchInv
    <3>3. p # r => Keys(p, q, C!Outgoing(c))' = Keys(p, q, C!Outgoing(c))
      BY <1>5 DEF C!Outgoing
    <3>4. q # r => Keys(q, p, C!Incoming(c))' = Keys(q, p, C!Incoming(c))
      BY <1>5 DEF C!Incoming
    <3> QED BY <2>1, <2>2, <3>1, <3>2, <3>3, <3>4
  <2> QED BY <2>3 DEF MatchInv
<1> QED BY <1>2, <1>3, <1>6, <1>7 DEF CallInv

\* The interfaces stay as they are in the steps of a call.
LEMMA BuiltKept ==
  ASSUME UNCHANGED vars, BuiltInv, interfaces' = interfaces, information' = information,
         \A r \in Rank : call'[r] >= 0 => call[r] >= 0
  PROVE  BuiltInv'
<1> SUFFICES ASSUME NEW r \in Rank, call'[r] >= 0
             PROVE  /\ pc'[r] = "user" /\ round'[r] = scenario'.rounds
                    /\ interfaces'[r] = Strip(Interface(r))' /\ information'[r] = Information(interfaces'[r])
  BY DEF BuiltInv, Information, C!Side, C!Start
<1> QED BY BuiltStays

\* The beginning of a call keeps CallInv: no message of it is given or taken.
LEMMA StartCallKeepsCalls ==
  ASSUME TypeInv, OrderInv, CallInv, NEW r \in Rank, C!StartCall(r), UNCHANGED vars
  PROVE  CallInv'
<1>0. CallTypeInv /\ BuiltInv
  BY DEF CallInv
<1> DEFINE n == call[r] + 1
<1>1. /\ n \in 1 .. 2 /\ call'[r] = n
      /\ receiving[r] = {} /\ arrived[r] = {} /\ sending[r] = {}
      /\ \A q : q \in receiving'[r] <=> Keys(r, q, C!Incoming(n)) # <<>>
      /\ \A q : q \in sending'[r] <=> Keys(r, q, C!Outgoing(n)) # <<>>
      /\ \A p \in Rank \ {r} : /\ call'[p] = call[p] /\ receiving'[p] = receiving[p]
                               /\ sending'[p] = sending[p]
      /\ interfaces' = interfaces /\ information' = information /\ arrived' = arrived
      /\ scattered' = scattered
      /\ DOMAIN buffers' = Rank /\ DOMAIN call' = Rank /\ DOMAIN receiving' = Rank
      /\ DOMAIN sending' = Rank
  BY <1>0, StartCallEffect
<1>2. call[r] \in Int /\ call[r] = n - 1
  BY <1>0 DEF CallTypeInv
<1> HIDE DEF n
<1>3. CallTypeInv'
  <2>1. \A p \in Rank : call'[p] \in -1 .. 2
    BY <1>0, <1>1 DEF CallTypeInv
  <2>2. \A p \in Rank : call'[p] < 1 => p # r
    BY <1>1
  <2>3. \A p \in Rank : call'[p] < 1 => receiving'[p] = {} /\ arrived'[p] = {} /\ sending'[p] = {} /\ scattered'[p] = {}
    BY <1>0, <1>1, <2>2 DEF CallTypeInv
  <2> QED BY <1>0, <1>1, <2>1, <2>3 DEF CallTypeInv
<1>4. BuiltInv'
  <2>1. \A p \in Rank : call'[p] >= 0 => call[p] >= 0
    BY <1>1, <1>2
  <2> QED BY <1>0, <1>1, <2>1, BuiltKept
<1>5. RequestInv'
  <2>1. ASSUME NEW p \in Rank
        PROVE  (/\ \A q \in sending[p] : Keys(p, q, C!Outgoing(call[p])) # <<>>
                /\ \A q \in receiving[p] \cup arrived[p] : Keys(p, q, C!Incoming(call[p])) # <<>>
                /\ receiving[p] \cap arrived[p] = {})'
    <3>1. CASE p = r
      <4>1. arrived'[p] = {}
        BY <1>1, <3>1
      <4> QED BY <1>1, <3>1, <4>1 DEF Keys, C!Incoming, C!Outgoing
    <3>2. CASE p # r
      <4>1. /\ \A q \in sending[p] : Keys(p, q, C!Outgoing(call[p])) # <<>>
            /\ \A q \in receiving[p] \cup arrived[p] : Keys(p, q, C!Incoming(call[p])) # <<>>
            /\ receiving[p] \cap arrived[p] = {}
        BY DEF CallInv, RequestInv
      <4> QED BY <1>1, <3>2, <4>1 DEF Keys, C!Incoming, C!Outgoing
    <3> QED BY <3>1, <3>2
  <2> QED BY <2>1 DEF RequestInv
<1>6. MatchInv'
  <2>1. ASSUME NEW p \in Rank, NEW q, NEW c \in 1 .. 2
        PROVE  /\ Given(p, q, c) => Given(p, q, c)'
               /\ Taken(p, q, c) => Taken(p, q, c)'
               /\ Keys(p, q, C!Outgoing(c)) # <<>> /\ Given(p, q, c)' => Given(p, q, c)
               /\ Keys(p, q, C!Incoming(c)) # <<>> /\ Taken(p, q, c)' => Taken(p, q, c)
    <3>1. CASE p # r
      BY <1>1, <3>1 DEF Given, Taken
    <3>2. CASE p = r
      <4>1. CASE c = n
        <5>1. ~(call[r] > c) /\ call[r] # c /\ call'[r] = c /\ ~(call'[r] > c)
          BY <1>1, <1>2, <4>1
        <5> QED BY <1>1, <3>2, <4>1, <5>1 DEF Given, Taken
      <4>2. CASE c < n
        <5>1. (call[r] > c \/ call[r] = c) /\ call'[r] > c
          BY <1>1, <1>2, <4>2
        <5> QED BY <1>1, <3>2, <5>1 DEF Given, Taken
      <4>3. CASE c > n
        <5>1. ~(call[r] > c) /\ call[r] # c /\ ~(call'[r] > c) /\ call'[r] # c
          BY <1>1, <1>2, <4>3
        <5> QED BY <3>2, <5>1 DEF Given, Taken
      <4>4. c = n \/ c < n \/ c > n
        BY <1>1
      <4> QED BY <4>1, <4>2, <4>3, <4>4
    <3> QED BY <3>1, <3>2
  <2>2. ASSUME NEW p \in Rank, NEW q \in Rank, NEW c \in 1 .. 2
        PROVE  (/\ Keys(p, q, C!Outgoing(c)) # <<>> /\ Given(p, q, c) => Taken(q, p, c)
                /\ Keys(q, p, C!Incoming(c)) # <<>> /\ Taken(q, p, c) => Given(p, q, c))'
    <3>1. /\ Keys(p, q, C!Outgoing(c)) # <<>> /\ Given(p, q, c) => Taken(q, p, c)
          /\ Keys(q, p, C!Incoming(c)) # <<>> /\ Taken(q, p, c) => Given(p, q, c)
      BY DEF CallInv, MatchInv
    <3>2. Keys(p, q, C!Outgoing(c))' = Keys(p, q, C!Outgoing(c)) /\ Keys(q, p, C!Incoming(c))' = Keys(q, p, C!Incoming(c))
      BY <1>1 DEF Keys, C!Incoming, C!Outgoing
    <3> QED BY <2>1, <3>1, <3>2
  <2> QED BY <2>2 DEF MatchInv
<1> QED BY <1>3, <1>4, <1>5, <1>6 DEF CallInv

\* A message is taken in the call it is given in.
LEMMA SameCall ==
  ASSUME SyncInv, DataInv, PlainInv, Truthful(scenario), Plain(scenario), CallInv,
         NEW r \in Rank, NEW q \in Rank, q \in sending[r], r \in receiving[q]
  PROVE  call[r] = call[q] /\ call[r] \in 1 .. 2 /\ r # q
<1>1. CallTypeInv /\ BuiltInv /\ TypeInv /\ OrderInv
  BY DEF CallInv, SyncInv, PlainInv
<1>2. call[r] \in 1 .. 2 /\ call[q] \in 1 .. 2
  <2>1. ~(call[r] < 1) /\ ~(call[q] < 1)
    BY <1>1 DEF CallTypeInv
  <2> QED BY <1>1, <2>1 DEF CallTypeInv
<1>3. Keys(r, q, C!Outgoing(call[r])) # <<>> /\ Keys(q, r, C!Incoming(call[q])) # <<>>
  BY DEF CallInv, RequestInv
<1>4. \A c : Keys(r, q, C!Outgoing(c)) = Keys(q, r, C!Incoming(c))
  BY <1>1, <1>2, KeysAgree
<1>5. ~(call[r] < call[q])
  <2> SUFFICES ASSUME call[r] < call[q] PROVE FALSE
    OBVIOUS
  <2>1. Taken(q, r, call[r])
    BY <1>2 DEF Taken
  <2>2. Given(r, q, call[r])
    BY <1>2, <1>3, <1>4, <2>1 DEF CallInv, MatchInv
  <2> QED BY <1>2, <2>2 DEF Given
<1>6. ~(call[q] < call[r])
  <2> SUFFICES ASSUME call[q] < call[r] PROVE FALSE
    OBVIOUS
  <2>1. Given(r, q, call[q])
    BY <1>2 DEF Given
  <2>2. Taken(q, r, call[q])
    BY <1>2, <1>3, <1>4, <2>1 DEF CallInv, MatchInv
  <2> QED BY <1>2, <2>2 DEF Taken
<1>7. r # q
  <2>1. interfaces[r] = Strip(Interface(r))
    BY <1>1, <1>2 DEF BuiltInv
  <2>2. DOMAIN interfaces[r] \subseteq Rank \ {r}
    BY <1>1, <2>1, KeysAre
  <2> QED BY <1>3, <2>2 DEF Keys
<1> QED BY <1>2, <1>5, <1>6, <1>7

\* The delivery of a message keeps CallInv: it is given and taken in one call.
LEMMA TransferKeepsCalls ==
  ASSUME SyncInv, DataInv, PlainInv, Truthful(scenario), Plain(scenario), CallInv,
         NEW r \in Rank, NEW q \in Rank, C!Transfer(r, q), UNCHANGED vars
  PROVE  CallInv'
<1>0. CallTypeInv /\ BuiltInv
  BY DEF CallInv
<1>1. /\ q \in sending[r] /\ r \in receiving[q]
      /\ sending'[r] = sending[r] \ {q} /\ receiving'[q] = receiving[q] \ {r}
      /\ arrived'[q] = arrived[q] \cup {r}
      /\ \A p \in Rank \ {r} : sending'[p] = sending[p]
      /\ \A p \in Rank \ {q} : receiving'[p] = receiving[p] /\ arrived'[p] = arrived[p]
      /\ interfaces' = interfaces /\ information' = information /\ call' = call
      /\ scattered' = scattered
      /\ DOMAIN buffers' = Rank /\ DOMAIN arrived' = Rank /\ DOMAIN receiving' = Rank
      /\ DOMAIN sending' = Rank
  BY <1>0, TransferEffect
<1>2. call[r] = call[q] /\ call[r] \in 1 .. 2 /\ r # q
  BY <1>1, SameCall
<1>3. CallTypeInv'
  <2>1. \A p \in Rank : call[p] < 1 => p # r /\ p # q
    BY <1>2
  <2>2. \A p \in Rank : call[p] < 1 => receiving'[p] = {} /\ arrived'[p] = {} /\ sending'[p] = {}
    BY <1>0, <1>1, <2>1 DEF CallTypeInv
  <2> QED BY <1>0, <1>1, <2>2 DEF CallTypeInv
<1>4. BuiltInv'
  BY <1>0, <1>1, BuiltKept
<1>5. \A p, x, side : Keys(p, x, side)' = Keys(p, x, side)
  BY <1>1 DEF Keys
<1>6. RequestInv'
  <2>1. ASSUME NEW p \in Rank
        PROVE  (/\ \A x \in sending[p] : Keys(p, x, C!Outgoing(call[p])) # <<>>
                /\ \A x \in receiving[p] \cup arrived[p] : Keys(p, x, C!Incoming(call[p])) # <<>>
                /\ receiving[p] \cap arrived[p] = {})'
    <3>1. /\ \A x \in sending[p] : Keys(p, x, C!Outgoing(call[p])) # <<>>
          /\ \A x \in receiving[p] \cup arrived[p] : Keys(p, x, C!Incoming(call[p])) # <<>>
          /\ receiving[p] \cap arrived[p] = {}
      BY DEF CallInv, RequestInv
    <3>2. sending'[p] \subseteq sending[p]
      BY <1>1
    <3>3. receiving'[p] \cup arrived'[p] \subseteq receiving[p] \cup arrived[p] /\ receiving'[p] \cap arrived'[p] = {}
      BY <1>1, <3>1
    <3> QED BY <1>1, <3>1, <3>2, <3>3 DEF Keys, C!Incoming, C!Outgoing
  <2> QED BY <2>1 DEF RequestInv
<1>7. MatchInv'
  <2>1. ASSUME NEW p \in Rank, NEW x \in Rank, NEW c \in 1 .. 2
        PROVE  (/\ Keys(p, x, C!Outgoing(c)) # <<>> /\ Given(p, x, c) => Taken(x, p, c)
                /\ Keys(x, p, C!Incoming(c)) # <<>> /\ Taken(x, p, c) => Given(p, x, c))'
    <3>1. /\ Keys(p, x, C!Outgoing(c)) # <<>> /\ Given(p, x, c) => Taken(x, p, c)
          /\ Keys(x, p, C!Incoming(c)) # <<>> /\ Taken(x, p, c) => Given(p, x, c)
      BY DEF CallInv, MatchInv
    <3>2. Keys(p, x, C!Outgoing(c))' = Keys(p, x, C!Outgoing(c)) /\ Keys(x, p, C!Incoming(c))' = Keys(x, p, C!Incoming(c))
      BY <1>1 DEF Keys, C!Incoming, C!Outgoing
    <3>3. CASE p = r /\ x = q
      <4>1. CASE c = call[r]
        BY <1>1, <1>2, <3>3, <4>1 DEF Given, Taken
      <4>2. CASE c # call[r]
        <5>1. (Given(p, x, c)' <=> Given(p, x, c)) /\ (Taken(x, p, c)' <=> Taken(x, p, c))
          BY <1>1, <1>2, <3>3, <4>2 DEF Given, Taken
        <5> QED BY <3>1, <3>2, <5>1
      <4> QED BY <4>1, <4>2
    <3>4. CASE ~(p = r /\ x = q)
      <4>1. (x \in sending'[p] <=> x \in sending[p]) /\ (p \in receiving'[x] <=> p \in receiving[x])
        BY <1>1, <3>4
      <4>2. (Given(p, x, c)' <=> Given(p, x, c)) /\ (Taken(x, p, c)' <=> Taken(x, p, c))
        BY <1>1, <4>1 DEF Given, Taken
      <4> QED BY <3>1, <3>2, <4>2
    <3> QED BY <3>3, <3>4
  <2> QED BY <2>1 DEF MatchInv
<1> QED BY <1>3, <1>4, <1>6, <1>7 DEF CallInv

\* Scattering a message keeps CallInv.
LEMMA ScatterKeepsCalls ==
  ASSUME CallInv, NEW r \in Rank, NEW q \in Rank, C!Scatter(r, q), UNCHANGED vars
  PROVE  CallInv'
<1>0. CallTypeInv /\ BuiltInv
  BY DEF CallInv
<1>1. /\ q \in arrived[r] /\ arrived'[r] = arrived[r] \ {q}
      /\ \A p \in Rank \ {r} : arrived'[p] = arrived[p] /\ scattered'[p] = scattered[p]
      /\ interfaces' = interfaces /\ information' = information /\ call' = call
      /\ buffers' = buffers /\ receiving' = receiving /\ sending' = sending
      /\ DOMAIN arrived' = Rank /\ DOMAIN scattered' = Rank
  BY <1>0, ScatterEffect
<1>2. CallTypeInv'
  <2>1. ~(call[r] < 1)
    BY <1>0, <1>1 DEF CallTypeInv
  <2>2. \A p \in Rank : call[p] < 1 => arrived'[p] = {} /\ scattered'[p] = {}
    BY <1>0, <1>1, <2>1 DEF CallTypeInv
  <2> QED BY <1>0, <1>1, <2>2 DEF CallTypeInv
<1>3. BuiltInv'
  BY <1>0, <1>1, BuiltKept
<1>4. RequestInv'
  <2>1. ASSUME NEW p \in Rank
        PROVE  (/\ \A x \in sending[p] : Keys(p, x, C!Outgoing(call[p])) # <<>>
                /\ \A x \in receiving[p] \cup arrived[p] : Keys(p, x, C!Incoming(call[p])) # <<>>
                /\ receiving[p] \cap arrived[p] = {})'
    <3>1. /\ \A x \in sending[p] : Keys(p, x, C!Outgoing(call[p])) # <<>>
          /\ \A x \in receiving[p] \cup arrived[p] : Keys(p, x, C!Incoming(call[p])) # <<>>
          /\ receiving[p] \cap arrived[p] = {}
      BY DEF CallInv, RequestInv
    <3>2. arrived'[p] \subseteq arrived[p]
      BY <1>1
    <3> QED BY <1>1, <3>1, <3>2 DEF Keys, C!Incoming, C!Outgoing
  <2> QED BY <2>1 DEF RequestInv
<1>5. MatchInv'
  <2>1. ASSUME NEW p \in Rank, NEW x \in Rank, NEW c \in 1 .. 2
        PROVE  (/\ Keys(p, x, C!Outgoing(c)) # <<>> /\ Given(p, x, c) => Taken(x, p, c)
                /\ Keys(x, p, C!Incoming(c)) # <<>> /\ Taken(x, p, c) => Given(p, x, c))'
    <3>1. /\ Keys(p, x, C!Outgoing(c)) # <<>> /\ Given(p, x, c) => Taken(x, p, c)
          /\ Keys(x, p, C!Incoming(c)) # <<>> /\ Taken(x, p, c) => Given(p, x, c)
      BY DEF CallInv, MatchInv
    <3>2. Keys(p, x, C!Outgoing(c))' = Keys(p, x, C!Outgoing(c)) /\ Keys(x, p, C!Incoming(c))' = Keys(x, p, C!Incoming(c))
      BY <1>1 DEF Keys, C!Incoming, C!Outgoing
    <3>3. (Given(p, x, c)' <=> Given(p, x, c)) /\ (Taken(x, p, c)' <=> Taken(x, p, c))
      BY <1>1 DEF Given, Taken
    <3> QED BY <3>1, <3>2, <3>3
  <2> QED BY <2>1 DEF MatchInv
<1> QED BY <1>2, <1>3, <1>4, <1>5 DEF CallInv

\* All of the invariants so far, while the processes communicate.
SyncedInv == SyncInv /\ DataInv /\ PlainInv /\ CallInv

\* All of them hold at first,
LEMMA CommunicationInit ==
  ASSUME TruthfulScenarios, PlainScenarios, InitSynced PROVE SyncedInv
<1>1. Init
  BY DEF InitSynced
<1> QED BY <1>1, SyncInit, DataInit, PlainInit, CallInit DEF SyncedInv

\* What one step is.
LEMMA CommunicationSteps ==
  ASSUME NextSynced
  PROVE  \/ \E r \in Rank : Step(r) /\ UNCHANGED communicatorVars
         \/ \E r \in Rank : Build(r)
         \/ \E r \in Rank : C!StartCall(r) /\ UNCHANGED vars
         \/ \E r, q \in Rank : (C!Transfer(r, q) \/ C!Scatter(r, q)) /\ UNCHANGED vars
BY DEF NextSynced, Communicate, C!Step, C!Rank, Rank

\* and after every step.
LEMMA CommunicationStep ==
  ASSUME OrderlyScenarios, TruthfulScenarios, PlainScenarios, SyncedInv,
         NextSynced \/ (UNCHANGED vars /\ UNCHANGED communicatorVars)
  PROVE  SyncedInv'
<1>0. /\ SyncInv /\ DataInv /\ PlainInv /\ CallInv /\ TypeInv /\ OrderInv
      /\ Truthful(scenario) /\ Plain(scenario)
  BY DEF SyncedInv, SyncInv, PlainInv, TypeInv, TruthfulScenarios, PlainScenarios
<1>1. ASSUME [Next]_vars PROVE (SyncInv /\ DataInv /\ PlainInv)'
  BY <1>0, <1>1, SyncStep, DataStep, PlainStep
<1>2. ASSUME NEW r \in Rank, Step(r), UNCHANGED communicatorVars PROVE SyncedInv'
  <2>1. CallInv'
    BY <1>0, <1>2, SyncKeepsCalls
  <2>2. Next
    BY <1>2 DEF Next
  <2> QED BY <1>1, <2>1, <2>2 DEF SyncedInv
<1>3. ASSUME UNCHANGED vars, CallInv' PROVE SyncedInv'
  BY <1>1, <1>3 DEF SyncedInv
<1>4. ASSUME NEW r \in Rank, Build(r) PROVE SyncedInv'
  <2>1. UNCHANGED vars
    BY <1>4 DEF Build
  <2> QED BY <1>0, <1>3, <1>4, <2>1, BuildKeepsCalls
<1>5. ASSUME NEW r \in Rank, C!StartCall(r), UNCHANGED vars PROVE SyncedInv'
  BY <1>0, <1>3, <1>5, StartCallKeepsCalls
<1>6. ASSUME NEW r \in Rank, NEW q \in Rank, C!Transfer(r, q), UNCHANGED vars PROVE SyncedInv'
  BY <1>0, <1>3, <1>6, TransferKeepsCalls
<1>7. ASSUME NEW r \in Rank, NEW q \in Rank, C!Scatter(r, q), UNCHANGED vars PROVE SyncedInv'
  BY <1>0, <1>3, <1>7, ScatterKeepsCalls
<1>8. ASSUME UNCHANGED vars, UNCHANGED communicatorVars PROVE SyncedInv'
  <2>1. /\ interfaces' = interfaces /\ information' = information /\ buffers' = buffers
        /\ call' = call /\ receiving' = receiving /\ arrived' = arrived /\ sending' = sending
        /\ scattered' = scattered
    BY <1>8 DEF communicatorVars
  <2>2. CallTypeInv' /\ RequestInv' /\ MatchInv'
    BY <1>0, <2>1 DEF CallInv, CallTypeInv, RequestInv, MatchInv, Given, Taken, Keys
  <2>3. BuiltInv'
    BY <1>0, <1>8, <2>1, BuiltKept DEF CallInv
  <2> QED BY <1>3, <1>8, <2>2, <2>3 DEF CallInv
<1> QED BY <1>2, <1>4, <1>5, <1>6, <1>7, <1>8, CommunicationSteps

\* SyncedInv: while lists are synchronised, interfaces built and data communicated, no message is
\* taken in another call than it was sent in, and what was built is the interface of the lists
\* as the last sync left them.
THEOREM SyncedInvariant ==
  ASSUME OrderlyScenarios, TruthfulScenarios, PlainScenarios PROVE SpecSynced => []SyncedInv
<1>1. InitSynced => SyncedInv
  BY CommunicationInit
<1>2. SyncedInv /\ [NextSynced]_<<vars, communicatorVars>> => SyncedInv'
  <2>1. SyncedInv /\ (NextSynced \/ (UNCHANGED vars /\ UNCHANGED communicatorVars)) => SyncedInv'
    BY CommunicationStep
  <2>2. [NextSynced]_<<vars, communicatorVars>>
          => NextSynced \/ (UNCHANGED vars /\ UNCHANGED communicatorVars)
    OBVIOUS
  <2> QED BY <2>1, <2>2
<1> QED BY <1>1, <1>2, PTL DEF SpecSynced

-----------------------------------------------------------------------------
(* Nobody waits for ever.                                                  *)

\* When the syncs are over and everybody has a communicator, the process that is in the
\* earliest call can go on.
LEMMA CallsGoOn ==
  ASSUME SyncedInv, Truthful(scenario), Plain(scenario), \A r \in Rank : call[r] >= 0,
         NEW o \in Rank, ~C!Finished(o)
  PROVE  \E r \in Rank : C!MayStep(r)
<1> SUFFICES ASSUME \A r \in Rank : ~C!MayStep(r) PROVE FALSE
  OBVIOUS
<1>0. SyncInv /\ DataInv /\ PlainInv /\ CallInv /\ CallTypeInv /\ BuiltInv /\ TypeInv /\ OrderInv
  BY DEF SyncedInv, SyncInv, PlainInv, CallInv
<1>1. \A r \in Rank : /\ arrived[r] = {} /\ ~C!MayStartCall(r)
                      /\ \A q \in Rank : ~(q \in sending[r] /\ r \in receiving[q])
  BY DEF C!MayStep, C!MayTransfer, C!Rank, Rank
<1>2. \A r \in Rank : call[r] \in 0 .. 2
  BY <1>0 DEF CallTypeInv
<1> DEFINE Open(r) == receiving[r] # {} \/ sending[r] # {}
<1>3. \A r \in Rank : Open(r) \/ call[r] = 2
  BY <1>1, <1>2 DEF C!MayStartCall, C!Idle
<1>4. \A r \in Rank : Open(r) => call[r] \in 1 .. 2
  <2>1. \A r \in Rank : Open(r) => ~(call[r] < 1)
    BY <1>0 DEF CallTypeInv
  <2> QED BY <1>2, <2>1
<1>5. Open(o)
  BY <1>1, <1>3 DEF C!Finished, C!Idle
<1> DEFINE going == {call[r] : r \in {p \in Rank : Open(p)}}
<1>6. going \in SUBSET Nat /\ call[o] \in going
  BY <1>4, <1>5
<1>7. PICK m : m \in going /\ \A i \in going : m <= i
  <2> HIDE DEF going
  <2>1. Min(going) \in going /\ \A i \in going : Min(going) <= i
    BY <1>6, MinIs
  <2> QED BY <2>1
<1>8. PICK x \in Rank : Open(x) /\ call[x] = m
  BY <1>7
<1>9. m \in 1 .. 2 /\ \A r \in Rank : call[r] >= m
  <2>1. m \in 1 .. 2
    BY <1>4, <1>8
  <2>2. \A r \in Rank : Open(r) => call[r] >= m
    BY <1>4, <1>7, <2>1
  <2> QED BY <1>3, <2>1, <2>2
<1> HIDE DEF going
<1>10. ASSUME NEW q \in sending[x] PROVE FALSE
  <2>1. Keys(x, q, C!Outgoing(m)) # <<>>
    BY <1>0, <1>8 DEF CallInv, RequestInv
  <2>2. q \in Rank
    <3>1. q \in DOMAIN interfaces[x] /\ interfaces[x] = Strip(Interface(x))
      BY <1>0, <1>2, <2>1 DEF Keys, BuiltInv
    <3> QED BY <1>0, <3>1, KeysAre
  <2>3. Keys(q, x, C!Incoming(m)) # <<>>
    BY <1>0, <2>1, <2>2, KeysAgree
  <2>4. ~Given(x, q, m)
    BY <1>8, <1>9 DEF Given
  <2>5. ~Taken(q, x, m)
    BY <1>0, <1>9, <2>2, <2>3, <2>4 DEF CallInv, MatchInv
  <2>6. x \in receiving[q]
    <3>1. call[q] = m \/ call[q] > m
      BY <1>2, <1>9, <2>2
    <3> QED BY <2>5, <3>1 DEF Taken
  <2> QED BY <1>1, <2>2, <2>6
<1>11. ASSUME NEW q \in receiving[x] PROVE FALSE
  <2>1. Keys(x, q, C!Incoming(m)) # <<>>
    BY <1>0, <1>8 DEF CallInv, RequestInv
  <2>2. q \in Rank
    <3>1. q \in DOMAIN interfaces[x] /\ interfaces[x] = Strip(Interface(x))
      BY <1>0, <1>2, <2>1 DEF Keys, BuiltInv
    <3> QED BY <1>0, <3>1, KeysAre
  <2>3. Keys(q, x, C!Outgoing(m)) # <<>>
    BY <1>0, <2>1, <2>2, KeysAgree
  <2>4. ~Taken(x, q, m)
    BY <1>8, <1>9 DEF Taken
  <2>5. ~Given(q, x, m)
    BY <1>0, <1>9, <2>2, <2>3, <2>4 DEF CallInv, MatchInv
  <2>6. x \in sending[q]
    <3>1. call[q] = m \/ call[q] > m
      BY <1>2, <1>9, <2>2
    <3> QED BY <2>5, <3>1 DEF Given
  <2> QED BY <1>1, <2>2, <2>6
<1> QED BY <1>8, <1>10, <1>11

\* The process that has come least far, in a sync or in a call, can go on.
LEMMA ReturnThen ==
  ASSUME SyncedInv, Truthful(scenario), Plain(scenario) PROVE AllReturn
<1>0. SyncInv /\ PointersRepaired /\ CallTypeInv
  BY DEF SyncedInv, PlainInv, CallInv
<1>1. CASE \E o \in Rank : ~(pc[o] = "user" /\ round[o] = scenario.rounds)
  <2>1. \E r \in Rank : MayStart(r) \/ MayFinish(r) \/ \E source \in Rank : MayReceive(r, source)
    BY <1>0, <1>1, SyncGoesOn
  <2> QED BY <2>1 DEF AllReturn
<1>2. CASE \A o \in Rank : pc[o] = "user" /\ round[o] = scenario.rounds
  <2>1. CASE \E o \in Rank : call[o] = -1
    BY <1>2, <2>1 DEF AllReturn, MayBuild
  <2>2. CASE \A o \in Rank : call[o] # -1
    <3>1. \A o \in Rank : call[o] >= 0
      BY <1>0, <2>2 DEF CallTypeInv
    <3>2. CASE \E o \in Rank : ~C!Finished(o)
      BY <3>1, <3>2, CallsGoOn DEF AllReturn
    <3>3. CASE \A o \in Rank : C!Finished(o)
      BY <1>2, <3>3 DEF AllReturn
    <3> QED BY <3>2, <3>3
  <2> QED BY <2>1, <2>2
<1> QED BY <1>1, <1>2

\* AllReturn: sync(), forward() and backward() return on all processes, or one of them can go
\* on: nobody waits for a message of somebody who waits for it.
THEOREM SyncedReturns ==
  ASSUME OrderlyScenarios, TruthfulScenarios, PlainScenarios PROVE SpecSynced => []AllReturn
<1>1. SyncedInv => AllReturn
  <2>1. SyncedInv => Truthful(scenario) /\ Plain(scenario)
    BY DEF SyncedInv, SyncInv, TypeInv, TruthfulScenarios, PlainScenarios
  <2> QED BY <2>1, ReturnThen
<1> QED BY <1>1, SyncedInvariant, PTL

-----------------------------------------------------------------------------
(* The buffers: where a message lies in them.                              *)

\* The size of the message for q.
SizeOf(interface, side, q) == IF q \in DOMAIN interface THEN Len(interface[q][side]) ELSE 0

\* The ranks are the numbers that the loop of build() runs over.
LEMMA Procs == procs \in Nat /\ Rank = 0 .. procs - 1
BY IndicesSyncerAssumption DEF Rank

\* bufferSize_ is added up from neighbour to neighbour.
LEMMA SizesAdd ==
  ASSUME NEW interface, NEW side, \A q \in DOMAIN interface : Len(interface[q][side]) \in Nat
  PROVE  /\ C!SizeBefore(interface, side, 0) = 0
         /\ \A k \in 0 .. procs : C!SizeBefore(interface, side, k) \in Nat
         /\ \A k \in 1 .. procs : C!SizeBefore(interface, side, k)
              = C!SizeBefore(interface, side, k - 1) + SizeOf(interface, side, k - 1)
<1>0. procs \in Nat
  BY Procs
<1> DEFINE size(q) == SizeOf(interface, side, q)
<1>1. \A q : size(q) \in Nat
  BY DEF SizeOf
<1> DEFINE rule == [at \in (1 .. procs) \X Nat |-> at[2] + size(at[1] - 1)]
<1>2. ASSUME NEW i \in 1 .. procs, NEW v \in Nat
      PROVE  rule[<<i, v>>] = v + size(i - 1) /\ rule[<<i, v>>] \in Nat
  BY <1>1
<1> HIDE DEF size, rule
<1>3. PICK f \in [0 .. procs -> Nat] : Recurs(f, procs, 0, rule)
  BY <1>0, <1>2, Recursion
<1>4. f[0] = 0 /\ \A i \in 1 .. procs : f[i] = f[i - 1] + size(i - 1)
  <2>1. \A i \in 1 .. procs : i - 1 \in 0 .. procs
    BY <1>0
  <2> QED BY <1>2, <1>3, <2>1 DEF Recurs
<1>5. ASSUME NEW k \in 0 .. procs PROVE C!SizeBefore(interface, side, k) = f[k]
  <2> DEFINE body(g) == [i \in 0 .. k |-> IF i = 0 THEN 0 ELSE g[i - 1] + size(i - 1)]
             upto == CHOOSE g : g = body(g)
             part == [i \in 0 .. k |-> f[i]]
  <2>1. C!SizeBefore(interface, side, k) = upto[k]
    BY Zenon DEF C!SizeBefore, SizeOf, size
  <2>2. part = body(part)
    <3>1. \A i \in 0 .. k : i = 0 \/ (i \in 1 .. procs /\ i - 1 \in 0 .. k)
      BY <1>0
    <3>2. \A i \in 0 .. k : part[i] = IF i = 0 THEN 0 ELSE part[i - 1] + size(i - 1)
      BY <1>4, <3>1
    <3> QED BY <3>2
  <2>3. upto = body(upto)
    <3> HIDE DEF body, part
    <3> QED BY <2>2
  <2> HIDE DEF upto
  <2>4. \A i \in 0 .. k : upto[i] = IF i = 0 THEN 0 ELSE upto[i - 1] + size(i - 1)
    BY <2>3
  <2> DEFINE T == {i \in 0 .. k : upto[i] = f[i]}
  <2>5. 0 \in T
    BY <1>4, <2>4
  <2>6. ASSUME NEW i \in 1 .. k, i - 1 \in T PROVE i \in T
    <3>1. i \in 0 .. k /\ i # 0 /\ i \in 1 .. procs
      BY <1>0
    <3> QED BY <1>4, <2>4, <2>6, <3>1
  <2>7. T = 0 .. k
    <3>1. T \subseteq 0 .. k /\ k \in Nat
      OBVIOUS
    <3> HIDE DEF T
    <3> QED BY <2>5, <2>6, <3>1, InductionUpTo
  <2> QED BY <2>1, <2>7
<1>6. \A k \in 1 .. procs : k \in 0 .. procs /\ k - 1 \in 0 .. procs
  BY <1>0
<1>7. 0 \in 0 .. procs
  BY <1>0
<1>8. \A k \in 0 .. procs : f[k] \in Nat
  BY <1>3
<1> QED BY <1>4, <1>5, <1>6, <1>7, <1>8 DEF size

\* So the messages do not overlap, and all of them fit into the buffer.
LEMMA SizesApart ==
  ASSUME NEW interface, NEW side, \A q \in DOMAIN interface : Len(interface[q][side]) \in Nat,
         NEW q \in Rank, NEW k \in 0 .. procs, q < k
  PROVE  C!SizeBefore(interface, side, q) + SizeOf(interface, side, q) <= C!SizeBefore(interface, side, k)
<1>0. procs \in Nat /\ q \in 0 .. procs - 1 /\ q \in Nat
  BY Procs
<1> DEFINE before0(i) == C!SizeBefore(interface, side, i)
           size(p) == SizeOf(interface, side, p)
<1>1. /\ \A i \in 0 .. procs : before0(i) \in Nat
      /\ \A i \in 1 .. procs : before0(i) = before0(i - 1) + size(i - 1)
  BY SizesAdd
<1>2. \A p : size(p) \in Nat
  BY DEF SizeOf
<1> HIDE DEF before0, size
<1> DEFINE T == {i \in 0 .. k : i > q => before0(q) + size(q) <= before0(i)}
<1>3. 0 \in T
  BY <1>0
<1>4. ASSUME NEW i \in 1 .. k, i - 1 \in T PROVE i \in T
  <2>0. i \in 1 .. procs /\ i - 1 \in 0 .. procs /\ i \in 0 .. k
    BY <1>0
  <2>1. before0(i) = before0(i - 1) + size(i - 1) /\ before0(i) \in Nat /\ before0(i - 1) \in Nat
    BY <1>1, <2>0
  <2>2. CASE i > q + 1
    <3>1. i - 1 > q
      BY <1>0, <2>2
    <3>2. before0(q) + size(q) <= before0(i - 1)
      BY <1>4, <3>1
    <3>3. before0(q) \in Nat /\ size(q) \in Nat /\ size(i - 1) \in Nat
      BY <1>0, <1>1, <1>2
    <3> QED BY <2>0, <2>1, <3>2, <3>3
  <2>3. CASE i = q + 1
    <3>1. i - 1 = q
      BY <1>0, <2>3
    <3>2. before0(q) \in Nat /\ size(q) \in Nat
      BY <1>0, <1>1, <1>2
    <3> QED BY <2>0, <2>1, <3>1, <3>2
  <2>4. CASE i <= q
    BY <1>0, <2>0, <2>4
  <2> QED BY <1>0, <2>2, <2>3, <2>4
<1>5. T = 0 .. k
  <2>1. T \subseteq 0 .. k /\ k \in Nat
    OBVIOUS
  <2> HIDE DEF T
  <2> QED BY <1>3, <1>4, <2>1, InductionUpTo
<1>6. k \in T
  <2> HIDE DEF T
  <2>1. k \in 0 .. k
    BY <1>0
  <2> QED BY <1>5, <2>1
<1> QED BY <1>6 DEF before0, size

\* The items of a message of r to q lie where the message does.
Holds(buffer, interface, r, q, side, c) ==
  \A i \in 1 .. Len(interface[q][side]) :
    buffer[C!Start(interface, side, q) + i] = <<r, interface[q][side][i], c>>

\* The gatherer puts them there.
LEMMA GatherIs ==
  ASSUME NEW r, NEW side, NEW c, DOMAIN interfaces[r] \subseteq Rank,
         \A q \in DOMAIN interfaces[r] : interfaces[r][q][side] \in Seq(Int)
  PROVE  /\ DOMAIN C!Gather(r, side, c) = 1 .. C!Total(interfaces[r], side)
         /\ \A q \in DOMAIN interfaces[r] : Holds(C!Gather(r, side, c), interfaces[r], r, q, side, c)
<1>0. procs \in Nat /\ Rank = 0 .. procs - 1
  BY Procs
<1> DEFINE I == interfaces[r]
           Item == {<<r, key, c>> : key \in Int}
           items(q) == IF q \in DOMAIN I THEN [i \in DOMAIN I[q][side] |-> <<r, I[q][side][i], c>>] ELSE <<>>
           at(k) == C!SizeBefore(I, side, k)
           size(q) == SizeOf(I, side, q)
<1>1. \A q \in DOMAIN I : /\ Len(I[q][side]) \in Nat /\ DOMAIN I[q][side] = 1 .. Len(I[q][side])
                          /\ \A i \in 1 .. Len(I[q][side]) : I[q][side][i] \in Int
  OBVIOUS
<1>2. ASSUME NEW q PROVE items(q) \in Seq(Item) /\ Len(items(q)) = size(q) /\ size(q) \in Nat
  <2>1. CASE q \in DOMAIN I
    <3>1. items(q) = [i \in 1 .. Len(I[q][side]) |-> <<r, I[q][side][i], c>>]
      BY <1>1, <2>1
    <3>2. \A i \in 1 .. Len(I[q][side]) : <<r, I[q][side][i], c>> \in Item
      BY <1>1, <2>1
    <3>3. size(q) = Len(I[q][side]) /\ size(q) \in Nat
      BY <1>1, <2>1 DEF SizeOf
    <3> HIDE DEF items, Item
    <3> QED BY <3>1, <3>2, <3>3
  <2>2. CASE q \notin DOMAIN I
    BY <2>2 DEF SizeOf
  <2> QED BY <2>1, <2>2
<1>3. \A q \in DOMAIN I : \A i \in 1 .. size(q) : items(q)[i] = <<r, I[q][side][i], c>>
  BY <1>1 DEF SizeOf
<1>4. /\ at(0) = 0 /\ \A k \in 0 .. procs : at(k) \in Nat
      /\ \A k \in 1 .. procs : at(k) = at(k - 1) + size(k - 1)
      /\ \A q \in Rank : \A k \in 0 .. procs : q < k => at(q) + size(q) <= at(k)
  BY <1>1, SizesAdd, SizesApart
<1> DEFINE rule == [p \in (1 .. procs) \X Seq(Item) |-> p[2] \o items(p[1] - 1)]
<1> HIDE DEF Item, items, at, size
<1>5. ASSUME NEW k \in 1 .. procs, NEW s \in Seq(Item)
      PROVE  rule[<<k, s>>] = s \o items(k - 1) /\ rule[<<k, s>>] \in Seq(Item)
  <2>1. s \o items(k - 1) \in Seq(Item)
    BY <1>2, ConcatProperties
  <2> QED BY <2>1
<1> HIDE DEF rule
<1>6. PICK f \in [0 .. procs -> Seq(Item)] : Recurs(f, procs, <<>>, rule)
  <2>1. <<>> \in Seq(Item)
    OBVIOUS
  <2> QED BY <1>0, <1>5, <2>1, Recursion
<1>7. f[0] = <<>> /\ \A k \in 1 .. procs : f[k] = f[k - 1] \o items(k - 1)
  <2>1. \A k \in 1 .. procs : k - 1 \in 0 .. procs
    BY <1>0
  <2> QED BY <1>5, <1>6, <2>1 DEF Recurs
<1> DEFINE body(g) == [k \in 0 .. procs |-> IF k = 0 THEN <<>> ELSE g[k - 1] \o items(k - 1)]
           upto == CHOOSE g : g = body(g)
<1>8. C!Gather(r, side, c) = upto[procs]
  BY Zenon DEF C!Gather, items
<1>9. f = body(f)
  <2>1. ASSUME NEW k \in 0 .. procs PROVE f[k] = IF k = 0 THEN <<>> ELSE f[k - 1] \o items(k - 1)
    <3>1. k = 0 \/ k \in 1 .. procs
      BY <1>0
    <3> QED BY <1>7, <3>1
  <2> QED BY <2>1
<1>10. upto = body(upto)
  <2> HIDE DEF body
  <2> QED BY <1>9
<1> HIDE DEF upto
<1>11. \A k \in 0 .. procs : upto[k] = IF k = 0 THEN <<>> ELSE upto[k - 1] \o items(k - 1)
  BY <1>10
<1> DEFINE Good(k) == /\ upto[k] \in Seq(Item) /\ Len(upto[k]) = at(k)
                      /\ \A q \in DOMAIN I : q < k => \A i \in 1 .. size(q) :
                           upto[k][at(q) + i] = <<r, I[q][side][i], c>>
           T == {k \in 0 .. procs : Good(k)}
<1>12. 0 \in T
  <2>1. upto[0] = <<>> /\ 0 \in 0 .. procs
    BY <1>0, <1>11
  <2>2. \A q \in DOMAIN I : ~(q < 0)
    BY <1>0
  <2>3. upto[0] \in Seq(Item) /\ Len(upto[0]) = 0
    BY <2>1
  <2> QED BY <1>4, <2>1, <2>2, <2>3
<1>13. ASSUME NEW k \in 1 .. procs, k - 1 \in T PROVE k \in T
  <2>0. k \in 0 .. procs /\ k - 1 \in 0 .. procs /\ k # 0
    BY <1>0
  <2>1. upto[k] = upto[k - 1] \o items(k - 1)
    BY <1>11, <2>0
  <2>2. Good(k - 1)
    BY <1>13
  <2>3. /\ items(k - 1) \in Seq(Item) /\ Len(items(k - 1)) = size(k - 1) /\ size(k - 1) \in Nat
        /\ at(k) = at(k - 1) + size(k - 1) /\ at(k - 1) \in Nat
    BY <1>2, <1>4, <2>0
  <2>4. /\ upto[k] \in Seq(Item) /\ Len(upto[k]) = at(k) /\ Len(upto[k - 1]) = at(k - 1)
        /\ \A i \in 1 .. at(k) : upto[k][i] = IF i <= at(k - 1) THEN upto[k - 1][i] ELSE items(k - 1)[i - at(k - 1)]
    <3>1. upto[k - 1] \in Seq(Item) /\ Len(upto[k - 1]) = at(k - 1)
      BY <2>2
    <3>2. /\ upto[k - 1] \o items(k - 1) \in Seq(Item)
          /\ Len(upto[k - 1] \o items(k - 1)) = Len(upto[k - 1]) + Len(items(k - 1))
          /\ \A i \in 1 .. Len(upto[k - 1]) + Len(items(k - 1)) : (upto[k - 1] \o items(k - 1))[i]
               = IF i <= Len(upto[k - 1]) THEN upto[k - 1][i] ELSE items(k - 1)[i - Len(upto[k - 1])]
      BY <2>3, <3>1, ConcatProperties
    <3> QED BY <2>1, <2>3, <3>1, <3>2
  <2>5. ASSUME NEW q \in DOMAIN I, q < k, NEW i \in 1 .. size(q)
        PROVE  upto[k][at(q) + i] = <<r, I[q][side][i], c>>
    <3>0. q \in 0 .. procs - 1 /\ q \in 0 .. procs /\ at(q) \in Nat /\ size(q) \in Nat
      BY <1>0, <1>2, <1>4
    <3>1. CASE q = k - 1
      <4>1. /\ at(q) + i \in 1 .. at(k) /\ ~(at(q) + i <= at(k - 1))
            /\ (at(q) + i) - at(k - 1) = i
        BY <2>3, <3>0, <3>1
      <4>2. upto[k][at(q) + i] = items(q)[i]
        BY <2>4, <3>1, <4>1
      <4> QED BY <1>3, <4>2
    <3>2. CASE q # k - 1
      <4>1. q < k - 1
        BY <2>5, <3>0, <3>2
      <4>2. at(q) + size(q) <= at(k - 1)
        BY <1>0, <1>4, <2>0, <3>0, <4>1
      <4>3. at(q) + i \in 1 .. at(k) /\ at(q) + i <= at(k - 1)
        BY <2>3, <3>0, <4>2
      <4>4. upto[k][at(q) + i] = upto[k - 1][at(q) + i]
        BY <2>4, <4>3
      <4> QED BY <2>2, <4>1, <4>4
    <3> QED BY <3>1, <3>2
  <2> QED BY <2>0, <2>4, <2>5
<1>14. T = 0 .. procs
  <2>1. T \subseteq 0 .. procs
    OBVIOUS
  <2> HIDE DEF T
  <2> QED BY <1>0, <1>12, <1>13, <2>1, InductionUpTo
<1>15. Good(procs)
  <2>1. procs \in T
    <3> HIDE DEF T
    <3> QED BY <1>0, <1>14
  <2> QED BY <2>1
<1>16. \A q \in DOMAIN I : q < procs /\ size(q) = Len(I[q][side])
  BY <1>0 DEF size, SizeOf
<1>17. DOMAIN upto[procs] = 1 .. at(procs)
  BY <1>15
<1>18. \A q \in DOMAIN I : Holds(upto[procs], I, r, q, side, c)
  BY <1>15, <1>16 DEF Holds, at, C!Start
<1> QED BY <1>8, <1>17, <1>18 DEF at, C!Total

-----------------------------------------------------------------------------
(* What is in the buffers.                                                 *)

\* The buffers have the size of all messages.
BufferInv ==
  \A r \in Rank : call[r] >= 0 =>
    /\ DOMAIN buffers[r] = C!Side
    /\ \A side \in C!Side : DOMAIN buffers[r][side] = 1 .. C!Total(interfaces[r], side)

\* The items of a message lie where the message does.
LiesIn(r, q, side, from, c) ==
  \A i \in 1 .. Len(Keys(r, q, side)) :
    buffers[r][side][C!Start(interfaces[r], side, q) + i] = <<from, Keys(r, q, side)[i], c>>

\* What was gathered for a call stays in the buffer until the next one,
GatheredInv ==
  \A r \in Rank : call[r] >= 1 => \A q \in Rank : LiesIn(r, q, C!Outgoing(call[r]), r, call[r])

\* and so does what has arrived until it is scattered.
ArrivedInv ==
  \A r \in Rank : \A q \in arrived[r] : LiesIn(r, q, C!Incoming(call[r]), q, call[r])

\* What has been scattered, and that it is the right item.
ScatteredInv ==
  \A r \in Rank : \A c \in 1 .. 2 : \A q \in DOMAIN interfaces[r] :
    call[r] > c \/ (call[r] = c /\ q \notin receiving[r] \cup arrived[r]) =>
      \A key \in ToSet(interfaces[r][q][C!Incoming(c)]) :
        \E s \in scattered[r] : s.call = c /\ s.from = q /\ s.entry = key

\* Nothing else has been scattered.
ItemInv == \A r \in Rank : \A s \in scattered[r] : s.item = <<s.from, s.entry, s.call>>

DeliverInv == BufferInv /\ GatheredInv /\ ArrivedInv /\ ScatteredInv /\ ItemInv

\* The messages of a built interface lie apart in the buffer.
LEMMA Placement ==
  ASSUME TypeInv, OrderInv, BuiltInv, NEW r \in Rank, call[r] >= 0, NEW side \in C!Side
  PROVE  /\ DOMAIN interfaces[r] \subseteq Rank
         /\ \A q : Keys(r, q, side) \in Seq(Int) /\ Len(Keys(r, q, side)) \in Nat
         /\ C!Total(interfaces[r], side) \in Nat
         /\ \A q \in DOMAIN interfaces[r] :
              /\ C!Start(interfaces[r], side, q) \in Nat
              /\ C!Start(interfaces[r], side, q) + Len(Keys(r, q, side)) <= C!Total(interfaces[r], side)
         /\ \A q, p \in DOMAIN interfaces[r] : q # p =>
              \/ C!Start(interfaces[r], side, q) + Len(Keys(r, q, side)) <= C!Start(interfaces[r], side, p)
              \/ C!Start(interfaces[r], side, p) + Len(Keys(r, p, side)) <= C!Start(interfaces[r], side, q)
<1> DEFINE I == interfaces[r]
           at(k) == C!SizeBefore(I, side, k)
           size(q) == SizeOf(I, side, q)
<1>0. procs \in Nat /\ Rank = 0 .. procs - 1
  BY Procs
<1>1. I = Strip(Interface(r))
  BY DEF BuiltInv
<1>2. DOMAIN I \subseteq Rank /\ \A q : Keys(r, q, side) \in Seq(Int)
  BY <1>1, KeysAre
<1>3. \A q : Len(Keys(r, q, side)) \in Nat
  BY <1>2
<1>4. \A q \in DOMAIN I : Keys(r, q, side) = I[q][side]
  BY DEF Keys
<1>5. \A q \in DOMAIN I : Len(I[q][side]) \in Nat
  BY <1>3, <1>4
<1>6. /\ \A k \in 0 .. procs : at(k) \in Nat
      /\ \A q \in Rank : \A k \in 0 .. procs : q < k => at(q) + size(q) <= at(k)
  BY <1>5, SizesAdd, SizesApart
<1>7. \A q \in DOMAIN I : size(q) = Len(Keys(r, q, side))
  BY <1>4 DEF SizeOf
<1>8. \A q : C!Start(I, side, q) = at(q)
  BY DEF C!Start
<1>9. C!Total(I, side) = at(procs)
  BY DEF C!Total
<1> HIDE DEF at, size, I
<1>10. \A q \in DOMAIN I : q \in Rank /\ q \in 0 .. procs /\ q < procs
  BY <1>0, <1>2
<1>11. procs \in 0 .. procs
  BY <1>0
<1>12. \A q \in DOMAIN I : at(q) \in Nat /\ at(q) + size(q) <= at(procs)
  BY <1>6, <1>10, <1>11
<1>13. \A q, p \in DOMAIN I : q # p => at(q) + size(q) <= at(p) \/ at(p) + size(p) <= at(q)
  <2> SUFFICES ASSUME NEW q \in DOMAIN I, NEW p \in DOMAIN I, q # p
               PROVE  at(q) + size(q) <= at(p) \/ at(p) + size(p) <= at(q)
    OBVIOUS
  <2>1. q < p \/ p < q
    BY <1>0, <1>10
  <2> QED BY <1>6, <1>10, <2>1
<1> QED BY <1>2, <1>3, <1>6, <1>7, <1>8, <1>9, <1>11, <1>12, <1>13 DEF I

\* Before anything is built, DeliverInv holds.
LEMMA DeliverInit == ASSUME InitSynced PROVE DeliverInv
<1>1. \A r \in Rank : call[r] = -1 /\ arrived[r] = {} /\ scattered[r] = {}
  BY DEF InitSynced, C!Init, C!Rank, Rank
<1>2. BufferInv /\ GatheredInv /\ ArrivedInv /\ ItemInv
  BY <1>1 DEF BufferInv, GatheredInv, ArrivedInv, ItemInv
<1>3. ScatteredInv
  <2>1. \A r \in Rank : \A c \in 1 .. 2 : ~(call[r] > c) /\ call[r] # c
    BY <1>1
  <2> QED BY <2>1 DEF ScatteredInv
<1> QED BY <1>2, <1>3 DEF DeliverInv

\* Steps that leave the communication of a process alone.
Untouched(r) ==
  /\ interfaces'[r] = interfaces[r] /\ buffers'[r] = buffers[r] /\ call'[r] = call[r]
  /\ receiving'[r] = receiving[r] /\ arrived'[r] = arrived[r] /\ scattered'[r] = scattered[r]

\* What DeliverInv says of one process.
DeliverAt(r) ==
  /\ call[r] >= 0 => /\ DOMAIN buffers[r] = C!Side
                     /\ \A side \in C!Side : DOMAIN buffers[r][side] = 1 .. C!Total(interfaces[r], side)
  /\ call[r] >= 1 => \A q \in Rank : LiesIn(r, q, C!Outgoing(call[r]), r, call[r])
  /\ \A q \in arrived[r] : LiesIn(r, q, C!Incoming(call[r]), q, call[r])
  /\ \A c \in 1 .. 2 : \A q \in DOMAIN interfaces[r] :
       call[r] > c \/ (call[r] = c /\ q \notin receiving[r] \cup arrived[r]) =>
         \A key \in ToSet(interfaces[r][q][C!Incoming(c)]) :
           \E s \in scattered[r] : s.call = c /\ s.from = q /\ s.entry = key
  /\ \A s \in scattered[r] : s.item = <<s.from, s.entry, s.call>>

\* DeliverInv says it of all processes,
LEMMA DeliverIs == DeliverInv <=> \A r \in Rank : DeliverAt(r)
BY DEF DeliverInv, DeliverAt, BufferInv, GatheredInv, ArrivedInv, ScatteredInv, ItemInv

\* also after a step.
LEMMA DeliverIsNext == DeliverInv' <=> \A r \in Rank : DeliverAt(r)'
BY DEF DeliverInv, DeliverAt, BufferInv, GatheredInv, ArrivedInv, ScatteredInv, ItemInv

\* A process that is left alone keeps it.
LEMMA DeliverStays == ASSUME NEW r \in Rank, DeliverAt(r), Untouched(r) PROVE DeliverAt(r)'
<1>1. \A q \in Rank : LiesIn(r, q, C!Outgoing(call[r]), r, call[r])' <=> LiesIn(r, q, C!Outgoing(call[r]), r, call[r])
  BY DEF Untouched, LiesIn, Keys, C!Outgoing
<1>2. \A q : LiesIn(r, q, C!Incoming(call[r]), q, call[r])' <=> LiesIn(r, q, C!Incoming(call[r]), q, call[r])
  BY DEF Untouched, LiesIn, Keys, C!Incoming
<1> QED BY <1>1, <1>2 DEF Untouched, DeliverAt, C!Incoming, C!Side

\* build() keeps DeliverInv.
LEMMA BuildDelivers ==
  ASSUME CallInv, DeliverInv, NEW r \in Rank, Build(r) PROVE DeliverInv'
<1>0. CallTypeInv
  BY DEF CallInv
<1>1. /\ call[r] = -1 /\ call'[r] = 0
      /\ buffers'[r] = [side \in C!Side |-> [i \in 1 .. C!Total(interfaces'[r], side) |-> <<>>]]
      /\ \A p \in Rank \ {r} : /\ call'[p] = call[p] /\ interfaces'[p] = interfaces[p]
                               /\ buffers'[p] = buffers[p]
      /\ receiving' = receiving /\ arrived' = arrived /\ scattered' = scattered
  BY <1>0, BuildEffect
<1>2. arrived[r] = {} /\ scattered[r] = {}
  <2>1. call[r] < 1
    BY <1>1
  <2> QED BY <1>0, <2>1 DEF CallTypeInv
<1>3. DeliverAt(r)'
  <2>1. DOMAIN buffers'[r] = C!Side
        /\ \A side \in C!Side : DOMAIN buffers'[r][side] = 1 .. C!Total(interfaces'[r], side)
    BY <1>1
  <2>2. ~(call'[r] >= 1) /\ \A c \in 1 .. 2 : ~(call'[r] > c) /\ call'[r] # c
    BY <1>1
  <2>3. arrived'[r] = {} /\ scattered'[r] = {}
    BY <1>1, <1>2
  <2> QED BY <2>1, <2>2, <2>3 DEF DeliverAt, C!Side
<1>4. \A p \in Rank : p # r => DeliverAt(p)'
  BY <1>1, DeliverIs, DeliverStays DEF Untouched
<1> QED BY <1>3, <1>4, DeliverIsNext

\* The gatherer has put in the buffer what is sent.
LEMMA StartCallDelivers ==
  ASSUME TypeInv, OrderInv, CallInv, DeliverInv, NEW r \in Rank, C!StartCall(r) PROVE DeliverInv'
<1>0. CallTypeInv /\ BuiltInv
  BY DEF CallInv
<1> DEFINE n == call[r] + 1
           out == C!Outgoing(n)
<1>1. /\ n \in 1 .. 2 /\ call'[r] = n
      /\ receiving[r] = {} /\ arrived[r] = {}
      /\ buffers'[r] = [buffers[r] EXCEPT ![out] = C!Gather(r, out, n)]
      /\ \A q : q \in receiving'[r] <=> Keys(r, q, C!Incoming(n)) # <<>>
      /\ \A p \in Rank \ {r} : /\ call'[p] = call[p] /\ buffers'[p] = buffers[p]
                               /\ receiving'[p] = receiving[p]
      /\ interfaces' = interfaces /\ arrived' = arrived /\ scattered' = scattered
  BY <1>0, StartCallEffect
<1>2. call[r] \in Int /\ call[r] = n - 1 /\ out \in C!Side
  BY <1>0, Sides DEF CallTypeInv
<1> HIDE DEF n
<1>3. call[r] >= 0 /\ DeliverAt(r)
  BY <1>1, <1>2, DeliverIs
<1>4. interfaces[r] = Strip(Interface(r))
  BY <1>0, <1>3 DEF BuiltInv
<1>5. /\ DOMAIN interfaces[r] \subseteq Rank
      /\ \A q \in DOMAIN interfaces[r] : interfaces[r][q][out] \in Seq(Int)
  BY <1>2, <1>4, KeysAre
<1> HIDE DEF out
<1>6. /\ DOMAIN C!Gather(r, out, n) = 1 .. C!Total(interfaces[r], out)
      /\ \A q \in DOMAIN interfaces[r] : Holds(C!Gather(r, out, n), interfaces[r], r, q, out, n)
  BY <1>5, GatherIs
<1>8. DOMAIN buffers[r] = C!Side
      /\ \A side \in C!Side : DOMAIN buffers[r][side] = 1 .. C!Total(interfaces[r], side)
  BY <1>3 DEF DeliverAt
<1>9. /\ buffers'[r][out] = C!Gather(r, out, n) /\ DOMAIN buffers'[r] = C!Side
      /\ \A side \in C!Side : side # out => buffers'[r][side] = buffers[r][side]
  BY <1>1, <1>2, <1>8
<1>10. ASSUME NEW q \in Rank PROVE LiesIn(r, q, C!Outgoing(call[r]), r, call[r])'
  <2>1. ASSUME NEW i \in 1 .. Len(Keys(r, q, out))
        PROVE  buffers'[r][out][C!Start(interfaces[r], out, q) + i] = <<r, Keys(r, q, out)[i], n>>
    <3>1. CASE q \in DOMAIN interfaces[r]
      BY <1>6, <1>9, <3>1 DEF Keys, Holds
    <3>2. CASE q \notin DOMAIN interfaces[r]
      <4>1. Keys(r, q, out) = <<>>
        BY <3>2 DEF Keys
      <4>2. Len(Keys(r, q, out)) = 0
        BY <4>1
      <4> QED BY <4>2
    <3> QED BY <3>1, <3>2
  <2>2. Keys(r, q, out)' = Keys(r, q, out')
    BY <1>1 DEF Keys, out, C!Outgoing, n
  <2>3. \A i \in 1 .. Len(IF q \in DOMAIN interfaces'[r] THEN interfaces'[r][q][out] ELSE <<>>) :
          buffers'[r][out][C!Start(interfaces'[r], out, q) + i]
            = <<r, (IF q \in DOMAIN interfaces'[r] THEN interfaces'[r][q][out] ELSE <<>>)[i], n>>
    BY <1>1, <2>1 DEF Keys
  <2>4. out = C!Outgoing(call'[r])
    BY <1>1 DEF out
  <2> QED BY <1>1, <2>3, <2>4 DEF LiesIn, Keys, C!Outgoing
<1>11. DeliverAt(r)'
  <2>1. DOMAIN buffers'[r] = C!Side
        /\ \A side \in C!Side : DOMAIN buffers'[r][side] = 1 .. C!Total(interfaces'[r], side)
    BY <1>1, <1>6, <1>8, <1>9
  <2>2. arrived'[r] = {} /\ \A s \in scattered'[r] : s.item = <<s.from, s.entry, s.call>>
    BY <1>1, <1>3 DEF DeliverAt
  <2>3. ASSUME NEW c \in 1 .. 2, NEW q \in DOMAIN interfaces[r],
               call'[r] > c \/ (call'[r] = c /\ q \notin receiving'[r]),
               NEW key \in ToSet(interfaces[r][q][C!Incoming(c)])
        PROVE  \E s \in scattered[r] : s.call = c /\ s.from = q /\ s.entry = key
    <3>1. CASE call'[r] > c
      <4>1. call[r] > c \/ (call[r] = c /\ q \notin receiving[r] \cup arrived[r])
        BY <1>1, <1>2, <3>1
      <4>2. \A k \in ToSet(interfaces[r][q][C!Incoming(c)]) :
              \E s \in scattered[r] : s.call = c /\ s.from = q /\ s.entry = k
        BY <1>3, <4>1 DEF DeliverAt
      <4> QED BY <2>3, <4>2
    <3>2. CASE call'[r] = c /\ q \notin receiving'[r]
      <4>1. Keys(r, q, C!Incoming(c)) = <<>>
        BY <1>1, <3>2
      <4>2. interfaces[r][q][C!Incoming(c)] = <<>>
        BY <4>1 DEF Keys
      <4>3. ToSet(<<>>) = {}
        BY DEF ToSet
      <4> QED BY <2>3, <4>2, <4>3
    <3> QED BY <2>3, <3>1, <3>2
  <2>4. \A c \in 1 .. 2 : \A q \in DOMAIN interfaces'[r] :
          call'[r] > c \/ (call'[r] = c /\ q \notin receiving'[r] \cup arrived'[r]) =>
            \A key \in ToSet(interfaces'[r][q][C!Incoming(c)]) :
              \E s \in scattered'[r] : s.call = c /\ s.from = q /\ s.entry = key
    <3> SUFFICES ASSUME NEW c \in 1 .. 2, NEW q \in DOMAIN interfaces'[r],
                        call'[r] > c \/ (call'[r] = c /\ q \notin receiving'[r] \cup arrived'[r]),
                        NEW key \in ToSet(interfaces'[r][q][C!Incoming(c)])
                 PROVE  \E s \in scattered'[r] : s.call = c /\ s.from = q /\ s.entry = key
      OBVIOUS
    <3>1. \E s \in scattered[r] : s.call = c /\ s.from = q /\ s.entry = key
      BY <1>1, <2>3, SMTT(20)
    <3> QED BY <1>1, <3>1
  <2> QED BY <1>10, <2>1, <2>2, <2>4 DEF DeliverAt, C!Side, C!Incoming
<1>12. \A p \in Rank : p # r => DeliverAt(p)'
  BY <1>1, DeliverIs, DeliverStays DEF Untouched
<1> QED BY <1>11, <1>12, DeliverIsNext

\* Scattering a message keeps DeliverInv: its items go to the entries they are for.
LEMMA ScatterDelivers ==
  ASSUME TypeInv, OrderInv, CallInv, DeliverInv, NEW r \in Rank, NEW q \in Rank, C!Scatter(r, q)
  PROVE  DeliverInv'
<1>0. CallTypeInv /\ BuiltInv
  BY DEF CallInv
<1> DEFINE n == call[r]
           side == C!Incoming(n)
           made(i) == [call |-> n, from |-> q, entry |-> interfaces[r][q][side][i],
                       item |-> buffers[r][side][information[r][q][side].start + i]]
<1>1. /\ q \in arrived[r] /\ arrived'[r] = arrived[r] \ {q}
      /\ \A p \in Rank \ {r} : arrived'[p] = arrived[p] /\ scattered'[p] = scattered[p]
      /\ interfaces' = interfaces /\ call' = call /\ buffers' = buffers /\ receiving' = receiving
      /\ scattered'[r] = scattered[r] \cup {made(i) : i \in DOMAIN interfaces[r][q][side]}
  BY <1>0, ScatterEffect
<1>2. DeliverAt(r) /\ side \in C!Side
  BY DeliverIs, Sides
<1>3. call[r] >= 1 /\ call[r] >= 0
  <2>1. ~(call[r] < 1) /\ call[r] \in -1 .. 2
    BY <1>0, <1>1 DEF CallTypeInv
  <2> QED BY <2>1
<1>4. /\ interfaces[r] = Strip(Interface(r)) /\ information[r] = Information(interfaces[r])
      /\ Keys(r, q, side) # <<>>
  BY <1>0, <1>1, <1>3 DEF BuiltInv, CallInv, RequestInv
<1>5. q \in DOMAIN interfaces[r] /\ Keys(r, q, side) = interfaces[r][q][side]
  BY <1>4 DEF Keys
<1>6. DOMAIN interfaces[r][q][side] = 1 .. Len(Keys(r, q, side))
  <2>1. interfaces[r][q][side] \in Seq(Int)
    BY <1>2, <1>4, <1>5, KeysAre
  <2> QED BY <1>5, <2>1
<1>7. information[r][q][side].start = C!Start(interfaces[r], side, q)
  BY <1>2, <1>4, <1>5 DEF Information
<1>8. LiesIn(r, q, side, q, n)
  BY <1>1, <1>2 DEF DeliverAt
<1>9. \A i \in DOMAIN interfaces[r][q][side] :
        /\ made(i).item = <<q, interfaces[r][q][side][i], n>> /\ made(i).call = n
        /\ made(i).from = q /\ made(i).entry = interfaces[r][q][side][i]
  BY <1>5, <1>6, <1>7, <1>8 DEF LiesIn
<1> HIDE DEF made
<1>10. \A s \in scattered'[r] : s.item = <<s.from, s.entry, s.call>>
  BY <1>1, <1>2, <1>9 DEF DeliverAt
<1>11. ASSUME NEW c \in 1 .. 2, NEW p \in DOMAIN interfaces[r],
              call[r] > c \/ (call[r] = c /\ p \notin receiving[r] \cup arrived'[r]),
              NEW key \in ToSet(interfaces[r][p][C!Incoming(c)])
       PROVE  \E s \in scattered'[r] : s.call = c /\ s.from = p /\ s.entry = key
  <2>1. CASE p = q /\ c = n
    <3>1. PICK i \in DOMAIN interfaces[r][q][side] : key = interfaces[r][q][side][i]
      BY <1>11, <2>1 DEF ToSet
    <3>2. made(i) \in scattered'[r]
      BY <1>1, <3>1
    <3> QED BY <1>9, <2>1, <3>1, <3>2
  <2>2. CASE ~(p = q /\ c = n)
    <3>1. call[r] > c \/ (call[r] = c /\ p \notin receiving[r] \cup arrived[r])
      BY <1>1, <1>11, <2>2
    <3>2. \A k \in ToSet(interfaces[r][p][C!Incoming(c)]) :
            \E s \in scattered[r] : s.call = c /\ s.from = p /\ s.entry = k
      BY <1>2, <3>1 DEF DeliverAt
    <3>3. \E s \in scattered[r] : s.call = c /\ s.from = p /\ s.entry = key
      BY <1>11, <3>2
    <3> QED BY <1>1, <3>3
  <2> QED BY <2>1, <2>2
<1>12. \A p \in arrived'[r] : LiesIn(r, p, C!Incoming(call[r]), p, call[r])'
  <2>1. \A p \in arrived'[r] : LiesIn(r, p, C!Incoming(call[r]), p, call[r])
    BY <1>1, <1>2 DEF DeliverAt
  <2> QED BY <1>1, <2>1, ZenonT(30) DEF LiesIn, Keys, C!Incoming
<1>13. \A p \in Rank : call'[r] >= 1 => LiesIn(r, p, C!Outgoing(call[r]), r, call[r])'
  <2>1. \A p \in Rank : LiesIn(r, p, C!Outgoing(call[r]), r, call[r])
    BY <1>2, <1>3 DEF DeliverAt
  <2> QED BY <1>1, <2>1 DEF LiesIn, Keys, C!Outgoing
<1>14. DeliverAt(r)'
  <2>1. \A c \in 1 .. 2 : \A p \in DOMAIN interfaces'[r] :
          call'[r] > c \/ (call'[r] = c /\ p \notin receiving'[r] \cup arrived'[r]) =>
            \A key \in ToSet(interfaces'[r][p][C!Incoming(c)]) :
              \E s \in scattered'[r] : s.call = c /\ s.from = p /\ s.entry = key
    BY <1>1, <1>11
  <2>2. call'[r] >= 0 => /\ DOMAIN buffers'[r] = C!Side
                         /\ \A x \in C!Side : DOMAIN buffers'[r][x] = 1 .. C!Total(interfaces'[r], x)
    BY <1>1, <1>2 DEF DeliverAt
  <2> HIDE DEF side
  <2> QED BY <1>10, <1>12, <1>13, <2>1, <2>2 DEF DeliverAt, C!Side, C!Incoming
<1>15. \A p \in Rank : p # r => DeliverAt(p)'
  BY <1>1, DeliverIs, DeliverStays DEF Untouched
<1> QED BY <1>14, <1>15, DeliverIsNext

\* What a message writes into the buffer of the one that gets it.
LEMMA TransferWrites ==
  ASSUME TypeInv, OrderInv, CallInv, DeliverInv, NEW r \in Rank, NEW q \in Rank, C!Transfer(r, q),
         NEW c \in 1 .. 2, call[r] = c, call[q] = c, NEW out, NEW in,
         out = C!Outgoing(c), in = C!Incoming(c), Keys(r, q, out) = Keys(q, r, in)
  PROVE  LET to == C!Start(interfaces[q], in, r)
         IN buffers'[q] = [buffers[q] EXCEPT ![in] =
              [i \in DOMAIN buffers[q][in] |->
                 IF i - to \in 1 .. Len(Keys(q, r, in)) THEN <<r, Keys(q, r, in)[i - to], c>>
                 ELSE buffers[q][in][i]]]
<1>0. CallTypeInv /\ BuiltInv /\ DeliverAt(r)
  BY DeliverIs DEF CallInv
<1>1. out \in C!Side /\ in \in C!Side /\ call[r] >= 1 /\ call[r] >= 0 /\ call[q] >= 0
  BY Sides
<1> DEFINE start == C!Start(interfaces[r], out, q)
           size == Len(Keys(r, q, out))
           b == buffers[r][out]
           to == C!Start(interfaces[q], in, r)
           message == SubSeq(b, start + 1, start + size)
<1>2. q \in sending[r] /\ r \in receiving[q]
  BY <1>0, TransferEffect
<1>3. Keys(r, q, out) # <<>> /\ Keys(q, r, in) # <<>>
  BY <1>2 DEF CallInv, RequestInv
<1>4. q \in DOMAIN interfaces[r] /\ r \in DOMAIN interfaces[q]
  BY <1>3 DEF Keys
<1>5. /\ information[r][q][out].start = start /\ information[r][q][out].size = size
      /\ information[q][r][in].start = to
  <2>1. information[r] = Information(interfaces[r]) /\ information[q] = Information(interfaces[q])
    BY <1>0, <1>1 DEF BuiltInv
  <2>2. /\ Information(interfaces[r])[q][out] = [start |-> start, size |-> Len(interfaces[r][q][out])]
        /\ Information(interfaces[q])[r][in] = [start |-> to, size |-> Len(interfaces[q][r][in])]
    BY <1>1, <1>4 DEF Information
  <2>3. size = Len(interfaces[r][q][out])
    BY <1>4 DEF Keys
  <2> HIDE DEF start, size, to
  <2> QED BY <2>1, <2>2, <2>3
<1>6. buffers' = [buffers EXCEPT ![q][in] =
                    [i \in DOMAIN buffers[q][in] |-> IF i - to \in DOMAIN message
                                                     THEN message[i - to] ELSE buffers[q][in][i]]]
  BY <1>5 DEF C!Transfer
<1>7. /\ Keys(r, q, out) \in Seq(Int) /\ size \in Nat /\ start \in Nat
  BY <1>0, <1>1, <1>4, Placement
<1>8. \A i \in 1 .. size : b[start + i] = <<r, Keys(r, q, out)[i], c>>
  BY <1>0, <1>1 DEF DeliverAt, LiesIn
<1>9. size > 0
  BY <1>3, <1>7
<1> DEFINE S == {b[j] : j \in start + 1 .. start + size}
<1>10. /\ Len(message) = size
       /\ \A i \in 1 .. size : message[i] = b[start + i] /\ message \in Seq(S)
  <2>1. \A j \in start + 1 .. start + size : b[j] \in S
    OBVIOUS
  <2>2. start + 1 \in Int /\ start + size \in Int /\ start + 1 <= start + size
        /\ (start + size) - (start + 1) + 1 = size
    <3> HIDE DEF start, size
    <3> QED BY <1>7, <1>9
  <2> HIDE DEF start, size, b, S
  <2>3. /\ message \in Seq(S)
        /\ Len(message) = IF start + 1 <= start + size THEN (start + size) - (start + 1) + 1 ELSE 0
        /\ \A i \in 1 .. (start + size) - (start + 1) + 1 : message[i] = b[(start + 1) + i - 1]
    BY <2>1, <2>2, SubSeqProperties
  <2>4. \A i \in 1 .. size : (start + 1) + i - 1 = start + i
    BY <1>7
  <2> HIDE DEF message
  <2> QED BY <2>2, <2>3, <2>4
<1> HIDE DEF message, S
<1>11. DOMAIN message = 1 .. size
  <2>1. message \in Seq(S)
    <3>1. 1 \in 1 .. size
      BY <1>7, <1>9
    <3> QED BY <1>10, <3>1
  <2> QED BY <1>10, <2>1
<1>12. \A i \in 1 .. size : message[i] = <<r, Keys(q, r, in)[i], c>>
  BY <1>8, <1>10
<1>13. size = Len(Keys(q, r, in))
  OBVIOUS
<1> HIDE DEF size, start, to, b
<1>14. buffers'[q] = [buffers[q] EXCEPT ![in] =
                        [i \in DOMAIN buffers[q][in] |-> IF i - to \in DOMAIN message
                                                         THEN message[i - to] ELSE buffers[q][in][i]]]
  BY <1>0, <1>6 DEF CallTypeInv
<1>15. [i \in DOMAIN buffers[q][in] |-> IF i - to \in DOMAIN message
                                        THEN message[i - to] ELSE buffers[q][in][i]]
         = [i \in DOMAIN buffers[q][in] |->
              IF i - to \in 1 .. Len(Keys(q, r, in)) THEN <<r, Keys(q, r, in)[i - to], c>>
              ELSE buffers[q][in][i]]
  BY <1>11, <1>12, <1>13
<1> QED BY <1>14, <1>15 DEF to

\* A message overwrites no other that is to be scattered.
LEMMA TransferDelivers ==
  ASSUME SyncInv, DataInv, PlainInv, Truthful(scenario), Plain(scenario), CallInv, DeliverInv,
         NEW r \in Rank, NEW q \in Rank, C!Transfer(r, q)
  PROVE  DeliverInv'
<1>0. CallTypeInv /\ BuiltInv /\ TypeInv /\ OrderInv /\ DeliverAt(q)
  BY DeliverIs DEF CallInv, SyncInv, PlainInv
<1>1. /\ q \in sending[r] /\ r \in receiving[q]
      /\ receiving'[q] = receiving[q] \ {r} /\ arrived'[q] = arrived[q] \cup {r}
      /\ \A p \in Rank \ {q} : /\ receiving'[p] = receiving[p] /\ arrived'[p] = arrived[p]
                               /\ buffers'[p] = buffers[p]
      /\ interfaces' = interfaces /\ call' = call /\ scattered' = scattered
  BY <1>0, TransferEffect
<1>2. PICK c \in 1 .. 2 : call[r] = c /\ call[q] = c
  BY <1>1, SameCall
<1>3. PICK out, in : out = C!Outgoing(c) /\ in = C!Incoming(c)
  OBVIOUS
<1>4. out \in C!Side /\ in \in C!Side /\ out # in
  BY <1>3, Sides
<1>5. call[q] >= 0 /\ call[r] >= 0 /\ call[q] >= 1
  BY <1>2
<1>6. Keys(r, q, out) = Keys(q, r, in)
  BY <1>0, <1>3, <1>5, KeysAgree
<1>7. Keys(q, r, in) # <<>> /\ \A p \in arrived[q] : Keys(q, p, in) # <<>>
  BY <1>1, <1>2, <1>3 DEF CallInv, RequestInv
<1>8. r \in DOMAIN interfaces[q] /\ \A p \in arrived[q] : p \in DOMAIN interfaces[q]
  BY <1>7 DEF Keys
<1> DEFINE at(p) == C!Start(interfaces[q], in, p)
           size(p) == Len(Keys(q, p, in))
           total == C!Total(interfaces[q], in)
           old == buffers[q][in]
           new == [i \in DOMAIN old |-> IF i - at(r) \in 1 .. size(r) THEN <<r, Keys(q, r, in)[i - at(r)], c>>
                                        ELSE old[i]]
<1>9. /\ \A p : size(p) \in Nat
      /\ total \in Nat
      /\ \A p \in DOMAIN interfaces[q] : at(p) \in Nat /\ at(p) + size(p) <= total
      /\ \A p, x \in DOMAIN interfaces[q] : p # x => at(p) + size(p) <= at(x) \/ at(x) + size(x) <= at(p)
  BY <1>0, <1>4, <1>5, Placement
<1>10. buffers'[q] = [buffers[q] EXCEPT ![in] = new]
  BY <1>0, <1>2, <1>3, <1>6, TransferWrites, SMTT(20)
<1>11. DOMAIN buffers[q] = C!Side
       /\ \A side \in C!Side : DOMAIN buffers[q][side] = 1 .. C!Total(interfaces[q], side)
  BY <1>0, <1>5 DEF DeliverAt
<1>12. DOMAIN old = 1 .. total
  BY <1>4, <1>11
<1>13. /\ DOMAIN new = 1 .. total
       /\ \A i \in 1 .. total : i - at(r) \in 1 .. size(r) => new[i] = <<r, Keys(q, r, in)[i - at(r)], c>>
       /\ \A i \in 1 .. total : i - at(r) \notin 1 .. size(r) => new[i] = old[i]
  BY <1>12
<1> HIDE DEF new
<1>14. /\ DOMAIN buffers'[q] = C!Side /\ buffers'[q][in] = new
       /\ \A side \in C!Side : side # in => buffers'[q][side] = buffers[q][side]
  BY <1>4, <1>10, <1>11
<1>15. \A side \in C!Side : DOMAIN buffers'[q][side] = 1 .. C!Total(interfaces[q], side)
  BY <1>11, <1>13, <1>14
<1> HIDE DEF at, size, total, old
<1>16. ASSUME NEW p \in arrived'[q], NEW i \in 1 .. size(p)
       PROVE  new[at(p) + i] = <<p, Keys(q, p, in)[i], c>>
  <2>0. p \in DOMAIN interfaces[q]
    BY <1>1, <1>8
  <2>1. at(p) \in Nat /\ size(p) \in Nat /\ at(p) + size(p) <= total /\ at(r) \in Nat /\ size(r) \in Nat
    BY <1>8, <1>9, <2>0
  <2>2. at(p) + i \in 1 .. total
    BY <1>9, <2>1
  <2>3. CASE p = r
    <3>1. (at(p) + i) - at(r) = i
      BY <2>1, <2>3
    <3> QED BY <1>13, <2>2, <2>3, <3>1
  <2>4. CASE p # r
    <3>1. at(p) + size(p) <= at(r) \/ at(r) + size(r) <= at(p)
      BY <1>8, <1>9, <2>0, <2>4
    <3>2. (at(p) + i) - at(r) \notin 1 .. size(r)
      BY <2>1, <3>1
    <3>3. new[at(p) + i] = old[at(p) + i]
      BY <1>13, <2>2, <3>2
    <3>4. p \in arrived[q]
      BY <1>1, <2>4
    <3>5. LiesIn(q, p, in, p, c)
      BY <1>0, <1>2, <1>3, <3>4 DEF DeliverAt
    <3>6. old[at(p) + i] = <<p, Keys(q, p, in)[i], c>>
      BY <3>5 DEF LiesIn, old, at, size
    <3> QED BY <3>3, <3>6
  <2> QED BY <2>3, <2>4
<1>17. \A p \in arrived'[q] : LiesIn(q, p, C!Incoming(call[q]), p, call[q])'
  <2> SUFFICES ASSUME NEW p \in arrived'[q] PROVE LiesIn(q, p, C!Incoming(call[q]), p, call[q])'
    OBVIOUS
  <2>1. Keys(q, p, C!Incoming(call[q]))' = Keys(q, p, in)
    BY <1>1, <1>2, <1>3 DEF Keys, C!Incoming
  <2>2. \A i \in 1 .. Len(Keys(q, p, in)) : buffers'[q][in][C!Start(interfaces[q], in, p) + i] = <<p, Keys(q, p, in)[i], c>>
    BY <1>14, <1>16 DEF at, size
  <2>3. C!Incoming(call[q])' = in /\ call'[q] = c
    BY <1>1, <1>2, <1>3 DEF C!Incoming
  <2> QED BY <1>1, <2>1, <2>2, <2>3 DEF LiesIn
<1>18. \A p \in Rank : LiesIn(q, p, C!Outgoing(call[q]), q, call[q])'
  <2> SUFFICES ASSUME NEW p \in Rank PROVE LiesIn(q, p, C!Outgoing(call[q]), q, call[q])'
    OBVIOUS
  <2>1. Keys(q, p, C!Outgoing(call[q]))' = Keys(q, p, out)
    BY <1>1, <1>2, <1>3 DEF Keys, C!Outgoing
  <2>2. LiesIn(q, p, out, q, c)
    BY <1>0, <1>2, <1>3, <1>5 DEF DeliverAt
  <2>3. buffers'[q][out] = buffers[q][out]
    BY <1>4, <1>14
  <2>4. C!Outgoing(call[q])' = out /\ call'[q] = c
    BY <1>1, <1>2, <1>3 DEF C!Outgoing
  <2> QED BY <1>1, <2>1, <2>2, <2>3, <2>4 DEF LiesIn
<1>19. receiving'[q] \cup arrived'[q] = receiving[q] \cup arrived[q]
  BY <1>1
<1>20. DeliverAt(q)'
  <2>1. \A n \in 1 .. 2 : \A p \in DOMAIN interfaces'[q] :
          call'[q] > n \/ (call'[q] = n /\ p \notin receiving'[q] \cup arrived'[q]) =>
            \A key \in ToSet(interfaces'[q][p][C!Incoming(n)]) :
              \E s \in scattered'[q] : s.call = n /\ s.from = p /\ s.entry = key
    <3>1. \A n \in 1 .. 2 : \A p \in DOMAIN interfaces[q] :
            call[q] > n \/ (call[q] = n /\ p \notin receiving[q] \cup arrived[q]) =>
              \A key \in ToSet(interfaces[q][p][C!Incoming(n)]) :
                \E s \in scattered[q] : s.call = n /\ s.from = p /\ s.entry = key
      BY <1>0 DEF DeliverAt
    <3>2. interfaces' = interfaces /\ call' = call /\ scattered' = scattered
      BY <1>1
    <3> SUFFICES ASSUME NEW n \in 1 .. 2, NEW p \in DOMAIN interfaces'[q],
                        call'[q] > n \/ (call'[q] = n /\ p \notin receiving'[q] \cup arrived'[q]),
                        NEW key \in ToSet(interfaces'[q][p][C!Incoming(n)])
                 PROVE  \E s \in scattered'[q] : s.call = n /\ s.from = p /\ s.entry = key
      OBVIOUS
    <3>3. /\ p \in DOMAIN interfaces[q] /\ key \in ToSet(interfaces[q][p][C!Incoming(n)])
          /\ call[q] > n \/ (call[q] = n /\ p \notin receiving[q] \cup arrived[q])
      BY <3>2, <1>19
    <3>4. \E s \in scattered[q] : s.call = n /\ s.from = p /\ s.entry = key
      BY <3>1, <3>3
    <3> QED BY <3>2, <3>4
  <2>2. \A s \in scattered'[q] : s.item = <<s.from, s.entry, s.call>>
    BY <1>0, <1>1 DEF DeliverAt
  <2>3. DOMAIN buffers'[q] = C!Side
        /\ \A side \in C!Side : DOMAIN buffers'[q][side] = 1 .. C!Total(interfaces'[q], side)
    BY <1>1, <1>14, <1>15
  <2> QED BY <1>17, <1>18, <2>1, <2>2, <2>3 DEF DeliverAt, C!Side, C!Incoming
<1>21. \A p \in Rank : p # q => DeliverAt(p)'
  BY <1>1, DeliverIs, DeliverStays DEF Untouched
<1> QED BY <1>20, <1>21, DeliverIsNext

\* Every step keeps DeliverInv.
LEMMA DeliverStep ==
  ASSUME TruthfulScenarios, PlainScenarios, SyncedInv, DeliverInv,
         NextSynced \/ (UNCHANGED vars /\ UNCHANGED communicatorVars)
  PROVE  DeliverInv'
<1>0. /\ SyncInv /\ DataInv /\ PlainInv /\ CallInv /\ TypeInv /\ OrderInv
      /\ Truthful(scenario) /\ Plain(scenario)
  BY DEF SyncedInv, SyncInv, PlainInv, TypeInv, TruthfulScenarios, PlainScenarios
<1>1. ASSUME UNCHANGED communicatorVars PROVE DeliverInv'
  <2>1. \A r \in Rank : Untouched(r)
    BY <1>1 DEF communicatorVars, Untouched
  <2> QED BY <2>1, DeliverIs, DeliverIsNext, DeliverStays
<1>2. ASSUME NEW r \in Rank, Build(r) PROVE DeliverInv'
  BY <1>0, <1>2, BuildDelivers
<1>3. ASSUME NEW r \in Rank, C!StartCall(r) PROVE DeliverInv'
  BY <1>0, <1>3, StartCallDelivers
<1>4. ASSUME NEW r \in Rank, NEW q \in Rank, C!Transfer(r, q) PROVE DeliverInv'
  BY <1>0, <1>4, TransferDelivers
<1>5. ASSUME NEW r \in Rank, NEW q \in Rank, C!Scatter(r, q) PROVE DeliverInv'
  BY <1>0, <1>5, ScatterDelivers
<1> QED BY <1>1, <1>2, <1>3, <1>4, <1>5, CommunicationSteps

\* SyncedInv, DeliverInv: what is in the buffers of a communicator over synchronised lists.
THEOREM SyncedDelivery ==
  ASSUME OrderlyScenarios, TruthfulScenarios, PlainScenarios
  PROVE  SpecSynced => [](SyncedInv /\ DeliverInv)
<1>1. InitSynced => SyncedInv /\ DeliverInv
  BY CommunicationInit, DeliverInit
<1>2. SyncedInv /\ DeliverInv /\ [NextSynced]_<<vars, communicatorVars>> => (SyncedInv /\ DeliverInv)'
  <2>1. SyncedInv /\ DeliverInv /\ (NextSynced \/ (UNCHANGED vars /\ UNCHANGED communicatorVars))
          => SyncedInv' /\ DeliverInv'
    BY CommunicationStep, DeliverStep
  <2>2. [NextSynced]_<<vars, communicatorVars>>
          => NextSynced \/ (UNCHANGED vars /\ UNCHANGED communicatorVars)
    OBVIOUS
  <2> QED BY <2>1, <2>2
<1> QED BY <1>1, <1>2, PTL DEF SpecSynced

\* DeliversExactly: forward() and backward() deliver every item of a neighbour to the entry of
\* its own index, and leave none out.
THEOREM SyncedDelivers ==
  ASSUME OrderlyScenarios, TruthfulScenarios, PlainScenarios
  PROVE  SpecSynced => []DeliversExactly
<1>1. SyncedInv /\ DeliverInv => DeliversExactly
  <2> SUFFICES ASSUME SyncedInv, DeliverInv PROVE DeliversExactly
    OBVIOUS
  <2>1. CallTypeInv
    BY DEF SyncedInv, CallInv
  <2>2. ASSUME NEW r \in Rank, C!Idle(r), NEW c \in 1 .. call[r], NEW q \in DOMAIN interfaces[r],
               NEW key \in ToSet(interfaces[r][q][C!Incoming(c)])
        PROVE  \E s \in scattered[r] : s.call = c /\ s.from = q /\ s.entry = key
    <3>1. c \in 1 .. 2 /\ (call[r] > c \/ call[r] = c)
      BY <2>1 DEF CallTypeInv
    <3>2. q \notin receiving[r] \cup arrived[r]
      BY <2>2 DEF C!Idle
    <3>3. \A k \in ToSet(interfaces[r][q][C!Incoming(c)]) :
            \E s \in scattered[r] : s.call = c /\ s.from = q /\ s.entry = k
      BY <3>1, <3>2 DEF DeliverInv, ScatteredInv
    <3> QED BY <3>3
  <2>3. \A r \in Rank : \A s \in scattered[r] : s.item = <<s.from, s.entry, s.call>>
    BY DEF DeliverInv, ItemInv
  <2> QED BY <2>2, <2>3 DEF DeliversExactly, C!DeliversExactly, C!Rank, Rank, C!ToSet, ToSet
<1> QED BY <1>1, SyncedDelivery, PTL

=============================================================================
