------------------------- MODULE VariableSizeProofs -------------------------
(***************************************************************************)
(* For all numbers of ranks and calls, sizes of buffers, interfaces and    *)
(* sizes of entries: the requests and trackers of the two ends of a link   *)
(* fit together, a message meets only a receive of the same loop of the    *)
(* same call, every entry is scattered with the items gathered for it, and *)
(* the communicator implements the exchange that ChunkedExchange promises. *)
(*                                                                         *)
(* The one hypothesis is that in a call with entries on a link one of them *)
(* has items.  Without it the receiver waits for a message that is never   *)
(* sent, and none of the results is about what is after that.              *)
(***************************************************************************)
EXTENDS VariableSizeCommunicator, FiniteSetTheorems, WellFoundedInduction, TLAPS

-----------------------------------------------------------------------------
(* Natural numbers, sequences and their sums.                              *)

\* Induction over the natural numbers with a set.
LEMMA InductionOverNat ==
  ASSUME NEW T \in SUBSET Nat, 0 \in T, \A n \in T : n + 1 \in T
  PROVE  T = Nat
<1> DEFINE Less == OpToRel(<, Nat)
<1> SUFFICES ASSUME Nat \ T # {} PROVE FALSE
  OBVIOUS
<1>1. IsWellFoundedOn(Less, Nat)
  BY NatLessThanWellFounded
<1>2. \A x, y \in Nat : <<x, y>> \in Less <=> x < y
  BY DEF OpToRel
<1> HIDE DEF Less
<1>3. PICK m \in Nat \ T : \A n \in Nat \ T : ~(<<n, m>> \in Less)
  BY <1>1, WFMin
<1>4. m # 0 /\ m - 1 \in Nat
  BY <1>3
<1>5. m - 1 \in T
  <2>1. m - 1 < m
    BY <1>4
  <2> QED BY <1>2, <1>3, <1>4, <2>1
<1> QED BY <1>3, <1>4, <1>5

\* Inequalities of sums.
LEMMA SumStays ==
  ASSUME NEW a \in Nat, NEW b \in Nat, NEW c \in Nat, NEW d \in Nat, NEW x \in Nat, a + x <= b, c = b + d
  PROVE  a + x <= c
OBVIOUS

LEMMA SumTooLarge ==
  ASSUME NEW a \in Nat, NEW b \in Nat, NEW k \in Nat, NEW x \in Nat, a < b + k, k <= x
  PROVE  ~(b + x <= a)
OBVIOUS

LEMMA SumTooSmall ==
  ASSUME NEW a \in Nat, NEW b \in Nat, NEW c \in Nat, NEW k \in Nat, (b - c) + k <= a - c, k > 0
  PROVE  ~(a <= b)
OBVIOUS

\* Appending an element is appending a sequence of one.
LEMMA AppendOne ==
  ASSUME NEW U, NEW s \in Seq(U), NEW x
  PROVE  Append(s, x) = s \o <<x>>
OBVIOUS

\* A set of natural numbers that is not empty and has a bound has a greatest element.
LEMMA Greatest ==
  ASSUME NEW S \in SUBSET Nat, S # {}, NEW b \in Nat, \A x \in S : x <= b
  PROVE  \E x \in S : \A y \in S : y <= x
<1> DEFINE T == {n \in Nat : (\E x \in S : b <= x + n) => \E x \in S : \A y \in S : y <= x}
<1>1. 0 \in T
  OBVIOUS
<1>2. ASSUME NEW n \in T PROVE n + 1 \in T
  <2> SUFFICES ASSUME NEW x \in S, b <= x + (n + 1) PROVE \E z \in S : \A y \in S : y <= z
    OBVIOUS
  <2>1. CASE \E y \in S : x < y
    <3>1. PICK y \in S : x < y
      BY <2>1
    <3>2. b <= y + n
      BY <3>1
    <3> QED BY <3>2, n \in T
  <2>2. CASE ~\E y \in S : x < y
    BY <2>2
  <2> QED BY <2>1, <2>2
<1>3. T = Nat
  <2> HIDE DEF T
  <2> QED BY <1>1, <1>2, InductionOverNat DEF T
<1>4. PICK x \in S : TRUE
  OBVIOUS
<1>5. b \in T
  <2> HIDE DEF T
  <2> QED BY <1>3
<1>6. b <= x + b
  OBVIOUS
<1> QED BY <1>4, <1>5, <1>6

\* An element of a sequence.
LEMMA SeqElement ==
  ASSUME NEW S, NEW s \in Seq(S), NEW i \in 1 .. Len(s)
  PROVE  s[i] \in S
OBVIOUS

\* A function on the first natural numbers is a sequence.
LEMMA SeqOfFunction ==
  ASSUME NEW S, NEW m \in Nat, NEW s \in [1 .. m -> S]
  PROVE  s \in Seq(S) /\ Len(s) = m
OBVIOUS

-----------------------------------------------------------------------------
\* Sums of sizes.

\* The sums satisfy the recursion that defines them.
LEMMA SumsDefined ==
  ASSUME NEW w \in Seq(Nat)
  PROVE  Sums(w) = [i \in 0 .. Len(w) |-> IF i = 0 THEN 0 ELSE Sums(w)[i - 1] + w[i]]
<1> DEFINE Upto(f, k) == \A i \in 0 .. k : f[i] = IF i = 0 THEN 0 ELSE f[i - 1] + w[i]
           T == {k \in Nat : k <= Len(w) => \E f : Upto(f, k)}
<1>1. 0 \in T
  <2>1. Upto([i \in {0} |-> 0], 0)
    OBVIOUS
  <2> QED BY <2>1
<1>2. ASSUME NEW k \in T PROVE k + 1 \in T
  <2> SUFFICES ASSUME k + 1 <= Len(w) PROVE \E f : Upto(f, k + 1)
    OBVIOUS
  <2>1. PICK f : Upto(f, k)
    OBVIOUS
  <2> DEFINE g == [i \in 0 .. k + 1 |-> IF i = k + 1 THEN f[k] + w[k + 1] ELSE f[i]]
  <2>2. ASSUME NEW i \in 0 .. k + 1 PROVE g[i] = IF i = 0 THEN 0 ELSE g[i - 1] + w[i]
    <3>1. CASE i = k + 1
      BY <3>1
    <3>2. CASE i \in 0 .. k
      BY <3>2, <2>1
    <3> QED BY <3>1, <3>2
  <2> HIDE DEF g
  <2> QED BY <2>2
<1>3. T = Nat
  <2> HIDE DEF T
  <2> QED BY <1>1, <1>2, InductionOverNat DEF T
<1>4. PICK f : Upto(f, Len(w))
  <2>1. Len(w) \in T
    <3> HIDE DEF T
    <3> QED BY <1>3
  <2> QED BY <2>1
<1> DEFINE g == [i \in 0 .. Len(w) |-> f[i]]
<1>5. g = [i \in 0 .. Len(w) |-> IF i = 0 THEN 0 ELSE g[i - 1] + w[i]]
  <2>1. ASSUME NEW i \in 0 .. Len(w) PROVE g[i] = IF i = 0 THEN 0 ELSE g[i - 1] + w[i]
    <3>1. i # 0 => i - 1 \in 0 .. Len(w)
      OBVIOUS
    <3> QED BY <1>4, <3>1
  <2> HIDE DEF Upto
  <2> QED BY <2>1
<1> DEFINE sum == CHOOSE sum : sum = [i \in 0 .. Len(w) |-> IF i = 0 THEN 0 ELSE sum[i - 1] + w[i]]
<1> HIDE DEF g
<1>6. sum = [i \in 0 .. Len(w) |-> IF i = 0 THEN 0 ELSE sum[i - 1] + w[i]]
  BY <1>5, Zenon
<1>7. Sums(w) = sum
  BY DEF Sums
<1> HIDE DEF sum
<1> QED BY <1>6, <1>7

\* The sums are numbers, and each is the one before and a size.
LEMMA SumsSteps ==
  ASSUME NEW w \in Seq(Nat)
  PROVE  /\ Sums(w)[0] = 0
         /\ \A i \in 1 .. Len(w) : Sums(w)[i] = Sums(w)[i - 1] + w[i]
         /\ \A i \in 0 .. Len(w) : Sums(w)[i] \in Nat
<1> DEFINE S == Sums(w)
           T == {k \in Nat : k <= Len(w) => S[k] \in Nat}
<1>1. S = [i \in 0 .. Len(w) |-> IF i = 0 THEN 0 ELSE S[i - 1] + w[i]]
  BY SumsDefined
<1> HIDE DEF S
<1>2. S[0] = 0 /\ \A i \in 1 .. Len(w) : S[i] = S[i - 1] + w[i]
  <2>1. 0 \in 0 .. Len(w) /\ \A i \in 1 .. Len(w) : i \in 0 .. Len(w) /\ i # 0
    OBVIOUS
  <2> QED BY <1>1, <2>1
<1>3. 0 \in T
  BY <1>2
<1>4. ASSUME NEW k \in T PROVE k + 1 \in T
  <2>1. k + 1 <= Len(w) => k + 1 \in 1 .. Len(w) /\ w[k + 1] \in Nat /\ (k + 1) - 1 = k
    OBVIOUS
  <2>2. k + 1 <= Len(w) => S[k + 1] = S[k] + w[k + 1]
    BY <1>2, <2>1
  <2> QED BY <2>1, <2>2
<1>5. T = Nat
  <2> HIDE DEF T
  <2> QED BY <1>3, <1>4, InductionOverNat DEF T
<1>6. ASSUME NEW i \in 0 .. Len(w) PROVE S[i] \in Nat
  <2>1. i \in T
    BY <1>5
  <2> QED BY <2>1
<1> QED BY <1>2, <1>6 DEF S

\* Sums grow with the entries, by more than nothing where an entry has items.
LEMMA SumsGrow ==
  ASSUME NEW w \in Seq(Nat), NEW i \in 0 .. Len(w), NEW j \in i .. Len(w)
  PROVE  /\ Sums(w)[i] <= Sums(w)[j]
         /\ \A e \in i + 1 .. j : Sums(w)[i] + w[e] <= Sums(w)[j]
<1> DEFINE S == Sums(w)
           T == {k \in Nat : i + k <= Len(w) => /\ S[i] <= S[i + k]
                                                /\ \A e \in i + 1 .. i + k : S[i] + w[e] <= S[i + k]}
<1>1. /\ \A k \in 1 .. Len(w) : S[k] = S[k - 1] + w[k]
      /\ \A k \in 0 .. Len(w) : S[k] \in Nat
  BY SumsSteps
<1> HIDE DEF S
<1>2. 0 \in T
  <2>1. S[i] \in Nat /\ i + 0 = i /\ ~\E e \in i + 1 .. i + 0 : TRUE
    BY <1>1
  <2> QED BY <2>1
<1>3. ASSUME NEW k \in T PROVE k + 1 \in T
  <2> SUFFICES ASSUME i + (k + 1) <= Len(w)
               PROVE  /\ S[i] <= S[i + (k + 1)]
                      /\ \A e \in i + 1 .. i + (k + 1) : S[i] + w[e] <= S[i + (k + 1)]
    OBVIOUS
  <2>1. PICK m \in Nat : m = i + k
    OBVIOUS
  <2>2. m + 1 = i + (k + 1) /\ m + 1 \in 1 .. Len(w) /\ (m + 1) - 1 = m /\ m \in 0 .. Len(w) /\ w[m + 1] \in Nat
    BY <2>1
  <2>3. S[m + 1] = S[m] + w[m + 1] /\ S[m] \in Nat /\ S[i] \in Nat
    BY <1>1, <2>2
  <2>4. S[i] <= S[m] /\ \A e \in i + 1 .. m : S[i] + w[e] <= S[m]
    BY <2>1, <2>2
  <2>5. ASSUME NEW e \in i + 1 .. m + 1 PROVE S[i] + w[e] <= S[m + 1]
    <3>1. CASE e = m + 1
      BY <2>3, <2>4, <2>2, <3>1
    <3>2. CASE e \in i + 1 .. m
      <4>1. w[e] \in Nat
        BY <2>2, <3>2
      <4>2. S[i] + w[e] <= S[m]
        BY <2>4, <3>2
      <4>3. S[m + 1] \in Nat /\ w[m + 1] \in Nat
        BY <1>1, <2>2
      <4>4. PICK a \in Nat, b \in Nat, c \in Nat, d \in Nat, x \in Nat :
              a = S[i] /\ b = S[m] /\ c = S[m + 1] /\ d = w[m + 1] /\ x = w[e]
        BY <2>3, <4>1, <4>3
      <4>5. a + x <= b /\ c = b + d
        BY <2>3, <4>2, <4>4
      <4>6. a + x <= c
        BY <4>5, SumStays
      <4> QED BY <4>4, <4>6
    <3> QED BY <2>2, <3>1, <3>2
  <2>6. S[i] <= S[m + 1]
    BY <2>2, <2>3, <2>4
  <2>7. \A e \in i + 1 .. m + 1 : S[i] + w[e] <= S[m + 1]
    BY <2>5
  <2> QED BY <2>2, <2>6, <2>7
<1>4. T = Nat
  <2> HIDE DEF T
  <2> QED BY <1>2, <1>3, InductionOverNat DEF T
<1>5. PICK k \in Nat : i + k = j
  <2>1. j - i \in Nat /\ i + (j - i) = j
    OBVIOUS
  <2> QED BY <2>1
<1>6. k \in T
  <2> HIDE DEF T
  <2> QED BY <1>4
<1> QED BY <1>5, <1>6 DEF S

\* The sum of the sizes of the entries between two.
LEMMA SizeSums ==
  ASSUME NEW w \in Seq(Nat), NEW i \in 0 .. Len(w), NEW j \in i .. Len(w), NEW k \in j .. Len(w)
  PROVE  /\ SizeSum(w, i, j) \in Nat
         /\ SizeSum(w, i, i) = 0
         /\ SizeSum(w, i, k) = SizeSum(w, i, j) + SizeSum(w, j, k)
         /\ SizeSum(w, i, j) <= SizeSum(w, i, k)
<1>1. Sums(w)[i] \in Nat /\ Sums(w)[j] \in Nat /\ Sums(w)[k] \in Nat
  BY SumsSteps
<1>2. Sums(w)[i] <= Sums(w)[j] /\ Sums(w)[j] <= Sums(w)[k]
  BY SumsGrow
<1> QED BY <1>1, <1>2 DEF SizeSum

\* One entry more adds its size.
LEMMA SizeSumStep ==
  ASSUME NEW w \in Seq(Nat), NEW i \in 0 .. Len(w), NEW e \in i + 1 .. Len(w)
  PROVE  /\ e - 1 \in i .. Len(w)
         /\ SizeSum(w, i, e) = SizeSum(w, i, e - 1) + w[e]
<1>1. PICK d \in Nat : e = d + 1
  BY e - 1 \in Nat
<1>2. e - 1 = d /\ e \in 1 .. Len(w) /\ d \in 0 .. Len(w) /\ e \in 0 .. Len(w) /\ w[e] \in Nat
  BY <1>1
<1>3. Sums(w)[e] = Sums(w)[d] + w[e] /\ Sums(w)[d] \in Nat /\ Sums(w)[i] \in Nat
  BY <1>2, SumsSteps
<1>4. SizeSum(w, i, e) = Sums(w)[e] - Sums(w)[i] /\ SizeSum(w, i, d) = Sums(w)[d] - Sums(w)[i]
  BY DEF SizeSum
<1> QED BY <1>1, <1>2, <1>3, <1>4

\* Nothing is between two entries if the sums are the same.
LEMMA NoItemsBetween ==
  ASSUME NEW w \in Seq(Nat), NEW i \in 0 .. Len(w), NEW j \in i .. Len(w), NEW e \in i + 1 .. j
  PROVE  w[e] \in Nat /\ w[e] <= SizeSum(w, i, j)
<1>1. w[e] \in Nat /\ Sums(w)[i] + w[e] <= Sums(w)[j] /\ Sums(w)[i] \in Nat /\ Sums(w)[j] \in Nat
  BY SumsGrow, SumsSteps
<1> QED BY <1>1 DEF SizeSum

-----------------------------------------------------------------------------
\* How far a buffer goes.

\* Every entry fits in a buffer.
Sizes == Seq(0 .. maxBufferSize)

\* There are items left behind the first entries, if there are entries left.
ItemsLeft(size, i) == i < Len(size) => \E e \in i + 1 .. Len(size) : size[e] > 0

\* Sizes are numbers.
LEMMA SizesAreNat == maxBufferSize \in Nat /\ maxBufferSize > 0 /\ Sizes \subseteq Seq(Nat)
BY CommunicatorAssumption DEF Sizes

\* What is packed fits in the buffer, and with the next entry would not.
LEMMA PackRight ==
  ASSUME NEW w \in Sizes, NEW i \in 0 .. Len(w)
  PROVE  /\ Pack(w, i) \in i .. Len(w)
         /\ \A j \in i .. Len(w) : j <= Pack(w, i) <=> SizeSum(w, i, j) <= maxBufferSize
<1> DEFINE S == {j \in i .. Len(w) : SizeSum(w, i, j) <= maxBufferSize}
<1>0. w \in Seq(Nat) /\ maxBufferSize \in Nat
  BY SizesAreNat
<1>1. i \in S
  <2>1. SizeSum(w, i, i) = 0
    BY <1>0, SizeSums
  <2> QED BY <2>1, <1>0
<1>2. PICK p \in S : \A j \in S : j <= p
  <2>1. S \in SUBSET Nat /\ S # {} /\ Len(w) \in Nat /\ \A j \in S : j <= Len(w)
    BY <1>0, <1>1
  <2> HIDE DEF S
  <2> QED BY <2>1, Greatest
<1>3. ASSUME NEW j \in i .. Len(w) PROVE j <= p <=> SizeSum(w, i, j) <= maxBufferSize
  <2>1. ASSUME j <= p PROVE SizeSum(w, i, j) <= maxBufferSize
    <3>1. p \in j .. Len(w)
      BY <1>2, <2>1
    <3>2. SizeSum(w, i, j) <= SizeSum(w, i, p) /\ SizeSum(w, i, j) \in Nat /\ SizeSum(w, i, p) \in Nat
      BY <1>0, <3>1, SizeSums
    <3> QED BY <3>2, <1>0, <1>2
  <2>2. ASSUME SizeSum(w, i, j) <= maxBufferSize PROVE j <= p
    BY <1>2, <2>2
  <2> QED BY <2>1, <2>2
<1>4. p \in i .. Len(w)
  BY <1>2
<1> QED BY <1>3, <1>4 DEF Pack

\* A message is cut only in front of an entry with items, and is empty only if
\* no items are left.
LEMMA PackStops ==
  ASSUME NEW w \in Sizes, NEW i \in 0 .. Len(w)
  PROVE  /\ Pack(w, i) < Len(w) => w[Pack(w, i) + 1] > 0
         /\ ItemsLeft(w, Pack(w, i))
         /\ i < Len(w) /\ ItemsLeft(w, i) => i < Pack(w, i) /\ SizeSum(w, i, Pack(w, i)) > 0
         /\ SizeSum(w, i, Pack(w, i)) \in 0 .. maxBufferSize
<1> DEFINE p == Pack(w, i)
<1>0. w \in Seq(Nat) /\ maxBufferSize \in Nat
  BY SizesAreNat
<1>1. p \in i .. Len(w) /\ \A j \in i .. Len(w) : j <= p <=> SizeSum(w, i, j) <= maxBufferSize
  BY PackRight
<1> HIDE DEF p
<1>2. SizeSum(w, i, p) \in 0 .. maxBufferSize
  <2>1. SizeSum(w, i, p) \in Nat
    BY <1>0, <1>1, SizeSums
  <2> QED BY <2>1, <1>0, <1>1
<1>3. ASSUME p < Len(w)
      PROVE  /\ w[p + 1] \in Nat /\ w[p + 1] > 0 /\ w[p + 1] <= maxBufferSize
             /\ SizeSum(w, i, p) + w[p + 1] > maxBufferSize
  <2>1. p + 1 \in i + 1 .. Len(w) /\ (p + 1) - 1 = p /\ p + 1 \in i .. Len(w) /\ ~(p + 1 <= p)
    BY <1>1, <1>3, <1>0
  <2>2. SizeSum(w, i, p + 1) = SizeSum(w, i, p) + w[p + 1]
    BY <2>1, <1>0, SizeSumStep
  <2>3. ~(SizeSum(w, i, p + 1) <= maxBufferSize)
    BY <1>1, <2>1
  <2>4. w[p + 1] \in 0 .. maxBufferSize
    <3>1. p + 1 \in 1 .. Len(w)
      BY <2>1
    <3>2. w \in Seq(0 .. maxBufferSize)
      BY DEF Sizes
    <3> QED BY <3>1, <3>2, SeqElement
  <2> QED BY <1>0, <1>2, <2>2, <2>3, <2>4
<1>4. ASSUME i < Len(w), ItemsLeft(w, i) PROVE i < p /\ SizeSum(w, i, p) > 0
  <2>1. PICK e \in i + 1 .. Len(w) : w[e] > 0
    BY <1>4 DEF ItemsLeft
  <2>2. SizeSum(w, i, p) > 0
    <3>1. CASE p < Len(w)
      BY <1>3, <3>1, <1>2, <1>0
    <3>2. CASE p = Len(w)
      <4>1. w[e] \in Nat /\ w[e] <= SizeSum(w, i, p)
        BY <2>1, <3>2, <1>0, <1>1, NoItemsBetween
      <4> QED BY <4>1, <2>1, <1>2
    <3> QED BY <1>1, <3>1, <3>2
  <2>3. i # p
    <3>1. SizeSum(w, i, i) = 0
      BY <1>0, SizeSums
    <3> QED BY <3>1, <2>2
  <2> QED BY <2>2, <2>3, <1>1
<1>5. ItemsLeft(w, p)
  <2>1. p < Len(w) => p + 1 \in p + 1 .. Len(w)
    BY <1>1
  <2> QED BY <1>3, <2>1 DEF ItemsLeft
<1> QED BY <1>2, <1>3, <1>4, <1>5 DEF p

-----------------------------------------------------------------------------
\* The entry an item is of.

\* Every item of a message is of an entry.
LEMMA EntryOfExists ==
  ASSUME NEW w \in Seq(Nat), NEW from \in 0 .. Len(w), NEW to \in from .. Len(w),
         NEW k \in 1 .. SizeSum(w, from, to)
  PROVE  EntryOf(w, from, k) \in 1 .. Len(w)
<1> DEFINE S == {i \in from .. to : SizeSum(w, from, i) < k}
<1>0. from \in Nat /\ to \in Nat /\ Len(w) \in Nat /\ SizeSum(w, from, to) \in Nat /\ k \in Nat /\ k > 0
  BY SizeSums
<1>1. from \in S
  <2>1. SizeSum(w, from, from) = 0
    BY SizeSums
  <2> QED BY <1>0, <2>1
<1>2. PICK q \in S : \A i \in S : i <= q
  <2>1. from .. to \subseteq Nat /\ \A i \in from .. to : i <= to
    BY <1>0
  <2>2. S \subseteq from .. to
    OBVIOUS
  <2> HIDE DEF S
  <2>3. S \in SUBSET Nat /\ S # {} /\ \A i \in S : i <= to
    BY <1>1, <2>1, <2>2
  <2> QED BY <1>0, <2>3, Greatest
<1>3. q # to /\ q \in from .. to
  BY <1>0, <1>2
<1>4. q + 1 \in from .. to /\ q + 1 \in 1 .. Len(w) /\ (q + 1) - 1 = q /\ ~(q + 1 <= q)
  BY <1>0, <1>3
<1>5. ~(SizeSum(w, from, q + 1) < k)
  BY <1>2, <1>4
<1>6. SizeSum(w, from, q + 1) \in Nat
  BY <1>0, <1>4, SizeSums
<1>7. SizeSum(w, from, (q + 1) - 1) < k /\ k <= SizeSum(w, from, q + 1)
  BY <1>0, <1>2, <1>4, <1>5, <1>6
<1> QED BY <1>4, <1>7 DEF EntryOf

\* The items of an entry lie behind those of the entries before it.
LEMMA EntryOfUnique ==
  ASSUME NEW w \in Seq(Nat), NEW from \in 0 .. Len(w), NEW e \in from + 1 .. Len(w), NEW k \in 1 .. w[e]
  PROVE  EntryOf(w, from, SizeSum(w, from, e - 1) + k) = e
<1> DEFINE S == Sums(w)
           n == SizeSum(w, from, e - 1) + k
           In2(i) == SizeSum(w, from, i - 1) < n /\ n <= SizeSum(w, from, i)
<1>1. PICK d \in Nat : e = d + 1
  BY e - 1 \in Nat
<1>2. e \in 1 .. Len(w) /\ w[e] \in Nat /\ d \in from .. Len(w) /\ e - 1 = d /\ k \in Nat /\ k > 0 /\ k <= w[e]
  BY <1>1
<1>3. SizeSum(w, from, e) = SizeSum(w, from, d) + w[e] /\ SizeSum(w, from, d) \in Nat
  <2>1. SizeSum(w, from, d) \in Nat
    BY <1>2, SizeSums
  <2>2. SizeSum(w, from, e) = SizeSum(w, from, e - 1) + w[e]
    BY SizeSumStep
  <2> QED BY <2>1, <2>2, <1>2
<1>4. In2(e)
  BY <1>2, <1>3
<1>5. ASSUME NEW i \in 1 .. Len(w), In2(i) PROVE i = e
  <2>1. PICK h \in Nat : i = h + 1
    BY i - 1 \in Nat
  <2>2. i - 1 = h /\ h \in 0 .. Len(w) /\ from \in 0 .. Len(w) /\ d \in 0 .. Len(w)
    BY <2>1, <1>2
  <2>3. S[h] \in Nat /\ S[i] \in Nat /\ S[d] \in Nat /\ S[e] \in Nat /\ S[from] \in Nat
    BY <2>2, <1>2, SumsSteps
  <2>4. SizeSum(w, from, h) = S[h] - S[from] /\ SizeSum(w, from, i) = S[i] - S[from]
        /\ SizeSum(w, from, d) = S[d] - S[from] /\ SizeSum(w, from, e) = S[e] - S[from]
    BY DEF SizeSum
  <2> HIDE DEF S
  <2>5. S[h] - S[from] < S[d] - S[from] + k /\ S[d] - S[from] + k <= S[i] - S[from]
    BY <1>5, <2>2, <2>4, <1>2
  <2>6. S[e] = S[d] + w[e]
    <3>1. Sums(w)[e] = Sums(w)[e - 1] + w[e]
      BY <1>2, SumsSteps
    <3> QED BY <3>1, <1>2 DEF S
  <2>7. i < e => S[i] <= S[d]
    BY <1>1, <1>2, <2>1, <2>2, SumsGrow DEF S
  <2>8. e < i => S[e] <= S[h]
    BY <1>1, <1>2, <2>1, <2>2, SumsGrow DEF S
  <2>9. ~(i < e)
    <3> HIDE DEF In2, n
    <3>1. ~(S[i] <= S[d])
      BY <2>3, <2>5, <1>2, SumTooSmall
    <3> QED BY <3>1, <2>7
  <2>10. ~(e < i)
    <3>1. S[h] < S[d] + k
      <4>1. PICK a \in Nat, b \in Nat, c \in Nat : a = S[h] /\ b = S[d] /\ c = S[from]
        BY <2>3
      <4>2. a - c < (b - c) + k
        BY <4>1, <2>5
      <4>3. a < b + k
        BY <4>2, <1>2
      <4> QED BY <4>1, <4>3
    <3>2. e < i => S[d] + w[e] <= S[h]
      BY <2>6, <2>8
    <3>3. w[e] \in Nat /\ k <= w[e]
      BY <1>2
    <3> HIDE DEF In2, n
    <3>4. ~(S[d] + w[e] <= S[h])
      BY <3>1, <3>3, <2>3, <1>2, SumTooLarge
    <3> QED BY <3>2, <3>4
  <2> QED BY <2>9, <2>10, <1>2
<1> HIDE DEF n
<1>6. (CHOOSE i \in 1 .. Len(w) : In2(i)) = e
  <2> HIDE DEF In2
  <2> QED BY <1>2, <1>4, <1>5
<1> QED BY <1>6 DEF EntryOf, n

\* Where every entry has one size.
LEMMA SumsOfOne ==
  ASSUME NEW w \in Seq(Nat), NEW c \in Nat, \A i \in 1 .. Len(w) : w[i] = c
  PROVE  \A i \in 0 .. Len(w) : Sums(w)[i] = i * c
<1> DEFINE S == Sums(w)
           T == {k \in Nat : k <= Len(w) => S[k] = k * c}
<1>1. S[0] = 0 /\ \A i \in 1 .. Len(w) : S[i] = S[i - 1] + w[i]
  BY SumsSteps
<1> HIDE DEF S
<1>2. 0 \in T
  BY <1>1
<1>3. ASSUME NEW k \in T PROVE k + 1 \in T
  <2>1. k + 1 <= Len(w) => k + 1 \in 1 .. Len(w) /\ (k + 1) - 1 = k
    OBVIOUS
  <2>2. k + 1 <= Len(w) => S[k + 1] = S[k] + c
    BY <1>1, <2>1
  <2>3. (k + 1) * c = k * c + c
    OBVIOUS
  <2> QED BY <2>1, <2>2, <2>3
<1>4. T = Nat
  <2> HIDE DEF T
  <2> QED BY <1>2, <1>3, InductionOverNat DEF T
<1>5. ASSUME NEW i \in 0 .. Len(w) PROVE S[i] = i * c
  <2>1. i \in T
    BY <1>4
  <2> QED BY <2>1
<1> QED BY <1>5 DEF S

-----------------------------------------------------------------------------
\* The interfaces and the data handle.

\* In a call with entries for a neighbour some of them have items: without items
\* the receiver waits for a message that is never sent.
ItemsInEveryCall == \A s \in Scenarios : HasItems(s)

\* The ends of the link are neighbours.
Linked(l) == scenario.interface[l] + scenario.interface[Opposite(l)] > 0

\* A link has two ends, and the opposite one is a link.
LEMMA LinkEnds ==
  ASSUME NEW l \in Links
  PROVE  /\ l = <<l[1], l[2]>> /\ l[1] \in Rank /\ l[2] \in Rank
         /\ Opposite(l) \in Links /\ Opposite(l) = <<l[2], l[1]>>
BY DEF Links, Opposite

\* The links of a rank are those of its neighbours.
LEMMA LinksOf ==
  ASSUME scenario \in Scenarios, NEW l, NEW r \in Rank
  PROVE  /\ l \in Out(r) <=> l \in Links /\ l[1] = r /\ Linked(l)
         /\ l \in In(r) <=> l \in Links /\ l[2] = r /\ Linked(l)
<1>1. scenario.interface \in [Links -> Nat]
  BY CommunicatorAssumption DEF Scenario
<1>2. \A q \in Rank : <<r, q>> \in Links /\ <<q, r>> \in Links
  BY DEF Links
<1>3. \A q \in Rank : scenario.interface[<<r, q>>] \in Nat /\ scenario.interface[<<q, r>>] \in Nat
  BY <1>1, <1>2
<1>4. \A q \in Rank : q \in Neighbours(r) <=> scenario.interface[<<r, q>>] + scenario.interface[<<q, r>>] > 0
  BY DEF Neighbours
<1>5. \A q \in Rank : /\ Linked(<<r, q>>) <=> scenario.interface[<<r, q>>] + scenario.interface[<<q, r>>] > 0
                      /\ Linked(<<q, r>>) <=> scenario.interface[<<q, r>>] + scenario.interface[<<r, q>>] > 0
  BY DEF Linked, Opposite
<1>6. \A q \in Rank : (q \in Neighbours(r) <=> Linked(<<r, q>>)) /\ (q \in Neighbours(r) <=> Linked(<<q, r>>))
  BY <1>3, <1>4, <1>5
<1>7. Neighbours(r) \subseteq Rank
  BY DEF Neighbours
<1>8. l \in Out(r) <=> l \in Links /\ l[1] = r /\ Linked(l)
  <2>1. ASSUME l \in Out(r) PROVE l \in Links /\ l[1] = r /\ Linked(l)
    <3>1. PICK q \in Neighbours(r) : l = <<r, q>>
      BY <2>1 DEF Out
    <3>2. q \in Rank
      BY <1>7
    <3> QED BY <3>1, <3>2, <1>2, <1>6
  <2>2. l \in Links /\ l[1] = r /\ Linked(l) => l \in Out(r)
    BY <1>6, LinkEnds DEF Out
  <2> QED BY <2>1, <2>2
<1>9. l \in In(r) <=> l \in Links /\ l[2] = r /\ Linked(l)
  <2>1. ASSUME l \in In(r) PROVE l \in Links /\ l[2] = r /\ Linked(l)
    <3>1. PICK q \in Neighbours(r) : l = <<q, r>>
      BY <2>1 DEF In
    <3>2. q \in Rank
      BY <1>7
    <3> QED BY <3>1, <3>2, <1>2, <1>6
  <2>2. l \in Links /\ l[2] = r /\ Linked(l) => l \in In(r)
    BY <1>6, LinkEnds DEF In
  <2> QED BY <2>1, <2>2
<1> QED BY <1>8, <1>9

\* What a scenario says of the entries and sizes of a link in a call.
LEMMA CallFacts ==
  ASSUME scenario \in Scenarios, NEW n \in 1 .. NumCalls, NEW l \in Links
  PROVE  /\ Call(n).fixedSize \in BOOLEAN
         /\ Entries(n, l) \in Nat
         /\ Call(n).size[l] \in Sizes /\ Len(Call(n).size[l]) = Entries(n, l)
         /\ \A i \in 1 .. Entries(n, l) : Size(n, l, i) \in 0 .. maxBufferSize
         /\ Call(n).fixedSize => \A i \in 1 .. Entries(n, l) : Size(n, l, i) = Size(n, l, 1) /\ Size(n, l, 1) > 0
         /\ Entries(n, l) > 0 => Linked(l)
<1>1. Scenario(scenario)
  BY CommunicatorAssumption
<1> DEFINE size == Call(n).size[l]
<1>2. /\ Call(n).fixedSize \in BOOLEAN /\ Call(n).forward \in BOOLEAN
      /\ size \in Seq(0 .. maxBufferSize)
      /\ Len(size) = scenario.interface[IF Call(n).forward THEN l ELSE Opposite(l)]
      /\ Call(n).fixedSize => \A i \in DOMAIN size : size[i] = size[1] /\ size[1] > 0
      /\ scenario.interface \in [Links -> Nat]
  BY <1>1 DEF Scenario, Call
<1>3. Len(size) = Entries(n, l)
  BY <1>2 DEF Entries
<1>4. \A i \in 1 .. Entries(n, l) : Size(n, l, i) = size[i] /\ i \in DOMAIN size /\ i \in 1 .. Len(size)
  BY <1>2, <1>3 DEF Size
<1>5. \A i \in 1 .. Entries(n, l) : Size(n, l, i) \in 0 .. maxBufferSize
  <2> HIDE DEF size
  <2> QED BY <1>2, <1>4, SeqElement
<1>6. Call(n).fixedSize => \A i \in 1 .. Entries(n, l) : Size(n, l, i) = Size(n, l, 1) /\ Size(n, l, 1) > 0
  BY <1>2, <1>4 DEF Size
<1>7. Entries(n, l) > 0 => Linked(l)
  <2>1. scenario.interface[l] \in Nat /\ scenario.interface[Opposite(l)] \in Nat
    BY <1>2, LinkEnds
  <2>2. Entries(n, l) \in {scenario.interface[l], scenario.interface[Opposite(l)]}
    BY DEF Entries
  <2> QED BY <2>1, <2>2 DEF Linked
<1>8. Entries(n, l) \in Nat
  BY <1>2, <1>3
<1> QED BY <1>2, <1>3, <1>5, <1>6, <1>7, <1>8 DEF Sizes

\* The sizes of both loops are sizes, and there is something to be sent.
LEMMA HandleFacts ==
  ASSUME scenario \in Scenarios, ItemsInEveryCall, NEW n \in 1 .. NumCalls, NEW l \in Links, NEW loop
  PROVE  /\ HandleSize(loop, n, l) \in Sizes
         /\ Len(HandleSize(loop, n, l)) = Entries(n, l)
         /\ ItemsLeft(HandleSize(loop, n, l), 0)
<1>0. /\ Entries(n, l) \in Nat /\ Call(n).size[l] \in Sizes /\ Len(Call(n).size[l]) = Entries(n, l)
      /\ maxBufferSize \in Nat /\ maxBufferSize > 0
  BY CallFacts, SizesAreNat
<1>1. CASE loop = "sizes"
  <2> DEFINE ones == [i \in 1 .. Entries(n, l) |-> 1]
  <2>1. ones \in Sizes /\ Len(ones) = Entries(n, l) /\ \A i \in 1 .. Entries(n, l) : ones[i] = 1
    BY <1>0 DEF Sizes
  <2>2. HandleSize(loop, n, l) = ones
    BY <1>1 DEF HandleSize
  <2> HIDE DEF ones
  <2>3. 0 < Len(ones) => Len(ones) \in 0 + 1 .. Len(ones) /\ ones[Len(ones)] > 0
    BY <1>0, <2>1
  <2> QED BY <2>1, <2>2, <2>3 DEF ItemsLeft
<1>2. CASE loop # "sizes"
  <2> DEFINE size == Call(n).size[l]
  <2>1. HandleSize(loop, n, l) = size
    BY <1>2 DEF HandleSize
  <2>2. Len(size) > 0 => \E i \in DOMAIN size : size[i] > 0
    BY DEF ItemsInEveryCall, HasItems, Call
  <2>3. DOMAIN size = 1 .. Len(size)
    BY <1>0 DEF Sizes
  <2> HIDE DEF size
  <2>4. ItemsLeft(size, 0)
    BY <2>2, <2>3, <1>0 DEF ItemsLeft
  <2> QED BY <2>1, <2>4, <1>0 DEF size
<1> QED BY <1>1, <1>2

-----------------------------------------------------------------------------
\* The messages.

Datum == [kind : {"size", "item"}, call : Nat, value : Nat]

\* A message holds the items of its entries, one entry after the other.
LEMMA MessageFacts ==
  ASSUME scenario \in Scenarios, ItemsInEveryCall, NEW n \in 1 .. NumCalls, NEW l \in Links, NEW loop,
         NEW from \in 0 .. Entries(n, l), NEW to \in from .. Entries(n, l)
  PROVE  /\ Gathered(loop, n, l, from, to) \in Seq(Datum)
         /\ Len(Gathered(loop, n, l, from, to)) = SizeSum(HandleSize(loop, n, l), from, to)
         /\ \A e \in from + 1 .. to : \A k \in 1 .. HandleSize(loop, n, l)[e] :
              /\ SizeSum(HandleSize(loop, n, l), from, e - 1) + k \in DOMAIN Gathered(loop, n, l, from, to)
              /\ Gathered(loop, n, l, from, to)[SizeSum(HandleSize(loop, n, l), from, e - 1) + k]
                   = Gather(loop, n, l, e)
<1> DEFINE w == HandleSize(loop, n, l)
           m == Entries(n, l)
           total == SizeSum(w, from, to)
           message == Gathered(loop, n, l, from, to)
<1>1. w \in Seq(Nat) /\ Len(w) = m /\ m \in Nat
  BY HandleFacts, CallFacts, SizesAreNat
<1>2. message = [k \in 1 .. total |-> Gather(loop, n, l, EntryOf(w, from, k))]
  BY DEF Gathered
<1>3. total \in Nat
  <2> HIDE DEF w
  <2> QED BY <1>1, SizeSums
<1>4. \A e \in 1 .. m : Gather(loop, n, l, e) \in Datum
  <2> SUFFICES ASSUME NEW e \in 1 .. m PROVE Gather(loop, n, l, e) \in Datum
    OBVIOUS
  <2>1. n \in Nat /\ e \in Nat
    BY <1>1, CommunicatorAssumption
  <2>2. Size(n, l, e) \in Nat
    BY CallFacts, SizesAreNat
  <2> QED BY <2>1, <2>2 DEF Gather, Item, Datum
<1>5. \A k \in 1 .. total : EntryOf(w, from, k) \in 1 .. m
  <2> HIDE DEF w
  <2> QED BY <1>1, EntryOfExists
<1>6. message \in Seq(Datum) /\ Len(message) = total /\ DOMAIN message = 1 .. total
  <2> HIDE DEF w, total, message
  <2> QED BY <1>2, <1>3, <1>4, <1>5
<1>7. ASSUME NEW e \in from + 1 .. to, NEW k \in 1 .. w[e]
      PROVE  /\ SizeSum(w, from, e - 1) + k \in DOMAIN message
             /\ message[SizeSum(w, from, e - 1) + k] = Gather(loop, n, l, e)
  <2> HIDE DEF w
  <2> DEFINE j == SizeSum(w, from, e - 1) + k
  <2>1. e \in from + 1 .. Len(w) /\ w[e] \in Nat /\ from \in 0 .. Len(w) /\ e \in from .. Len(w) /\ to \in e .. Len(w)
    BY <1>1
  <2>2. SizeSum(w, from, e) = SizeSum(w, from, e - 1) + w[e] /\ e - 1 \in from .. Len(w)
    BY <1>1, <2>1, SizeSumStep
  <2>3. SizeSum(w, from, e - 1) \in Nat /\ SizeSum(w, from, e) <= total
    BY <1>1, <2>1, <2>2, SizeSums
  <2>4. j \in 1 .. total
    BY <1>3, <2>1, <2>2, <2>3
  <2>5. EntryOf(w, from, j) = e
    BY <1>1, <2>1, EntryOfUnique
  <2> HIDE DEF j, total, message
  <2>6. message[j] = Gather(loop, n, l, e)
    BY <1>2, <2>4, <2>5
  <2> QED BY <2>4, <2>6, <1>6 DEF j
<1> QED BY <1>6, <1>7

-----------------------------------------------------------------------------
\* The entries that are unpacked.

\* The quotient is the number of times the divisor fits.
LEMMA Quotient ==
  ASSUME NEW b \in Nat, NEW c \in Nat, c > 0, NEW k \in Nat
  PROVE  b \div c \in Nat /\ (k <= b \div c <=> k * c <= b)
<1> DEFINE q == b \div c
<1>1. q \in Nat /\ q * c <= b /\ b < (q + 1) * c
  OBVIOUS
<1> HIDE DEF q
<1>2. ASSUME k <= q PROVE k * c <= b
  <2>1. PICK d \in Nat : q = k + d
    <3>1. q - k \in Nat /\ q = k + (q - k)
      BY <1>1, <1>2
    <3> QED BY <3>1
  <2>2. q * c = k * c + d * c /\ d * c \in Nat /\ k * c \in Nat
    BY <2>1
  <2> QED BY <1>1, <2>2
<1>3. ASSUME ~(k <= q) PROVE ~(k * c <= b)
  <2>1. PICK d \in Nat : k = (q + 1) + d
    <3>1. k - (q + 1) \in Nat /\ k = (q + 1) + (k - (q + 1))
      BY <1>1, <1>3
    <3> QED BY <3>1
  <2>2. k * c = (q + 1) * c + d * c /\ d * c \in Nat /\ (q + 1) * c \in Nat /\ k * c \in Nat
    BY <1>1, <2>1
  <2> QED BY <1>1, <2>2
<1> QED BY <1>1, <1>2, <1>3 DEF q

\* With the same size of all entries a message has a fixed number of them.
LEMMA PackOfOne ==
  ASSUME NEW w \in Sizes, NEW c \in Nat, c > 0, \A i \in 1 .. Len(w) : w[i] = c, NEW i \in 0 .. Len(w)
  PROVE  LET fits == maxBufferSize \div c
         IN Pack(w, i) = i + (IF fits < Len(w) - i THEN fits ELSE Len(w) - i)
<1> DEFINE fits == maxBufferSize \div c
           p == Pack(w, i)
<1>0. w \in Seq(Nat) /\ maxBufferSize \in Nat
  BY SizesAreNat
<1>1. fits \in Nat /\ \A k \in Nat : k <= fits <=> k * c <= maxBufferSize
  BY <1>0, Quotient
<1>2. p \in i .. Len(w) /\ \A j \in i .. Len(w) : j <= p <=> SizeSum(w, i, j) <= maxBufferSize
  BY PackRight
<1>3. ASSUME NEW k \in Nat, i + k <= Len(w) PROVE SizeSum(w, i, i + k) = k * c
  <2>1. i + k \in 0 .. Len(w)
    BY <1>3
  <2>2. Sums(w)[i + k] = (i + k) * c /\ Sums(w)[i] = i * c
    BY <1>0, <2>1, SumsOfOne
  <2>3. (i + k) * c = i * c + k * c /\ i * c \in Nat /\ k * c \in Nat
    OBVIOUS
  <2> QED BY <2>2, <2>3 DEF SizeSum
<1> HIDE DEF fits, p
<1>4. ASSUME NEW k \in Nat, i + k <= Len(w) PROVE i + k <= p <=> k <= fits
  <2>1. i + k \in i .. Len(w)
    BY <1>4
  <2> QED BY <1>1, <1>2, <1>3, <1>4, <2>1
<1>5. PICK d \in Nat : p = i + d
  <2>1. p - i \in Nat /\ p = i + (p - i)
    BY <1>2
  <2> QED BY <2>1
<1>6. PICK r \in Nat : Len(w) = i + r
  <2>1. Len(w) - i \in Nat /\ Len(w) = i + (Len(w) - i)
    OBVIOUS
  <2> QED BY <2>1
<1>7. d <= r /\ Len(w) - i = r
  BY <1>2, <1>5, <1>6
<1>8. d <= fits
  BY <1>4, <1>5, <1>6, <1>7
<1>9. d < r => ~(d + 1 <= fits)
  <2>1. ASSUME d < r PROVE ~(d + 1 <= fits)
    <3>1. i + (d + 1) <= Len(w) /\ ~(i + (d + 1) <= p) /\ d + 1 \in Nat
      BY <2>1, <1>5, <1>6
    <3> QED BY <3>1, <1>4
  <2> QED BY <2>1
<1>10. d = IF fits < r THEN fits ELSE r
  BY <1>1, <1>7, <1>8, <1>9
<1> QED BY <1>5, <1>7, <1>10 DEF p, fits

\* What has arrived of the sizes.
LEMMA UnpackSizesRight ==
  ASSUME scenario \in Scenarios, ItemsInEveryCall, NEW n \in 1 .. NumCalls, NEW l \in Links,
         recvIndex[l] \in 0 .. Entries(n, l),
         sizes[l] \in Sizes, Len(sizes[l]) = Entries(n, l),
         \A i \in 1 .. recvIndex[l] : sizes[l][i] = Size(n, l, i)
  PROVE  LET to == PackEntries("sizes", n, l, recvIndex[l])
             unpacked == UnpackSizes(l, Gathered("sizes", n, l, recvIndex[l], to))
         IN /\ unpacked.index = to /\ unpacked.scattered = <<>>
            /\ unpacked.sizes \in Sizes /\ Len(unpacked.sizes) = Entries(n, l)
            /\ \A i \in 1 .. to : unpacked.sizes[i] = Size(n, l, i)
<1> DEFINE w == HandleSize("sizes", n, l)
           index == recvIndex[l]
           m == Entries(n, l)
           to == PackEntries("sizes", n, l, index)
           message == Gathered("sizes", n, l, index, to)
           no == IF maxBufferSize < Len(sizes[l]) - index THEN maxBufferSize ELSE Len(sizes[l]) - index
           known == [i \in DOMAIN sizes[l] |->
                       IF i \in index + 1 .. index + no THEN Read(message, i - index).value ELSE sizes[l][i]]
           unpacked == UnpackSizes(l, message)
<1>0. w \in Sizes /\ w \in Seq(Nat) /\ Len(w) = m /\ m \in Nat /\ maxBufferSize \in Nat /\ maxBufferSize > 0
  BY HandleFacts, CallFacts, SizesAreNat
<1>1. \A i \in 1 .. Len(w) : w[i] = 1
  BY <1>0 DEF HandleSize
<1>2. to = Pack(w, index)
  BY DEF PackEntries
<1>3. \A i \in 1 .. m : Size(n, l, i) \in 0 .. maxBufferSize
  BY CallFacts
<1>4. /\ unpacked.index = index + no /\ unpacked.sizes = known /\ unpacked.scattered = <<>>
  BY DEF UnpackSizes
<1> HIDE DEF w, unpacked
<1>5. \A i \in 0 .. m : Sums(w)[i] = i
  <2>1. \A i \in 0 .. Len(w) : Sums(w)[i] = i * 1
    BY <1>0, <1>1, SumsOfOne
  <2> QED BY <2>1, <1>0
<1>6. to = index + no
  <2>1. maxBufferSize \div 1 = maxBufferSize
    BY <1>0
  <2>2. Pack(w, index) = index + (IF maxBufferSize \div 1 < Len(w) - index THEN maxBufferSize \div 1 ELSE Len(w) - index)
    <3>1. index \in 0 .. Len(w) /\ 1 \in Nat /\ 1 > 0
      BY <1>0
    <3> HIDE DEF index
    <3> QED BY <1>0, <1>1, <3>1, PackOfOne
  <2> QED BY <1>0, <1>2, <2>1, <2>2
<1>7. no \in Nat /\ to \in index .. m
  BY <1>0, <1>6
<1>8. ASSUME NEW i \in index + 1 .. to PROVE Read(message, i - index).value = Size(n, l, i)
  <2>1. 1 \in 1 .. w[i]
    BY <1>0, <1>1, <1>7
  <2>2. SizeSum(w, index, i - 1) + 1 = i - index
    <3>1. PICK d \in Nat : i = d + 1
      BY i - 1 \in Nat
    <3>2. i - 1 = d /\ d \in 0 .. m
      BY <3>1, <1>7
    <3>3. Sums(w)[d] = d /\ Sums(w)[index] = index
      BY <3>2, <1>5
    <3> QED BY <3>1, <3>2, <3>3 DEF SizeSum
  <2>3. i - index \in DOMAIN message /\ message[i - index] = Gather("sizes", n, l, i)
    BY <1>7, <2>1, <2>2, MessageFacts DEF w
  <2> HIDE DEF message
  <2> QED BY <2>3 DEF Read, Gather
<1> HIDE DEF message, no, to
<1>9. DOMAIN sizes[l] = 1 .. m
  BY DEF Sizes
<1>10. \A i \in 1 .. to : known[i] = Size(n, l, i)
  <2> SUFFICES ASSUME NEW i \in 1 .. to PROVE known[i] = Size(n, l, i)
    OBVIOUS
  <2>1. i \in DOMAIN sizes[l]
    BY <1>7, <1>9
  <2>2. CASE i \in index + 1 .. to
    BY <2>1, <2>2, <1>6, <1>8
  <2>3. CASE i \in 1 .. index
    <3>1. ~(i \in index + 1 .. index + no)
      BY <2>3
    <3> QED BY <2>1, <2>3, <3>1
  <2> QED BY <2>2, <2>3, <1>7
<1>11. \A i \in 1 .. m : known[i] \in 0 .. maxBufferSize
  <2> SUFFICES ASSUME NEW i \in 1 .. m PROVE known[i] \in 0 .. maxBufferSize
    OBVIOUS
  <2>1. CASE i \in 1 .. to
    BY <2>1, <1>10, <1>3
  <2>2. CASE i \notin 1 .. to
    <3>1. ~(i \in index + 1 .. index + no)
      BY <2>2, <1>6, <1>7
    <3>2. sizes[l][i] \in 0 .. maxBufferSize
      BY SeqElement DEF Sizes
    <3> QED BY <3>1, <3>2, <1>9
  <2> QED BY <2>1, <2>2
<1>12. known \in Sizes /\ Len(known) = m
  <2>1. DOMAIN known = 1 .. m /\ known = [i \in 1 .. m |-> known[i]]
    BY <1>9
  <2> HIDE DEF known, m
  <2>2. known \in [1 .. m -> 0 .. maxBufferSize]
    BY <2>1, <1>11
  <2> QED BY <2>2, <1>0, SeqOfFunction DEF Sizes
<1> HIDE DEF known
<1> QED BY <1>4, <1>6, <1>10, <1>12 DEF unpacked, message, to

-----------------------------------------------------------------------------
\* Calls of scatter().

\* Sums of a sequence that is found in another one.
LEMMA SumsShift ==
  ASSUME NEW v \in Seq(Nat), NEW w \in Seq(Nat), NEW d \in Nat, d + Len(w) <= Len(v),
         \A j \in 1 .. Len(w) : v[d + j] = w[j]
  PROVE  \A j \in 0 .. Len(w) : Sums(v)[d + j] = Sums(v)[d] + Sums(w)[j]
<1> DEFINE V == Sums(v)
           W == Sums(w)
           T == {k \in Nat : k <= Len(w) => V[d + k] = V[d] + W[k]}
<1>1. /\ \A i \in 1 .. Len(v) : V[i] = V[i - 1] + v[i]
      /\ \A i \in 0 .. Len(v) : V[i] \in Nat
      /\ W[0] = 0 /\ \A i \in 1 .. Len(w) : W[i] = W[i - 1] + w[i]
      /\ \A i \in 0 .. Len(w) : W[i] \in Nat
  BY SumsSteps
<1> HIDE DEF V, W
<1>2. 0 \in T
  <2>1. d + 0 = d /\ d \in 0 .. Len(v)
    OBVIOUS
  <2>2. V[d] \in Nat /\ W[0] = 0
    BY <1>1, <2>1
  <2> QED BY <2>1, <2>2
<1>3. ASSUME NEW k \in T PROVE k + 1 \in T
  <2> SUFFICES ASSUME k + 1 <= Len(w) PROVE V[d + (k + 1)] = V[d] + W[k + 1]
    OBVIOUS
  <2>1. PICK m \in Nat : m = d + k
    OBVIOUS
  <2>2. /\ m + 1 = d + (k + 1) /\ m + 1 \in 1 .. Len(v) /\ (m + 1) - 1 = m /\ m \in 0 .. Len(v)
        /\ k + 1 \in 1 .. Len(w) /\ (k + 1) - 1 = k /\ k \in 0 .. Len(w) /\ d \in 0 .. Len(v)
    BY <2>1
  <2>3. V[m + 1] = V[m] + v[m + 1] /\ W[k + 1] = W[k] + w[k + 1]
    BY <1>1, <2>2
  <2>4. v[m + 1] = w[k + 1] /\ V[m] = V[d] + W[k]
    BY <2>1, <2>2
  <2>5. V[d] \in Nat /\ W[k] \in Nat /\ w[k + 1] \in Nat
    BY <1>1, <2>2, SeqElement
  <2>6. V[m + 1] = V[d] + W[k + 1]
    <3>1. PICK a \in Nat, b \in Nat, c \in Nat : a = V[d] /\ b = W[k] /\ c = w[k + 1]
      BY <2>5
    <3>2. V[m + 1] = (a + b) + c /\ W[k + 1] = b + c
      BY <2>3, <2>4, <3>1
    <3>3. (a + b) + c = a + (b + c)
      OBVIOUS
    <3> QED BY <3>1, <3>2, <3>3
  <2> QED BY <2>2, <2>6
<1>4. T = Nat
  <2> HIDE DEF T
  <2> QED BY <1>2, <1>3, InductionOverNat DEF T
<1>5. ASSUME NEW j \in 0 .. Len(w) PROVE V[d + j] = V[d] + W[j]
  <2>1. j \in T
    <3> HIDE DEF T
    <3> QED BY <1>4
  <2> QED BY <2>1
<1> QED BY <1>5 DEF V, W

Scattering == [entry : Nat, items : Seq(Datum)]
Lengths(calls) == [i \in DOMAIN calls |-> Len(calls[i].items)]
ItemsIn(calls) == Sums(Lengths(calls))[Len(calls)]
ItemsOf(n, l, e) == [k \in 1 .. Size(n, l, e) |-> Item(n, e)]

\* The calls of scatter() for the entries behind from, up to to: in their order, with
\* all the items of each of them.
Scatters(calls, n, l, from, to) ==
  /\ calls \in Seq(Scattering)
  /\ \A i \in 1 .. Len(calls) : /\ calls[i].entry \in from + 1 .. to
                                /\ calls[i].items = ItemsOf(n, l, calls[i].entry)
  /\ \A i \in 1 .. Len(calls) - 1 : calls[i].entry < calls[i + 1].entry
  /\ \A e \in from + 1 .. to : Size(n, l, e) > 0 => \E i \in 1 .. Len(calls) : calls[i].entry = e
  /\ ItemsIn(calls) = SizeSum(Call(n).size[l], from, to)

\* The lengths of what is scattered are numbers.
LEMMA LengthsRight ==
  ASSUME NEW a \in Seq(Scattering)
  PROVE  Lengths(a) \in Seq(Nat) /\ Len(Lengths(a)) = Len(a) /\ \A i \in 1 .. Len(a) : Lengths(a)[i] = Len(a[i].items)
<1>1. DOMAIN a = 1 .. Len(a) /\ Len(a) \in Nat
  OBVIOUS
<1>2. \A i \in 1 .. Len(a) : Len(a[i].items) \in Nat
  <2> SUFFICES ASSUME NEW i \in 1 .. Len(a) PROVE Len(a[i].items) \in Nat
    OBVIOUS
  <2>1. a[i] \in Scattering
    BY SeqElement
  <2>2. a[i].items \in Seq(Datum)
    BY <2>1 DEF Scattering
  <2> QED BY <2>2
<1>3. Lengths(a) \in [1 .. Len(a) -> Nat] /\ \A i \in 1 .. Len(a) : Lengths(a)[i] = Len(a[i].items)
  BY <1>1, <1>2 DEF Lengths
<1> QED BY <1>1, <1>3, SeqOfFunction

\* The items of two pieces are those of both.
LEMMA ItemsInBoth ==
  ASSUME NEW a \in Seq(Scattering), NEW b \in Seq(Scattering)
  PROVE  ItemsIn(a \o b) = ItemsIn(a) + ItemsIn(b)
<1> DEFINE c == a \o b
           v == Lengths(c)
           x == Lengths(a)
           y == Lengths(b)
<1>1. c \in Seq(Scattering) /\ Len(c) = Len(a) + Len(b) /\ Len(a) \in Nat /\ Len(b) \in Nat
      /\ (\A i \in 1 .. Len(a) : c[i] = a[i]) /\ (\A i \in 1 .. Len(b) : c[Len(a) + i] = b[i])
  OBVIOUS
<1> HIDE DEF c
<1>2. /\ v \in Seq(Nat) /\ Len(v) = Len(c) /\ \A i \in 1 .. Len(c) : v[i] = Len(c[i].items)
      /\ x \in Seq(Nat) /\ Len(x) = Len(a) /\ \A i \in 1 .. Len(a) : x[i] = Len(a[i].items)
      /\ y \in Seq(Nat) /\ Len(y) = Len(b) /\ \A i \in 1 .. Len(b) : y[i] = Len(b[i].items)
  BY <1>1, LengthsRight
<1>3. (\A i \in 1 .. Len(x) : v[0 + i] = x[i]) /\ (\A i \in 1 .. Len(y) : v[Len(a) + i] = y[i])
  <2> HIDE DEF v, x, y
  <2>1. ASSUME NEW i \in 1 .. Len(x) PROVE v[0 + i] = x[i]
    <3>1. 0 + i = i /\ i \in 1 .. Len(a) /\ i \in 1 .. Len(c)
      BY <1>1, <1>2
    <3> QED BY <1>1, <1>2, <3>1
  <2>2. ASSUME NEW i \in 1 .. Len(y) PROVE v[Len(a) + i] = y[i]
    <3>1. Len(a) + i \in 1 .. Len(c)
      BY <1>1, <1>2
    <3> QED BY <1>1, <1>2, <3>1
  <2> QED BY <2>1, <2>2
<1> HIDE DEF v, x, y
<1>4. Sums(v)[0 + Len(a)] = Sums(v)[0] + Sums(x)[Len(a)]
  <2>1. PICK z \in Nat : z = 0
    OBVIOUS
  <2>2. z + Len(x) <= Len(v) /\ Len(a) \in 0 .. Len(x) /\ \A i \in 1 .. Len(x) : v[z + i] = x[i]
    BY <1>1, <1>2, <1>3, <2>1
  <2>3. \A j \in 0 .. Len(x) : Sums(v)[z + j] = Sums(v)[z] + Sums(x)[j]
    BY <1>2, <2>2, SumsShift
  <2> QED BY <2>1, <2>2, <2>3
<1>5. Sums(v)[Len(a) + Len(b)] = Sums(v)[Len(a)] + Sums(y)[Len(b)]
  <2>1. Len(a) + Len(y) <= Len(v) /\ Len(b) \in 0 .. Len(y)
    BY <1>1, <1>2
  <2>2. \A j \in 0 .. Len(y) : Sums(v)[Len(a) + j] = Sums(v)[Len(a)] + Sums(y)[j]
    BY <1>1, <1>2, <1>3, <2>1, SumsShift
  <2> QED BY <2>1, <2>2
<1>6. Sums(v)[0] = 0 /\ Sums(x)[Len(a)] \in Nat
  BY <1>1, <1>2, SumsSteps
<1>7. 0 + Len(a) = Len(a)
  BY <1>1
<1> QED BY <1>1, <1>4, <1>5, <1>6, <1>7 DEF ItemsIn, v, x, y, c

\* The entries up to a middle and those behind it are all of them.
LEMMA ScattersBoth ==
  ASSUME scenario \in Scenarios, NEW n \in 1 .. NumCalls, NEW l \in Links,
         NEW from \in 0 .. Entries(n, l), NEW mid \in from .. Entries(n, l), NEW to \in mid .. Entries(n, l),
         NEW a, NEW b, Scatters(a, n, l, from, mid), Scatters(b, n, l, mid, to)
  PROVE  Scatters(a \o b, n, l, from, to)
<1> DEFINE c == a \o b
           w == Call(n).size[l]
<1>1. /\ a \in Seq(Scattering) /\ b \in Seq(Scattering) /\ w \in Seq(Nat) /\ Len(w) = Entries(n, l)
      /\ Entries(n, l) \in Nat
  BY CallFacts, SizesAreNat DEF Scatters
<1>2. /\ c \in Seq(Scattering) /\ Len(c) = Len(a) + Len(b) /\ Len(a) \in Nat /\ Len(b) \in Nat
      /\ (\A i \in 1 .. Len(a) : c[i] = a[i]) /\ (\A i \in 1 .. Len(b) : c[Len(a) + i] = b[i])
  BY <1>1
<1> HIDE DEF c
<1>3. ASSUME NEW i \in 1 .. Len(c)
      PROVE  /\ \/ i \in 1 .. Len(a) /\ c[i] = a[i]
                \/ \E j \in 1 .. Len(b) : i = Len(a) + j /\ c[i] = b[j]
  <2>1. CASE i <= Len(a)
    BY <1>2, <2>1
  <2>2. CASE i > Len(a)
    <3>1. i - Len(a) \in 1 .. Len(b) /\ i = Len(a) + (i - Len(a))
      BY <1>2, <2>2
    <3> QED BY <1>2, <3>1
  <2> QED BY <1>2, <2>1, <2>2
<1>4. /\ \A i \in 1 .. Len(a) : a[i].entry \in from + 1 .. mid /\ a[i].items = ItemsOf(n, l, a[i].entry)
      /\ \A i \in 1 .. Len(b) : b[i].entry \in mid + 1 .. to /\ b[i].items = ItemsOf(n, l, b[i].entry)
      /\ \A i \in 1 .. Len(a) - 1 : a[i].entry < a[i + 1].entry
      /\ \A i \in 1 .. Len(b) - 1 : b[i].entry < b[i + 1].entry
      /\ \A e \in from + 1 .. mid : Size(n, l, e) > 0 => \E i \in 1 .. Len(a) : a[i].entry = e
      /\ \A e \in mid + 1 .. to : Size(n, l, e) > 0 => \E i \in 1 .. Len(b) : b[i].entry = e
      /\ ItemsIn(a) = SizeSum(w, from, mid) /\ ItemsIn(b) = SizeSum(w, mid, to)
  BY DEF Scatters
<1> HIDE DEF w
<1>5. ASSUME NEW i \in 1 .. Len(c) PROVE c[i].entry \in from + 1 .. to /\ c[i].items = ItemsOf(n, l, c[i].entry)
  <2>1. CASE i \in 1 .. Len(a) /\ c[i] = a[i]
    <3>1. a[i].entry \in from + 1 .. mid /\ a[i].items = ItemsOf(n, l, a[i].entry)
      BY <1>4, <2>1
    <3>2. from + 1 .. mid \subseteq from + 1 .. to
      BY <1>1
    <3> QED BY <2>1, <3>1, <3>2
  <2>2. CASE \E j \in 1 .. Len(b) : i = Len(a) + j /\ c[i] = b[j]
    <3>1. PICK j \in 1 .. Len(b) : c[i] = b[j]
      BY <2>2
    <3>2. b[j].entry \in mid + 1 .. to /\ b[j].items = ItemsOf(n, l, b[j].entry)
      BY <1>4
    <3>3. mid + 1 .. to \subseteq from + 1 .. to
      BY <1>1
    <3> QED BY <3>1, <3>2, <3>3
  <2> QED BY <1>3, <2>1, <2>2
<1>6. ASSUME NEW i \in 1 .. Len(c) - 1 PROVE c[i].entry < c[i + 1].entry
  <2>1. i \in 1 .. Len(c) /\ i + 1 \in 1 .. Len(c)
    BY <1>2
  <2>2. CASE i + 1 <= Len(a)
    <3>1. i \in 1 .. Len(a) - 1 /\ i + 1 \in 1 .. Len(a) /\ i \in 1 .. Len(a)
      BY <1>2, <2>2
    <3> QED BY <1>2, <1>4, <3>1
  <2>3. CASE i = Len(a)
    <3>1. i \in 1 .. Len(a) /\ c[i] = a[i] /\ 1 \in 1 .. Len(b) /\ c[i + 1] = b[1]
      BY <1>2, <2>1, <2>3
    <3>2. a[i].entry \in from + 1 .. mid /\ b[1].entry \in mid + 1 .. to
      BY <1>4, <3>1
    <3>3. \A x \in from + 1 .. mid, y \in mid + 1 .. to : x < y
      BY <1>1
    <3> QED BY <3>1, <3>2, <3>3
  <2>4. CASE i > Len(a)
    <3>1. PICK j \in Nat : i = Len(a) + j
      <4>1. i - Len(a) \in Nat /\ i = Len(a) + (i - Len(a))
        BY <1>2, <2>4
      <4> QED BY <4>1
    <3>2. j \in 1 .. Len(b) - 1 /\ j \in 1 .. Len(b) /\ j + 1 \in 1 .. Len(b) /\ i + 1 = Len(a) + (j + 1)
      BY <1>2, <2>1, <2>4, <3>1
    <3>3. c[i] = b[j] /\ c[i + 1] = b[j + 1]
      BY <1>2, <3>1, <3>2
    <3> QED BY <1>4, <3>2, <3>3
  <2> QED BY <1>2, <2>2, <2>3, <2>4
<1>7. ASSUME NEW e \in from + 1 .. to, Size(n, l, e) > 0 PROVE \E i \in 1 .. Len(c) : c[i].entry = e
  <2>1. CASE e <= mid
    <3>1. PICK i \in 1 .. Len(a) : a[i].entry = e
      BY <1>4, <1>7, <2>1
    <3>2. i \in 1 .. Len(c)
      BY <1>2
    <3> QED BY <1>2, <3>1, <3>2
  <2>2. CASE e > mid
    <3>1. PICK i \in 1 .. Len(b) : b[i].entry = e
      BY <1>4, <1>7, <2>2
    <3>2. Len(a) + i \in 1 .. Len(c)
      BY <1>2
    <3> QED BY <1>2, <3>1, <3>2
  <2> QED BY <2>1, <2>2
<1>8. ItemsIn(c) = SizeSum(w, from, to)
  <2>1. ItemsIn(c) = ItemsIn(a) + ItemsIn(b)
    BY <1>1, ItemsInBoth DEF c
  <2>2. SizeSum(w, from, to) = SizeSum(w, from, mid) + SizeSum(w, mid, to)
    BY <1>1, SizeSums
  <2> QED BY <1>4, <2>1, <2>2
<1> QED BY <1>2, <1>5, <1>6, <1>7, <1>8 DEF Scatters, c, w

\* The items of an entry are as many as its size.
LEMMA ItemsOfFacts ==
  ASSUME scenario \in Scenarios, NEW n \in 1 .. NumCalls, NEW l \in Links, NEW e \in 1 .. Entries(n, l)
  PROVE  ItemsOf(n, l, e) \in Seq(Datum) /\ Len(ItemsOf(n, l, e)) = Size(n, l, e)
         /\ [entry |-> e, items |-> ItemsOf(n, l, e)] \in Scattering
<1>1. Size(n, l, e) \in Nat /\ n \in Nat /\ e \in Nat
  BY CallFacts, SizesAreNat, CommunicatorAssumption
<1>2. Item(n, e) \in Datum
  BY <1>1 DEF Item, Datum
<1>3. ItemsOf(n, l, e) \in [1 .. Size(n, l, e) -> Datum]
  BY <1>2 DEF ItemsOf
<1>4. ItemsOf(n, l, e) \in Seq(Datum) /\ Len(ItemsOf(n, l, e)) = Size(n, l, e)
  BY <1>1, <1>3, SeqOfFunction
<1> QED BY <1>1, <1>4 DEF Scattering

\* The items that are read for an entry are its items.
LEMMA ItemsRead ==
  ASSUME scenario \in Scenarios, ItemsInEveryCall, NEW n \in 1 .. NumCalls, NEW l \in Links,
         NEW loop \in {"fixed", "data"},
         NEW from \in 0 .. Entries(n, l), NEW to \in from .. Entries(n, l), NEW e \in from + 1 .. to
  PROVE  \A k \in 1 .. Size(n, l, e) :
           Read(Gathered(loop, n, l, from, to), SizeSum(Call(n).size[l], from, e - 1) + k) = Item(n, e)
<1> DEFINE w == HandleSize(loop, n, l)
           message == Gathered(loop, n, l, from, to)
<1>1. w = Call(n).size[l] /\ w[e] = Size(n, l, e)
  BY DEF HandleSize, Size
<1>2. ASSUME NEW k \in 1 .. Size(n, l, e) PROVE Read(message, SizeSum(w, from, e - 1) + k) = Item(n, e)
  <2>1. k \in 1 .. HandleSize(loop, n, l)[e]
    BY <1>1
  <2>2. /\ SizeSum(w, from, e - 1) + k \in DOMAIN message
        /\ message[SizeSum(w, from, e - 1) + k] = Gather(loop, n, l, e)
    BY <2>1, MessageFacts
  <2> HIDE DEF message, w
  <2> QED BY <2>2 DEF Read, Gather
<1> HIDE DEF message, w
<1> QED BY <1>1, <1>2 DEF message

\* What is unpacked with a fixed size.
LEMMA UnpackFixedRight ==
  ASSUME scenario \in Scenarios, ItemsInEveryCall, NEW n \in 1 .. NumCalls, NEW l \in Links,
         Call(n).fixedSize, recvIndex[l] \in 0 .. Entries(n, l), recvIndex[l] < Entries(n, l),
         fixedSize[l] = Size(n, l, 1)
  PROVE  LET to == PackEntries("fixed", n, l, recvIndex[l])
             unpacked == UnpackFixed(n, l, Gathered("fixed", n, l, recvIndex[l], to))
         IN /\ unpacked.index = to /\ unpacked.sizes = sizes[l]
            /\ Scatters(unpacked.scattered, n, l, recvIndex[l], to)
<1> DEFINE w == HandleSize("fixed", n, l)
           index == recvIndex[l]
           m == Entries(n, l)
           c == fixedSize[l]
           to == PackEntries("fixed", n, l, index)
           message == Gathered("fixed", n, l, index, to)
           fits == maxBufferSize \div c
           no == IF fits < m - index THEN fits ELSE m - index
           items(i) == [k \in 1 .. c |-> Read(message, (i - 1) * c + k)]
           calls == [i \in 1 .. no |-> [entry |-> index + i, items |-> items(i)]]
           unpacked == UnpackFixed(n, l, message)
<1>0. w \in Sizes /\ w \in Seq(Nat) /\ Len(w) = m /\ m \in Nat /\ maxBufferSize \in Nat /\ maxBufferSize > 0
  BY HandleFacts, CallFacts, SizesAreNat
<1>1. w = Call(n).size[l] /\ \A i \in 1 .. m : w[i] = Size(n, l, i)
  BY DEF HandleSize, Size
<1>2. c \in Nat /\ c > 0 /\ (\A i \in 1 .. m : Size(n, l, i) = c) /\ index \in Nat
  <2>1. 1 \in 1 .. m
    BY <1>0
  <2>2. c \in 0 .. maxBufferSize /\ c > 0 /\ \A i \in 1 .. m : Size(n, l, i) = c
    BY <2>1, CallFacts
  <2> QED BY <2>2, <1>0
<1>3. to = Pack(w, index)
  BY DEF PackEntries
<1>4. unpacked.index = index + no /\ unpacked.sizes = sizes[l] /\ unpacked.scattered = calls
  BY DEF UnpackFixed
<1> HIDE DEF w, unpacked
<1>5. to = index + no /\ no \in Nat /\ to \in index .. m
  <2>1. index \in 0 .. Len(w) /\ \A i \in 1 .. Len(w) : w[i] = c
    BY <1>0, <1>1, <1>2
  <2>2. to = index + no
    <3> HIDE DEF index, c, m
    <3> QED BY <1>0, <1>2, <1>3, <2>1, PackOfOne
  <2>3. fits \in Nat
    <3> HIDE DEF c
    <3> QED BY <1>0, <1>2, Quotient
  <2> QED BY <1>0, <2>2, <2>3
<1>6. ASSUME NEW j \in Nat, index + j <= m PROVE SizeSum(w, index, index + j) = j * c
  <2>1. index + j \in 0 .. Len(w) /\ index \in 0 .. Len(w) /\ \A i \in 1 .. Len(w) : w[i] = c
    BY <1>0, <1>1, <1>2, <1>6
  <2> HIDE DEF index, c, m
  <2>2. Sums(w)[index + j] = (index + j) * c /\ Sums(w)[index] = index * c
    BY <1>0, <1>2, <2>1, SumsOfOne
  <2>3. (index + j) * c = index * c + j * c /\ index * c \in Nat /\ j * c \in Nat
    BY <1>2
  <2> QED BY <2>2, <2>3 DEF SizeSum
<1>7. ASSUME NEW i \in 1 .. no
      PROVE  /\ index + i \in index + 1 .. to /\ index + i \in 1 .. m
             /\ items(i) = ItemsOf(n, l, index + i)
             /\ calls[i] = [entry |-> index + i, items |-> ItemsOf(n, l, index + i)]
             /\ calls[i] \in Scattering
  <2>1. index + i \in index + 1 .. to /\ index + i \in 1 .. m
    <3> HIDE DEF no, index, m, to
    <3> QED BY <1>0, <1>2, <1>5
  <2>2. PICK j \in Nat : i = j + 1
    BY <1>5, i - 1 \in Nat
  <2>3. SizeSum(w, index, (index + i) - 1) = (i - 1) * c
    <3>1. index + j <= m /\ (index + i) - 1 = index + j /\ i - 1 = j
      <4> HIDE DEF no, index, m, to
      <4> QED BY <1>0, <1>2, <2>1, <2>2
    <3> HIDE DEF no, index, m, to
    <3> QED BY <1>6, <3>1
  <2>4. \A k \in 1 .. Size(n, l, index + i) :
          Read(message, SizeSum(w, index, (index + i) - 1) + k) = Item(n, index + i)
    <3>1. index \in 0 .. Entries(n, l) /\ to \in index .. Entries(n, l) /\ "fixed" \in {"fixed", "data"}
      BY <1>5
    <3>2. PICK e \in index + 1 .. to : e = index + i
      BY <2>1
    <3> HIDE DEF index, to, message
    <3>3. \A k \in 1 .. Size(n, l, e) : Read(message, SizeSum(Call(n).size[l], index, e - 1) + k) = Item(n, e)
      BY <3>1, ItemsRead DEF message
    <3> QED BY <1>1, <3>2, <3>3
  <2>5. Size(n, l, index + i) = c
    BY <1>2, <2>1
  <2>6. items(i) = ItemsOf(n, l, index + i)
    <3> HIDE DEF message, index
    <3> QED BY <2>3, <2>4, <2>5 DEF ItemsOf
  <2>7. [entry |-> index + i, items |-> ItemsOf(n, l, index + i)] \in Scattering
    <3> HIDE DEF index
    <3> QED BY <2>1, ItemsOfFacts
  <2> HIDE DEF items, index, no
  <2> QED BY <2>1, <2>6, <2>7
<1> HIDE DEF items, message
<1>8. calls \in Seq(Scattering) /\ Len(calls) = no /\ DOMAIN calls = 1 .. no
  <2>1. calls \in [1 .. no -> Scattering]
    <3> HIDE DEF no, index
    <3> QED BY <1>7
  <2> HIDE DEF calls, no
  <2> QED BY <2>1, <1>5, SeqOfFunction
<1> HIDE DEF no, index, c, m
<1>9. \A i \in 1 .. Len(calls) : /\ calls[i].entry \in index + 1 .. to
                                 /\ calls[i].items = ItemsOf(n, l, calls[i].entry)
  BY <1>7, <1>8
<1>10. \A i \in 1 .. Len(calls) - 1 : calls[i].entry < calls[i + 1].entry
  <2> SUFFICES ASSUME NEW i \in 1 .. Len(calls) - 1 PROVE calls[i].entry < calls[i + 1].entry
    OBVIOUS
  <2>1. i \in 1 .. no /\ i + 1 \in 1 .. no /\ index + i < index + (i + 1)
    BY <1>5, <1>8, <1>2
  <2> QED BY <1>7, <2>1
<1>11. \A e \in index + 1 .. to : \E i \in 1 .. Len(calls) : calls[i].entry = e
  <2> SUFFICES ASSUME NEW e \in index + 1 .. to PROVE \E i \in 1 .. Len(calls) : calls[i].entry = e
    OBVIOUS
  <2>1. e - index \in 1 .. no /\ e = index + (e - index)
    BY <1>5, <1>2
  <2> QED BY <1>7, <1>8, <2>1
<1>12. ItemsIn(calls) = SizeSum(w, index, to)
  <2> DEFINE lengths == Lengths(calls)
  <2>1. lengths \in Seq(Nat) /\ Len(lengths) = no /\ \A i \in 1 .. no : lengths[i] = Len(calls[i].items)
    <3> HIDE DEF calls
    <3> QED BY <1>8, LengthsRight
  <2>2. \A i \in 1 .. no : Len(calls[i].items) = c
    <3> SUFFICES ASSUME NEW i \in 1 .. no PROVE Len(calls[i].items) = c
      OBVIOUS
    <3>1. index + i \in 1 .. m /\ calls[i].items = ItemsOf(n, l, index + i)
      BY <1>7
    <3>2. index + i \in 1 .. Entries(n, l)
      BY <3>1 DEF m
    <3>3. Len(ItemsOf(n, l, index + i)) = Size(n, l, index + i)
      BY <3>2, ItemsOfFacts
    <3> QED BY <1>2, <3>1, <3>3
  <2> HIDE DEF lengths
  <2>3. Sums(lengths)[no] = no * c
    <3>1. no \in 0 .. Len(lengths) /\ \A i \in 1 .. Len(lengths) : lengths[i] = c
      <4> HIDE DEF calls
      <4> QED BY <1>5, <2>1, <2>2
    <3> QED BY <1>2, <2>1, <3>1, SumsOfOne
  <2>4. SizeSum(w, index, to) = no * c
    BY <1>0, <1>5, <1>6
  <2> QED BY <1>8, <2>3, <2>4 DEF ItemsIn, lengths
<1>13. Scatters(calls, n, l, index, to)
  <2> HIDE DEF calls
  <2> QED BY <1>1, <1>8, <1>9, <1>10, <1>11, <1>12 DEF Scatters
<1> QED BY <1>4, <1>5, <1>13 DEF unpacked, message, index

\* The loop over the entries with a variable size, as a function on the entries.
Visited(known, index, count) ==
  {e \in index + 1 .. Len(known) : SizeSum(known, index, e - 1) < count /\ (e = index + 1 \/ known[e] > 0)}
ReadItems(known, index, message, e) ==
  [k \in 1 .. known[e] |-> Read(message, SizeSum(known, index, e - 1) + k)]
UnpackBody(f, known, index, message, e) ==
  IF e = index THEN [index |-> index, scattered |-> <<>>]
  ELSE IF e \in Visited(known, index, Len(message))
    THEN [index |-> e,
          scattered |-> Append(f[e - 1].scattered, [entry |-> e, items |-> ReadItems(known, index, message, e)])]
  ELSE f[e - 1]

\* The loop over the entries satisfies the recursion that defines it.
LEMMA UnpackLoopDefined ==
  ASSUME NEW l \in Links, NEW message, sizes[l] \in Seq(Nat), recvIndex[l] \in 0 .. Len(sizes[l])
  PROVE  \E f : /\ \A e \in recvIndex[l] .. Len(sizes[l]) :
                     f[e] = UnpackBody(f, sizes[l], recvIndex[l], message, e)
                /\ LET end == f[Len(sizes[l])]
                   IN UnpackVariable(l, message) =
                        [index |-> SkipZero(sizes[l], end.index), sizes |-> sizes[l], scattered |-> end.scattered]
<1> DEFINE index == recvIndex[l]
           known == sizes[l]
           Body(f, e) == UnpackBody(f, known, index, message, e)
           Upto(f, k) == \A e \in index .. index + k : f[e] = Body(f, e)
           T == {k \in Nat : index + k <= Len(known) => \E f : Upto(f, k)}
<1>0. index \in Nat /\ Len(known) \in Nat /\ index <= Len(known)
  OBVIOUS
<1>1. ASSUME NEW f, NEW g, NEW e, f[e - 1] = g[e - 1] PROVE Body(f, e) = Body(g, e)
  BY <1>1 DEF UnpackBody
<1>2. ASSUME NEW f, NEW g PROVE Body(f, index) = Body(g, index)
  BY DEF UnpackBody
<1> HIDE DEF Body, index, known
<1>3. 0 \in T
  <2>1. Upto([e \in {index} |-> Body(<<>>, index)], 0)
    <3>1. \A e \in index .. index + 0 : e = index
      BY <1>0
    <3> DEFINE f == [e \in {index} |-> Body(<<>>, index)]
    <3>2. f[index] = Body(<<>>, index)
      OBVIOUS
    <3>3. Body(f, index) = Body(<<>>, index)
      <4> HIDE DEF f
      <4> QED BY <1>2
    <3> HIDE DEF f
    <3>4. \A e \in index .. index + 0 : f[e] = Body(f, e)
      BY <3>1, <3>2, <3>3
    <3> QED BY <3>4 DEF f
  <2> QED BY <2>1
<1>4. ASSUME NEW k \in T PROVE k + 1 \in T
  <2> SUFFICES ASSUME index + (k + 1) <= Len(known) PROVE \E f : Upto(f, k + 1)
    OBVIOUS
  <2>1. PICK f : Upto(f, k)
    BY <1>0
  <2>2. PICK m \in Nat : m = index + k
    BY <1>0
  <2> DEFINE g == [e \in index .. m + 1 |-> IF e = m + 1 THEN Body(f, m + 1) ELSE f[e]]
  <2>3. \A e \in index .. m : g[e] = f[e]
    BY <1>0, <2>2
  <2>4. g[m + 1] = Body(f, m + 1)
    BY <1>0, <2>2
  <2> HIDE DEF g
  <2>5. ASSUME NEW e \in index .. m + 1 PROVE g[e] = Body(g, e)
    <3>1. CASE e = index
      <4>1. e \in index .. m /\ e \in index .. index + k
        BY <1>0, <2>2, <3>1
      <4>2. g[e] = Body(f, e)
        BY <2>1, <2>3, <4>1
      <4> QED BY <4>2, <3>1, <1>2
    <3>2. CASE e # index
      <4>1. e - 1 \in index .. m
        BY <1>0, <2>2, <3>2
      <4>2. Body(f, e) = Body(g, e)
        BY <1>1, <2>3, <4>1
      <4>3. g[e] = Body(f, e)
        <5>1. CASE e = m + 1
          BY <5>1, <2>4
        <5>2. CASE e \in index .. m
          <6>1. e \in index .. index + k
            BY <5>2, <2>2
          <6> QED BY <2>1, <2>3, <5>2, <6>1
        <5> QED BY <1>0, <2>2, <5>1, <5>2
      <4> QED BY <4>2, <4>3
    <3> QED BY <3>1, <3>2
  <2>6. m + 1 = index + (k + 1)
    BY <1>0, <2>2
  <2>7. Upto(g, k + 1)
    BY <2>5, <2>6
  <2> HIDE DEF Upto
  <2> QED BY <2>7
<1>5. PICK f : \A e \in index .. Len(known) : f[e] = Body(f, e)
  <2>1. PICK k \in Nat : index + k = Len(known)
    <3>1. Len(known) - index \in Nat /\ index + (Len(known) - index) = Len(known)
      BY <1>0
    <3> QED BY <3>1
  <2>2. k \in T
    <3>1. T = Nat
      <4> HIDE DEF T
      <4> QED BY <1>3, <1>4, InductionOverNat DEF T
    <3> HIDE DEF T
    <3> QED BY <3>1
  <2> QED BY <1>0, <2>1, <2>2
<1> DEFINE h == [e \in index .. Len(known) |-> f[e]]
<1>6. h = [e \in index .. Len(known) |-> Body(h, e)]
  <2>1. ASSUME NEW e \in index .. Len(known) PROVE h[e] = Body(h, e)
    <3>1. h[e] = f[e] /\ f[e] = Body(f, e)
      BY <1>5
    <3>2. CASE e = index
      <4> HIDE DEF h
      <4> QED BY <3>1, <3>2, <1>2
    <3>3. CASE e # index
      <4>1. e - 1 \in index .. Len(known)
        BY <1>0, <3>3
      <4>2. h[e - 1] = f[e - 1]
        BY <4>1
      <4> HIDE DEF h
      <4> QED BY <3>1, <4>2, <1>1
    <3> QED BY <3>2, <3>3
  <2> QED BY <2>1
<1> HIDE DEF h
<1> DEFINE loop == CHOOSE loop : loop = [e \in index .. Len(known) |-> Body(loop, e)]
<1>7. loop = [e \in index .. Len(known) |-> Body(loop, e)]
  BY <1>6, Zenon
<1>8. UnpackVariable(l, message) =
        [index |-> SkipZero(known, loop[Len(known)].index), sizes |-> known, scattered |-> loop[Len(known)].scattered]
  BY Zenon DEF UnpackVariable, Body, UnpackBody, Visited, ReadItems, index, known
<1> HIDE DEF loop
<1>9. \A e \in index .. Len(known) : loop[e] = Body(loop, e)
  BY <1>7
<1> QED BY <1>8, <1>9 DEF index, known, Body

\* Nothing is scattered for no entry, and may be for one of size zero.
LEMMA ScattersNone ==
  ASSUME scenario \in Scenarios, NEW n \in 1 .. NumCalls, NEW l \in Links,
         NEW from \in 0 .. Entries(n, l), NEW to \in from .. Entries(n, l),
         from = to \/ (to = from + 1 /\ Size(n, l, to) = 0)
  PROVE  Scatters(<<>>, n, l, from, to)
<1> DEFINE w == Call(n).size[l]
<1>1. w \in Seq(Nat) /\ Len(w) = Entries(n, l) /\ Entries(n, l) \in Nat /\ Size(n, l, to) = w[to]
  BY CallFacts, SizesAreNat DEF Size
<1> HIDE DEF w
<1>2. <<>> \in Seq(Scattering) /\ Len(<<>>) = 0 /\ ~\E i \in 1 .. 0 : TRUE
  OBVIOUS
<1>3. ItemsIn(<<>>) = 0
  <2>1. Lengths(<<>>) \in Seq(Nat)
    BY <1>2, LengthsRight
  <2> QED BY <1>2, <2>1, SumsSteps DEF ItemsIn
<1>4. SizeSum(w, from, to) = 0
  <2>1. SizeSum(w, from, from) = 0
    BY <1>1, SizeSums
  <2>2. ASSUME to = from + 1, w[to] = 0 PROVE SizeSum(w, from, to) = 0
    <3>1. from \in 0 .. Len(w) /\ to \in from + 1 .. Len(w) /\ to - 1 = from
      BY <1>1, <2>2
    <3>2. SizeSum(w, from, to) = SizeSum(w, from, to - 1) + w[to]
      BY <1>1, <3>1, SizeSumStep
    <3> QED BY <2>1, <2>2, <3>1, <3>2
  <2> QED BY <1>1, <2>1, <2>2
<1>5. \A e \in from + 1 .. to : ~(Size(n, l, e) > 0)
  <2> SUFFICES ASSUME NEW e \in from + 1 .. to PROVE ~(Size(n, l, e) > 0)
    OBVIOUS
  <2>1. e = to /\ Size(n, l, to) = 0
    BY <1>1
  <2> QED BY <2>1
<1>6. \A i \in 1 .. Len(<<>>) - 1 : FALSE
  BY <1>2
<1> QED BY <1>2, <1>3, <1>4, <1>5, <1>6 DEF Scatters, w

\* One entry is scattered.
LEMMA ScattersOne ==
  ASSUME scenario \in Scenarios, NEW n \in 1 .. NumCalls, NEW l \in Links,
         NEW from \in 0 .. Entries(n, l), NEW e \in 1 .. Entries(n, l), e = from + 1
  PROVE  Scatters(<<[entry |-> e, items |-> ItemsOf(n, l, e)]>>, n, l, from, e)
<1> DEFINE w == Call(n).size[l]
           one == [entry |-> e, items |-> ItemsOf(n, l, e)]
<1>1. w \in Seq(Nat) /\ Len(w) = Entries(n, l) /\ Entries(n, l) \in Nat /\ Size(n, l, e) = w[e] /\ w[e] \in Nat
  <2>1. w \in Seq(Nat) /\ Len(w) = Entries(n, l) /\ Entries(n, l) \in Nat /\ Size(n, l, e) = w[e]
    BY CallFacts, SizesAreNat DEF Size
  <2> HIDE DEF w
  <2> QED BY <2>1, SeqElement
<1>2. one \in Scattering /\ one.entry = e /\ one.items = ItemsOf(n, l, e) /\ Len(one.items) = Size(n, l, e)
  BY ItemsOfFacts
<1> DEFINE calls == <<one>>
<1>3. calls \in Seq(Scattering) /\ Len(calls) = 1 /\ calls[1] = one /\ \A i \in 1 .. 1 : i = 1
  <2> HIDE DEF one
  <2> QED BY <1>2
<1> HIDE DEF w, one, calls
<1>4. ItemsIn(calls) = w[e]
  <2> DEFINE lengths == Lengths(calls)
  <2>1. lengths \in Seq(Nat) /\ Len(lengths) = 1 /\ lengths[1] = w[e]
    BY <1>1, <1>2, <1>3, LengthsRight
  <2> HIDE DEF lengths
  <2>2. PICK u \in Nat : u = 1
    OBVIOUS
  <2>3. u \in 1 .. Len(lengths) /\ u - 1 = 0
    BY <2>1, <2>2
  <2>4. Sums(lengths)[u] = Sums(lengths)[u - 1] + lengths[u] /\ Sums(lengths)[0] = 0
    BY <2>1, <2>3, SumsSteps
  <2> QED BY <1>1, <1>3, <2>1, <2>2, <2>3, <2>4 DEF ItemsIn, lengths
<1>5. SizeSum(w, from, e) = w[e]
  <2>1. SizeSum(w, from, from) = 0
    BY <1>1, SizeSums
  <2>2. from \in 0 .. Len(w) /\ e \in from + 1 .. Len(w) /\ e - 1 = from
    BY <1>1
  <2>3. SizeSum(w, from, e) = SizeSum(w, from, e - 1) + w[e]
    BY <1>1, <2>2, SizeSumStep
  <2> QED BY <1>1, <2>1, <2>2, <2>3
<1>6. /\ \A i \in 1 .. Len(calls) : /\ calls[i].entry \in from + 1 .. e
                                     /\ calls[i].items = ItemsOf(n, l, calls[i].entry)
      /\ \A i \in 1 .. Len(calls) - 1 : calls[i].entry < calls[i + 1].entry
      /\ \A x \in from + 1 .. e : Size(n, l, x) > 0 => \E i \in 1 .. Len(calls) : calls[i].entry = x
  <2>1. 1 .. Len(calls) = {1} /\ 1 .. Len(calls) - 1 = {} /\ from + 1 .. e = {e}
    BY <1>1, <1>3
  <2> QED BY <1>2, <1>3, <2>1
<1> QED BY <1>3, <1>4, <1>5, <1>6 DEF Scatters, w, one, calls

\* What is unpacked with a variable size: all entries of the message, and the tracker
\* steps over the entries without items behind.
LEMMA UnpackVariableRight ==
  ASSUME scenario \in Scenarios, ItemsInEveryCall, NEW n \in 1 .. NumCalls, NEW l \in Links,
         recvIndex[l] \in 0 .. Entries(n, l), recvIndex[l] < Entries(n, l),
         sizes[l] = Call(n).size[l], ItemsLeft(sizes[l], recvIndex[l])
  PROVE  LET to == PackEntries("data", n, l, recvIndex[l])
             unpacked == UnpackVariable(l, Gathered("data", n, l, recvIndex[l], to))
         IN /\ unpacked.index = to /\ unpacked.sizes = sizes[l]
            /\ Scatters(unpacked.scattered, n, l, recvIndex[l], to)
<1> DEFINE index == recvIndex[l]
           m == Entries(n, l)
           known == sizes[l]
           to == PackEntries("data", n, l, index)
           message == Gathered("data", n, l, index, to)
           unpacked == UnpackVariable(l, message)
<1>0. /\ known \in Sizes /\ known \in Seq(Nat) /\ Len(known) = m /\ m \in Nat /\ maxBufferSize \in Nat
      /\ known = HandleSize("data", n, l) /\ known = Call(n).size[l]
      /\ index \in Nat /\ index \in 0 .. m /\ index < m
  BY CallFacts, SizesAreNat DEF HandleSize
<1>1. \A e \in 1 .. m : known[e] = Size(n, l, e) /\ known[e] \in Nat
  <2>1. \A e \in 1 .. m : known[e] = Size(n, l, e)
    BY <1>0 DEF Size
  <2> HIDE DEF known, m
  <2> QED BY <2>1, <1>0, SeqElement
<1>2. to = Pack(known, index)
  BY <1>0 DEF PackEntries
<1>3. PICK loop : /\ \A e \in index .. Len(known) : loop[e] = UnpackBody(loop, known, index, message, e)
                  /\ unpacked = [index |-> SkipZero(known, loop[Len(known)].index), sizes |-> known,
                                 scattered |-> loop[Len(known)].scattered]
  <2> HIDE DEF message
  <2> QED BY <1>0, UnpackLoopDefined
<1>4. Len(message) = SizeSum(known, index, to) /\ to \in index .. m
  <2>1. to \in index .. m
    <3> HIDE DEF known, m, index, to
    <3> QED BY <1>0, <1>2, PackRight
  <2> HIDE DEF known, m, index, to
  <2> QED BY <1>0, <2>1, MessageFacts DEF message, m, index
<1>5. \A e \in index + 1 .. to :
        [entry |-> e, items |-> ReadItems(known, index, message, e)] = [entry |-> e, items |-> ItemsOf(n, l, e)]
  <2> SUFFICES ASSUME NEW e \in index + 1 .. to
               PROVE  ReadItems(known, index, message, e) = ItemsOf(n, l, e)
    OBVIOUS
  <2>1. index \in 0 .. Entries(n, l) /\ to \in index .. Entries(n, l) /\ "data" \in {"fixed", "data"}
    BY <1>0, <1>4
  <2>2. e \in 1 .. m
    BY <1>0, <2>1
  <2> HIDE DEF known, index, to, message
  <2>3. \A k \in 1 .. Size(n, l, e) : Read(message, SizeSum(known, index, e - 1) + k) = Item(n, e)
    BY <1>0, <2>1, ItemsRead DEF message
  <2>4. known[e] = Size(n, l, e)
    BY <1>1, <2>2
  <2> QED BY <2>3, <2>4 DEF ReadItems, ItemsOf
<1> HIDE DEF known, index, m, to, message, unpacked
<1> DEFINE Upto(e) == IF e < to THEN e ELSE to
           Right(f, e) == /\ f.index \in index .. Upto(e)
                          /\ \A j \in f.index + 1 .. Upto(e) : known[j] = 0
                          /\ Scatters(f.scattered, n, l, index, Upto(e))
           T == {k \in Nat : index + k <= m => Right(loop[index + k], index + k)}
<1>6. 0 \in T
  <2>1. index + 0 = index /\ Upto(index) = index /\ index \in index .. Len(known)
    BY <1>0, <1>4
  <2>2. loop[index] = [index |-> index, scattered |-> <<>>]
    BY <1>3, <2>1 DEF UnpackBody
  <2>3. Scatters(<<>>, n, l, index, index)
    <3>1. index \in 0 .. Entries(n, l) /\ index \in index .. Entries(n, l)
      BY <1>0 DEF m
    <3> QED BY <3>1, ScattersNone
  <2>4. \A j \in index + 1 .. index : FALSE
    BY <1>0
  <2> HIDE DEF Upto
  <2>5. Right(loop[index], index)
    BY <1>0, <2>1, <2>2, <2>3, <2>4
  <2> HIDE DEF Right
  <2> QED BY <2>1, <2>5
<1>7. ASSUME NEW k \in T PROVE k + 1 \in T
  <2> SUFFICES ASSUME index + (k + 1) <= m PROVE Right(loop[index + (k + 1)], index + (k + 1))
    OBVIOUS
  <2>1. PICK d \in Nat : d = index + k
    BY <1>0
  <2>2. PICK e \in Nat : e = d + 1
    OBVIOUS
  <2>3. /\ e = index + (k + 1) /\ e - 1 = d /\ e # index /\ e \in index + 1 .. Len(known) /\ e \in 1 .. m
        /\ e \in index .. Len(known) /\ d \in index .. Len(known) /\ d \in 0 .. m
    BY <1>0, <2>1, <2>2
  <2>4. Right(loop[d], d)
    BY <2>1, <2>3, <1>0
  <2>5. loop[e] = UnpackBody(loop, known, index, message, e)
    BY <1>3, <2>3
  <2>6. SizeSum(known, index, d) \in Nat /\ SizeSum(known, index, e) = SizeSum(known, index, d) + known[e]
    <3>1. SizeSum(known, index, e) = SizeSum(known, index, e - 1) + known[e]
      BY <1>0, <2>3, SizeSumStep
    <3>2. SizeSum(known, index, d) \in Nat
      <4>1. index \in 0 .. Len(known) /\ d \in d .. Len(known)
        BY <1>0, <2>3
      <4> QED BY <1>0, <2>3, <4>1, SizeSums
    <3> QED BY <2>3, <3>1, <3>2
  <2>7. e \in Visited(known, index, Len(message)) <=>
          SizeSum(known, index, d) < SizeSum(known, index, to) /\ (e = index + 1 \/ known[e] > 0)
    BY <1>4, <2>3 DEF Visited
  <2>8. CASE to < e
    <3>1. to \in index .. d /\ Upto(d) = to /\ Upto(e) = to
      <4>1. to \in Nat /\ index <= to
        BY <1>0, <1>4
      <4>2. to <= d /\ ~(d < to) /\ ~(e < to)
        BY <4>1, <2>2, <2>8
      <4>3. to \in index .. d
        BY <1>0, <4>1, <4>2
      <4> QED BY <4>2, <4>3
    <3>2. SizeSum(known, index, to) <= SizeSum(known, index, d) /\ SizeSum(known, index, to) \in Nat
      <4>1. to \in index .. Len(known) /\ d \in to .. Len(known)
        BY <1>0, <1>4, <2>3, <3>1
      <4> QED BY <1>0, <4>1, SizeSums
    <3>3. e \notin Visited(known, index, Len(message))
      BY <2>6, <2>7, <3>2
    <3>4. loop[e] = loop[d]
      BY <2>3, <2>5, <3>3 DEF UnpackBody
    <3>5. Right(loop[e], e)
      BY <2>4, <3>1, <3>4
    <3> QED BY <2>3, <3>5
  <2>9. CASE ~(to < e)
    <3>1. Upto(d) = d /\ Upto(e) = e /\ e \in index + 1 .. to
      BY <1>0, <1>4, <2>2, <2>3, <2>9
    <3>2. /\ loop[d].index \in index .. d
          /\ \A j \in loop[d].index + 1 .. d : known[j] = 0
          /\ Scatters(loop[d].scattered, n, l, index, d)
      BY <2>4, <3>1
    <3>3. index \in 0 .. Entries(n, l) /\ d \in index .. Entries(n, l) /\ e \in d .. Entries(n, l)
      BY <1>0, <2>2, <2>3 DEF m
    <3>4. CASE e \in Visited(known, index, Len(message))
      <4> DEFINE one == [entry |-> e, items |-> ItemsOf(n, l, e)]
      <4>1. loop[e] = [index |-> e, scattered |-> Append(loop[d].scattered, one)]
        BY <1>5, <2>3, <2>5, <3>1, <3>4 DEF UnpackBody
      <4>2. Scatters(<<one>>, n, l, d, e)
        BY <2>2, <2>3, ScattersOne DEF m
      <4> HIDE DEF one
      <4>3. Scatters(loop[d].scattered \o <<one>>, n, l, index, e)
        BY <3>2, <3>3, <4>2, ScattersBoth
      <4>4. Append(loop[d].scattered, one) = loop[d].scattered \o <<one>>
        <5>1. loop[d].scattered \in Seq(Scattering)
          BY <3>2 DEF Scatters
        <5> QED BY <5>1, AppendOne
      <4>5. \A j \in e + 1 .. e : FALSE
        BY <2>2
      <4>6. e \in index .. e
        BY <3>1, <1>0, <1>4
      <4> HIDE DEF Upto
      <4>7. Right(loop[e], e)
        BY <3>1, <4>1, <4>3, <4>4, <4>5, <4>6
      <4> HIDE DEF Right
      <4> QED BY <2>3, <4>7
    <3>5. CASE e \notin Visited(known, index, Len(message))
      <4>1. loop[e] = loop[d]
        BY <2>3, <2>5, <3>5 DEF UnpackBody
      <4>2. known[e] = 0
        <5>1. known[e] \in Nat
          BY <1>1, <2>3
        <5>2. CASE known[e] > 0
          <6>1. ~(SizeSum(known, index, d) < SizeSum(known, index, to))
            BY <2>7, <3>5, <5>2
          <6>2. SizeSum(known, index, e) <= SizeSum(known, index, to) /\ SizeSum(known, index, to) \in Nat
            <7>1. index \in 0 .. Len(known) /\ e \in index .. Len(known) /\ to \in e .. Len(known)
              BY <1>0, <1>4, <2>3, <3>1
            <7>2. to \in index .. Len(known) /\ to \in to .. Len(known)
              BY <7>1, <1>0
            <7>3. SizeSum(known, index, e) <= SizeSum(known, index, to)
              BY <1>0, <7>1, SizeSums
            <7>4. SizeSum(known, index, to) \in Nat
              BY <1>0, <7>1, <7>2, SizeSums
            <7> QED BY <7>3, <7>4
          <6> QED BY <2>6, <5>1, <5>2, <6>1, <6>2
        <5> QED BY <5>1, <5>2
      <4>3. Scatters(<<>>, n, l, d, e)
        <5>1. Size(n, l, e) = 0
          BY <1>1, <2>3, <4>2
        <5> QED BY <2>2, <3>3, <5>1, ScattersNone, <2>3 DEF m
      <4>4. Scatters(loop[d].scattered \o <<>>, n, l, index, e)
        BY <3>2, <3>3, <4>3, ScattersBoth
      <4>5. loop[d].scattered \o <<>> = loop[d].scattered
        <5>1. loop[d].scattered \in Seq(Scattering)
          BY <3>2 DEF Scatters
        <5> QED BY <5>1
      <4>6. loop[e].index \in index .. e /\ \A j \in loop[e].index + 1 .. e : known[j] = 0
        <5>1. PICK q \in index .. d : q = loop[d].index /\ \A j \in q + 1 .. d : known[j] = 0
          BY <3>2
        <5>2. q \in index .. e
          BY <1>0, <2>2
        <5>3. \A j \in q + 1 .. e : j = e \/ j \in q + 1 .. d
          BY <1>0, <2>2
        <5> QED BY <4>1, <4>2, <5>1, <5>2, <5>3
      <4> HIDE DEF Upto
      <4>7. Right(loop[e], e)
        BY <3>1, <4>1, <4>4, <4>5, <4>6
      <4> HIDE DEF Right
      <4> QED BY <2>3, <4>7
    <3> QED BY <3>4, <3>5
  <2> QED BY <2>8, <2>9
<1>8. Right(loop[m], m)
  <2>1. PICK k \in Nat : index + k = m
    <3>1. m - index \in Nat /\ index + (m - index) = m
      BY <1>0
    <3> QED BY <3>1
  <2>2. T = Nat
    <3> HIDE DEF T
    <3> QED BY <1>6, <1>7, InductionOverNat DEF T
  <2>3. k \in T
    <3> HIDE DEF T
    <3> QED BY <2>2
  <2> HIDE DEF Right
  <2> QED BY <1>0, <2>1, <2>3
<1>9. PICK end : end = loop[Len(known)].index
  OBVIOUS
<1>10. /\ end \in index .. to /\ (\A j \in end + 1 .. to : known[j] = 0)
       /\ Scatters(loop[Len(known)].scattered, n, l, index, to)
  <2>1. Upto(m) = to /\ Len(known) = m
    BY <1>0, <1>4
  <2> HIDE DEF Upto
  <2> QED BY <1>8, <1>9, <2>1
<1>11. SkipZero(known, end) = to
  <2>1. to < Len(known) => known[to + 1] > 0
    BY <1>0, <1>2, PackStops
  <2>2. to \in end .. Len(known) /\ end \in Nat /\ to \in Nat
    BY <1>0, <1>4, <1>10
  <2> DEFINE Stops(j) == (\A i \in end + 1 .. j : known[i] = 0) /\ (j < Len(known) => known[j + 1] # 0)
  <2>3. Stops(to)
    BY <1>10, <2>1
  <2>4. ASSUME NEW j \in end .. Len(known), Stops(j) PROVE j = to
    <3>1. CASE j < to
      <4>1. j + 1 \in end + 1 .. to /\ j < Len(known)
        BY <1>0, <2>2, <3>1
      <4> QED BY <1>10, <2>4, <4>1
    <3>2. CASE to < j
      <4>1. to + 1 \in end + 1 .. j /\ to < Len(known)
        BY <1>0, <2>2, <3>2
      <4> QED BY <2>3, <2>4, <4>1
    <3> QED BY <2>2, <3>1, <3>2
  <2>5. (CHOOSE j \in end .. Len(known) : Stops(j)) = to
    <3> HIDE DEF Stops
    <3> QED BY <2>2, <2>3, <2>4
  <2> QED BY <2>5 DEF SkipZero
<1>12. unpacked.index = to /\ unpacked.sizes = known /\ unpacked.scattered = loop[Len(known)].scattered
  BY <1>3, <1>9, <1>11
<1> QED BY <1>10, <1>12 DEF unpacked, message, index, to, known

\* The fixed size that is sent fits in a buffer, and is the size of the entries.
LEMMA FixedSizeRight ==
  ASSUME scenario \in Scenarios, NEW n \in 1 .. NumCalls, Call(n).fixedSize, NEW r \in Rank, NEW q \in Rank
  PROVE  /\ FixedSizeFor(n, r, q) \in 1 .. maxBufferSize
         /\ Entries(n, <<r, q>>) > 0 => FixedSizeFor(n, r, q) = Size(n, <<r, q>>, 1)
<1> DEFINE filled == {p \in Neighbours(r) : p <= q /\ Entries(n, <<r, p>>) > 0}
           last == Highest(filled)
<1>0. procs \in Nat /\ maxBufferSize \in Nat /\ maxBufferSize > 0 /\ Rank \subseteq Nat /\ q \in Nat
  BY CommunicatorAssumption DEF Rank
<1>1. \A p \in Rank : <<r, p>> \in Links /\ <<r, p>>[1] = r /\ <<r, p>>[2] = p
  BY DEF Links
<1>2. \A p \in filled : p \in Rank /\ p <= q /\ Entries(n, <<r, p>>) > 0
  BY DEF Neighbours
<1>3. Entries(n, <<r, q>>) > 0 => q \in filled
  <2>1. ASSUME Entries(n, <<r, q>>) > 0 PROVE q \in Neighbours(r)
    <3>1. Linked(<<r, q>>)
      BY <1>1, <2>1, CallFacts
    <3>2. <<r, q>> \in Out(r)
      BY <1>1, <3>1, LinksOf
    <3> QED BY <3>2 DEF Out
  <2> QED BY <2>1, <1>0
<1>4. FixedSizeFor(n, r, q) = IF filled = {} THEN 1 ELSE Size(n, <<r, last>>, 1)
  BY DEF FixedSizeFor
<1> HIDE DEF filled
<1>5. ASSUME filled # {} PROVE last \in filled /\ \A o \in filled : o <= last
  <2>1. \E p \in filled : \A o \in filled : o <= p
    <3>1. filled \in SUBSET Nat /\ \A p \in filled : p <= q
      BY <1>0, <1>2
    <3> QED BY <1>0, <1>5, <3>1, Greatest
  <2> QED BY <2>1 DEF Highest
<1>6. ASSUME NEW p \in Rank, Entries(n, <<r, p>>) > 0 PROVE Size(n, <<r, p>>, 1) \in 1 .. maxBufferSize
  <2>1. <<r, p>> \in Links
    BY <1>1
  <2>2. 1 \in 1 .. Entries(n, <<r, p>>)
    BY <1>6, <2>1, CallFacts
  <2>3. Size(n, <<r, p>>, 1) \in 0 .. maxBufferSize /\ Size(n, <<r, p>>, 1) > 0
    BY <2>1, <2>2, CallFacts
  <2> QED BY <2>3, <1>0
<1> HIDE DEF last
<1>7. FixedSizeFor(n, r, q) \in 1 .. maxBufferSize
  <2>1. CASE filled = {}
    BY <1>0, <1>4, <2>1
  <2>2. CASE filled # {}
    BY <1>2, <1>4, <1>5, <1>6, <2>2
  <2> QED BY <2>1, <2>2
<1>8. Entries(n, <<r, q>>) > 0 => last = q /\ filled # {}
  <2>1. ASSUME Entries(n, <<r, q>>) > 0 PROVE last = q /\ filled # {}
    <3>1. filled # {} /\ q \in filled
      BY <1>3, <2>1
    <3>2. q <= last /\ last <= q /\ last \in Nat
      BY <1>0, <1>2, <1>5, <3>1
    <3> QED BY <3>1, <3>2, <1>0
  <2> QED BY <2>1
<1> QED BY <1>4, <1>7, <1>8

\* A send from where items are left, or nothing is left.
LEMMA SetupSendRight ==
  ASSUME scenario \in Scenarios, ItemsInEveryCall, NEW n \in 1 .. NumCalls, NEW l \in Links, NEW loop,
         NEW i \in 0 .. Entries(n, l)
  PROVE  /\ PackEntries(loop, n, l, i) \in i .. Entries(n, l)
         /\ ItemsLeft(HandleSize(loop, n, l), PackEntries(loop, n, l, i))
         /\ Gathered(loop, n, l, i, PackEntries(loop, n, l, i)) \in Seq(Datum)
         /\ i < Entries(n, l) /\ ItemsLeft(HandleSize(loop, n, l), i) =>
              /\ i < PackEntries(loop, n, l, i)
              /\ Len(Gathered(loop, n, l, i, PackEntries(loop, n, l, i))) > 0
              /\ SetupSend(loop, n, l, i) = Posted(Gathered(loop, n, l, i, PackEntries(loop, n, l, i)))
         /\ i = Entries(n, l) =>
              /\ PackEntries(loop, n, l, i) = i
              /\ Len(Gathered(loop, n, l, i, PackEntries(loop, n, l, i))) = 0
              /\ SetupSend(loop, n, l, i) = NullRequest
<1> DEFINE w == HandleSize(loop, n, l)
           p == PackEntries(loop, n, l, i)
           message == Gathered(loop, n, l, i, p)
<1>1. w \in Sizes /\ w \in Seq(Nat) /\ Len(w) = Entries(n, l) /\ Entries(n, l) \in Nat /\ p = Pack(w, i)
  BY HandleFacts, CallFacts, SizesAreNat DEF PackEntries
<1>2. i \in 0 .. Len(w)
  BY <1>1
<1>3. SetupSend(loop, n, l, i) = IF message = <<>> THEN NullRequest ELSE Posted(message)
  BY DEF SetupSend
<1> HIDE DEF w, p
<1>4. p \in i .. Entries(n, l) /\ ItemsLeft(w, p)
      /\ (i < Len(w) /\ ItemsLeft(w, i) => i < p /\ SizeSum(w, i, p) > 0)
  BY <1>1, <1>2, PackRight, PackStops
<1>5. message \in Seq(Datum) /\ Len(message) = SizeSum(w, i, p)
  BY <1>4, MessageFacts DEF w
<1> HIDE DEF message
<1>6. i = Entries(n, l) => p = i /\ SizeSum(w, i, p) = 0
  <2>1. SizeSum(w, i, i) = 0
    BY <1>1, <1>2, SizeSums
  <2> QED BY <1>1, <1>4, <2>1
<1>7. message = <<>> <=> Len(message) = 0
  BY <1>5
<1>8. ASSUME i < Entries(n, l), ItemsLeft(w, i)
      PROVE  i < p /\ Len(message) > 0 /\ SetupSend(loop, n, l, i) = Posted(message)
  BY <1>1, <1>3, <1>4, <1>5, <1>7, <1>8
<1>9. ASSUME i = Entries(n, l) PROVE p = i /\ Len(message) = 0 /\ SetupSend(loop, n, l, i) = NullRequest
  BY <1>3, <1>5, <1>6, <1>7, <1>9
<1> QED BY <1>4, <1>5, <1>8, <1>9 DEF w, p, message

-----------------------------------------------------------------------------
\* The invariant of the requests.

Total(n, l) == IF n = 0 THEN 0 ELSE Entries(n, l)

\* The loops a rank comes to have increasing numbers.
Stage(r) == IF pc[r] = "sizes" THEN 2 * call[r] ELSE 2 * call[r] + 1

\* Where the message that starts at an entry ends, and the message.
End(r, l, i) == PackEntries(pc[r], call[r], l, i)
Message(r, l, i) == Gathered(pc[r], call[r], l, i, End(r, l, i))

\* The entries that have arrived at the receiver.
Received(l) == IF recvReq[l].state = "done" THEN End(l[2], l, recvIndex[l]) ELSE recvIndex[l]

ControlInv ==
  /\ scenario \in Scenarios
  /\ call \in [Rank -> 0 .. NumCalls]
  /\ pc \in [Rank -> {"user", "sizes", "data", "fixed"}]
  /\ \A r \in Rank : pc[r] # "user" => call[r] > 0 /\ (pc[r] = "fixed" <=> Call(call[r]).fixedSize)

MemberInv ==
  /\ sendIndex \in [Links -> Nat] /\ recvIndex \in [Links -> Nat]
  /\ sizes \in [Links -> Sizes] /\ fixedSize \in [Links -> 0 .. maxBufferSize]
  /\ sendReq \in [Links -> Request] /\ recvReq \in [Links -> Request]
  /\ DOMAIN sizeSendReq = Links /\ DOMAIN sizeRecvReq = Links /\ DOMAIN scattered = Links
  /\ sizeSendReq = [l \in Links |-> sizeSendReq[l]] /\ sizeRecvReq = [l \in Links |-> sizeRecvReq[l]]
  /\ toSend \in [Rank -> Nat] /\ toRecv \in [Rank -> Nat] /\ sizeToRecv \in [Rank -> Nat]

\* The tracker and the requests of a sender.
SenderInv(l) ==
  LET s == l[1]
      total == Total(call[s], l)
  IN /\ sendIndex[l] \in 0 .. total
     /\ sendReq[l].state = "null" => sendReq[l] = NullRequest
     /\ sendReq[l].state = "posted" => Len(sendReq[l].data) > 0
     /\ sendReq[l].state = "done" => sendReq[l] = Done(<<>>)
     /\ sendReq[l] # NullRequest => pc[s] # "user" /\ Linked(l)
     /\ sendReq[l] = NullRequest => sendIndex[l] = total
     /\ call[s] > 0 => ItemsLeft(HandleSize(pc[s], call[s], l), sendIndex[l])
     /\ sizeSendReq[l] # NullRequest <=> pc[s] = "fixed" /\ Linked(l)
     /\ sizeSendReq[l] \in {NullRequest, Done(<<>>), Posted(<<FixedSizeFor(call[s], s, l[2])>>)}

\* The tracker and the requests of a receiver.
ReceiverInv(l) ==
  LET r == l[2]
      total == Total(call[r], l)
  IN /\ recvIndex[l] \in 0 .. total
     /\ recvReq[l] \in {NullRequest, Posted(<<>>), Done(Message(r, l, recvIndex[l]))}
     /\ recvReq[l] # NullRequest => pc[r] # "user" /\ Linked(l) /\ recvIndex[l] < total
     /\ recvReq[l] = NullRequest /\ sizeRecvReq[l] = NullRequest => recvIndex[l] = total
     /\ call[r] > 0 => ItemsLeft(HandleSize(pc[r], call[r], l), recvIndex[l])
     /\ sizeRecvReq[l] # NullRequest =>
          pc[r] = "fixed" /\ Linked(l) /\ recvIndex[l] = 0 /\ recvReq[l] = NullRequest
     /\ sizeRecvReq[l] \in {NullRequest, Posted(<<>>), Done(<<FixedSizeFor(call[r], l[1], r)>>)}
     /\ pc[r] = "fixed" /\ sizeRecvReq[l] = NullRequest /\ Linked(l) => fixedSize[l] = FixedSizeFor(call[r], l[1], r)
     /\ pc[r] = "sizes" /\ Linked(l) => /\ Len(sizes[l]) = total
                                        /\ \A i \in 1 .. recvIndex[l] : sizes[l][i] = Size(call[r], l, i)
     /\ pc[r] = "data" /\ Linked(l) => sizes[l] = Call(call[r]).size[l]

\* The ends are in the same loop: a message that is under way is the next one.
Same(l) ==
  IF sendReq[l].state = "posted"
  THEN /\ sendReq[l] = Posted(Message(l[1], l, Received(l)))
       /\ sendIndex[l] = End(l[1], l, Received(l))
  ELSE sendIndex[l] = Received(l)

\* The sender is ahead: everything has arrived, and the first message waits.
SenderAhead(l) ==
  /\ recvReq[l].state # "posted" /\ Received(l) = Total(call[l[2]], l)
  /\ sendReq[l].state # "done"
  /\ sendReq[l].state = "posted" => /\ sendReq[l] = Posted(Message(l[1], l, 0))
                                    /\ sendIndex[l] = End(l[1], l, 0)
  /\ sendReq[l].state = "null" => Total(call[l[1]], l) = 0

\* The receiver is ahead: everything was sent, and nothing has arrived.
ReceiverAhead(l) ==
  /\ sendReq[l].state # "posted" /\ sendIndex[l] = Total(call[l[1]], l)
  /\ recvReq[l].state # "done" /\ recvIndex[l] = 0

\* There is nothing to be sent in the loops strictly between.
Between(l, a, b) ==
  \A n \in 1 .. NumCalls :
    /\ a < 2 * n /\ 2 * n < b => Call(n).fixedSize \/ Entries(n, l) = 0
    /\ a < 2 * n + 1 /\ 2 * n + 1 < b => Entries(n, l) = 0

LinkInv(l) ==
  LET a == Stage(l[1])
      b == Stage(l[2])
  IN /\ a = b => Same(l)
     /\ b < a => SenderAhead(l) /\ Between(l, b, a)
     /\ a < b => ReceiverAhead(l) /\ Between(l, a, b)

\* The same for the fixed sizes.
NoneFixed(a, b) == \A n \in 1 .. NumCalls : a < n /\ n < b => ~Call(n).fixedSize

FixedInv(l) ==
  LET a == call[l[1]]
      b == call[l[2]]
  IN /\ a = b => (sizeSendReq[l].state = "posted" <=> sizeRecvReq[l].state = "posted")
     /\ b < a => /\ Call(a).fixedSize => sizeSendReq[l].state = "posted"
                 /\ sizeRecvReq[l].state # "posted" /\ NoneFixed(b, a)
     /\ a < b => /\ Call(b).fixedSize => sizeRecvReq[l].state = "posted"
                 /\ sizeSendReq[l].state # "posted" /\ NoneFixed(a, b)

EndsInv(l) == SenderInv(l) /\ ReceiverInv(l) /\ (Linked(l) => LinkInv(l) /\ FixedInv(l))

\* The requests that are outstanding.
Sending(r) == {l \in Out(r) : sendReq[l] # NullRequest}
Receiving(r) == {l \in In(r) : \/ recvReq[l] # NullRequest
                               \/ sizeRecvReq[l] # NullRequest /\ Entries(call[r], l) > 0}
ReceivingSize(r) == {l \in In(r) : sizeRecvReq[l] # NullRequest}

CountersInv ==
  \A r \in Rank : /\ toSend[r] = Cardinality(Sending(r))
                  /\ toRecv[r] = Cardinality(Receiving(r))
                  /\ sizeToRecv[r] = Cardinality(ReceivingSize(r))

RequestInv == ControlInv /\ MemberInv /\ (\A l \in Links : EndsInv(l)) /\ CountersInv

\* The states and data of requests.
LEMMA RequestStates ==
  /\ NullRequest.state = "null" /\ NullRequest.data = <<>>
  /\ \A d : /\ Posted(d).state = "posted" /\ Posted(d).data = d
            /\ Done(d).state = "done" /\ Done(d).data = d
BY DEF NullRequest, Posted, Done

\* What depends on the execution alone does not change.
LEMMA SameScenario ==
  ASSUME scenario' = scenario
  PROVE  /\ \A n : Call(n)' = Call(n)
         /\ \A n, l : Entries(n, l)' = Entries(n, l) /\ Total(n, l)' = Total(n, l)
         /\ \A n, l, i : Size(n, l, i)' = Size(n, l, i)
         /\ \A l : Linked(l)' = Linked(l)
         /\ \A r : Neighbours(r)' = Neighbours(r) /\ Out(r)' = Out(r) /\ In(r)' = In(r)
         /\ \A loop, n, l : HandleSize(loop, n, l)' = HandleSize(loop, n, l)
         /\ \A loop, n, l, i : PackEntries(loop, n, l, i)' = PackEntries(loop, n, l, i)
         /\ \A loop, n, l, i, j : Gathered(loop, n, l, i, j)' = Gathered(loop, n, l, i, j)
         /\ \A n, r, q : FixedSizeFor(n, r, q)' = FixedSizeFor(n, r, q)
         /\ \A l, a, b : Between(l, a, b)' = Between(l, a, b)
         /\ \A a, b : NoneFixed(a, b)' = NoneFixed(a, b)
<1>1. \A n : Call(n)' = Call(n)
  BY DEF Call
<1>2. \A n, l : Entries(n, l)' = Entries(n, l)
  BY <1>1 DEF Entries
<1>3. \A n, l : Total(n, l)' = Total(n, l)
  BY <1>2 DEF Total
<1>4. \A n, l, i : Size(n, l, i)' = Size(n, l, i)
  BY <1>1 DEF Size
<1>5. \A l : Linked(l)' = Linked(l)
  BY DEF Linked
<1>6. \A r : Neighbours(r)' = Neighbours(r)
  BY DEF Neighbours
<1>7. \A r : Out(r)' = Out(r) /\ In(r)' = In(r)
  BY <1>6 DEF Out, In
<1>8. \A loop, n, l : HandleSize(loop, n, l)' = HandleSize(loop, n, l)
  BY <1>1, <1>2 DEF HandleSize
<1>9. \A loop, n, l, i : PackEntries(loop, n, l, i)' = PackEntries(loop, n, l, i)
  BY <1>8 DEF PackEntries
<1>10. \A loop, n, l, i : Gather(loop, n, l, i)' = Gather(loop, n, l, i)
  BY <1>4 DEF Gather
<1>11. \A loop, n, l, i, j : Gathered(loop, n, l, i, j)' = Gathered(loop, n, l, i, j)
  BY <1>8, <1>10 DEF Gathered
<1>12. \A n, r, q : FixedSizeFor(n, r, q)' = FixedSizeFor(n, r, q)
  <2> SUFFICES ASSUME NEW n, NEW r, NEW q PROVE FixedSizeFor(n, r, q)' = FixedSizeFor(n, r, q)
    OBVIOUS
  <2>1. {p \in Neighbours(r) : p <= q /\ Entries(n, <<r, p>>) > 0}'
          = {p \in Neighbours(r) : p <= q /\ Entries(n, <<r, p>>) > 0}
    BY <1>2, <1>6
  <2> DEFINE filled == {p \in Neighbours(r) : p <= q /\ Entries(n, <<r, p>>) > 0}
  <2>2. FixedSizeFor(n, r, q) = IF filled = {} THEN 1 ELSE Size(n, <<r, Highest(filled)>>, 1)
    BY DEF FixedSizeFor
  <2>3. FixedSizeFor(n, r, q)' = (IF filled = {} THEN 1 ELSE Size(n, <<r, Highest(filled)>>, 1))'
    BY DEF FixedSizeFor
  <2> HIDE DEF filled
  <2>4. filled' = filled
    BY <2>1 DEF filled
  <2> QED BY <1>4, <2>2, <2>3, <2>4
<1>13. \A l, a, b : Between(l, a, b)' = Between(l, a, b)
  BY <1>1, <1>2 DEF Between
<1>14. \A a, b : NoneFixed(a, b)' = NoneFixed(a, b)
  BY <1>1 DEF NoneFixed
<1> QED BY <1>1, <1>2, <1>3, <1>4, <1>5, <1>6, <1>7, <1>8, <1>9, <1>11, <1>12, <1>13, <1>14

\* A step that leaves the ends of a link alone keeps their invariant.
LEMMA SenderFrame ==
  ASSUME NEW l \in Links, scenario' = scenario, call'[l[1]] = call[l[1]], pc'[l[1]] = pc[l[1]],
         sendIndex'[l] = sendIndex[l], sendReq'[l] = sendReq[l], sizeSendReq'[l] = sizeSendReq[l]
  PROVE  /\ SenderInv(l) => SenderInv(l)'
         /\ \A i : End(l[1], l, i)' = End(l[1], l, i) /\ Message(l[1], l, i)' = Message(l[1], l, i)
         /\ Stage(l[1])' = Stage(l[1]) /\ Total(call[l[1]], l)' = Total(call[l[1]], l)
<1>1. /\ \A i : End(l[1], l, i)' = End(l[1], l, i)
      /\ Stage(l[1])' = Stage(l[1]) /\ Total(call[l[1]], l)' = Total(call[l[1]], l)
  BY SameScenario DEF End, Stage
<1>2. \A i : Message(l[1], l, i)' = Message(l[1], l, i)
  BY <1>1, SameScenario DEF Message
<1>3. SenderInv(l) => SenderInv(l)'
  BY SameScenario DEF SenderInv
<1> QED BY <1>1, <1>2, <1>3

\* The same for the receiver.
LEMMA ReceiverFrame ==
  ASSUME NEW l \in Links, scenario' = scenario, call'[l[2]] = call[l[2]], pc'[l[2]] = pc[l[2]],
         recvIndex'[l] = recvIndex[l], recvReq'[l] = recvReq[l], sizeRecvReq'[l] = sizeRecvReq[l],
         sizes'[l] = sizes[l], fixedSize'[l] = fixedSize[l]
  PROVE  /\ ReceiverInv(l) => ReceiverInv(l)'
         /\ \A i : End(l[2], l, i)' = End(l[2], l, i) /\ Message(l[2], l, i)' = Message(l[2], l, i)
         /\ Received(l)' = Received(l)
         /\ Stage(l[2])' = Stage(l[2]) /\ Total(call[l[2]], l)' = Total(call[l[2]], l)
<1>1. /\ \A i : End(l[2], l, i)' = End(l[2], l, i)
      /\ Stage(l[2])' = Stage(l[2]) /\ Total(call[l[2]], l)' = Total(call[l[2]], l)
  BY SameScenario DEF End, Stage
<1>2. \A i : Message(l[2], l, i)' = Message(l[2], l, i)
  BY <1>1, SameScenario DEF Message
<1>3. ReceiverInv(l) => ReceiverInv(l)'
  <2>1. Message(l[2], l, recvIndex[l])' = Message(l[2], l, recvIndex[l])
    BY <1>2
  <2> QED BY <2>1, SameScenario DEF ReceiverInv
<1>4. Received(l)' = Received(l)
  BY <1>1 DEF Received
<1> QED BY <1>1, <1>2, <1>3, <1>4

\* The same for both ends.
LEMMA EndsFrame ==
  ASSUME NEW l \in Links, EndsInv(l), scenario' = scenario,
         call'[l[1]] = call[l[1]], pc'[l[1]] = pc[l[1]], call'[l[2]] = call[l[2]], pc'[l[2]] = pc[l[2]],
         sendIndex'[l] = sendIndex[l], recvIndex'[l] = recvIndex[l],
         sendReq'[l] = sendReq[l], recvReq'[l] = recvReq[l],
         sizeSendReq'[l] = sizeSendReq[l], sizeRecvReq'[l] = sizeRecvReq[l],
         sizes'[l] = sizes[l], fixedSize'[l] = fixedSize[l]
  PROVE  EndsInv(l)'
<1>1. SenderInv(l)' /\ ReceiverInv(l)'
  BY SenderFrame, ReceiverFrame DEF EndsInv
<1>2. \A d : Posted(d)' = Posted(d)
  BY DEF Posted
<1>3. Same(l)' = Same(l)
  BY <1>2, SenderFrame, ReceiverFrame DEF Same
<1>4. SenderAhead(l)' = SenderAhead(l)
  BY <1>2, SenderFrame, ReceiverFrame DEF SenderAhead
<1>5. ReceiverAhead(l)' = ReceiverAhead(l)
  BY SenderFrame DEF ReceiverAhead
<1>6. LinkInv(l) => LinkInv(l)'
  BY <1>3, <1>4, <1>5, SenderFrame, ReceiverFrame, SameScenario DEF LinkInv
<1>7. FixedInv(l) => FixedInv(l)'
  BY SameScenario DEF FixedInv
<1> QED BY <1>1, <1>6, <1>7, SameScenario DEF EndsInv

\* What depends on the calls and loops alone.
LEMMA SameLoops ==
  ASSUME scenario' = scenario, call' = call, pc' = pc
  PROVE  /\ \A r, l, i : End(r, l, i)' = End(r, l, i) /\ Message(r, l, i)' = Message(r, l, i)
         /\ \A r : Stage(r)' = Stage(r)
BY SameScenario DEF End, Message, Stage

\* What the invariant says of the calls of the ends of a link.
LEMMA EndsFacts ==
  ASSUME RequestInv, ItemsInEveryCall, NEW l \in Links, NEW r \in {l[1], l[2]}
  PROVE  /\ r \in Rank /\ call[r] \in 0 .. NumCalls /\ NumCalls \in Nat /\ scenario \in Scenarios
         /\ Total(call[r], l) \in Nat
         /\ pc[r] # "user" => /\ call[r] \in 1 .. NumCalls /\ Total(call[r], l) = Entries(call[r], l)
                              /\ (pc[r] = "fixed" <=> Call(call[r]).fixedSize)
         /\ pc[r] \in {"user", "sizes", "data", "fixed"}
         /\ sendReq[l] \in Request /\ recvReq[l] \in Request
<1>1. r \in Rank
  BY LinkEnds
<1>2. call[r] \in 0 .. NumCalls /\ NumCalls \in Nat /\ scenario \in Scenarios
      /\ pc[r] \in {"user", "sizes", "data", "fixed"} /\ (pc[r] # "user" => call[r] > 0)
      /\ (pc[r] # "user" => (pc[r] = "fixed" <=> Call(call[r]).fixedSize))
  BY <1>1, CommunicatorAssumption DEF RequestInv, ControlInv
<1>3. call[r] # 0 => call[r] \in 1 .. NumCalls /\ Entries(call[r], l) \in Nat
  BY <1>2, CallFacts
<1> QED BY <1>1, <1>2, <1>3 DEF Total, RequestInv, MemberInv

\* The next message of the sender, and of the receiver.
LEMMA MessageTypes ==
  ASSUME RequestInv, ItemsInEveryCall, NEW l \in Links, NEW r \in {l[1], l[2]}, pc[r] # "user",
         NEW i \in 0 .. Entries(call[r], l)
  PROVE  /\ End(r, l, i) \in i .. Entries(call[r], l)
         /\ ItemsLeft(HandleSize(pc[r], call[r], l), End(r, l, i))
         /\ Message(r, l, i) \in Seq(Datum)
         /\ Posted(Message(r, l, i)) \in Request /\ Done(Message(r, l, i)) \in Request
         /\ i < Entries(call[r], l) /\ ItemsLeft(HandleSize(pc[r], call[r], l), i) =>
              /\ i < End(r, l, i) /\ Len(Message(r, l, i)) > 0
              /\ SetupSend(pc[r], call[r], l, i) = Posted(Message(r, l, i))
         /\ i = Entries(call[r], l) => Len(Message(r, l, i)) = 0
<1>1. call[r] \in 1 .. NumCalls /\ scenario \in Scenarios
  BY EndsFacts
<1>2. Message(r, l, i) \in Seq(Datum)
  BY <1>1, SetupSendRight DEF End, Message
<1>3. Posted(Message(r, l, i)) \in Request /\ Done(Message(r, l, i)) \in Request
  BY <1>2 DEF Posted, Done, Request, Datum
<1>4. /\ End(r, l, i) \in i .. Entries(call[r], l)
      /\ ItemsLeft(HandleSize(pc[r], call[r], l), End(r, l, i))
      /\ i < Entries(call[r], l) /\ ItemsLeft(HandleSize(pc[r], call[r], l), i) =>
           /\ i < End(r, l, i) /\ Len(Message(r, l, i)) > 0
           /\ SetupSend(pc[r], call[r], l, i) = Posted(Message(r, l, i))
      /\ i = Entries(call[r], l) => Len(Message(r, l, i)) = 0
  BY <1>1, SetupSendRight DEF End, Message
<1> QED BY <1>2, <1>3, <1>4

\* A completed send, and the next one.
LEMMA SendCompletedKeepsEnds ==
  ASSUME RequestInv, ItemsInEveryCall, NEW l \in Links, SendCompleted(l)
  PROVE  /\ EndsInv(l)'
         /\ sendIndex' \in [Links -> Nat] /\ sendReq' \in [Links -> Request]
         /\ \A k \in Links : k # l => sendIndex'[k] = sendIndex[k] /\ sendReq'[k] = sendReq[k]
         /\ sendReq[l] # NullRequest
         /\ sendReq'[l] = NullRequest <=> sendIndex[l] = Entries(call[l[1]], l)
<1> DEFINE s == l[1]
           m == Entries(call[s], l)
           i == sendIndex[l]
<1>0. /\ pc[s] # "user" /\ sendReq[l].state = "done"
      /\ scenario' = scenario /\ call' = call /\ pc' = pc /\ recvIndex' = recvIndex /\ sizes' = sizes
      /\ fixedSize' = fixedSize /\ recvReq' = recvReq /\ sizeSendReq' = sizeSendReq /\ sizeRecvReq' = sizeRecvReq
  BY DEF SendCompleted, sizeRequests
<1>1. s \in Rank /\ call[s] \in 1 .. NumCalls /\ Total(call[s], l) = m /\ m \in Nat /\ l[2] \in Rank
  BY <1>0, EndsFacts
<1>2. EndsInv(l)
  BY DEF RequestInv
<1>3. /\ i \in 0 .. m /\ ItemsLeft(HandleSize(pc[s], call[s], l), i)
      /\ Linked(l) /\ sendReq[l] # NullRequest
  BY <1>0, <1>1, <1>2, RequestStates DEF EndsInv, SenderInv
<1>4. sendIndex \in [Links -> Nat] /\ sendReq \in [Links -> Request]
  BY DEF RequestInv, MemberInv
<1>5. CASE i = m
  <2>1. sendReq' = [sendReq EXCEPT ![l] = NullRequest] /\ sendIndex' = sendIndex
    BY <1>5 DEF SendCompleted
  <2>2. sendReq'[l] = NullRequest
    BY <2>1, <1>4
  <2>3. SenderInv(l)'
    BY <1>0, <1>1, <1>2, <1>3, <1>5, <2>1, <2>2, RequestStates, SameScenario DEF EndsInv, SenderInv
  <2>4. ReceiverInv(l)'
    BY <1>0, <1>2, SameScenario, SameLoops DEF EndsInv, ReceiverInv
  <2>5. Received(l)' = Received(l)
    BY <1>0, SameLoops DEF Received
  <2>6. LinkInv(l)'
    <3>1. Stage(l[1])' = Stage(l[1]) /\ Stage(l[2])' = Stage(l[2])
      BY <1>0, SameLoops
    <3>2. LinkInv(l)
      BY <1>2, <1>3 DEF EndsInv
    <3>3. ASSUME Stage(l[1]) = Stage(l[2]) PROVE Same(l)'
      <4>1. sendIndex[l] = Received(l)
        BY <1>0, <3>2, <3>3 DEF LinkInv, Same
      <4> QED BY <2>1, <2>2, <2>5, <4>1, RequestStates DEF Same
    <3>4. ~SenderAhead(l)
      BY <1>0 DEF SenderAhead
    <3>5. ReceiverAhead(l)'
            \/ ~ReceiverAhead(l)
      BY <1>0, <2>1, <2>2, SameScenario, RequestStates DEF ReceiverAhead
    <3>6. \A a, b : Between(l, a, b)' = Between(l, a, b)
      BY <1>0, SameScenario
    <3> QED BY <3>1, <3>2, <3>3, <3>4, <3>5, <3>6 DEF LinkInv
  <2>7. FixedInv(l)'
    BY <1>0, <1>2, <1>3, SameScenario DEF EndsInv, FixedInv
  <2>8. sendReq' \in [Links -> Request]
    <3>1. NullRequest \in Request
      BY DEF NullRequest, Request
    <3> QED BY <1>4, <2>1, <3>1
  <2> QED BY <1>3, <1>4, <1>5, <2>1, <2>2, <2>3, <2>4, <2>6, <2>7, <2>8 DEF EndsInv
<1>6. CASE i # m
  <2>1. /\ sendReq' = [sendReq EXCEPT ![l] = SetupSend(pc[s], call[s], l, i)]
        /\ sendIndex' = [sendIndex EXCEPT ![l] = End(s, l, i)]
    BY <1>6 DEF SendCompleted, End
  <2>2. /\ End(s, l, i) \in 0 .. m /\ ItemsLeft(HandleSize(pc[s], call[s], l), End(s, l, i))
        /\ Len(Message(s, l, i)) > 0 /\ Posted(Message(s, l, i)) \in Request
        /\ SetupSend(pc[s], call[s], l, i) = Posted(Message(s, l, i))
    <3>1. i < m
      BY <1>1, <1>3, <1>6
    <3> QED BY <1>0, <1>1, <1>3, <3>1, MessageTypes
  <2>3. sendReq'[l] = Posted(Message(s, l, i)) /\ sendIndex'[l] = End(s, l, i)
    BY <1>4, <2>1, <2>2
  <2>4. SenderInv(l)'
    BY <1>0, <1>1, <1>2, <1>3, <2>2, <2>3, RequestStates, SameScenario DEF EndsInv, SenderInv
  <2>5. ReceiverInv(l)'
    BY <1>0, <1>2, SameScenario, SameLoops DEF EndsInv, ReceiverInv
  <2>6. Received(l)' = Received(l)
    BY <1>0, SameLoops DEF Received
  <2>7. LinkInv(l)'
    <3>1. Stage(l[1])' = Stage(l[1]) /\ Stage(l[2])' = Stage(l[2])
      BY <1>0, SameLoops
    <3>2. LinkInv(l)
      BY <1>2, <1>3 DEF EndsInv
    <3>3. ASSUME Stage(l[1]) = Stage(l[2]) PROVE Same(l)'
      <4>1. i = Received(l)
        BY <1>0, <3>2, <3>3 DEF LinkInv, Same
      <4>2. /\ (sendReq[l].state = "posted")' /\ sendReq'[l] = Posted(Message(s, l, Received(l)))
            /\ sendIndex'[l] = End(s, l, Received(l))
        BY <2>3, <4>1, RequestStates
      <4>3. /\ \A k : End(s, l, k)' = End(s, l, k) /\ Message(s, l, k)' = Message(s, l, k)
            /\ \A d : Posted(d)' = Posted(d)
        BY <1>0, SameLoops DEF Posted
      <4> QED BY <2>6, <4>2, <4>3 DEF Same
    <3>4. ~SenderAhead(l)
      BY <1>0 DEF SenderAhead
    <3>5. ~ReceiverAhead(l)
      BY <1>1, <1>6 DEF ReceiverAhead
    <3> QED BY <3>1, <3>2, <3>3, <3>4, <3>5 DEF LinkInv
  <2>8. FixedInv(l)'
    BY <1>0, <1>2, <1>3, SameScenario DEF EndsInv, FixedInv
  <2>9. sendReq' \in [Links -> Request] /\ sendIndex' \in [Links -> Nat]
    BY <1>1, <1>4, <2>1, <2>2
  <2>10. Posted(Message(s, l, i)) # NullRequest
    BY RequestStates
  <2> QED BY <1>3, <1>4, <1>6, <2>1, <2>3, <2>4, <2>5, <2>7, <2>8, <2>9, <2>10 DEF EndsInv
<1> QED BY <1>5, <1>6

\* What a receiver unpacks from a message.
LEMMA UnpackRight ==
  ASSUME RequestInv, ItemsInEveryCall, NEW l \in Links, recvReq[l].state = "done"
  PROVE  LET r == l[2]
             n == call[r]
             i == recvIndex[l]
             to == End(r, l, i)
             unpacked == Unpack(pc[r], n, l, recvReq[l].data)
         IN /\ pc[r] # "user" /\ Linked(l) /\ i \in 0 .. Entries(n, l) /\ i < to /\ to \in i .. Entries(n, l)
            /\ sizeRecvReq[l] = NullRequest /\ recvReq[l] # NullRequest
            /\ ItemsLeft(HandleSize(pc[r], n, l), to)
            /\ unpacked.index = to /\ unpacked.sizes \in Sizes
            /\ pc[r] = "sizes" => /\ Len(unpacked.sizes) = Entries(n, l)
                                  /\ \A e \in 1 .. to : unpacked.sizes[e] = Size(n, l, e)
                                  /\ unpacked.scattered = <<>>
            /\ pc[r] = "data" => unpacked.sizes = Call(n).size[l]
            /\ pc[r] # "sizes" => Scatters(unpacked.scattered, n, l, i, to)
<1> DEFINE r == l[2]
           n == call[r]
           i == recvIndex[l]
           to == End(r, l, i)
           unpacked == Unpack(pc[r], n, l, recvReq[l].data)
<1>1. recvReq[l] # NullRequest /\ recvReq[l] # Posted(<<>>)
  BY RequestStates
<1>2. ReceiverInv(l)
  BY DEF RequestInv, EndsInv
<1>3. pc[r] # "user" /\ Linked(l) /\ i < Total(n, l) /\ i \in 0 .. Total(n, l) /\ sizeRecvReq[l] = NullRequest
  BY <1>1, <1>2 DEF ReceiverInv
<1>4. n \in 1 .. NumCalls /\ Total(n, l) = Entries(n, l) /\ pc[r] \in {"sizes", "data", "fixed"} /\ r \in Rank
      /\ scenario \in Scenarios /\ (pc[r] = "fixed" <=> Call(n).fixedSize)
  BY <1>3, EndsFacts
<1>5. i \in 0 .. Entries(n, l) /\ i < Entries(n, l)
  BY <1>3, <1>4
<1>6. ItemsLeft(HandleSize(pc[r], n, l), i)
  BY <1>2, <1>4 DEF ReceiverInv
<1>7. i < to /\ to \in i .. Entries(n, l) /\ ItemsLeft(HandleSize(pc[r], n, l), to)
  BY <1>3, <1>5, <1>6, MessageTypes
<1>8. recvReq[l].data = Message(r, l, i)
  BY <1>1, <1>2, RequestStates DEF ReceiverInv
<1>9. sizes[l] \in Sizes
  BY DEF RequestInv, MemberInv
<1>10. CASE pc[r] = "sizes"
  <2>1. unpacked = UnpackSizes(l, Gathered("sizes", n, l, i, PackEntries("sizes", n, l, i)))
    BY <1>8, <1>10 DEF Unpack, Message, End
  <2>2. Len(sizes[l]) = Entries(n, l) /\ \A e \in 1 .. i : sizes[l][e] = Size(n, l, e)
    BY <1>2, <1>3, <1>4, <1>10 DEF ReceiverInv
  <2>3. /\ unpacked.index = PackEntries("sizes", n, l, i) /\ unpacked.scattered = <<>>
        /\ unpacked.sizes \in Sizes /\ Len(unpacked.sizes) = Entries(n, l)
        /\ \A e \in 1 .. PackEntries("sizes", n, l, i) : unpacked.sizes[e] = Size(n, l, e)
    <3> HIDE DEF unpacked
    <3> QED BY <1>4, <1>5, <1>9, <2>1, <2>2, UnpackSizesRight
  <2>4. to = PackEntries("sizes", n, l, i)
    BY <1>10 DEF End
  <2> HIDE DEF unpacked, to
  <2>5. pc[r] # "data"
    BY <1>10
  <2> QED BY <1>1, <1>3, <1>5, <1>7, <1>10, <2>3, <2>4, <2>5 DEF unpacked, to
<1>11. CASE pc[r] = "data"
  <2>1. unpacked = UnpackVariable(l, Gathered("data", n, l, i, PackEntries("data", n, l, i)))
    BY <1>8, <1>11 DEF Unpack, Message, End
  <2>2. sizes[l] = Call(n).size[l]
    BY <1>2, <1>3, <1>11 DEF ReceiverInv
  <2>3. ItemsLeft(sizes[l], i)
    BY <1>6, <1>11, <2>2 DEF HandleSize
  <2>4. /\ unpacked.index = PackEntries("data", n, l, i) /\ unpacked.sizes = sizes[l]
        /\ Scatters(unpacked.scattered, n, l, i, PackEntries("data", n, l, i))
    <3> HIDE DEF unpacked
    <3> QED BY <1>4, <1>5, <2>1, <2>2, <2>3, UnpackVariableRight
  <2>5. to = PackEntries("data", n, l, i)
    BY <1>11 DEF End
  <2> HIDE DEF unpacked, to
  <2>6. pc[r] # "sizes"
    BY <1>11
  <2> QED BY <1>1, <1>3, <1>5, <1>7, <1>9, <1>11, <2>2, <2>4, <2>5, <2>6 DEF unpacked, to
<1>12. CASE pc[r] = "fixed"
  <2>1. unpacked = UnpackFixed(n, l, Gathered("fixed", n, l, i, PackEntries("fixed", n, l, i)))
    BY <1>8, <1>12 DEF Unpack, Message, End
  <2>2. fixedSize[l] = Size(n, l, 1)
    <3>1. fixedSize[l] = FixedSizeFor(n, l[1], r)
      BY <1>2, <1>3, <1>12 DEF ReceiverInv
    <3>2. l[1] \in Rank /\ l = <<l[1], r>>
      BY LinkEnds
    <3>3. Entries(n, <<l[1], r>>) > 0
      <4>1. Entries(n, l) > 0
        BY <1>4, <1>5, CallFacts
      <4> QED BY <3>2, <4>1, Zenon
    <3>4. FixedSizeFor(n, l[1], r) = Size(n, <<l[1], r>>, 1)
      BY <1>4, <1>12, <3>2, <3>3, FixedSizeRight
    <3> QED BY <3>1, <3>2, <3>4
  <2>3. /\ unpacked.index = PackEntries("fixed", n, l, i) /\ unpacked.sizes = sizes[l]
        /\ Scatters(unpacked.scattered, n, l, i, PackEntries("fixed", n, l, i))
    <3> HIDE DEF unpacked
    <3> QED BY <1>4, <1>5, <1>12, <2>1, <2>2, UnpackFixedRight
  <2>4. to = PackEntries("fixed", n, l, i)
    BY <1>12 DEF End
  <2> HIDE DEF unpacked, to
  <2>5. pc[r] # "sizes" /\ pc[r] # "data"
    BY <1>12
  <2> QED BY <1>1, <1>3, <1>5, <1>7, <1>9, <1>12, <2>3, <2>4, <2>5 DEF unpacked, to
<1> QED BY <1>4, <1>10, <1>11, <1>12

\* A completed receive, and the next one.
LEMMA ReceiveCompletedKeepsEnds ==
  ASSUME RequestInv, ItemsInEveryCall, NEW l \in Links, ReceiveCompleted(l)
  PROVE  LET n == call[l[2]]
             to == End(l[2], l, recvIndex[l])
         IN /\ EndsInv(l)'
            /\ recvIndex' \in [Links -> Nat] /\ recvReq' \in [Links -> Request] /\ sizes' \in [Links -> Sizes]
            /\ \A k \in Links : k # l => /\ recvIndex'[k] = recvIndex[k] /\ recvReq'[k] = recvReq[k]
                                         /\ sizes'[k] = sizes[k]
            /\ recvReq[l] # NullRequest /\ sizeRecvReq[l] = NullRequest
            /\ recvReq'[l] = NullRequest <=> to = Entries(n, l)
            /\ recvIndex'[l] = to
            /\ toRecv' = [toRecv EXCEPT ![l[2]] = IF to = Entries(n, l) THEN @ - 1 ELSE @]
<1> DEFINE r == l[2]
           n == call[r]
           i == recvIndex[l]
           to == End(r, l, i)
           unpacked == Unpack(pc[r], n, l, recvReq[l].data)
<1>0. /\ pc[r] # "user" /\ recvReq[l].state = "done"
      /\ scenario' = scenario /\ call' = call /\ pc' = pc /\ sendIndex' = sendIndex
      /\ fixedSize' = fixedSize /\ sendReq' = sendReq /\ sizeSendReq' = sizeSendReq /\ sizeRecvReq' = sizeRecvReq
      /\ recvIndex' = [recvIndex EXCEPT ![l] = unpacked.index]
      /\ sizes' = [sizes EXCEPT ![l] = unpacked.sizes]
      /\ recvReq' = [recvReq EXCEPT ![l] = SetupRecv(n, l, unpacked.index)]
      /\ toRecv' = [toRecv EXCEPT ![r] = IF unpacked.index = Entries(n, l) THEN @ - 1 ELSE @]
  BY DEF ReceiveCompleted, sizeRequests
<1>1. r \in Rank /\ n \in 1 .. NumCalls /\ Total(n, l) = Entries(n, l) /\ Entries(n, l) \in Nat /\ l[1] \in Rank
  BY <1>0, EndsFacts, LinkEnds
<1>2. /\ Linked(l) /\ i \in 0 .. Entries(n, l) /\ i < to /\ to \in i .. Entries(n, l)
      /\ sizeRecvReq[l] = NullRequest /\ recvReq[l] # NullRequest
      /\ ItemsLeft(HandleSize(pc[r], n, l), to)
      /\ unpacked.index = to /\ unpacked.sizes \in Sizes
      /\ pc[r] = "sizes" => /\ Len(unpacked.sizes) = Entries(n, l)
                            /\ \A e \in 1 .. to : unpacked.sizes[e] = Size(n, l, e)
      /\ pc[r] = "data" => unpacked.sizes = Call(n).size[l]
  BY <1>0, UnpackRight
<1>3. EndsInv(l)
  BY DEF RequestInv
<1>4. recvIndex \in [Links -> Nat] /\ recvReq \in [Links -> Request] /\ sizes \in [Links -> Sizes]
  BY DEF RequestInv, MemberInv
<1> HIDE DEF to, unpacked
<1>5. recvIndex'[l] = to /\ sizes'[l] = unpacked.sizes
  BY <1>0, <1>2, <1>4
<1>6. /\ to < Entries(n, l) => recvReq'[l] = Posted(<<>>)
      /\ to = Entries(n, l) => recvReq'[l] = NullRequest
      /\ recvReq'[l] \in {NullRequest, Posted(<<>>)}
  BY <1>0, <1>1, <1>2, <1>4 DEF SetupRecv
<1>7. SenderInv(l)'
  BY <1>0, <1>3, SameScenario DEF EndsInv, SenderInv
<1>8. Posted(<<>>) # NullRequest /\ (to < Entries(n, l) \/ to = Entries(n, l)) /\ to \in 0 .. Entries(n, l)
  BY <1>1, <1>2, RequestStates
<1>9. ReceiverInv(l)'
  BY <1>0, <1>1, <1>2, <1>3, <1>5, <1>6, <1>8, SameScenario DEF EndsInv, ReceiverInv
<1>10. Received(l) = to /\ Received(l)' = to
  <2>1. Received(l) = to
    BY <1>0 DEF Received, to
  <2>2. (recvReq[l].state # "done")'
    BY <1>6, RequestStates
  <2> QED BY <1>5, <2>1, <2>2 DEF Received
<1>11. LinkInv(l)'
  <2>1. Stage(l[1])' = Stage(l[1]) /\ Stage(r)' = Stage(r)
    BY <1>0, SameLoops
  <2>2. LinkInv(l)
    BY <1>2, <1>3 DEF EndsInv
  <2>3. Same(l)' = Same(l)
    <3>1. \A d : Posted(d)' = Posted(d)
      BY DEF Posted
    <3>2. Received(l)' = Received(l)
      BY <1>10
    <3>3. \A s, k : End(s, l, k)' = End(s, l, k) /\ Message(s, l, k)' = Message(s, l, k)
      BY <1>0, SameLoops
    <3> QED BY <1>0, <3>1, <3>2, <3>3 DEF Same
  <2>4. SenderAhead(l) => SenderAhead(l)'
    <3> SUFFICES ASSUME SenderAhead(l) PROVE SenderAhead(l)'
      OBVIOUS
    <3>1. recvReq'[l].state # "posted" /\ Received(l)' = Total(n, l)
      BY <1>1, <1>6, <1>10, RequestStates DEF SenderAhead
    <3>2. /\ \A k, j : Total(k, l)' = Total(k, l)
          /\ \A k, j : End(k, l, j)' = End(k, l, j) /\ Message(k, l, j)' = Message(k, l, j)
          /\ \A d : Posted(d)' = Posted(d)
      BY <1>0, SameLoops, SameScenario DEF Posted
    <3> QED BY <1>0, <3>1, <3>2 DEF SenderAhead
  <2>5. ~ReceiverAhead(l)
    BY <1>0 DEF ReceiverAhead
  <2>6. \A a, b : Between(l, a, b)' = Between(l, a, b)
    BY <1>0, SameScenario
  <2> QED BY <2>1, <2>2, <2>3, <2>4, <2>5, <2>6 DEF LinkInv
<1>12. FixedInv(l)'
  BY <1>0, <1>2, <1>3, SameScenario DEF EndsInv, FixedInv
<1>13. recvIndex' \in [Links -> Nat] /\ recvReq' \in [Links -> Request] /\ sizes' \in [Links -> Sizes]
  <2>1. NullRequest \in Request /\ Posted(<<>>) \in Request
    BY DEF NullRequest, Posted, Request
  <2>2. recvReq' = [recvReq EXCEPT ![l] = recvReq'[l]]
    BY <1>0, <1>4
  <2>3. recvReq' \in [Links -> Request]
    BY <1>4, <1>6, <2>1, <2>2
  <2>4. to \in Nat
    BY <1>1, <1>2
  <2> QED BY <1>0, <1>2, <1>4, <2>3, <2>4
<1>14. EndsInv(l)'
  BY <1>7, <1>9, <1>11, <1>12 DEF EndsInv
<1>15. recvReq'[l] = NullRequest <=> to = Entries(n, l)
  BY <1>6, <1>8
<1>16. toRecv' = [toRecv EXCEPT ![r] = IF to = Entries(n, l) THEN @ - 1 ELSE @]
  BY <1>0, <1>2
<1>17. \A k \in Links : k # l => /\ recvIndex'[k] = recvIndex[k] /\ recvReq'[k] = recvReq[k]
                                 /\ sizes'[k] = sizes[k]
  BY <1>0, <1>4
<1> QED BY <1>2, <1>5, <1>13, <1>14, <1>15, <1>16, <1>17 DEF to

\* A fixed size has come, and the first message can be received.
LEMMA FixedSizeReceivedKeepsEnds ==
  ASSUME RequestInv, ItemsInEveryCall, NEW l \in Links, FixedSizeReceived(l)
  PROVE  /\ EndsInv(l)'
         /\ recvReq' \in [Links -> Request] /\ fixedSize' \in [Links -> 0 .. maxBufferSize]
         /\ \A k \in Links : k # l => /\ recvReq'[k] = recvReq[k] /\ sizeRecvReq'[k] = sizeRecvReq[k]
                                      /\ fixedSize'[k] = fixedSize[k]
         /\ sizeRecvReq[l] # NullRequest /\ sizeRecvReq'[l] = NullRequest /\ recvReq[l] = NullRequest
         /\ recvReq'[l] # NullRequest <=> Entries(call[l[2]], l) > 0
<1> DEFINE r == l[2]
           n == call[r]
<1>0. /\ pc[r] = "fixed" /\ sizeRecvReq[l].state = "done"
      /\ scenario' = scenario /\ call' = call /\ pc' = pc /\ sendIndex' = sendIndex /\ recvIndex' = recvIndex
      /\ sizes' = sizes /\ sendReq' = sendReq /\ sizeSendReq' = sizeSendReq
      /\ fixedSize' = [fixedSize EXCEPT ![l] = sizeRecvReq[l].data[1]]
      /\ sizeRecvReq' = [sizeRecvReq EXCEPT ![l] = NullRequest]
      /\ recvReq' = [recvReq EXCEPT ![l] = SetupRecv(n, l, recvIndex[l])]
  BY DEF FixedSizeReceived
<1>1. /\ r \in Rank /\ n \in 1 .. NumCalls /\ Total(n, l) = Entries(n, l) /\ l[1] \in Rank /\ l = <<l[1], r>>
      /\ scenario \in Scenarios /\ Call(n).fixedSize
  BY <1>0, EndsFacts, LinkEnds
<1>2. EndsInv(l)
  BY DEF RequestInv
<1>3. /\ recvReq \in [Links -> Request] /\ fixedSize \in [Links -> 0 .. maxBufferSize]
      /\ sizeRecvReq = [k \in Links |-> sizeRecvReq[k]]
  BY DEF RequestInv, MemberInv
<1>4. sizeRecvReq[l] # NullRequest /\ sizeRecvReq[l] # Posted(<<>>)
  BY <1>0, RequestStates
<1>5. /\ sizeRecvReq[l] = Done(<<FixedSizeFor(n, l[1], r)>>)
      /\ Linked(l) /\ recvIndex[l] = 0 /\ recvReq[l] = NullRequest
  BY <1>2, <1>4 DEF EndsInv, ReceiverInv
<1>6. sizeRecvReq[l].data[1] = FixedSizeFor(n, l[1], r)
  <2>1. sizeRecvReq[l].data = <<FixedSizeFor(n, l[1], r)>>
    BY <1>5, RequestStates
  <2> QED BY <2>1
<1>7. FixedSizeFor(n, l[1], r) \in 0 .. maxBufferSize
  <2>1. FixedSizeFor(n, l[1], r) \in 1 .. maxBufferSize
    BY <1>1, FixedSizeRight
  <2> QED BY <2>1, SizesAreNat
<1>8. Entries(n, l) \in Nat
  BY <1>1, CallFacts
<1>9. /\ fixedSize'[l] = FixedSizeFor(n, l[1], r) /\ sizeRecvReq'[l] = NullRequest
      /\ recvReq'[l] = IF Entries(n, l) > 0 THEN Posted(<<>>) ELSE NullRequest
      /\ \A k \in Links : k # l => /\ recvReq'[k] = recvReq[k] /\ sizeRecvReq'[k] = sizeRecvReq[k]
                                   /\ fixedSize'[k] = fixedSize[k]
  <2>1. SetupRecv(n, l, recvIndex[l]) = IF Entries(n, l) > 0 THEN Posted(<<>>) ELSE NullRequest
    BY <1>5, <1>8 DEF SetupRecv
  <2>2. l \in DOMAIN sizeRecvReq /\ l \in DOMAIN recvReq /\ l \in DOMAIN fixedSize
    BY <1>3
  <2> QED BY <1>0, <1>6, <2>1, <2>2
<1>10. recvReq' \in [Links -> Request] /\ fixedSize' \in [Links -> 0 .. maxBufferSize]
  <2>1. NullRequest \in Request /\ Posted(<<>>) \in Request
    BY DEF NullRequest, Posted, Request
  <2>2. SetupRecv(n, l, recvIndex[l]) \in Request
    BY <2>1 DEF SetupRecv
  <2> QED BY <1>0, <1>3, <1>6, <1>7, <2>2
<1>11. SenderInv(l)'
  BY <1>0, <1>2, SameScenario DEF EndsInv, SenderInv
<1>12. ReceiverInv(l)'
  BY <1>0, <1>1, <1>2, <1>5, <1>8, <1>9, SameScenario, RequestStates DEF EndsInv, ReceiverInv
<1>13. recvReq[l].state = "null" /\ recvReq'[l].state \in {"null", "posted"}
  BY <1>5, <1>9, RequestStates
<1>14. LinkInv(l)'
  <2>1. Stage(l[1])' = Stage(l[1]) /\ Stage(r)' = Stage(r)
    BY <1>0, SameLoops
  <2>2. LinkInv(l)
    BY <1>2, <1>5 DEF EndsInv
  <2>3. Received(l) = 0 /\ Received(l)' = Received(l)
    BY <1>0, <1>5, <1>13 DEF Received
  <2>4. /\ \A k, j : Total(k, l)' = Total(k, l)
        /\ \A k, j : End(k, l, j)' = End(k, l, j) /\ Message(k, l, j)' = Message(k, l, j)
        /\ \A d : Posted(d)' = Posted(d)
    BY <1>0, SameLoops, SameScenario DEF Posted
  <2>5. Same(l)' = Same(l)
    BY <1>0, <2>3, <2>4 DEF Same
  <2>6. SenderAhead(l) => SenderAhead(l)'
    <3> SUFFICES ASSUME SenderAhead(l) PROVE SenderAhead(l)'
      OBVIOUS
    <3>1. Entries(n, l) = 0
      BY <1>1, <2>3 DEF SenderAhead
    <3>2. recvReq'[l].state # "posted"
      BY <1>8, <1>9, <3>1, RequestStates
    <3> QED BY <1>0, <2>3, <2>4, <3>2 DEF SenderAhead
  <2>7. ReceiverAhead(l) => ReceiverAhead(l)'
    BY <1>0, <1>13, <2>4 DEF ReceiverAhead
  <2>8. \A a, b : Between(l, a, b)' = Between(l, a, b)
    BY <1>0, SameScenario
  <2> QED BY <2>1, <2>2, <2>5, <2>6, <2>7, <2>8 DEF LinkInv
<1>15. FixedInv(l)'
  <2>1. FixedInv(l)
    BY <1>2, <1>5 DEF EndsInv
  <2>2. sizeRecvReq'[l].state # "posted" /\ sizeRecvReq[l].state # "posted"
    BY <1>0, <1>9, RequestStates
  <2>3. /\ \A a, b : NoneFixed(a, b)' = NoneFixed(a, b)
        /\ \A k : Call(k)' = Call(k)
    BY <1>0, SameScenario
  <2> QED BY <1>0, <1>1, <2>1, <2>2, <2>3 DEF FixedInv
<1>16. EndsInv(l)'
  BY <1>11, <1>12, <1>14, <1>15 DEF EndsInv
<1>17. recvReq'[l] # NullRequest <=> Entries(n, l) > 0
  BY <1>9, RequestStates
<1> QED BY <1>4, <1>5, <1>9, <1>10, <1>16, <1>17

\* A message that is under way meets a receive of the same loop.
LEMMA MeetInSameLoop ==
  ASSUME RequestInv, ItemsInEveryCall, NEW l \in Links,
         sendReq[l].state = "posted", recvReq[l].state = "posted"
  PROVE  /\ call[l[1]] = call[l[2]] /\ pc[l[1]] = pc[l[2]]
         /\ Linked(l) /\ Same(l) /\ Stage(l[1]) = Stage(l[2])
<1>1. EndsInv(l)
  BY DEF RequestInv
<1>2. sendReq[l] # NullRequest /\ recvReq[l] # NullRequest
  BY RequestStates
<1>3. pc[l[1]] # "user" /\ pc[l[2]] # "user" /\ Linked(l)
  BY <1>1, <1>2 DEF EndsInv, SenderInv, ReceiverInv
<1>4. /\ call[l[1]] \in 1 .. NumCalls /\ pc[l[1]] \in {"sizes", "data", "fixed"}
      /\ (pc[l[1]] = "fixed" <=> Call(call[l[1]]).fixedSize)
  BY <1>3, EndsFacts
<1>5. /\ call[l[2]] \in 1 .. NumCalls /\ pc[l[2]] \in {"sizes", "data", "fixed"}
      /\ (pc[l[2]] = "fixed" <=> Call(call[l[2]]).fixedSize)
  BY <1>3, EndsFacts
<1>6. PICK a \in Nat, b \in Nat : a = call[l[1]] /\ b = call[l[2]]
  BY <1>4, <1>5, CommunicatorAssumption
<1>7. Stage(l[1]) = Stage(l[2]) /\ Same(l)
  <2>1. PICK c \in Nat, d \in Nat : c = Stage(l[1]) /\ d = Stage(l[2])
    BY <1>6 DEF Stage
  <2>2. LinkInv(l)
    BY <1>1, <1>3 DEF EndsInv
  <2>3. ~SenderAhead(l) /\ ~ReceiverAhead(l)
    BY DEF SenderAhead, ReceiverAhead
  <2> QED BY <2>1, <2>2, <2>3 DEF LinkInv
<1>8. a = b /\ (pc[l[1]] = "sizes" <=> pc[l[2]] = "sizes")
  BY <1>6, <1>7 DEF Stage
<1> QED BY <1>3, <1>4, <1>5, <1>6, <1>7, <1>8

\* A message goes from one end to the other.
LEMMA MatchKeepsEnds ==
  ASSUME RequestInv, ItemsInEveryCall, NEW l \in Links, Match(l)
  PROVE  /\ EndsInv(l)'
         /\ sendReq' \in [Links -> Request] /\ recvReq' \in [Links -> Request]
         /\ \A k \in Links : k # l => sendReq'[k] = sendReq[k] /\ recvReq'[k] = recvReq[k]
         /\ sendReq[l] # NullRequest /\ sendReq'[l] # NullRequest
         /\ recvReq[l] # NullRequest /\ recvReq'[l] # NullRequest
<1> DEFINE s == l[1]
           r == l[2]
           i == recvIndex[l]
<1>0. /\ sendReq[l].state = "posted" /\ recvReq[l].state = "posted"
      /\ scenario' = scenario /\ call' = call /\ pc' = pc /\ sendIndex' = sendIndex /\ recvIndex' = recvIndex
      /\ sizes' = sizes /\ fixedSize' = fixedSize /\ sizeSendReq' = sizeSendReq /\ sizeRecvReq' = sizeRecvReq
      /\ sendReq' = [sendReq EXCEPT ![l] = Done(<<>>)]
      /\ recvReq' = [recvReq EXCEPT ![l] = Done(sendReq[l].data)]
  BY DEF Match, sizeRequests
<1>1. call[s] = call[r] /\ pc[s] = pc[r] /\ Linked(l) /\ Same(l) /\ Stage(s) = Stage(r)
  BY <1>0, MeetInSameLoop
<1>2. EndsInv(l)
  BY DEF RequestInv
<1>3. sendReq \in [Links -> Request] /\ recvReq \in [Links -> Request]
  BY DEF RequestInv, MemberInv
<1>4. sendReq[l] # NullRequest /\ recvReq[l] # NullRequest
  BY <1>0, RequestStates
<1>5. pc[s] # "user" /\ pc[r] # "user" /\ i \in 0 .. Total(call[r], l) /\ i < Total(call[r], l)
  BY <1>2, <1>4 DEF EndsInv, SenderInv, ReceiverInv
<1>6. call[r] \in 1 .. NumCalls /\ Total(call[r], l) = Entries(call[r], l)
  BY <1>5, EndsFacts
<1>7. Received(l) = i /\ sendReq[l] = Posted(Message(s, l, i)) /\ sendIndex[l] = End(s, l, i)
  <2>1. Received(l) = i
    BY <1>0 DEF Received
  <2> QED BY <1>0, <1>1, <2>1 DEF Same
<1>8. Message(s, l, i) = Message(r, l, i) /\ End(s, l, i) = End(r, l, i)
  BY <1>1 DEF Message, End
<1>9. Done(Message(r, l, i)) \in Request /\ Done(<<>>) \in Request
  <2>1. Done(Message(r, l, i)) \in Request
    BY <1>5, <1>6, MessageTypes
  <2> QED BY <2>1 DEF Done, Request
<1>10. sendReq'[l] = Done(<<>>) /\ recvReq'[l] = Done(Message(r, l, i))
  BY <1>0, <1>3, <1>7, <1>8, RequestStates
<1>11. sendReq' \in [Links -> Request] /\ recvReq' \in [Links -> Request]
  <2>1. sendReq[l].data = Message(r, l, i)
    BY <1>7, <1>8, RequestStates
  <2> QED BY <1>0, <1>3, <1>9, <2>1
<1>12. Done(<<>>) # NullRequest /\ \A d : Done(d) # NullRequest
  BY RequestStates
<1>13. /\ \A k, j : End(k, l, j)' = End(k, l, j) /\ Message(k, l, j)' = Message(k, l, j)
       /\ \A d : Posted(d)' = Posted(d) /\ Done(d)' = Done(d)
       /\ NullRequest' = NullRequest
       /\ Stage(s)' = Stage(s) /\ Stage(r)' = Stage(r)
  BY <1>0, SameLoops DEF Posted, Done, NullRequest
<1>14. SenderInv(l)'
  BY <1>0, <1>1, <1>2, <1>5, <1>10, <1>12, RequestStates, SameScenario DEF EndsInv, SenderInv
<1>15. ReceiverInv(l)'
  <2>1. recvReq'[l] = Done(Message(r, l, i)')
    BY <1>0, <1>10, <1>13
  <2> QED BY <1>0, <1>1, <1>2, <1>4, <1>5, <1>10, <1>12, <2>1, SameScenario DEF EndsInv, ReceiverInv
<1>16. Same(l)'
  <2>1. recvReq'[l].state = "done" /\ sendReq'[l].state = "done"
    BY <1>10, RequestStates
  <2>2. Received(l)' = End(r, l, i)
    BY <1>0, <1>13, <2>1 DEF Received
  <2> QED BY <1>0, <1>7, <1>8, <2>1, <2>2 DEF Same
<1>17. LinkInv(l)'
  BY <1>1, <1>13, <1>16, EndsFacts DEF LinkInv, Stage
<1>18. FixedInv(l)'
  BY <1>0, <1>1, <1>2, SameScenario DEF EndsInv, FixedInv
<1>19. \A k \in Links : k # l => sendReq'[k] = sendReq[k] /\ recvReq'[k] = recvReq[k]
  BY <1>0, <1>3
<1> QED BY <1>4, <1>10, <1>11, <1>12, <1>14, <1>15, <1>17, <1>18, <1>19 DEF EndsInv

\* A fixed size goes from one end to the other.
LEMMA MatchFixedSizeKeepsEnds ==
  ASSUME RequestInv, ItemsInEveryCall, NEW l \in Links, MatchFixedSize(l)
  PROVE  /\ EndsInv(l)'
         /\ call[l[1]] = call[l[2]]
         /\ \A k \in Links : k # l => sizeSendReq'[k] = sizeSendReq[k] /\ sizeRecvReq'[k] = sizeRecvReq[k]
         /\ sizeRecvReq[l] # NullRequest /\ sizeRecvReq'[l] # NullRequest
<1> DEFINE s == l[1]
           r == l[2]
<1>0. /\ sizeSendReq[l].state = "posted" /\ sizeRecvReq[l].state = "posted"
      /\ scenario' = scenario /\ call' = call /\ pc' = pc /\ sendIndex' = sendIndex /\ recvIndex' = recvIndex
      /\ sizes' = sizes /\ fixedSize' = fixedSize /\ sendReq' = sendReq /\ recvReq' = recvReq
      /\ sizeSendReq' = [sizeSendReq EXCEPT ![l] = Done(<<>>)]
      /\ sizeRecvReq' = [sizeRecvReq EXCEPT ![l] = Done(sizeSendReq[l].data)]
  BY DEF MatchFixedSize, requests
<1>2. EndsInv(l)
  BY DEF RequestInv
<1>3. sizeSendReq = [k \in Links |-> sizeSendReq[k]] /\ sizeRecvReq = [k \in Links |-> sizeRecvReq[k]]
  BY DEF RequestInv, MemberInv
<1>4. sizeSendReq[l] # NullRequest /\ sizeRecvReq[l] # NullRequest
  BY <1>0, RequestStates
<1>5. Linked(l) /\ pc[s] = "fixed" /\ pc[r] = "fixed" /\ recvIndex[l] = 0 /\ recvReq[l] = NullRequest
  BY <1>2, <1>4 DEF EndsInv, SenderInv, ReceiverInv
<1>6. call[s] \in 1 .. NumCalls /\ call[r] \in 1 .. NumCalls
  BY <1>5, EndsFacts
<1>7. call[s] = call[r]
  <2>1. PICK a \in Nat, b \in Nat : a = call[s] /\ b = call[r]
    BY <1>6, CommunicatorAssumption
  <2>2. FixedInv(l)
    BY <1>2, <1>5 DEF EndsInv
  <2> QED BY <1>0, <2>1, <2>2 DEF FixedInv
<1>8. sizeSendReq[l] = Posted(<<FixedSizeFor(call[s], s, r)>>)
  <2>1. Done(<<>>).state = "done"
    BY RequestStates
  <2> QED BY <1>0, <1>2, <1>4, <2>1 DEF EndsInv, SenderInv
<1>9. sizeSendReq[l].data = <<FixedSizeFor(call[s], s, r)>>
  BY <1>8, RequestStates
<1>10. sizeSendReq'[l] = Done(<<>>) /\ sizeRecvReq'[l] = Done(<<FixedSizeFor(call[r], s, r)>>)
  <2>1. l \in DOMAIN sizeSendReq /\ l \in DOMAIN sizeRecvReq
    BY <1>3
  <2> QED BY <1>0, <1>7, <1>9, <2>1
<1>11. \A d : Done(d) # NullRequest
  BY RequestStates
<1>12. SenderInv(l)'
  BY <1>0, <1>2, <1>5, <1>10, <1>11, SameScenario DEF EndsInv, SenderInv
<1>13. ReceiverInv(l)'
  BY <1>0, <1>2, <1>4, <1>5, <1>10, <1>11, SameScenario, SameLoops DEF EndsInv, ReceiverInv
<1>14. LinkInv(l)'
  <2>1. /\ \A k, j : End(k, l, j)' = End(k, l, j) /\ Message(k, l, j)' = Message(k, l, j)
        /\ \A d : Posted(d)' = Posted(d)
        /\ Stage(s)' = Stage(s) /\ Stage(r)' = Stage(r)
    BY <1>0, SameLoops DEF Posted
  <2>2. Received(l)' = Received(l)
    BY <1>0, <2>1 DEF Received
  <2>3. Same(l)' = Same(l)
    BY <1>0, <2>1, <2>2 DEF Same
  <2>4. Stage(s) = Stage(r)
    BY <1>5, <1>7 DEF Stage
  <2>5. Same(l)
    BY <1>2, <1>5, <2>4 DEF EndsInv, LinkInv
  <2> QED BY <1>6, <2>1, <2>3, <2>4, <2>5 DEF LinkInv, Stage
<1>15. FixedInv(l)'
  <2>1. sizeSendReq'[l].state = "done" /\ sizeRecvReq'[l].state = "done"
    BY <1>10, RequestStates
  <2>2. call'[s] = call'[r]
    BY <1>0, <1>7
  <2> QED BY <1>0, <1>6, <2>1, <2>2 DEF FixedInv
<1>16. \A k \in Links : k # l => sizeSendReq'[k] = sizeSendReq[k] /\ sizeRecvReq'[k] = sizeRecvReq[k]
  BY <1>0, <1>3
<1> QED BY <1>4, <1>7, <1>10, <1>11, <1>12, <1>13, <1>14, <1>15, <1>16 DEF EndsInv

\* A rank whose counters are zero, or that is outside a call, has no request.
Idle(r) ==
  \A l \in Links :
    /\ l[1] = r => sendReq[l] = NullRequest /\ sendIndex[l] = Total(call[r], l)
    /\ l[2] = r => /\ recvReq[l] = NullRequest /\ sizeRecvReq[l] = NullRequest
                   /\ recvIndex[l] = Total(call[r], l)

\* There are finitely many links.
LEMMA LinksFinite ==
  ASSUME scenario \in Scenarios, NEW r \in Rank
  PROVE  /\ IsFiniteSet(Links) /\ Out(r) \subseteq Links /\ In(r) \subseteq Links
         /\ \A S \in SUBSET Links : IsFiniteSet(S) /\ Cardinality(S) \in Nat /\ (Cardinality(S) = 0 <=> S = {})
<1>1. IsFiniteSet(Rank)
  BY CommunicatorAssumption, FS_Interval DEF Rank
<1>2. IsFiniteSet(Links)
  BY <1>1, FS_Product DEF Links
<1>3. Out(r) \subseteq Links /\ In(r) \subseteq Links
  BY LinksOf
<1>4. \A S \in SUBSET Links : IsFiniteSet(S)
  BY <1>2, FS_Subset
<1>5. \A S \in SUBSET Links : Cardinality(S) \in Nat /\ (Cardinality(S) = 0 <=> S = {})
  BY <1>4, FS_CardinalityType, FS_EmptySet
<1> QED BY <1>2, <1>3, <1>4, <1>5

\* When the counters are zero no request is outstanding.
LEMMA NothingLeft ==
  ASSUME RequestInv, NEW r \in Rank, LoopDone(r) \/ pc[r] = "user"
  PROVE  Idle(r)
<1> SUFFICES ASSUME NEW l \in Links
             PROVE  /\ l[1] = r => sendReq[l] = NullRequest /\ sendIndex[l] = Total(call[r], l)
                    /\ l[2] = r => /\ recvReq[l] = NullRequest /\ sizeRecvReq[l] = NullRequest
                                   /\ recvIndex[l] = Total(call[r], l)
  BY DEF Idle
<1>0. scenario \in Scenarios /\ EndsInv(l)
  BY DEF RequestInv, ControlInv
<1>1. LoopDone(r) => Sending(r) = {} /\ Receiving(r) = {} /\ ReceivingSize(r) = {}
  <2> SUFFICES ASSUME LoopDone(r) PROVE Sending(r) = {} /\ Receiving(r) = {} /\ ReceivingSize(r) = {}
    OBVIOUS
  <2>1. PICK a \in Nat, b \in Nat, c \in Nat : a = toSend[r] /\ b = toRecv[r] /\ c = sizeToRecv[r]
    BY DEF RequestInv, MemberInv
  <2>2. a = 0 /\ b = 0 /\ c = 0
    <3>1. toSend[r] + toRecv[r] + sizeToRecv[r] = 0
      BY DEF LoopDone
    <3>2. a + b + c = 0
      BY <2>1, <3>1, Zenon
    <3> QED BY <3>2
  <2>3. Sending(r) \in SUBSET Links /\ Receiving(r) \in SUBSET Links /\ ReceivingSize(r) \in SUBSET Links
    BY <1>0, LinksFinite DEF Sending, Receiving, ReceivingSize
  <2>4. Cardinality(Sending(r)) = 0 /\ Cardinality(Receiving(r)) = 0 /\ Cardinality(ReceivingSize(r)) = 0
    BY <2>1, <2>2 DEF RequestInv, CountersInv
  <2> QED BY <1>0, <2>3, <2>4, LinksFinite
<1>2. ASSUME l[1] = r PROVE sendReq[l] = NullRequest
  <2>1. ASSUME sendReq[l] # NullRequest PROVE FALSE
    <3>1. pc[r] # "user" /\ Linked(l)
      BY <1>0, <1>2, <2>1 DEF EndsInv, SenderInv
    <3>2. l \in Out(r)
      BY <1>0, <1>2, <3>1, LinksOf
    <3> QED BY <1>1, <2>1, <3>1, <3>2 DEF Sending
  <2> QED BY <2>1
<1>3. ASSUME l[2] = r PROVE recvReq[l] = NullRequest /\ sizeRecvReq[l] = NullRequest
  <2>1. ASSUME recvReq[l] # NullRequest \/ sizeRecvReq[l] # NullRequest PROVE FALSE
    <3>1. pc[r] # "user" /\ Linked(l)
      BY <1>0, <1>3, <2>1 DEF EndsInv, ReceiverInv
    <3>2. l \in In(r)
      BY <1>0, <1>3, <3>1, LinksOf
    <3> QED BY <1>1, <2>1, <3>1, <3>2 DEF Receiving, ReceivingSize
  <2> QED BY <2>1
<1> QED BY <1>0, <1>2, <1>3 DEF EndsInv, SenderInv, ReceiverInv

\* A rank returns.
LEMMA ReturnKeepsEnds ==
  ASSUME RequestInv, ItemsInEveryCall, NEW r \in Rank, Return(r), NEW l \in Links
  PROVE  EndsInv(l)'
<1>0. /\ pc[r] \in {"data", "fixed"} /\ scenario' = scenario /\ call' = call
      /\ sendIndex' = sendIndex /\ recvIndex' = recvIndex /\ sizes' = sizes /\ fixedSize' = fixedSize
      /\ sendReq' = sendReq /\ recvReq' = recvReq /\ sizeRecvReq' = sizeRecvReq
      /\ pc' = [pc EXCEPT ![r] = "user"]
      /\ \A k \in Out(r) : sizeSendReq[k].state # "posted"
      /\ sizeSendReq' = [k \in Links |-> IF k \in Out(r) THEN NullRequest ELSE sizeSendReq[k]]
  BY DEF Return, requests
<1>1. Idle(r) /\ EndsInv(l) /\ l[1] \in Rank /\ l[2] \in Rank
  BY NothingLeft, LinkEnds DEF Return, RequestInv
<1>2. scenario \in Scenarios /\ pc \in [Rank -> {"user", "sizes", "data", "fixed"}]
  BY DEF RequestInv, ControlInv
<1>3. \A q \in Rank : /\ q # r => pc'[q] = pc[q]
                      /\ pc'[r] = "user"
                      /\ (pc'[q] = "sizes" <=> pc[q] = "sizes")
  BY <1>0, <1>2
<1>4. /\ \A q \in Rank : \A i : End(q, l, i)' = End(q, l, i) /\ Message(q, l, i)' = Message(q, l, i)
      /\ \A q \in Rank : Stage(q)' = Stage(q)
      /\ \A q \in Rank : \A n : HandleSize(pc'[q], n, l) = HandleSize(pc[q], n, l)
  <2>1. \A q \in Rank : \A n, i : /\ HandleSize(pc'[q], n, l) = HandleSize(pc[q], n, l)
                              /\ Gather(pc'[q], n, l, i) = Gather(pc[q], n, l, i)
    BY <1>3 DEF HandleSize, Gather
  <2>2. \A q \in Rank : \A n, i : PackEntries(pc'[q], n, l, i) = PackEntries(pc[q], n, l, i)
    BY <2>1 DEF PackEntries
  <2>3. \A q \in Rank : \A n, i, j : Gathered(pc'[q], n, l, i, j) = Gathered(pc[q], n, l, i, j)
    BY <2>1 DEF Gathered
  <2>4. \A q \in Rank : \A i : End(q, l, i)' = End(q, l, i)
    BY <1>0, <2>2, SameScenario DEF End
  <2>5. \A q \in Rank : \A i : Message(q, l, i)' = Message(q, l, i)
    BY <1>0, <2>3, <2>4, SameScenario DEF Message
  <2>6. \A q \in Rank : Stage(q)' = Stage(q)
    BY <1>0, <1>3 DEF Stage
  <2> QED BY <2>1, <2>4, <2>5, <2>6
<1>5. /\ Linked(l) /\ l[1] = r => sizeSendReq'[l] = NullRequest /\ sizeSendReq[l].state # "posted"
      /\ ~Linked(l) \/ l[1] # r => sizeSendReq'[l] = sizeSendReq[l]
  BY <1>0, <1>2, LinksOf
<1>6. SenderInv(l)'
  <2>1. CASE l[1] = r
    <3>1. sendReq[l] = NullRequest /\ sendReq'[l] = NullRequest
      BY <1>0, <1>1, <2>1 DEF Idle
    <3>2. sizeSendReq'[l] = NullRequest
      BY <1>1, <1>5, <2>1 DEF EndsInv, SenderInv
    <3>3. pc'[l[1]] = "user"
      BY <1>3, <2>1
    <3>4. call[l[1]] > 0 => ItemsLeft(HandleSize(pc[l[1]], call[l[1]], l), sendIndex[l])
      BY <1>1 DEF EndsInv, SenderInv
    <3>5. (call[l[1]] > 0 => ItemsLeft(HandleSize(pc[l[1]], call[l[1]], l), sendIndex[l]))'
      BY <1>0, <1>1, <1>4, <3>4, SameScenario
    <3>6. (sendIndex[l] \in 0 .. Total(call[l[1]], l))' /\ (sendIndex[l] = Total(call[l[1]], l))'
      BY <1>0, <1>1, <2>1, SameScenario DEF EndsInv, SenderInv, Idle
    <3> QED BY <3>1, <3>2, <3>3, <3>5, <3>6, RequestStates DEF SenderInv
  <2>2. CASE l[1] # r
    <3>1. pc'[l[1]] = pc[l[1]] /\ sizeSendReq'[l] = sizeSendReq[l]
      BY <1>1, <1>3, <1>5, <2>2
    <3> QED BY <1>0, <1>1, <3>1, SameScenario DEF EndsInv, SenderInv
  <2> QED BY <2>1, <2>2
<1>7. ReceiverInv(l)'
  <2>1. CASE l[2] = r
    <3>1. recvReq'[l] = NullRequest /\ sizeRecvReq'[l] = NullRequest
      BY <1>0, <1>1, <2>1 DEF Idle
    <3>2. pc'[l[2]] = "user"
      BY <1>3, <2>1
    <3>3. call[l[2]] > 0 => ItemsLeft(HandleSize(pc[l[2]], call[l[2]], l), recvIndex[l])
      BY <1>1 DEF EndsInv, ReceiverInv
    <3>4. (call[l[2]] > 0 => ItemsLeft(HandleSize(pc[l[2]], call[l[2]], l), recvIndex[l]))'
      BY <1>0, <1>1, <1>4, <3>3, SameScenario
    <3>5. (recvIndex[l] \in 0 .. Total(call[l[2]], l))' /\ (recvIndex[l] = Total(call[l[2]], l))'
      BY <1>0, <1>1, <2>1, SameScenario DEF EndsInv, ReceiverInv, Idle
    <3> QED BY <3>1, <3>2, <3>4, <3>5, RequestStates DEF ReceiverInv
  <2>2. CASE l[2] # r
    <3>1. pc'[l[2]] = pc[l[2]]
      BY <1>1, <1>3, <2>2
    <3>2. Message(l[2], l, recvIndex[l])' = Message(l[2], l, recvIndex[l])
      BY <1>0, <1>1, <1>4
    <3> QED BY <1>0, <1>1, <3>1, <3>2, SameScenario DEF EndsInv, ReceiverInv
  <2> QED BY <2>1, <2>2
<1>8. Linked(l) => LinkInv(l)'
  <2> SUFFICES ASSUME Linked(l) PROVE LinkInv(l)'
    OBVIOUS
  <2>1. Received(l)' = Received(l)
    BY <1>0, <1>1, <1>4 DEF Received
  <2>2. \A d : Posted(d)' = Posted(d)
    BY DEF Posted
  <2>3. /\ \A i : /\ End(l[1], l, i)' = End(l[1], l, i) /\ End(l[2], l, i)' = End(l[2], l, i)
                  /\ Message(l[1], l, i)' = Message(l[1], l, i)
        /\ \A q : Total(q, l)' = Total(q, l)
    BY <1>0, <1>1, <1>4, SameScenario
  <2>4. Same(l)' = Same(l) /\ SenderAhead(l)' = SenderAhead(l) /\ ReceiverAhead(l)' = ReceiverAhead(l)
    <3>1. Same(l)' = Same(l)
      BY <1>0, <2>1, <2>2, <2>3 DEF Same
    <3>2. SenderAhead(l)' = SenderAhead(l)
      BY <1>0, <2>1, <2>2, <2>3 DEF SenderAhead
    <3>3. ReceiverAhead(l)' = ReceiverAhead(l)
      BY <1>0, <2>1, <2>2, <2>3 DEF ReceiverAhead
    <3> QED BY <3>1, <3>2, <3>3
  <2>5. Stage(l[1])' = Stage(l[1]) /\ Stage(l[2])' = Stage(l[2])
    BY <1>1, <1>4
  <2>6. \A a, b : Between(l, a, b)' = Between(l, a, b)
    BY <1>0, SameScenario
  <2> QED BY <1>1, <2>4, <2>5, <2>6 DEF LinkInv, EndsInv
<1>9. Linked(l) => FixedInv(l)'
  <2> SUFFICES ASSUME Linked(l) PROVE FixedInv(l)'
    OBVIOUS
  <2>1. sizeSendReq'[l].state = "posted" <=> sizeSendReq[l].state = "posted"
    BY <1>5, RequestStates
  <2>2. FixedInv(l)
    BY <1>1 DEF EndsInv
  <2> QED BY <1>0, <2>1, <2>2, SameScenario DEF FixedInv
<1> QED BY <1>0, <1>6, <1>7, <1>8, <1>9, SameScenario DEF EndsInv

\* A rank without neighbours makes a call.
LEMMA NothingKeepsEnds ==
  ASSUME RequestInv, ItemsInEveryCall, NEW r \in Rank, CommunicateNothing(r), NEW l \in Links
  PROVE  EndsInv(l)'
<1>0. /\ pc[r] = "user" /\ call[r] < NumCalls /\ Neighbours(r) = {}
      /\ call' = [call EXCEPT ![r] = call[r] + 1]
      /\ scenario' = scenario /\ pc' = pc /\ sendIndex' = sendIndex /\ recvIndex' = recvIndex /\ sizes' = sizes
      /\ fixedSize' = fixedSize /\ sendReq' = sendReq /\ recvReq' = recvReq
      /\ sizeSendReq' = sizeSendReq /\ sizeRecvReq' = sizeRecvReq
  BY DEF CommunicateNothing, requests, sizeRequests
<1>1. scenario \in Scenarios /\ call \in [Rank -> 0 .. NumCalls] /\ EndsInv(l) /\ l[1] \in Rank /\ l[2] \in Rank
      /\ NumCalls \in Nat
  BY LinkEnds, CommunicatorAssumption DEF RequestInv, ControlInv
<1>2. CASE l[1] # r /\ l[2] # r
  <2>1. call'[l[1]] = call[l[1]] /\ call'[l[2]] = call[l[2]]
    BY <1>0, <1>1, <1>2
  <2> QED BY <1>0, <1>1, <2>1, EndsFrame
<1>3. CASE l[1] = r \/ l[2] = r
  <2>1. ~Linked(l)
    <3>1. Out(r) = {} /\ In(r) = {}
      BY <1>0 DEF Out, In
    <3> QED BY <1>1, <1>3, <3>1, LinksOf
  <2>2. \A n \in 1 .. NumCalls : Entries(n, l) = 0
    BY <1>1, <2>1, CallFacts
  <2>3. \A n \in 0 .. NumCalls : Total(n, l) = 0
    <3>1. \A n \in 0 .. NumCalls : n = 0 \/ n \in 1 .. NumCalls
      BY <1>1
    <3> QED BY <2>2, <3>1 DEF Total
  <2>4. \A n \in 1 .. NumCalls : \A loop : ItemsLeft(HandleSize(loop, n, l), 0)
    BY <1>1, HandleFacts
  <2>5. \A q \in Rank : call'[q] \in 0 .. NumCalls /\ (call'[q] > 0 => call'[q] \in 1 .. NumCalls)
    BY <1>0, <1>1
  <2>6. /\ sendIndex[l] = 0 /\ sendReq[l] = NullRequest /\ sizeSendReq[l] = NullRequest
        /\ recvIndex[l] = 0 /\ recvReq[l] = NullRequest /\ sizeRecvReq[l] = NullRequest
    BY <1>1, <2>1, <2>3 DEF EndsInv, SenderInv, ReceiverInv
  <2>7. /\ Total(call[l[1]], l)' = 0 /\ Total(call[l[2]], l)' = 0
        /\ (call[l[1]] > 0 => ItemsLeft(HandleSize(pc[l[1]], call[l[1]], l), 0))'
        /\ (call[l[2]] > 0 => ItemsLeft(HandleSize(pc[l[2]], call[l[2]], l), 0))'
    BY <1>0, <1>1, <2>3, <2>4, <2>5, SameScenario
  <2>8. Linked(l)' = FALSE
    BY <1>0, <2>1, SameScenario
  <2>9. SenderInv(l)'
    BY <1>0, <2>6, <2>7, <2>8, RequestStates DEF SenderInv
  <2>10. ReceiverInv(l)'
    BY <1>0, <2>6, <2>7, <2>8, RequestStates DEF ReceiverInv
  <2> QED BY <2>8, <2>9, <2>10 DEF EndsInv
<1> QED BY <1>2, <1>3

-----------------------------------------------------------------------------
\* A rank comes to a loop.

Begins(r, n, loop) ==
  /\ n \in 1 .. NumCalls /\ loop \in {"sizes", "data", "fixed"} /\ (loop = "fixed" <=> Call(n).fixedSize)
  /\ IF loop = "data" THEN pc[r] = "sizes" /\ call[r] = n ELSE pc[r] = "user" /\ n = call[r] + 1
  /\ Idle(r)
  /\ scenario' = scenario /\ call' = [call EXCEPT ![r] = n] /\ pc' = [pc EXCEPT ![r] = loop]
  /\ \A l \in Links :
       /\ l[1] # r => /\ sendIndex'[l] = sendIndex[l] /\ sendReq'[l] = sendReq[l]
                      /\ sizeSendReq'[l] = sizeSendReq[l]
       /\ l[1] = r =>
            /\ sendIndex'[l] = PackEntries(loop, n, l, 0) /\ sendReq'[l] = SetupSend(loop, n, l, 0)
            /\ sizeSendReq'[l] = IF loop = "fixed" /\ Linked(l) THEN Posted(<<FixedSizeFor(n, r, l[2])>>)
                                 ELSE NullRequest
       /\ l[2] # r => /\ recvIndex'[l] = recvIndex[l] /\ recvReq'[l] = recvReq[l] /\ sizes'[l] = sizes[l]
                      /\ sizeRecvReq'[l] = sizeRecvReq[l] /\ fixedSize'[l] = fixedSize[l]
       /\ l[2] = r =>
            /\ recvIndex'[l] = 0
            /\ recvReq'[l] = IF loop # "fixed" /\ Entries(n, l) > 0 THEN Posted(<<>>) ELSE NullRequest
            /\ sizeRecvReq'[l] = IF loop = "fixed" /\ Linked(l) THEN Posted(<<>>) ELSE NullRequest
            /\ loop = "sizes" /\ Linked(l) => Len(sizes'[l]) = Entries(n, l)
            /\ loop = "data" /\ Linked(l) => sizes'[l] = Call(n).size[l]

\* What is posted when a loop begins.
LEMMA BeginFacts ==
  ASSUME RequestInv, ItemsInEveryCall, NEW r \in Rank, NEW n, NEW loop, Begins(r, n, loop), NEW l \in Links
  PROVE  /\ call'[r] = n /\ pc'[r] = loop /\ scenario' = scenario /\ scenario \in Scenarios
         /\ \A q \in Rank : q # r => call'[q] = call[q] /\ pc'[q] = pc[q]
         /\ Entries(n, l) \in Nat /\ Total(n, l) = Entries(n, l)
         /\ \A i : /\ End(r, l, i)' = PackEntries(loop, n, l, i)
                   /\ Message(r, l, i)' = Gathered(loop, n, l, i, PackEntries(loop, n, l, i))
         /\ l[1] = r =>
              /\ sendIndex'[l] \in 0 .. Entries(n, l) /\ ItemsLeft(HandleSize(loop, n, l), sendIndex'[l])
              /\ Entries(n, l) = 0 => sendReq'[l] = NullRequest /\ sendIndex'[l] = 0
              /\ Entries(n, l) > 0 => /\ sendReq'[l] = Posted(Gathered(loop, n, l, 0, PackEntries(loop, n, l, 0)))
                                      /\ Len(Gathered(loop, n, l, 0, PackEntries(loop, n, l, 0))) > 0
                                      /\ Linked(l)
         /\ ItemsLeft(HandleSize(loop, n, l), 0)
         /\ l[1] \in Rank /\ l[2] \in Rank
<1>1. n \in 1 .. NumCalls /\ scenario \in Scenarios /\ scenario' = scenario
  BY DEF Begins, RequestInv, ControlInv
<1>2. call'[r] = n /\ pc'[r] = loop /\ \A q \in Rank : q # r => call'[q] = call[q] /\ pc'[q] = pc[q]
  BY DEF Begins, RequestInv, ControlInv
<1>3. Entries(n, l) \in Nat /\ Total(n, l) = Entries(n, l) /\ (Entries(n, l) > 0 => Linked(l))
  <2>1. n # 0
    BY <1>1, CommunicatorAssumption
  <2> QED BY <1>1, <2>1, CallFacts DEF Total
<1>4. \A i : End(r, l, i)' = PackEntries(loop, n, l, i)
  BY <1>1, <1>2, SameScenario DEF End
<1>5. \A i : Message(r, l, i)' = Gathered(loop, n, l, i, PackEntries(loop, n, l, i))
  BY <1>1, <1>2, <1>4, SameScenario DEF Message
<1>6. ItemsLeft(HandleSize(loop, n, l), 0) /\ 0 \in 0 .. Entries(n, l)
  BY <1>1, <1>3, HandleFacts
<1>7. ASSUME l[1] = r
      PROVE  /\ sendIndex'[l] \in 0 .. Entries(n, l) /\ ItemsLeft(HandleSize(loop, n, l), sendIndex'[l])
             /\ Entries(n, l) = 0 => sendReq'[l] = NullRequest /\ sendIndex'[l] = 0
             /\ Entries(n, l) > 0 => /\ sendReq'[l] = Posted(Gathered(loop, n, l, 0, PackEntries(loop, n, l, 0)))
                                     /\ Len(Gathered(loop, n, l, 0, PackEntries(loop, n, l, 0))) > 0
  <2>1. sendIndex'[l] = PackEntries(loop, n, l, 0) /\ sendReq'[l] = SetupSend(loop, n, l, 0)
    BY <1>7 DEF Begins
  <2>2. PICK z : z = 0
    OBVIOUS
  <2>3. z \in 0 .. Entries(n, l) /\ ItemsLeft(HandleSize(loop, n, l), z)
    BY <1>6, <2>2
  <2>4. /\ PackEntries(loop, n, l, z) \in z .. Entries(n, l)
        /\ ItemsLeft(HandleSize(loop, n, l), PackEntries(loop, n, l, z))
        /\ z < Entries(n, l) /\ ItemsLeft(HandleSize(loop, n, l), z) =>
             /\ Len(Gathered(loop, n, l, z, PackEntries(loop, n, l, z))) > 0
             /\ SetupSend(loop, n, l, z) = Posted(Gathered(loop, n, l, z, PackEntries(loop, n, l, z)))
        /\ z = Entries(n, l) => PackEntries(loop, n, l, z) = z /\ SetupSend(loop, n, l, z) = NullRequest
    BY <1>1, <2>3, SetupSendRight
  <2> QED BY <2>1, <2>2, <2>3, <2>4
<1> QED BY <1>1, <1>2, <1>3, <1>4, <1>5, <1>6, <1>7, LinkEnds

\* A loop begins: the sender.
LEMMA BeginKeepsSender ==
  ASSUME RequestInv, ItemsInEveryCall, NEW r \in Rank, NEW n, NEW loop, Begins(r, n, loop), NEW l \in Links
  PROVE  SenderInv(l)'
<1>1. scenario' = scenario /\ SenderInv(l)
  BY DEF Begins, RequestInv, EndsInv
<1>2. CASE l[1] # r
  <2>1. call'[l[1]] = call[l[1]] /\ pc'[l[1]] = pc[l[1]]
    BY <1>2, BeginFacts
  <2>2. sendIndex'[l] = sendIndex[l] /\ sendReq'[l] = sendReq[l] /\ sizeSendReq'[l] = sizeSendReq[l]
    BY <1>2 DEF Begins
  <2> QED BY <1>1, <2>1, <2>2, SenderFrame
<1>3. CASE l[1] = r
  <2>1. /\ call'[l[1]] = n /\ pc'[l[1]] = loop
        /\ sendIndex'[l] \in 0 .. Entries(n, l) /\ ItemsLeft(HandleSize(loop, n, l), sendIndex'[l])
        /\ Entries(n, l) = 0 => sendReq'[l] = NullRequest /\ sendIndex'[l] = 0
        /\ Entries(n, l) > 0 => /\ sendReq'[l] = Posted(Gathered(loop, n, l, 0, PackEntries(loop, n, l, 0)))
                                /\ Len(Gathered(loop, n, l, 0, PackEntries(loop, n, l, 0))) > 0
                                /\ Linked(l)
        /\ Entries(n, l) \in Nat /\ Total(n, l) = Entries(n, l)
    BY <1>3, BeginFacts
  <2>2. /\ sizeSendReq'[l] = IF loop = "fixed" /\ Linked(l) THEN Posted(<<FixedSizeFor(n, r, l[2])>>)
                             ELSE NullRequest
        /\ loop # "user"
    BY <1>3 DEF Begins
  <2>3. /\ sizeSendReq'[l] # NullRequest <=> loop = "fixed" /\ Linked(l)
        /\ sizeSendReq'[l] \in {NullRequest, Done(<<>>), Posted(<<FixedSizeFor(n, l[1], l[2])>>)}
    BY <1>3, <2>2, RequestStates
  <2>4. /\ \A k : Total(k, l)' = Total(k, l)
        /\ \A k, i : HandleSize(i, k, l)' = HandleSize(i, k, l)
        /\ \A k : FixedSizeFor(k, l[1], l[2])' = FixedSizeFor(k, l[1], l[2])
        /\ Linked(l)' = Linked(l)
        /\ \A d : Posted(d)' = Posted(d) /\ Done(d)' = Done(d)
        /\ NullRequest' = NullRequest
    BY <1>1, SameScenario DEF Posted, Done, NullRequest
  <2>5. CASE Entries(n, l) = 0
    BY <2>1, <2>2, <2>3, <2>4, <2>5, RequestStates DEF SenderInv
  <2>6. CASE Entries(n, l) > 0
    <3> DEFINE message == Gathered(loop, n, l, 0, PackEntries(loop, n, l, 0))
    <3>1. sendReq'[l] = Posted(message) /\ Len(message) > 0 /\ Linked(l)
      BY <2>1, <2>6
    <3> HIDE DEF message
    <3>2. sendReq'[l].state = "posted" /\ sendReq'[l].data = message /\ sendReq'[l] # NullRequest
      BY <3>1, RequestStates
    <3> QED BY <2>1, <2>2, <2>3, <2>4, <3>1, <3>2 DEF SenderInv
  <2> QED BY <2>1, <2>5, <2>6
<1> QED BY <1>2, <1>3

\* A loop begins: the receiver.
LEMMA BeginKeepsReceiver ==
  ASSUME RequestInv, ItemsInEveryCall, NEW r \in Rank, NEW n, NEW loop, Begins(r, n, loop), NEW l \in Links
  PROVE  ReceiverInv(l)'
<1>1. scenario' = scenario /\ ReceiverInv(l)
  BY DEF Begins, RequestInv, EndsInv
<1>2. CASE l[2] # r
  <2>1. call'[l[2]] = call[l[2]] /\ pc'[l[2]] = pc[l[2]]
    BY <1>2, BeginFacts
  <2>2. /\ recvIndex'[l] = recvIndex[l] /\ recvReq'[l] = recvReq[l] /\ sizes'[l] = sizes[l]
        /\ sizeRecvReq'[l] = sizeRecvReq[l] /\ fixedSize'[l] = fixedSize[l]
    BY <1>2 DEF Begins
  <2> QED BY <1>1, <2>1, <2>2, ReceiverFrame
<1>3. CASE l[2] = r
  <2>1. /\ call'[l[2]] = n /\ pc'[l[2]] = loop
        /\ Entries(n, l) \in Nat /\ Total(n, l) = Entries(n, l)
        /\ ItemsLeft(HandleSize(loop, n, l), 0)
        /\ scenario \in Scenarios /\ n \in 1 .. NumCalls
    <3>1. n \in 1 .. NumCalls
      BY DEF Begins
    <3>2. /\ call'[r] = n /\ pc'[r] = loop /\ scenario \in Scenarios
          /\ Entries(n, l) \in Nat /\ Total(n, l) = Entries(n, l) /\ ItemsLeft(HandleSize(loop, n, l), 0)
      BY BeginFacts
    <3> QED BY <1>3, <3>1, <3>2
  <2>2. /\ recvIndex'[l] = 0 /\ loop \in {"sizes", "data", "fixed"}
        /\ recvReq'[l] = IF loop # "fixed" /\ Entries(n, l) > 0 THEN Posted(<<>>) ELSE NullRequest
        /\ sizeRecvReq'[l] = IF loop = "fixed" /\ Linked(l) THEN Posted(<<>>) ELSE NullRequest
        /\ loop = "sizes" /\ Linked(l) => Len(sizes'[l]) = Entries(n, l)
        /\ loop = "data" /\ Linked(l) => sizes'[l] = Call(n).size[l]
    BY <1>3 DEF Begins
  <2>3. Entries(n, l) > 0 => Linked(l)
    BY <2>1, CallFacts
  <2>4. /\ \A k : Total(k, l)' = Total(k, l)
        /\ \A k, i : HandleSize(i, k, l)' = HandleSize(i, k, l) /\ Size(k, l, i)' = Size(k, l, i)
        /\ \A k : Call(k)' = Call(k)
        /\ Linked(l)' = Linked(l)
        /\ \A d : Posted(d)' = Posted(d) /\ Done(d)' = Done(d)
        /\ NullRequest' = NullRequest
    BY <1>1, SameScenario DEF Posted, Done, NullRequest
  <2>5. Posted(<<>>) # NullRequest
    BY RequestStates
  <2>6. /\ recvReq'[l] \in {NullRequest, Posted(<<>>)} /\ sizeRecvReq'[l] \in {NullRequest, Posted(<<>>)}
        /\ recvReq'[l] # NullRequest => Linked(l) /\ 0 < Entries(n, l)
        /\ recvReq'[l] = NullRequest /\ sizeRecvReq'[l] = NullRequest => 0 = Entries(n, l)
        /\ sizeRecvReq'[l] # NullRequest => loop = "fixed" /\ Linked(l) /\ recvReq'[l] = NullRequest
        /\ loop = "fixed" /\ Linked(l) => sizeRecvReq'[l] # NullRequest
    BY <2>1, <2>2, <2>3, <2>5
  <2>7. 0 \in 0 .. Entries(n, l) /\ loop # "user" /\ \A i \in 1 .. 0 : FALSE
    BY <2>1, <2>2
  <2> QED BY <2>1, <2>2, <2>4, <2>6, <2>7 DEF ReceiverInv
<1> QED BY <1>2, <1>3

\* It comes to the next loop, and passes none that has a message for it.
LEMMA BeginStages ==
  ASSUME RequestInv, ItemsInEveryCall, NEW r \in Rank, NEW n, NEW loop, Begins(r, n, loop),
         NEW q \in Rank, q # r, NEW l \in Links
  PROVE  /\ Stage(r) \in Nat /\ Stage(q) \in Nat /\ Stage(r)' \in Nat /\ Stage(q)' = Stage(q)
         /\ Stage(r) < Stage(r)' /\ (Stage(r) < Stage(q) => Stage(r)' <= Stage(q))
         /\ Stage(q) = Stage(r) => call[q] = call[r] /\ Between(l, Stage(q), Stage(r)')
         /\ Stage(q) < Stage(r) /\ Between(l, Stage(q), Stage(r)) /\ Total(call[r], l) = 0 =>
              Between(l, Stage(q), Stage(r)')
         /\ Stage(r)' < Stage(q) /\ Between(l, Stage(r), Stage(q)) =>
              Entries(n, l) = 0 /\ Between(l, Stage(r)', Stage(q))
<1>1. /\ n \in 1 .. NumCalls /\ NumCalls \in Nat /\ loop \in {"sizes", "data", "fixed"}
      /\ loop = "fixed" <=> Call(n).fixedSize
      /\ IF loop = "data" THEN pc[r] = "sizes" /\ call[r] = n ELSE pc[r] = "user" /\ n = call[r] + 1
  BY CommunicatorAssumption DEF Begins
<1>2. /\ call'[r] = n /\ pc'[r] = loop /\ call'[q] = call[q] /\ pc'[q] = pc[q]
  BY BeginFacts
<1>3. /\ call[r] \in Nat /\ call[q] \in 0 .. NumCalls
      /\ pc[q] = "sizes" => call[q] \in 1 .. NumCalls /\ ~Call(call[q]).fixedSize
  BY <1>1 DEF RequestInv, ControlInv
<1>4. PICK c \in Nat, d \in Nat : c = call[r] /\ d = call[q]
  BY <1>1, <1>3
<1>5. PICK a \in Nat, b \in Nat, x \in Nat : a = Stage(r) /\ b = Stage(r)' /\ x = Stage(q)
  <2>1. Stage(r) \in Nat /\ Stage(q) \in Nat
    <3>1. 2 * c \in Nat /\ 2 * d \in Nat
      OBVIOUS
    <3> QED BY <1>4, <3>1 DEF Stage
  <2>2. Stage(r)' \in Nat
    <3>1. n \in Nat /\ 2 * n \in Nat
      BY <1>1
    <3> QED BY <1>2, <3>1 DEF Stage
  <2> QED BY <2>1, <2>2
<1>6. /\ loop = "data" => c = n /\ a = 2 * n /\ b = 2 * n + 1
      /\ loop = "fixed" => n = c + 1 /\ a = 2 * c + 1 /\ b = 2 * n + 1
      /\ loop = "sizes" => n = c + 1 /\ a = 2 * c + 1 /\ b = 2 * n
      /\ a = IF pc[r] = "sizes" THEN 2 * c ELSE 2 * c + 1
  BY <1>1, <1>2, <1>4, <1>5 DEF Stage
<1>7. x = (IF pc[q] = "sizes" THEN 2 * d ELSE 2 * d + 1) /\ Stage(q)' = x
  BY <1>2, <1>4, <1>5 DEF Stage
<1>8. pc[q] = "sizes" => ~(Call(d).fixedSize)
  BY <1>3, <1>4
<1>9. a < b /\ (a < x => b <= x)
  <2>1. loop = "fixed" => ~(pc[q] = "sizes" /\ d = n)
    BY <1>1, <1>8
  <2> QED BY <1>1, <1>6, <1>7, <2>1
<1>10. x = a => d = c
  BY <1>6, <1>7
<1>11. Total(call[r], l) = 0 => \A k \in 1 .. NumCalls : k = c => Entries(k, l) = 0
  BY <1>4 DEF Total
<1>12. x = a => Between(l, x, b)
  BY <1>1, <1>6 DEF Between
<1>13. x < a /\ Between(l, x, a) /\ Total(call[r], l) = 0 => Between(l, x, b)
  BY <1>1, <1>6, <1>11 DEF Between
<1>14. b < x /\ Between(l, a, x) => Entries(n, l) = 0 /\ Between(l, b, x)
  BY <1>1, <1>6 DEF Between
<1> QED BY <1>4, <1>5, <1>7, <1>9, <1>10, <1>12, <1>13, <1>14

\* A loop begins: the two ends, of which one may come before the other.
LEMMA BeginKeepsLink ==
  ASSUME RequestInv, ItemsInEveryCall, NEW r \in Rank, NEW n, NEW loop, Begins(r, n, loop),
         NEW l \in Links, Linked(l)
  PROVE  LinkInv(l)'
<1>1. /\ scenario' = scenario /\ SenderInv(l) /\ ReceiverInv(l) /\ LinkInv(l)
      /\ Idle(r) /\ l[1] \in Rank /\ l[2] \in Rank /\ EndsInv(l)
  BY LinkEnds DEF Begins, RequestInv, EndsInv
<1>2. /\ \A d : Posted(d)' = Posted(d)
      /\ \A k : Total(k, l)' = Total(k, l)
      /\ \A a, b : Between(l, a, b)' = Between(l, a, b)
  BY <1>1, SameScenario DEF Posted
<1>3. Entries(n, l) \in Nat /\ Total(n, l) = Entries(n, l) /\ call'[r] = n
  BY BeginFacts
\* The first message of r.
<1>4. ASSUME l[1] = r
      PROVE  /\ Entries(n, l) = 0 => sendReq'[l].state = "null" /\ sendIndex'[l] = 0
             /\ Entries(n, l) > 0 => /\ sendReq'[l].state = "posted"
                                     /\ sendReq'[l] = Posted(Message(r, l, 0)')
                                     /\ sendIndex'[l] = End(r, l, 0)'
  <2>1. /\ Entries(n, l) = 0 => sendReq'[l] = NullRequest /\ sendIndex'[l] = 0
        /\ Entries(n, l) > 0 => sendReq'[l] = Posted(Gathered(loop, n, l, 0, PackEntries(loop, n, l, 0)))
        /\ End(r, l, 0)' = PackEntries(loop, n, l, 0)
        /\ Message(r, l, 0)' = Gathered(loop, n, l, 0, PackEntries(loop, n, l, 0))
    BY <1>4, BeginFacts
  <2>2. sendIndex'[l] = PackEntries(loop, n, l, 0)
    BY <1>4 DEF Begins
  <2> QED BY <2>1, <2>2, RequestStates
\* The receives of r.
<1>5. ASSUME l[2] = r
      PROVE  /\ recvIndex'[l] = 0 /\ recvReq'[l].state # "done" /\ Received(l)' = 0
             /\ Entries(n, l) = 0 => recvReq'[l].state # "posted"
  <2>1. recvIndex'[l] = 0
        /\ recvReq'[l] = IF loop # "fixed" /\ Entries(n, l) > 0 THEN Posted(<<>>) ELSE NullRequest
    BY <1>5 DEF Begins
  <2>2. recvReq'[l].state # "done" /\ (Entries(n, l) = 0 => recvReq'[l].state # "posted")
    BY <2>1, RequestStates
  <2> QED BY <2>1, <2>2 DEF Received
<1>6. CASE l[1] # r /\ l[2] # r
  <2>1. /\ call'[l[1]] = call[l[1]] /\ pc'[l[1]] = pc[l[1]] /\ call'[l[2]] = call[l[2]] /\ pc'[l[2]] = pc[l[2]]
    BY <1>1, <1>6, BeginFacts
  <2>2. /\ sendIndex'[l] = sendIndex[l] /\ recvIndex'[l] = recvIndex[l]
        /\ sendReq'[l] = sendReq[l] /\ recvReq'[l] = recvReq[l]
        /\ sizeSendReq'[l] = sizeSendReq[l] /\ sizeRecvReq'[l] = sizeRecvReq[l]
        /\ sizes'[l] = sizes[l] /\ fixedSize'[l] = fixedSize[l]
    BY <1>6 DEF Begins
  <2>3. EndsInv(l)'
    BY <1>1, <2>1, <2>2, EndsFrame
  <2>4. Linked(l)'
    BY <1>1, SameScenario
  <2> QED BY <2>3, <2>4 DEF EndsInv
<1>7. CASE l[1] = r /\ l[2] = r
  <2>1. Same(l)'
    BY <1>3, <1>4, <1>5, <1>7 DEF Same
  <2>2. (Stage(r) \in Nat)'
    <3>1. n \in Nat
      BY CommunicatorAssumption DEF Begins
    <3> QED BY <1>3, <3>1 DEF Stage
  <2> QED BY <1>7, <2>1, <2>2 DEF LinkInv
<1>8. CASE l[1] = r /\ l[2] # r
  <2> DEFINE q == l[2]
  <2>0. PICK a \in Nat, b \in Nat, x \in Nat : a = Stage(r) /\ b = Stage(r)' /\ x = Stage(q)
    BY <1>1, <1>8, BeginStages
  <2>1. /\ Stage(q)' = x /\ a < b /\ (a < x => b <= x)
        /\ x = a => call[q] = call[r] /\ Between(l, x, b)
        /\ x < a /\ Between(l, x, a) /\ Total(call[r], l) = 0 => Between(l, x, b)
        /\ b < x /\ Between(l, a, x) => Entries(n, l) = 0 /\ Between(l, b, x)
    BY <1>1, <1>8, <2>0, BeginStages
  <2>2. /\ call'[q] = call[q] /\ pc'[q] = pc[q] /\ recvIndex'[l] = recvIndex[l] /\ recvReq'[l] = recvReq[l]
        /\ sizes'[l] = sizes[l] /\ sizeRecvReq'[l] = sizeRecvReq[l] /\ fixedSize'[l] = fixedSize[l]
    <3>1. call'[q] = call[q] /\ pc'[q] = pc[q]
      BY <1>1, <1>8, BeginFacts
    <3> QED BY <1>8, <3>1 DEF Begins
  <2>3. Received(l)' = Received(l) /\ Total(call[q], l)' = Total(call[q], l)
    BY <1>1, <2>2, ReceiverFrame
  <2>4. sendReq[l].state = "null" /\ sendIndex[l] = Total(call[r], l)
    BY <1>1, <1>8, RequestStates DEF Idle
  <2>5. a = x => Same(l) /\ Between(l, x, b)
    BY <2>0, <1>1, <1>8, <2>1 DEF LinkInv
  <2>6. x < a => SenderAhead(l) /\ Between(l, x, b)
    BY <2>0, <1>1, <1>8, <2>1, <2>4 DEF LinkInv, SenderAhead
  <2>7. a < x => ReceiverAhead(l) /\ Between(l, a, x)
    BY <2>0, <1>1, <1>8 DEF LinkInv
  <2>8. ASSUME x <= a PROVE recvReq[l].state # "posted" /\ Received(l) = Total(call[q], l)
    <3>1. CASE x < a
      BY <2>6, <3>1 DEF SenderAhead
    <3>2. CASE x = a
      <4>1. Received(l) = Total(call[q], l)
        BY <2>1, <2>4, <2>5, <3>2 DEF Same
      <4>2. ASSUME recvReq[l].state = "posted" PROVE FALSE
        <5>1. recvReq[l] # NullRequest
          BY <4>2, RequestStates
        <5>2. recvIndex[l] < Total(call[q], l) /\ recvIndex[l] \in 0 .. Total(call[q], l)
          BY <1>1, <5>1 DEF ReceiverInv
        <5>3. Received(l) = recvIndex[l]
          BY <4>2 DEF Received
        <5> QED BY <4>1, <5>2, <5>3
      <4> QED BY <4>1, <4>2
    <3> QED BY <2>1, <2>8, <3>1, <3>2
  <2>9. ASSUME x <= a PROVE SenderAhead(l)' /\ Between(l, x, b)
    <3>1. Between(l, x, b)
      BY <2>1, <2>5, <2>6, <2>9
    <3>2. recvReq'[l].state # "posted" /\ (Received(l) = Total(call[q], l))'
      BY <2>2, <2>3, <2>8, <2>9
    <3>3. sendReq'[l].state # "done"
          /\ (sendReq'[l].state = "posted" => /\ sendReq'[l] = Posted(Message(r, l, 0)')
                                              /\ sendIndex'[l] = End(r, l, 0)')
          /\ (sendReq'[l].state = "null" => Entries(n, l) = 0)
      BY <1>3, <1>4, <1>8
    <3>4. Total(call[l[1]], l)' = Entries(n, l)
      BY <1>2, <1>3, <1>8
    <3> QED BY <1>2, <1>8, <3>1, <3>2, <3>3, <3>4 DEF SenderAhead
  <2>10. ASSUME b = x PROVE Same(l)'
    <3>1. ReceiverAhead(l)
      BY <2>1, <2>7, <2>10
    <3>2. Received(l)' = 0
      BY <2>3, <3>1 DEF ReceiverAhead, Received
    <3> QED BY <1>2, <1>3, <1>4, <1>8, <3>2 DEF Same
  <2>11. ASSUME b < x PROVE ReceiverAhead(l)' /\ Between(l, b, x)
    <3>1. ReceiverAhead(l) /\ Entries(n, l) = 0 /\ Between(l, b, x)
      BY <2>1, <2>7, <2>11
    <3>2. recvReq'[l].state # "done" /\ recvIndex'[l] = 0
      BY <2>2, <3>1 DEF ReceiverAhead
    <3>3. sendReq'[l].state # "posted" /\ sendIndex'[l] = 0 /\ Total(call[l[1]], l)' = 0
      BY <1>2, <1>3, <1>4, <1>8, <3>1
    <3> QED BY <3>1, <3>2, <3>3 DEF ReceiverAhead
  <2>12. /\ b = x => Same(l)'
         /\ x < b => SenderAhead(l)' /\ Between(l, x, b)'
         /\ b < x => ReceiverAhead(l)' /\ Between(l, b, x)'
    <3>1. x < b => x <= a
      BY <2>1
    <3> QED BY <1>2, <2>9, <2>10, <2>11, <3>1
  <2> QED BY <2>0, <1>2, <1>8, <2>1, <2>9, <2>10, <2>11, <2>12 DEF LinkInv
<1>9. CASE l[1] # r /\ l[2] = r
  <2> DEFINE q == l[1]
  <2>0. PICK a \in Nat, b \in Nat, x \in Nat : a = Stage(r) /\ b = Stage(r)' /\ x = Stage(q)
    BY <1>1, <1>9, BeginStages
  <2>1. /\ Stage(q)' = x /\ a < b /\ (a < x => b <= x)
        /\ x = a => call[q] = call[r] /\ Between(l, x, b)
        /\ x < a /\ Between(l, x, a) /\ Total(call[r], l) = 0 => Between(l, x, b)
        /\ b < x /\ Between(l, a, x) => Entries(n, l) = 0 /\ Between(l, b, x)
    BY <1>1, <1>9, <2>0, BeginStages
  <2>2. /\ call'[q] = call[q] /\ pc'[q] = pc[q]
        /\ sendIndex'[l] = sendIndex[l] /\ sendReq'[l] = sendReq[l] /\ sizeSendReq'[l] = sizeSendReq[l]
    <3>1. call'[q] = call[q] /\ pc'[q] = pc[q]
      BY <1>1, <1>9, BeginFacts
    <3> QED BY <1>9, <3>1 DEF Begins
  <2>3. /\ \A i : End(q, l, i)' = End(q, l, i) /\ Message(q, l, i)' = Message(q, l, i)
        /\ Total(call[q], l)' = Total(call[q], l)
    BY <1>1, <2>2, SenderFrame
  <2>4. /\ recvReq[l].state = "null" /\ recvIndex[l] = Total(call[r], l) /\ Received(l) = recvIndex[l]
    BY <1>1, <1>9, RequestStates DEF Idle, Received
  <2>5. a = x => Same(l) /\ Between(l, x, b)
    BY <2>0, <1>1, <1>9, <2>1 DEF LinkInv
  <2>6. x < a => ReceiverAhead(l) /\ Between(l, x, b)
    BY <2>0, <1>1, <1>9, <2>1, <2>4 DEF LinkInv, ReceiverAhead
  <2>7. a < x => SenderAhead(l) /\ Between(l, a, x)
    BY <2>0, <1>1, <1>9 DEF LinkInv
  <2>8. ASSUME x <= a PROVE sendReq[l].state # "posted" /\ sendIndex[l] = Total(call[q], l)
    <3>1. CASE x < a
      BY <2>6, <3>1 DEF ReceiverAhead
    <3>2. CASE x = a
      <4>1. ASSUME sendReq[l].state = "posted" PROVE FALSE
        <5>1. Received(l) = Total(call[q], l)
          BY <2>1, <2>4, <3>2
        <5>2. sendReq[l] = Posted(Message(q, l, Total(call[q], l)))
          BY <2>5, <3>2, <4>1, <5>1 DEF Same
        <5>3. sendReq[l].data = Message(q, l, Total(call[q], l)) /\ sendReq[l] # NullRequest
          BY <4>1, <5>2, RequestStates
        <5>4. pc[q] # "user" /\ Len(sendReq[l].data) > 0
          BY <1>1, <4>1, <5>3 DEF SenderInv
        <5>5. Total(call[q], l) = Entries(call[q], l) /\ Total(call[q], l) \in Nat
          BY <5>4, EndsFacts
        <5>6. Total(call[q], l) \in 0 .. Entries(call[q], l)
          BY <5>5
        <5>7. Len(Message(q, l, Total(call[q], l))) = 0
          BY <5>4, <5>5, <5>6, MessageTypes
        <5> QED BY <5>3, <5>4, <5>7
      <4>2. sendIndex[l] = Total(call[q], l)
        BY <2>1, <2>4, <2>5, <3>2, <4>1 DEF Same
      <4> QED BY <4>1, <4>2
    <3> QED BY <2>1, <2>8, <3>1, <3>2
  <2>9. ASSUME x <= a PROVE ReceiverAhead(l)' /\ Between(l, x, b)
    <3>1. Between(l, x, b)
      BY <2>1, <2>5, <2>6, <2>9
    <3>2. sendReq'[l].state # "posted" /\ (sendIndex[l] = Total(call[q], l))'
      BY <2>2, <2>3, <2>8, <2>9
    <3> QED BY <1>5, <1>9, <3>1, <3>2 DEF ReceiverAhead
  <2>10. ASSUME b <= x
         PROVE  /\ SenderAhead(l) /\ sendReq'[l].state # "done"
                /\ sendReq'[l].state = "posted" => /\ sendReq'[l] = Posted(Message(q, l, 0)')
                                                   /\ sendIndex'[l] = End(q, l, 0)'
                /\ sendReq'[l].state = "null" => Total(call[q], l)' = 0
    <3>1. SenderAhead(l)
      BY <2>1, <2>7, <2>10
    <3> QED BY <2>2, <2>3, <3>1 DEF SenderAhead
  <2>11. ASSUME b = x PROVE Same(l)'
    <3>1. CASE sendReq'[l].state = "posted"
      BY <1>2, <1>5, <1>9, <2>10, <2>11, <2>1, <3>1 DEF Same
    <3>2. CASE sendReq'[l].state # "posted"
      <4>1. sendReq'[l].state = "null"
        <5>1. sendReq[l] \in Request
          BY DEF RequestInv, MemberInv
        <5> QED BY <2>1, <2>2, <2>10, <2>11, <3>2, <5>1 DEF Request
      <4>2. Total(call[q], l) = 0
        BY <2>1, <2>3, <2>10, <2>11, <4>1
      <4>3. sendIndex'[l] = 0
        BY <1>1, <2>2, <4>2 DEF SenderInv
      <4> QED BY <1>5, <1>9, <3>2, <4>3 DEF Same
    <3> QED BY <3>1, <3>2
  <2>12. ASSUME b < x PROVE SenderAhead(l)' /\ Between(l, b, x)
    <3>1. Entries(n, l) = 0 /\ Between(l, b, x)
      BY <2>1, <2>7, <2>12
    <3>2. recvReq'[l].state # "posted" /\ Received(l)' = 0 /\ Total(call[l[2]], l)' = 0
      BY <1>2, <1>3, <1>5, <1>9, <3>1
    <3>3. /\ sendReq'[l].state # "done"
          /\ sendReq'[l].state = "posted" => /\ sendReq'[l] = Posted(Message(q, l, 0)')
                                             /\ sendIndex'[l] = End(q, l, 0)'
          /\ sendReq'[l].state = "null" => Total(call[q], l)' = 0
      BY <2>1, <2>10, <2>12
    <3> QED BY <1>2, <3>1, <3>2, <3>3 DEF SenderAhead
  <2>13. /\ b = x => Same(l)'
         /\ x < b => ReceiverAhead(l)' /\ Between(l, x, b)'
         /\ b < x => SenderAhead(l)' /\ Between(l, b, x)'
    <3>1. x < b => x <= a
      BY <2>1
    <3> QED BY <1>2, <2>9, <2>11, <2>12, <3>1
  <2> QED BY <2>0, <1>2, <1>9, <2>1, <2>9, <2>11, <2>12, <2>13 DEF LinkInv
<1> QED BY <1>6, <1>7, <1>8, <1>9

\* A loop begins: the fixed sizes.
LEMMA BeginKeepsFixed ==
  ASSUME RequestInv, ItemsInEveryCall, NEW r \in Rank, NEW n, NEW loop, Begins(r, n, loop),
         NEW l \in Links, Linked(l)
  PROVE  FixedInv(l)'
<1>1. /\ scenario' = scenario /\ SenderInv(l) /\ ReceiverInv(l) /\ FixedInv(l)
      /\ Idle(r) /\ l[1] \in Rank /\ l[2] \in Rank /\ scenario \in Scenarios
  BY LinkEnds DEF Begins, RequestInv, EndsInv, ControlInv
<1>2. /\ \A a, b : NoneFixed(a, b)' = NoneFixed(a, b)
      /\ \A k : Call(k)' = Call(k)
  BY <1>1, SameScenario
<1>3. call'[r] = n /\ \A q \in Rank : q # r => call'[q] = call[q]
  BY BeginFacts
<1>4. /\ n \in 1 .. NumCalls /\ NumCalls \in Nat /\ (loop = "fixed" <=> Call(n).fixedSize)
      /\ loop = "data" => call[r] = n
      /\ loop # "data" => n = call[r] + 1
      /\ pc[r] # "fixed"
  BY CommunicatorAssumption DEF Begins
<1>5. /\ l[1] = r => sizeSendReq[l].state = "null" /\ (sizeSendReq'[l].state = "posted" <=> loop = "fixed")
      /\ l[1] # r => sizeSendReq'[l] = sizeSendReq[l]
  <2>1. l[1] # r => sizeSendReq'[l] = sizeSendReq[l]
    BY DEF Begins
  <2>2. ASSUME l[1] = r PROVE sizeSendReq[l] = NullRequest
    BY <1>1, <1>4, <2>2 DEF SenderInv
  <2>3. l[1] = r => sizeSendReq'[l] = IF loop = "fixed" THEN Posted(<<FixedSizeFor(n, r, l[2])>>) ELSE NullRequest
    BY DEF Begins
  <2> QED BY <2>1, <2>2, <2>3, RequestStates
<1>6. /\ l[2] = r => sizeRecvReq[l].state = "null" /\ (sizeRecvReq'[l].state = "posted" <=> loop = "fixed")
      /\ l[2] # r => sizeRecvReq'[l] = sizeRecvReq[l]
  <2>1. l[2] # r => sizeRecvReq'[l] = sizeRecvReq[l]
    BY DEF Begins
  <2>2. ASSUME l[2] = r PROVE sizeRecvReq[l] = NullRequest
    BY <1>1, <2>2 DEF Idle
  <2>3. l[2] = r => sizeRecvReq'[l] = IF loop = "fixed" THEN Posted(<<>>) ELSE NullRequest
    BY DEF Begins
  <2> QED BY <2>1, <2>2, <2>3, RequestStates
<1>7. /\ call[l[1]] \in Nat /\ call[l[2]] \in Nat
      /\ sizeSendReq[l].state = "posted" => Call(call[l[1]]).fixedSize
      /\ sizeRecvReq[l].state = "posted" => Call(call[l[2]]).fixedSize
  <2>1. \A q \in Rank : call[q] \in Nat /\ (pc[q] = "fixed" => Call(call[q]).fixedSize)
    BY <1>4 DEF RequestInv, ControlInv
  <2>2. /\ sizeSendReq[l].state = "posted" => sizeSendReq[l] # NullRequest
        /\ sizeRecvReq[l].state = "posted" => sizeRecvReq[l] # NullRequest
    BY RequestStates
  <2> QED BY <1>1, <2>1, <2>2 DEF SenderInv, ReceiverInv
<1> DEFINE sent == sizeSendReq[l].state = "posted"
           received == sizeRecvReq[l].state = "posted"
<1>8. CASE loop = "data" \/ (l[1] # r /\ l[2] # r)
  <2>1. call'[l[1]] = call[l[1]] /\ call'[l[2]] = call[l[2]]
    BY <1>1, <1>3, <1>4, <1>8
  <2>2. sent' = sent /\ received' = received
    BY <1>5, <1>6, <1>8
  <2> QED BY <1>1, <1>2, <2>1, <2>2 DEF FixedInv
<1>9. CASE loop # "data" /\ l[1] = r /\ l[2] = r
  BY <1>3, <1>4, <1>5, <1>6, <1>9 DEF FixedInv
<1>10. CASE loop # "data" /\ l[1] = r /\ l[2] # r
  <2>1. PICK c \in Nat, d \in Nat, e \in Nat : c = call[r] /\ d = call[l[2]] /\ e = n
    BY <1>4, <1>7, <1>10
  <2>2. e = c + 1 /\ e \in 1 .. NumCalls /\ call'[l[1]] = e /\ call'[l[2]] = d
    BY <1>1, <1>3, <1>4, <1>10, <2>1
  <2>3. /\ c = d => ~received
        /\ d < c => ~(Call(c).fixedSize) /\ ~received /\ NoneFixed(d, c)
        /\ c < d => (Call(d).fixedSize => received) /\ NoneFixed(c, d)
        /\ received => Call(d).fixedSize
    BY <1>1, <1>5, <1>7, <1>10, <2>1 DEF FixedInv
  <2>4. (sent' <=> Call(e).fixedSize) /\ received' = received
    BY <1>4, <1>5, <1>6, <1>10, <2>1
  <2>5. d < e => NoneFixed(d, e)
    BY <1>4, <2>2, <2>3 DEF NoneFixed
  <2>6. e < d => ~(Call(e).fixedSize) /\ NoneFixed(e, d)
    BY <1>4, <2>2, <2>3 DEF NoneFixed
  <2>7. /\ e = d => (sent' <=> received')
        /\ d < e => (Call(e).fixedSize => sent') /\ ~received' /\ NoneFixed(d, e)
        /\ e < d => (Call(d).fixedSize => received') /\ ~sent' /\ NoneFixed(e, d)
    BY <2>2, <2>3, <2>4, <2>5, <2>6
  <2> QED BY <1>2, <2>2, <2>7 DEF FixedInv
<1>11. CASE loop # "data" /\ l[1] # r /\ l[2] = r
  <2>1. PICK c \in Nat, d \in Nat, e \in Nat : c = call[r] /\ d = call[l[1]] /\ e = n
    BY <1>4, <1>7, <1>11
  <2>2. e = c + 1 /\ e \in 1 .. NumCalls /\ call'[l[2]] = e /\ call'[l[1]] = d
    BY <1>1, <1>3, <1>4, <1>11, <2>1
  <2>3. /\ c = d => ~sent
        /\ d < c => ~(Call(c).fixedSize) /\ ~sent /\ NoneFixed(d, c)
        /\ c < d => (Call(d).fixedSize => sent) /\ NoneFixed(c, d)
        /\ sent => Call(d).fixedSize
    BY <1>1, <1>6, <1>7, <1>11, <2>1 DEF FixedInv
  <2>4. (received' <=> Call(e).fixedSize) /\ sent' = sent
    BY <1>4, <1>5, <1>6, <1>11, <2>1
  <2>5. d < e => NoneFixed(d, e)
    BY <1>4, <2>2, <2>3 DEF NoneFixed
  <2>6. e < d => ~(Call(e).fixedSize) /\ NoneFixed(e, d)
    BY <1>4, <2>2, <2>3 DEF NoneFixed
  <2>7. /\ e = d => (sent' <=> received')
        /\ d < e => (Call(e).fixedSize => received') /\ ~sent' /\ NoneFixed(d, e)
        /\ e < d => (Call(d).fixedSize => sent') /\ ~received' /\ NoneFixed(e, d)
    BY <2>2, <2>3, <2>4, <2>5, <2>6
  <2> QED BY <1>2, <2>2, <2>7 DEF FixedInv
<1> QED BY <1>8, <1>9, <1>10, <1>11

\* A loop begins: all of a link.
LEMMA BeginKeepsEnds ==
  ASSUME RequestInv, ItemsInEveryCall, NEW r \in Rank, NEW n, NEW loop, Begins(r, n, loop), NEW l \in Links
  PROVE  EndsInv(l)'
<1>1. Linked(l)' = Linked(l)
  BY SameScenario DEF Begins
<1> QED BY <1>1, BeginKeepsSender, BeginKeepsReceiver, BeginKeepsLink, BeginKeepsFixed DEF EndsInv

\* The three ways to begin a loop.
LEMMA StartLoopFacts ==
  ASSUME RequestInv, ItemsInEveryCall, NEW r \in Rank, NEW n \in 1 .. NumCalls,
         NEW loop \in {"sizes", "data", "fixed"}, Idle(r), StartLoop(r, n, loop), NEW l \in Links
  PROVE  /\ l[1] # r => sendIndex'[l] = sendIndex[l] /\ sendReq'[l] = sendReq[l]
         /\ l[1] = r => sendIndex'[l] = PackEntries(loop, n, l, 0) /\ sendReq'[l] = SetupSend(loop, n, l, 0)
         /\ l[2] # r => recvIndex'[l] = recvIndex[l] /\ recvReq'[l] = recvReq[l]
         /\ l[2] = r => /\ recvIndex'[l] = 0
                        /\ recvReq'[l] = IF loop # "fixed" /\ Entries(n, l) > 0 THEN Posted(<<>>) ELSE NullRequest
         /\ sendIndex'[l] \in Nat /\ recvIndex'[l] \in Nat /\ sendReq'[l] \in Request /\ recvReq'[l] \in Request
         /\ SetupSend(loop, n, l, 0) # NullRequest <=> Entries(n, l) > 0
<1>0. /\ scenario \in Scenarios /\ l[1] \in Rank /\ l[2] \in Rank
      /\ call[r] \in 0 .. NumCalls /\ NumCalls \in Nat
      /\ sendIndex \in [Links -> Nat] /\ recvIndex \in [Links -> Nat]
      /\ sendReq \in [Links -> Request] /\ recvReq \in [Links -> Request]
  BY LinkEnds, CommunicatorAssumption DEF RequestInv, ControlInv, MemberInv
<1>1. /\ sendIndex' = [k \in Links |-> IF k \in Out(r) THEN PackEntries(loop, n, k, 0) ELSE sendIndex[k]]
      /\ recvIndex' = [k \in Links |-> IF k \in In(r) THEN 0 ELSE recvIndex[k]]
      /\ sendReq' = [k \in Links |-> IF k \in Out(r) THEN SetupSend(loop, n, k, 0) ELSE sendReq[k]]
      /\ recvReq' = [k \in Links |-> IF k \in In(r) THEN
                       (IF loop = "fixed" THEN NullRequest ELSE SetupRecv(n, k, 0)) ELSE recvReq[k]]
  BY DEF StartLoop
<1>2. /\ Entries(n, l) \in Nat /\ (Entries(n, l) > 0 => Linked(l))
      /\ \A k \in 1 .. NumCalls : Entries(k, l) \in Nat /\ (Entries(k, l) > 0 => Linked(l))
  BY <1>0, CallFacts
<1>3. ~Linked(l) => Entries(n, l) = 0 /\ Total(call[r], l) = 0
  <2>1. call[r] = 0 \/ call[r] \in 1 .. NumCalls
    BY <1>0
  <2> QED BY <1>2, <2>1 DEF Total
<1>4. PICK z \in {0} : z = 0
  OBVIOUS
<1>5. /\ PackEntries(loop, n, l, 0) \in 0 .. Entries(n, l)
      /\ Gathered(loop, n, l, 0, PackEntries(loop, n, l, 0)) \in Seq(Datum)
      /\ Entries(n, l) > 0 =>
           SetupSend(loop, n, l, 0) = Posted(Gathered(loop, n, l, 0, PackEntries(loop, n, l, 0)))
      /\ Entries(n, l) = 0 => PackEntries(loop, n, l, 0) = 0 /\ SetupSend(loop, n, l, 0) = NullRequest
  <2>1. z \in 0 .. Entries(n, l) /\ ItemsLeft(HandleSize(loop, n, l), z)
    BY <1>0, <1>2, <1>4, HandleFacts
  <2>2. /\ PackEntries(loop, n, l, z) \in z .. Entries(n, l)
        /\ Gathered(loop, n, l, z, PackEntries(loop, n, l, z)) \in Seq(Datum)
        /\ z < Entries(n, l) /\ ItemsLeft(HandleSize(loop, n, l), z) =>
             SetupSend(loop, n, l, z) = Posted(Gathered(loop, n, l, z, PackEntries(loop, n, l, z)))
        /\ z = Entries(n, l) => PackEntries(loop, n, l, z) = z /\ SetupSend(loop, n, l, z) = NullRequest
    BY <1>0, <2>1, SetupSendRight
  <2> QED BY <1>4, <2>1, <2>2
<1>6. SetupSend(loop, n, l, 0) # NullRequest <=> Entries(n, l) > 0
  BY <1>2, <1>5, RequestStates
<1>7. /\ \A d \in Seq(Datum) : Posted(d) \in Request
      /\ Posted(<<>>) \in Request /\ NullRequest \in Request
  BY DEF Posted, NullRequest, Request, Datum
<1>8. SetupSend(loop, n, l, 0) \in Request
  BY <1>2, <1>5, <1>7
<1>9. SetupRecv(n, l, 0) = IF Entries(n, l) > 0 THEN Posted(<<>>) ELSE NullRequest
  BY DEF SetupRecv
<1>10. /\ l \in Out(r) <=> l[1] = r /\ Linked(l)
       /\ l \in In(r) <=> l[2] = r /\ Linked(l)
  BY <1>0, LinksOf
<1>11. ASSUME l[1] = r PROVE sendIndex'[l] = PackEntries(loop, n, l, 0) /\ sendReq'[l] = SetupSend(loop, n, l, 0)
  <2>1. CASE Linked(l)
    BY <1>1, <1>10, <1>11, <2>1
  <2>2. CASE ~Linked(l)
    BY <1>1, <1>3, <1>5, <1>10, <1>11, <2>2 DEF Idle
  <2> QED BY <2>1, <2>2
<1>12. ASSUME l[2] = r
       PROVE  /\ recvIndex'[l] = 0
              /\ recvReq'[l] = IF loop # "fixed" /\ Entries(n, l) > 0 THEN Posted(<<>>) ELSE NullRequest
  <2>1. CASE Linked(l)
    BY <1>1, <1>9, <1>10, <1>12, <2>1
  <2>2. CASE ~Linked(l)
    BY <1>1, <1>3, <1>10, <1>12, <2>2 DEF Idle
  <2> QED BY <2>1, <2>2
<1>13. l[1] # r => sendIndex'[l] = sendIndex[l] /\ sendReq'[l] = sendReq[l]
  BY <1>1, <1>10
<1>14. l[2] # r => recvIndex'[l] = recvIndex[l] /\ recvReq'[l] = recvReq[l]
  BY <1>1, <1>10
<1>15. sendIndex'[l] \in Nat /\ recvIndex'[l] \in Nat
  BY <1>0, <1>2, <1>5, <1>11, <1>12, <1>13, <1>14
<1>16. sendReq'[l] \in Request /\ recvReq'[l] \in Request
  BY <1>0, <1>7, <1>8, <1>11, <1>12, <1>13, <1>14
<1> QED BY <1>6, <1>11, <1>12, <1>13, <1>14, <1>15, <1>16

\* The trackers and requests of a loop that begins have their types.
LEMMA StartLoopMembers ==
  ASSUME RequestInv, ItemsInEveryCall, NEW r \in Rank, NEW n \in 1 .. NumCalls,
         NEW loop \in {"sizes", "data", "fixed"}, Idle(r), StartLoop(r, n, loop)
  PROVE  /\ sendIndex' \in [Links -> Nat] /\ recvIndex' \in [Links -> Nat]
         /\ sendReq' \in [Links -> Request] /\ recvReq' \in [Links -> Request]
<1>1. \A l \in Links : /\ sendIndex'[l] \in Nat /\ recvIndex'[l] \in Nat
                       /\ sendReq'[l] \in Request /\ recvReq'[l] \in Request
  BY StartLoopFacts
<1>2. /\ sendIndex' = [k \in Links |-> sendIndex'[k]] /\ recvIndex' = [k \in Links |-> recvIndex'[k]]
      /\ sendReq' = [k \in Links |-> sendReq'[k]] /\ recvReq' = [k \in Links |-> recvReq'[k]]
  BY DEF StartLoop
<1> QED BY <1>1, <1>2

\* communicateFixedSize begins its loop.
LEMMA FixedSizeBegins ==
  ASSUME RequestInv, ItemsInEveryCall, NEW r \in Rank, CommunicateFixedSize(r)
  PROVE  Begins(r, call[r] + 1, "fixed") /\ StartLoop(r, call[r] + 1, "fixed") /\ Idle(r)
<1> DEFINE n == call[r] + 1
<1>0. /\ pc[r] = "user" /\ call[r] < NumCalls /\ Call(n).fixedSize /\ scenario' = scenario
      /\ call' = [call EXCEPT ![r] = n] /\ StartLoop(r, n, "fixed")
      /\ sizes' = [l \in Links |-> IF l \in In(r) THEN <<>> ELSE sizes[l]]
      /\ fixedSize' = [l \in Links |-> IF l \in In(r) THEN FixedSizeFor(n, r, l[1]) ELSE fixedSize[l]]
      /\ sizeSendReq' = [l \in Links |-> IF l \in Out(r) THEN Posted(<<FixedSizeFor(n, r, l[2])>>)
                                         ELSE sizeSendReq[l]]
      /\ sizeRecvReq' = [l \in Links |-> IF l \in In(r) THEN Posted(<<>>) ELSE sizeRecvReq[l]]
  BY DEF CommunicateFixedSize
<1>1. scenario \in Scenarios /\ call[r] \in 0 .. NumCalls /\ NumCalls \in Nat /\ Idle(r)
  BY <1>0, NothingLeft, CommunicatorAssumption DEF RequestInv, ControlInv
<1>2. n \in 1 .. NumCalls
  BY <1>0, <1>1
<1>3. pc' = [pc EXCEPT ![r] = "fixed"]
  BY <1>0 DEF StartLoop
<1> HIDE DEF n
<1>4. ASSUME NEW l \in Links
      PROVE  /\ l[1] # r => sizeSendReq'[l] = sizeSendReq[l]
             /\ l[1] = r => sizeSendReq'[l] = IF Linked(l) THEN Posted(<<FixedSizeFor(n, r, l[2])>>)
                                              ELSE NullRequest
             /\ l[2] # r => /\ sizes'[l] = sizes[l] /\ sizeRecvReq'[l] = sizeRecvReq[l]
                            /\ fixedSize'[l] = fixedSize[l]
             /\ l[2] = r => sizeRecvReq'[l] = IF Linked(l) THEN Posted(<<>>) ELSE NullRequest
  <2>1. /\ l \in Out(r) <=> l[1] = r /\ Linked(l)
        /\ l \in In(r) <=> l[2] = r /\ Linked(l)
    BY <1>1, LinksOf
  <2>2. l[1] = r => sizeSendReq[l] = NullRequest
    BY <1>0 DEF RequestInv, EndsInv, SenderInv
  <2>3. l[2] = r => sizeRecvReq[l] = NullRequest
    BY <1>1 DEF Idle
  <2> QED BY <1>0, <2>1, <2>2, <2>3
<1>5. StartLoop(r, n, "fixed")
  BY <1>0 DEF n
<1> QED BY <1>0, <1>1, <1>2, <1>3, <1>4, <1>5, StartLoopFacts DEF Begins, n

\* communicateSizes begins its loop.
LEMMA SizesBegin ==
  ASSUME RequestInv, ItemsInEveryCall, NEW r \in Rank, CommunicateSizes(r)
  PROVE  Begins(r, call[r] + 1, "sizes") /\ StartLoop(r, call[r] + 1, "sizes") /\ Idle(r)
<1> DEFINE n == call[r] + 1
<1>0. /\ pc[r] = "user" /\ call[r] < NumCalls /\ ~Call(n).fixedSize /\ scenario' = scenario
      /\ call' = [call EXCEPT ![r] = n] /\ StartLoop(r, n, "sizes")
      /\ sizes' = [l \in Links |-> IF l \in In(r) THEN [i \in 1 .. Entries(n, l) |-> 0] ELSE sizes[l]]
      /\ fixedSize' = [l \in Links |-> IF l \in In(r) THEN 0 ELSE fixedSize[l]]
      /\ sizeSendReq' = sizeSendReq /\ sizeRecvReq' = sizeRecvReq
  BY DEF CommunicateSizes, sizeRequests
<1>1. scenario \in Scenarios /\ call[r] \in 0 .. NumCalls /\ NumCalls \in Nat /\ Idle(r)
  BY <1>0, NothingLeft, CommunicatorAssumption DEF RequestInv, ControlInv
<1>2. n \in 1 .. NumCalls
  BY <1>0, <1>1
<1>3. pc' = [pc EXCEPT ![r] = "sizes"]
  BY <1>0 DEF StartLoop
<1>4. ~Call(n).fixedSize
  BY <1>0
<1> HIDE DEF n
<1>5. ASSUME NEW l \in Links
      PROVE  /\ l[1] = r => sizeSendReq[l] = NullRequest
             /\ l[2] # r => sizes'[l] = sizes[l] /\ fixedSize'[l] = fixedSize[l]
             /\ l[2] = r => /\ sizeRecvReq[l] = NullRequest
                            /\ Linked(l) => Len(sizes'[l]) = Entries(n, l)
  <2>1. l \in In(r) <=> l[2] = r /\ Linked(l)
    BY <1>1, LinksOf
  <2>2. l[1] = r => sizeSendReq[l] = NullRequest
    BY <1>0 DEF RequestInv, EndsInv, SenderInv
  <2>3. l[2] = r => sizeRecvReq[l] = NullRequest
    BY <1>1 DEF Idle
  <2>4. Entries(n, l) \in Nat
    BY <1>1, <1>2, CallFacts
  <2>5. l[2] = r /\ Linked(l) => sizes'[l] = [i \in 1 .. Entries(n, l) |-> 0]
    BY <1>0, <2>1 DEF n
  <2>6. l[2] = r /\ Linked(l) => Len(sizes'[l]) = Entries(n, l)
    BY <2>4, <2>5
  <2> QED BY <1>0, <2>1, <2>2, <2>3, <2>6
<1>6. StartLoop(r, n, "sizes")
  BY <1>0 DEF n
<1>7. ASSUME NEW l \in Links
      PROVE  /\ l[1] # r => sendIndex'[l] = sendIndex[l] /\ sendReq'[l] = sendReq[l]
             /\ l[1] = r => sendIndex'[l] = PackEntries("sizes", n, l, 0) /\ sendReq'[l] = SetupSend("sizes", n, l, 0)
             /\ l[2] # r => recvIndex'[l] = recvIndex[l] /\ recvReq'[l] = recvReq[l]
             /\ l[2] = r => /\ recvIndex'[l] = 0
                            /\ recvReq'[l] = IF Entries(n, l) > 0 THEN Posted(<<>>) ELSE NullRequest
  BY <1>1, <1>2, <1>6, StartLoopFacts
<1>8. call' = [call EXCEPT ![r] = n] /\ n = call[r] + 1
  BY <1>0 DEF n
<1>9. Begins(r, n, "sizes")
  BY <1>0, <1>1, <1>2, <1>3, <1>4, <1>5, <1>7, <1>8 DEF Begins
<1> QED BY <1>1, <1>6, <1>9 DEF n

\* communicateVariableSize begins its loop, with all the sizes.
LEMMA DataBegins ==
  ASSUME RequestInv, ItemsInEveryCall, NEW r \in Rank, CommunicateData(r)
  PROVE  Begins(r, call[r], "data") /\ StartLoop(r, call[r], "data") /\ Idle(r)
<1> DEFINE n == call[r]
<1>0. /\ pc[r] = "sizes" /\ LoopDone(r) /\ StartLoop(r, n, "data")
      /\ scenario' = scenario /\ call' = call /\ sizes' = sizes /\ fixedSize' = fixedSize
      /\ sizeSendReq' = sizeSendReq /\ sizeRecvReq' = sizeRecvReq
  BY DEF CommunicateData, sizeRequests
<1>1. /\ scenario \in Scenarios /\ call \in [Rank -> 0 .. NumCalls] /\ NumCalls \in Nat /\ n > 0 /\ Idle(r)
      /\ ~Call(n).fixedSize
  BY <1>0, NothingLeft, CommunicatorAssumption DEF RequestInv, ControlInv
<1>2. n \in 1 .. NumCalls /\ call' = [call EXCEPT ![r] = n]
  BY <1>0, <1>1
<1>3. pc' = [pc EXCEPT ![r] = "data"]
  BY <1>0 DEF StartLoop
<1>4. ASSUME NEW l \in Links
      PROVE  /\ l[1] = r => sizeSendReq[l] = NullRequest
             /\ l[2] = r => /\ sizeRecvReq[l] = NullRequest
                            /\ Linked(l) => sizes[l] = Call(n).size[l]
  <2>1. EndsInv(l) /\ sizes[l] \in Sizes
    BY DEF RequestInv, MemberInv
  <2>2. l[1] = r => sizeSendReq[l] = NullRequest
    BY <1>0, <2>1 DEF EndsInv, SenderInv
  <2>3. l[2] = r => sizeRecvReq[l] = NullRequest /\ recvIndex[l] = Total(n, l)
    BY <1>1 DEF Idle
  <2>4. ASSUME l[2] = r, Linked(l) PROVE sizes[l] = Call(n).size[l]
    <3>1. Entries(n, l) \in Nat /\ Total(n, l) = Entries(n, l) /\ Call(n).size[l] \in Sizes
          /\ Len(Call(n).size[l]) = Entries(n, l)
      BY <1>1, <1>2, CallFacts DEF Total
    <3>2. Len(sizes[l]) = Entries(n, l) /\ \A i \in 1 .. Entries(n, l) : sizes[l][i] = Call(n).size[l][i]
      BY <1>0, <2>1, <2>3, <2>4, <3>1 DEF EndsInv, ReceiverInv, Size
    <3> DEFINE v == sizes[l]
               w == Call(n).size[l]
    <3> HIDE DEF v, w
    <3>3. v \in Seq(0 .. maxBufferSize) /\ w \in Seq(0 .. maxBufferSize)
      BY <2>1, <3>1 DEF Sizes, v, w
    <3>4. Len(v) = Len(w) /\ \A i \in 1 .. Len(v) : v[i] = w[i]
      BY <3>1, <3>2 DEF v, w
    <3>5. v = w
      BY <3>3, <3>4
    <3> QED BY <3>5 DEF v, w
  <2> QED BY <2>2, <2>3, <2>4
<1>5. StartLoop(r, n, "data")
  BY <1>0
<1>6. n = call[r]
  OBVIOUS
<1> HIDE DEF n
<1>7. ASSUME NEW l \in Links
      PROVE  /\ l[1] # r => sendIndex'[l] = sendIndex[l] /\ sendReq'[l] = sendReq[l]
             /\ l[1] = r => sendIndex'[l] = PackEntries("data", n, l, 0) /\ sendReq'[l] = SetupSend("data", n, l, 0)
             /\ l[2] # r => recvIndex'[l] = recvIndex[l] /\ recvReq'[l] = recvReq[l]
             /\ l[2] = r => /\ recvIndex'[l] = 0
                            /\ recvReq'[l] = IF Entries(n, l) > 0 THEN Posted(<<>>) ELSE NullRequest
  BY <1>1, <1>2, <1>5, StartLoopFacts
<1>8. Begins(r, n, "data")
  BY <1>0, <1>1, <1>2, <1>3, <1>4, <1>6, <1>7 DEF Begins
<1> QED BY <1>1, <1>5, <1>8 DEF n

-----------------------------------------------------------------------------
\* The counters.

\* Requests are as many as before if each of them is one as before.
LEMMA OutstandingSame ==
  ASSUME RequestInv, NEW q \in Rank, scenario' = scenario
  PROVE  /\ (\A l \in Links : l[1] = q => (sendReq'[l] # NullRequest <=> sendReq[l] # NullRequest))
              => Sending(q)' = Sending(q)
         /\ /\ call'[q] = call[q]
            /\ \A l \in Links : l[2] = q => /\ recvReq'[l] # NullRequest <=> recvReq[l] # NullRequest
                                            /\ sizeRecvReq'[l] # NullRequest <=> sizeRecvReq[l] # NullRequest
            => Receiving(q)' = Receiving(q)
         /\ (\A l \in Links : l[2] = q => (sizeRecvReq'[l] # NullRequest <=> sizeRecvReq[l] # NullRequest))
              => ReceivingSize(q)' = ReceivingSize(q)
<1>1. \A l : /\ l \in Out(q) => l \in Links /\ l[1] = q
             /\ l \in In(q) => l \in Links /\ l[2] = q
  BY LinksOf DEF RequestInv, ControlInv
<1>2. /\ Out(q)' = Out(q) /\ In(q)' = In(q) /\ NullRequest' = NullRequest
      /\ \A n, l : Entries(n, l)' = Entries(n, l)
  BY SameScenario DEF NullRequest
<1>3. ASSUME \A l \in Links : l[1] = q => (sendReq'[l] # NullRequest <=> sendReq[l] # NullRequest)
      PROVE  Sending(q)' = Sending(q)
  BY <1>1, <1>2, <1>3 DEF Sending
<1>4. ASSUME call'[q] = call[q],
             \A l \in Links : l[2] = q => /\ recvReq'[l] # NullRequest <=> recvReq[l] # NullRequest
                                          /\ sizeRecvReq'[l] # NullRequest <=> sizeRecvReq[l] # NullRequest
      PROVE  Receiving(q)' = Receiving(q)
  BY <1>1, <1>2, <1>4 DEF Receiving
<1>5. ASSUME \A l \in Links : l[2] = q => (sizeRecvReq'[l] # NullRequest <=> sizeRecvReq[l] # NullRequest)
      PROVE  ReceivingSize(q)' = ReceivingSize(q)
  BY <1>1, <1>2, <1>5 DEF ReceivingSize
<1> QED BY <1>3, <1>4, <1>5

\* An element less.
LEMMA OneLess ==
  ASSUME scenario \in Scenarios, NEW S \in SUBSET Links, NEW T, NEW l \in S, T = S \ {l}
  PROVE  Cardinality(T) = Cardinality(S) - 1 /\ Cardinality(S) \in Nat \ {0} /\ Cardinality(T) \in Nat
<1>1. IsFiniteSet(S)
  <2>1. IsFiniteSet(Rank)
    BY CommunicatorAssumption, FS_Interval DEF Rank
  <2>2. IsFiniteSet(Links)
    BY <2>1, FS_Product DEF Links
  <2> QED BY <2>2, FS_Subset
<1>2. IsFiniteSet(T) /\ Cardinality(T) = Cardinality(S) - 1 /\ S # {}
  BY <1>1, FS_RemoveElement
<1> QED BY <1>1, <1>2, FS_CardinalityType, FS_EmptySet

\* The requests that are outstanding are finitely many.
LEMMA OutstandingFinite ==
  ASSUME RequestInv, NEW q \in Rank
  PROVE  /\ scenario \in Scenarios
         /\ Sending(q) \in SUBSET Links /\ Receiving(q) \in SUBSET Links /\ ReceivingSize(q) \in SUBSET Links
         /\ toSend[q] = Cardinality(Sending(q)) /\ toRecv[q] = Cardinality(Receiving(q))
         /\ sizeToRecv[q] = Cardinality(ReceivingSize(q))
         /\ \A S \in SUBSET Links : Cardinality(S) \in Nat
         /\ toSend \in [Rank -> Nat] /\ toRecv \in [Rank -> Nat] /\ sizeToRecv \in [Rank -> Nat]
<1>1. scenario \in Scenarios
  BY DEF RequestInv, ControlInv
<1>2. Sending(q) \in SUBSET Links /\ Receiving(q) \in SUBSET Links /\ ReceivingSize(q) \in SUBSET Links
  BY <1>1, LinksFinite DEF Sending, Receiving, ReceivingSize
<1> QED BY <1>1, <1>2, LinksFinite DEF RequestInv, CountersInv, MemberInv

\* Neighbours are the other ends of the links.
LEMMA AsManyLinks ==
  ASSUME scenario \in Scenarios, NEW r \in Rank
  PROVE  Cardinality(In(r)) = Cardinality(Neighbours(r))
<1>1. IsFiniteSet(Rank)
  BY CommunicatorAssumption, FS_Interval DEF Rank
<1>2. IsFiniteSet(Neighbours(r))
  BY <1>1, FS_Subset DEF Neighbours
<1> DEFINE F == [q \in Neighbours(r) |-> <<q, r>>]
<1>3. F \in Bijection(Neighbours(r), In(r))
  BY DEF In, Bijection, Injection, Surjection, IsInjective
<1> QED BY <1>2, <1>3, FS_Bijection DEF ExistsBijection

\* The counter of sends after a completed one.
LEMMA SendCompletedCounts ==
  ASSUME RequestInv, ItemsInEveryCall, NEW l \in Links, SendCompleted(l)
  PROVE  CountersInv' /\ toSend' \in [Rank -> Nat]
<1> DEFINE s == l[1]
<1>0. /\ scenario' = scenario /\ call' = call /\ recvReq' = recvReq /\ sizeRecvReq' = sizeRecvReq
      /\ toRecv' = toRecv /\ sizeToRecv' = sizeToRecv
      /\ toSend' = IF sendIndex[l] = Entries(call[s], l) THEN [toSend EXCEPT ![s] = @ - 1] ELSE toSend
  BY DEF SendCompleted, sizeRequests
<1>1. /\ \A k \in Links : k # l => sendReq'[k] = sendReq[k]
      /\ sendReq[l] # NullRequest
      /\ sendReq'[l] = NullRequest <=> sendIndex[l] = Entries(call[s], l)
  BY SendCompletedKeepsEnds
<1>2. /\ s \in Rank /\ scenario \in Scenarios /\ toSend \in [Rank -> Nat]
      /\ \A q \in Rank : toSend[q] = Cardinality(Sending(q)) /\ Sending(q) \in SUBSET Links
  BY LinkEnds, OutstandingFinite
<1>3. l \in Sending(s)
  <2>1. Linked(l)
    BY <1>1 DEF RequestInv, EndsInv, SenderInv
  <2> QED BY <1>1, <1>2, <2>1, LinksOf DEF Sending
<1>4. ASSUME NEW q \in Rank
      PROVE  (toSend[q] = Cardinality(Sending(q)))' /\ toSend'[q] \in Nat
  <2>1. CASE q # s \/ sendIndex[l] # Entries(call[s], l)
    <3>1. Sending(q)' = Sending(q)
      <4>1. \A k \in Links : k[1] = q => (sendReq'[k] # NullRequest <=> sendReq[k] # NullRequest)
        BY <1>1, <2>1
      <4> QED BY <1>0, <4>1, OutstandingSame
    <3>2. toSend'[q] = toSend[q]
      BY <1>0, <1>2, <2>1
    <3> QED BY <1>2, <3>1, <3>2
  <2>2. CASE q = s /\ sendIndex[l] = Entries(call[s], l)
    <3>1. Sending(s)' = Sending(s) \ {l}
      <4>1. Out(s)' = Out(s) /\ Out(s) \subseteq Links
        BY <1>0, <1>2, SameScenario, LinksFinite
      <4>2. sendReq'[l] = NullRequest
        BY <1>1, <2>2
      <4>3. Sending(s)' = {k \in Out(s) : sendReq'[k] # NullRequest}
        BY <4>1 DEF Sending, NullRequest
      <4>4. \A k \in Out(s) : sendReq'[k] # NullRequest <=> k # l /\ sendReq[k] # NullRequest
        BY <1>1, <4>1, <4>2
      <4> QED BY <4>3, <4>4 DEF Sending
    <3>2. Cardinality(Sending(s)') = Cardinality(Sending(s)) - 1 /\ Cardinality(Sending(s)') \in Nat
      BY <1>2, <1>3, <3>1, OneLess
    <3>3. toSend'[s] = toSend[s] - 1
      BY <1>0, <1>2, <2>2
    <3>4. toSend'[s] = Cardinality(Sending(s)')
      BY <1>2, <3>2, <3>3
    <3> QED BY <1>0, <2>2, <3>2, <3>4
  <2> QED BY <2>1, <2>2
<1>5. ASSUME NEW q \in Rank
      PROVE  Receiving(q)' = Receiving(q) /\ ReceivingSize(q)' = ReceivingSize(q)
  BY <1>0, OutstandingSame
<1>6. CountersInv'
  BY <1>0, <1>4, <1>5 DEF CountersInv, RequestInv
<1>7. toSend' \in [Rank -> Nat]
  <2>1. toSend' = [q \in Rank |-> toSend'[q]]
    BY <1>0, <1>2
  <2> QED BY <1>4, <2>1
<1> QED BY <1>6, <1>7

\* The counter of receives after a completed one.
LEMMA ReceiveCompletedCounts ==
  ASSUME RequestInv, ItemsInEveryCall, NEW l \in Links, ReceiveCompleted(l)
  PROVE  CountersInv' /\ toRecv' \in [Rank -> Nat]
<1> DEFINE r == l[2]
           finished == End(r, l, recvIndex[l]) = Entries(call[r], l)
<1>0. /\ scenario' = scenario /\ call' = call /\ sendReq' = sendReq /\ sizeRecvReq' = sizeRecvReq
      /\ toSend' = toSend /\ sizeToRecv' = sizeToRecv
  BY DEF ReceiveCompleted, sizeRequests
<1>1. /\ \A k \in Links : k # l => recvReq'[k] = recvReq[k]
      /\ recvReq[l] # NullRequest /\ sizeRecvReq[l] = NullRequest
      /\ recvReq'[l] = NullRequest <=> finished
      /\ toRecv' = [toRecv EXCEPT ![r] = IF finished THEN @ - 1 ELSE @]
  BY ReceiveCompletedKeepsEnds
<1> HIDE DEF finished
<1>2. /\ r \in Rank /\ scenario \in Scenarios /\ toRecv \in [Rank -> Nat]
      /\ \A q \in Rank : toRecv[q] = Cardinality(Receiving(q)) /\ Receiving(q) \in SUBSET Links
  BY LinkEnds, OutstandingFinite
<1>3. l \in Receiving(r)
  <2>1. Linked(l)
    BY <1>1 DEF RequestInv, EndsInv, ReceiverInv
  <2> QED BY <1>1, <1>2, <2>1, LinksOf DEF Receiving
<1>4. ASSUME NEW q \in Rank
      PROVE  (toRecv[q] = Cardinality(Receiving(q)))' /\ toRecv'[q] \in Nat
  <2>1. CASE q # r \/ ~finished
    <3>1. Receiving(q)' = Receiving(q)
      <4>1. \A k \in Links : k[2] = q => (recvReq'[k] # NullRequest <=> recvReq[k] # NullRequest)
        BY <1>1, <2>1
      <4> QED BY <1>0, <4>1, OutstandingSame
    <3>2. toRecv'[q] = toRecv[q]
      BY <1>1, <1>2, <2>1
    <3> QED BY <1>2, <3>1, <3>2
  <2>2. CASE q = r /\ finished
    <3>1. Receiving(r)' = Receiving(r) \ {l}
      <4>1. /\ In(r)' = In(r) /\ In(r) \subseteq Links /\ \A n, k : Entries(n, k)' = Entries(n, k)
        BY <1>0, <1>2, SameScenario, LinksFinite
      <4>2. recvReq'[l] = NullRequest
        BY <1>1, <2>2
      <4>3. Receiving(r)' = {k \in In(r) : \/ recvReq'[k] # NullRequest
                                           \/ sizeRecvReq[k] # NullRequest /\ Entries(call[r], k) > 0}
        BY <1>0, <4>1 DEF Receiving, NullRequest
      <4>4. \A k \in In(r) : recvReq'[k] # NullRequest <=> k # l /\ recvReq[k] # NullRequest
        BY <1>1, <4>1, <4>2
      <4> QED BY <1>1, <4>3, <4>4 DEF Receiving
    <3>2. Cardinality(Receiving(r)') = Cardinality(Receiving(r)) - 1 /\ Cardinality(Receiving(r)') \in Nat
      BY <1>2, <1>3, <3>1, OneLess
    <3>3. toRecv'[r] = toRecv[r] - 1
      BY <1>1, <1>2, <2>2
    <3>4. toRecv'[r] = Cardinality(Receiving(r)')
      BY <1>2, <3>2, <3>3
    <3> QED BY <1>0, <2>2, <3>2, <3>4
  <2> QED BY <2>1, <2>2
<1>5. ASSUME NEW q \in Rank
      PROVE  Sending(q)' = Sending(q) /\ ReceivingSize(q)' = ReceivingSize(q)
  BY <1>0, OutstandingSame
<1>6. CountersInv'
  BY <1>0, <1>4, <1>5 DEF CountersInv, RequestInv
<1>7. toRecv' \in [Rank -> Nat]
  <2>1. toRecv' = [q \in Rank |-> toRecv'[q]]
    BY <1>1, <1>2
  <2> QED BY <1>4, <2>1
<1> QED BY <1>6, <1>7

\* The counter of fixed sizes after one has come.
LEMMA FixedSizeReceivedCounts ==
  ASSUME RequestInv, ItemsInEveryCall, NEW l \in Links, FixedSizeReceived(l)
  PROVE  CountersInv' /\ sizeToRecv' \in [Rank -> Nat]
<1> DEFINE r == l[2]
<1>0. /\ scenario' = scenario /\ call' = call /\ sendReq' = sendReq
      /\ toSend' = toSend /\ toRecv' = toRecv
      /\ sizeToRecv' = [sizeToRecv EXCEPT ![r] = @ - 1]
  BY DEF FixedSizeReceived
<1>1. /\ \A k \in Links : k # l => recvReq'[k] = recvReq[k] /\ sizeRecvReq'[k] = sizeRecvReq[k]
      /\ sizeRecvReq[l] # NullRequest /\ sizeRecvReq'[l] = NullRequest /\ recvReq[l] = NullRequest
      /\ recvReq'[l] # NullRequest <=> Entries(call[r], l) > 0
  BY FixedSizeReceivedKeepsEnds
<1>2. /\ r \in Rank /\ scenario \in Scenarios /\ sizeToRecv \in [Rank -> Nat]
      /\ \A q \in Rank : sizeToRecv[q] = Cardinality(ReceivingSize(q)) /\ ReceivingSize(q) \in SUBSET Links
  BY LinkEnds, OutstandingFinite
<1>3. l \in ReceivingSize(r)
  <2>1. Linked(l)
    BY <1>1 DEF RequestInv, EndsInv, ReceiverInv
  <2> QED BY <1>1, <1>2, <2>1, LinksOf DEF ReceivingSize
<1>4. ASSUME NEW q \in Rank
      PROVE  (sizeToRecv[q] = Cardinality(ReceivingSize(q)))' /\ sizeToRecv'[q] \in Nat
  <2>1. CASE q # r
    <3>1. ReceivingSize(q)' = ReceivingSize(q)
      <4>1. \A k \in Links : k[2] = q => (sizeRecvReq'[k] # NullRequest <=> sizeRecvReq[k] # NullRequest)
        BY <1>1, <2>1
      <4> QED BY <1>0, <4>1, OutstandingSame
    <3>2. sizeToRecv'[q] = sizeToRecv[q]
      BY <1>0, <1>2, <2>1
    <3> QED BY <1>2, <3>1, <3>2
  <2>2. CASE q = r
    <3>1. ReceivingSize(r)' = ReceivingSize(r) \ {l}
      <4>1. In(r)' = In(r) /\ In(r) \subseteq Links
        BY <1>0, <1>2, SameScenario, LinksFinite
      <4>2. ReceivingSize(r)' = {k \in In(r) : sizeRecvReq'[k] # NullRequest}
        BY <4>1 DEF ReceivingSize, NullRequest
      <4>3. \A k \in In(r) : sizeRecvReq'[k] # NullRequest <=> k # l /\ sizeRecvReq[k] # NullRequest
        BY <1>1, <4>1
      <4> QED BY <4>2, <4>3 DEF ReceivingSize
    <3>2. Cardinality(ReceivingSize(r)') = Cardinality(ReceivingSize(r)) - 1
          /\ Cardinality(ReceivingSize(r)') \in Nat
      BY <1>2, <1>3, <3>1, OneLess
    <3>3. sizeToRecv'[r] = sizeToRecv[r] - 1
      BY <1>0, <1>2
    <3>4. sizeToRecv'[r] = Cardinality(ReceivingSize(r)')
      BY <1>2, <3>2, <3>3
    <3> QED BY <1>0, <2>2, <3>2, <3>4
  <2> QED BY <2>1, <2>2
<1>5. ASSUME NEW q \in Rank
      PROVE  Sending(q)' = Sending(q) /\ Receiving(q)' = Receiving(q)
  <2>1. Sending(q)' = Sending(q)
    BY <1>0, OutstandingSame
  <2>2. In(q)' = In(q) /\ In(q) \subseteq Links /\ \A n, k : Entries(n, k)' = Entries(n, k)
    BY <1>0, <1>2, SameScenario, LinksFinite
  <2>3. Receiving(q)' = {k \in In(q) : \/ recvReq'[k] # NullRequest
                                       \/ sizeRecvReq'[k] # NullRequest /\ Entries(call[q], k) > 0}
    BY <1>0, <2>2 DEF Receiving, NullRequest
  <2>4. l \in In(q) => q = r
    BY <1>2, LinksOf
  <2>5. \A k \in In(q) : (\/ recvReq'[k] # NullRequest
                          \/ sizeRecvReq'[k] # NullRequest /\ Entries(call[q], k) > 0)
                     <=> (\/ recvReq[k] # NullRequest
                          \/ sizeRecvReq[k] # NullRequest /\ Entries(call[q], k) > 0)
    BY <1>1, <2>2, <2>4
  <2>6. Receiving(q)' = Receiving(q)
    BY <2>3, <2>5 DEF Receiving
  <2> QED BY <2>1, <2>6
<1>6. CountersInv'
  BY <1>0, <1>4, <1>5 DEF CountersInv, RequestInv
<1>7. sizeToRecv' \in [Rank -> Nat]
  <2>1. sizeToRecv' = [q \in Rank |-> sizeToRecv'[q]]
    BY <1>0, <1>2
  <2> QED BY <1>4, <2>1
<1> QED BY <1>6, <1>7

\* The counters of a loop that begins.
LEMMA BeginCounts ==
  ASSUME RequestInv, ItemsInEveryCall, NEW r \in Rank, NEW n, NEW loop, Begins(r, n, loop), StartLoop(r, n, loop),
         sizeToRecv' = IF loop = "fixed" THEN [sizeToRecv EXCEPT ![r] = Cardinality(Neighbours(r))] ELSE sizeToRecv
  PROVE  /\ CountersInv'
         /\ toSend' \in [Rank -> Nat] /\ toRecv' \in [Rank -> Nat] /\ sizeToRecv' \in [Rank -> Nat]
<1> DEFINE S == {l \in Out(r) : IF loop = "fixed" THEN Entries(n, l) > 0
                                ELSE SetupSend(loop, n, l, 0) # NullRequest}
           R == {l \in In(r) : IF loop = "fixed" THEN Entries(n, l) > 0
                               ELSE (IF loop = "fixed" THEN NullRequest ELSE SetupRecv(n, l, 0)) # NullRequest}
<1>0. /\ scenario' = scenario /\ scenario \in Scenarios /\ n \in 1 .. NumCalls /\ call'[r] = n
      /\ loop \in {"sizes", "data", "fixed"} /\ Idle(r)
      /\ \A q \in Rank : q # r => call'[q] = call[q]
      /\ toSend' = [toSend EXCEPT ![r] = Cardinality(S)]
      /\ toRecv' = [toRecv EXCEPT ![r] = Cardinality(R)]
  BY DEF Begins, StartLoop, RequestInv, ControlInv
<1>1. /\ Out(r) \subseteq Links /\ In(r) \subseteq Links
      /\ \A T \in SUBSET Links : Cardinality(T) \in Nat
      /\ toSend \in [Rank -> Nat] /\ toRecv \in [Rank -> Nat] /\ sizeToRecv \in [Rank -> Nat]
  BY <1>0, LinksFinite, OutstandingFinite
<1>2. S \in SUBSET Links /\ R \in SUBSET Links
  BY <1>1
<1>3. \A l : /\ l \in Out(r) => l[1] = r /\ Linked(l)
             /\ l \in In(r) => l[2] = r /\ Linked(l)
  BY <1>0, LinksOf
<1>4. /\ Out(r)' = Out(r) /\ In(r)' = In(r) /\ NullRequest' = NullRequest
      /\ \A k, l : Entries(k, l)' = Entries(k, l)
  BY <1>0, SameScenario DEF NullRequest
<1>5. Sending(r)' = S
  <2>1. \A l \in Out(r) : sendReq'[l] # NullRequest <=> Entries(n, l) > 0
    BY <1>0, <1>1, <1>3, StartLoopFacts
  <2>2. \A l \in Out(r) : SetupSend(loop, n, l, 0) # NullRequest <=> Entries(n, l) > 0
    BY <1>0, <1>1, StartLoopFacts
  <2>3. Sending(r)' = {l \in Out(r) : sendReq'[l] # NullRequest}
    BY <1>4 DEF Sending
  <2> QED BY <2>1, <2>2, <2>3
<1>6. Receiving(r)' = R
  <2>1. ASSUME NEW l \in In(r)
        PROVE  /\ recvReq'[l] = IF loop # "fixed" /\ Entries(n, l) > 0 THEN Posted(<<>>) ELSE NullRequest
               /\ sizeRecvReq'[l] = IF loop = "fixed" THEN Posted(<<>>) ELSE NullRequest
    BY <1>1, <1>3 DEF Begins
  <2>2. Posted(<<>>) # NullRequest
    BY RequestStates
  <2>3. \A l \in In(r) : SetupRecv(n, l, 0) # NullRequest <=> Entries(n, l) > 0
    BY <2>2 DEF SetupRecv
  <2>4. Receiving(r)' = {l \in In(r) : \/ recvReq'[l] # NullRequest
                                       \/ sizeRecvReq'[l] # NullRequest /\ Entries(n, l) > 0}
    BY <1>0, <1>4 DEF Receiving
  <2>5. \A l \in In(r) : l \in R <=> Entries(n, l) > 0
    BY <2>3
  <2>6. \A l \in In(r) : l \in Receiving(r)' <=> Entries(n, l) > 0
    BY <2>1, <2>2, <2>4
  <2> QED BY <2>4, <2>5, <2>6
<1>7. sizeToRecv'[r] = Cardinality(ReceivingSize(r)')
  <2>1. ReceivingSize(r)' = {l \in In(r) : sizeRecvReq'[l] # NullRequest}
    BY <1>4 DEF ReceivingSize
  <2>2. \A l \in In(r) : sizeRecvReq'[l] = IF loop = "fixed" THEN Posted(<<>>) ELSE NullRequest
    BY <1>1, <1>3 DEF Begins
  <2>3. CASE loop = "fixed"
    <3>1. ReceivingSize(r)' = In(r)
      BY <2>1, <2>2, <2>3, RequestStates
    <3> QED BY <1>0, <1>1, <2>3, <3>1, AsManyLinks
  <2>4. CASE loop # "fixed"
    <3>1. ReceivingSize(r)' = {}
      BY <2>1, <2>2, <2>4
    <3>2. ReceivingSize(r) = {}
      BY <1>0, <1>1, <1>3 DEF Idle, ReceivingSize
    <3> QED BY <1>1, <2>4, <3>1, <3>2, OutstandingFinite
  <2> QED BY <2>3, <2>4
<1> HIDE DEF S, R
<1>8. Cardinality(S) \in Nat /\ Cardinality(R) \in Nat /\ sizeToRecv'[r] \in Nat
  <2>1. ReceivingSize(r)' \in SUBSET Links
    BY <1>1, <1>4 DEF ReceivingSize
  <2> QED BY <1>1, <1>2, <1>7, <2>1
<1>9. toSend' \in [Rank -> Nat] /\ toRecv' \in [Rank -> Nat] /\ sizeToRecv' \in [Rank -> Nat]
  <2>1. sizeToRecv' = [sizeToRecv EXCEPT ![r] = sizeToRecv'[r]]
    BY <1>1
  <2> QED BY <1>0, <1>1, <1>8, <2>1
<1>10. toSend'[r] = Cardinality(Sending(r)') /\ toRecv'[r] = Cardinality(Receiving(r)')
  BY <1>0, <1>1, <1>5, <1>6
<1>11. ASSUME NEW q \in Rank, q # r
       PROVE  /\ toSend'[q] = Cardinality(Sending(q)') /\ toRecv'[q] = Cardinality(Receiving(q)')
              /\ sizeToRecv'[q] = Cardinality(ReceivingSize(q)')
  <2>1. \A l \in Links : /\ l[1] = q => sendReq'[l] = sendReq[l]
                         /\ l[2] = q => recvReq'[l] = recvReq[l] /\ sizeRecvReq'[l] = sizeRecvReq[l]
    BY <1>11 DEF Begins
  <2>2. Sending(q)' = Sending(q) /\ Receiving(q)' = Receiving(q) /\ ReceivingSize(q)' = ReceivingSize(q)
    BY <1>0, <1>11, <2>1, OutstandingSame
  <2>3. toSend'[q] = toSend[q] /\ toRecv'[q] = toRecv[q] /\ sizeToRecv'[q] = sizeToRecv[q]
    BY <1>0, <1>1, <1>11
  <2> QED BY <2>2, <2>3, OutstandingFinite
<1>12. CountersInv'
  BY <1>7, <1>10, <1>11 DEF CountersInv
<1> QED BY <1>9, <1>12

-----------------------------------------------------------------------------
\* Every step keeps the invariant.

\* The calls and loops of the ranks when a loop begins.
LEMMA BeginKeepsControl ==
  ASSUME RequestInv, ItemsInEveryCall, NEW r \in Rank, NEW n, NEW loop, Begins(r, n, loop)
  PROVE  ControlInv'
<1>1. /\ scenario' = scenario /\ call' = [call EXCEPT ![r] = n] /\ pc' = [pc EXCEPT ![r] = loop]
      /\ n \in 1 .. NumCalls /\ loop \in {"sizes", "data", "fixed"} /\ (loop = "fixed" <=> Call(n).fixedSize)
  BY DEF Begins
<1>2. /\ scenario \in Scenarios /\ call \in [Rank -> 0 .. NumCalls] /\ NumCalls \in Nat
      /\ pc \in [Rank -> {"user", "sizes", "data", "fixed"}]
      /\ \A q \in Rank : pc[q] # "user" => call[q] > 0 /\ (pc[q] = "fixed" <=> Call(call[q]).fixedSize)
  BY CommunicatorAssumption DEF RequestInv, ControlInv
<1>3. \A k : Call(k)' = Call(k)
  BY <1>1, SameScenario
<1>4. n \in 0 .. NumCalls /\ n > 0
  BY <1>1, <1>2
<1>5. call' \in [Rank -> 0 .. NumCalls] /\ pc' \in [Rank -> {"user", "sizes", "data", "fixed"}]
  BY <1>1, <1>2, <1>4
<1>6. ASSUME NEW q \in Rank, pc'[q] # "user"
      PROVE  call'[q] > 0 /\ (pc'[q] = "fixed" <=> (Call(call[q]).fixedSize)')
  <2>1. CASE q = r
    <3>1. call'[q] = n /\ pc'[q] = loop
      BY <1>1, <1>2, <2>1
    <3> QED BY <1>1, <1>3, <1>4, <3>1
  <2>2. CASE q # r
    <3>1. call'[q] = call[q] /\ pc'[q] = pc[q]
      BY <1>1, <1>2, <2>2
    <3> QED BY <1>2, <1>3, <1>6, <3>1
  <2> QED BY <2>1, <2>2
<1> QED BY <1>1, <1>2, <1>5, <1>6 DEF ControlInv

\* All of the invariant when a loop begins.
LEMMA BeginKeepsRequests ==
  ASSUME RequestInv, ItemsInEveryCall, NEW r \in Rank, NEW n, NEW loop, Begins(r, n, loop), StartLoop(r, n, loop),
         sizeToRecv' = IF loop = "fixed" THEN [sizeToRecv EXCEPT ![r] = Cardinality(Neighbours(r))] ELSE sizeToRecv,
         sizes' \in [Links -> Sizes], fixedSize' \in [Links -> 0 .. maxBufferSize],
         sizeSendReq' = [l \in Links |-> sizeSendReq'[l]], sizeRecvReq' = [l \in Links |-> sizeRecvReq'[l]],
         DOMAIN scattered' = Links
  PROVE  RequestInv'
<1>1. n \in 1 .. NumCalls /\ loop \in {"sizes", "data", "fixed"} /\ Idle(r)
  BY DEF Begins
<1>2. /\ sendIndex' \in [Links -> Nat] /\ recvIndex' \in [Links -> Nat]
      /\ sendReq' \in [Links -> Request] /\ recvReq' \in [Links -> Request]
  BY <1>1, StartLoopMembers
<1>3. CountersInv' /\ toSend' \in [Rank -> Nat] /\ toRecv' \in [Rank -> Nat] /\ sizeToRecv' \in [Rank -> Nat]
  BY BeginCounts
<1>4. DOMAIN sizeSendReq' = Links /\ DOMAIN sizeRecvReq' = Links
  OBVIOUS
<1>5. MemberInv'
  BY <1>2, <1>3, <1>4 DEF MemberInv
<1> QED BY <1>3, <1>5, BeginKeepsControl, BeginKeepsEnds DEF RequestInv

\* The invariant holds before the first call.
LEMMA RequestInit ==
  ASSUME ItemsInEveryCall, Init
  PROVE  RequestInv
<1>1. /\ scenario \in Scenarios /\ call = [r \in Rank |-> 0] /\ pc = [r \in Rank |-> "user"]
      /\ sendIndex = [l \in Links |-> 0] /\ recvIndex = [l \in Links |-> 0]
      /\ sizes = [l \in Links |-> <<>>] /\ fixedSize = [l \in Links |-> 0]
      /\ sendReq = [l \in Links |-> NullRequest] /\ recvReq = [l \in Links |-> NullRequest]
      /\ sizeSendReq = [l \in Links |-> NullRequest] /\ sizeRecvReq = [l \in Links |-> NullRequest]
      /\ toSend = [r \in Rank |-> 0] /\ toRecv = [r \in Rank |-> 0] /\ sizeToRecv = [r \in Rank |-> 0]
      /\ scattered = [l \in Links |-> <<>>]
  BY DEF Init
<1>2. NumCalls \in Nat /\ maxBufferSize \in Nat
  BY CommunicatorAssumption
<1>3. ControlInv
  BY <1>1, <1>2 DEF ControlInv
<1>4. MemberInv
  <2>1. NullRequest \in Request /\ <<>> \in Sizes /\ 0 \in 0 .. maxBufferSize
    BY <1>2 DEF NullRequest, Request, Sizes
  <2>2. /\ sendIndex \in [Links -> Nat] /\ recvIndex \in [Links -> Nat]
        /\ toSend \in [Rank -> Nat] /\ toRecv \in [Rank -> Nat] /\ sizeToRecv \in [Rank -> Nat]
    BY <1>1
  <2>3. /\ sizes \in [Links -> Sizes] /\ fixedSize \in [Links -> 0 .. maxBufferSize]
        /\ sendReq \in [Links -> Request] /\ recvReq \in [Links -> Request]
    BY <1>1, <2>1
  <2>4. /\ DOMAIN sizeSendReq = Links /\ DOMAIN sizeRecvReq = Links /\ DOMAIN scattered = Links
        /\ sizeSendReq = [l \in Links |-> sizeSendReq[l]] /\ sizeRecvReq = [l \in Links |-> sizeRecvReq[l]]
    BY <1>1
  <2> QED BY <2>2, <2>3, <2>4 DEF MemberInv
<1>5. ASSUME NEW l \in Links PROVE EndsInv(l)
  <2>1. /\ l[1] \in Rank /\ l[2] \in Rank
        /\ call[l[1]] = 0 /\ call[l[2]] = 0 /\ pc[l[1]] = "user" /\ pc[l[2]] = "user"
        /\ sendIndex[l] = 0 /\ recvIndex[l] = 0 /\ sendReq[l] = NullRequest /\ recvReq[l] = NullRequest
        /\ sizeSendReq[l] = NullRequest /\ sizeRecvReq[l] = NullRequest
    BY <1>1, LinkEnds
  <2>2. Total(0, l) = 0 /\ 0 \in 0 .. 0
    BY DEF Total
  <2>3. SenderInv(l)
    BY <2>1, <2>2, RequestStates DEF SenderInv
  <2>4. ReceiverInv(l)
    BY <2>1, <2>2, RequestStates DEF ReceiverInv
  <2>5. LinkInv(l)
    <3>1. Stage(l[1]) = 1 /\ Stage(l[2]) = 1
      BY <2>1 DEF Stage
    <3>2. Same(l)
      BY <2>1, RequestStates DEF Same, Received
    <3> QED BY <3>1, <3>2 DEF LinkInv
  <2>6. FixedInv(l)
    BY <2>1, RequestStates DEF FixedInv
  <2> QED BY <2>3, <2>4, <2>5, <2>6 DEF EndsInv
<1>6. CountersInv
  <2> SUFFICES ASSUME NEW r \in Rank
               PROVE  /\ toSend[r] = Cardinality(Sending(r)) /\ toRecv[r] = Cardinality(Receiving(r))
                      /\ sizeToRecv[r] = Cardinality(ReceivingSize(r))
    BY DEF CountersInv
  <2>1. Out(r) \subseteq Links /\ In(r) \subseteq Links
    BY <1>1, LinksFinite
  <2>2. Sending(r) = {} /\ Receiving(r) = {} /\ ReceivingSize(r) = {}
    BY <1>1, <2>1 DEF Sending, Receiving, ReceivingSize
  <2> QED BY <1>1, <2>2, FS_EmptySet
<1> QED BY <1>3, <1>4, <1>5, <1>6 DEF RequestInv

\* A rank begins a call, or the second loop of one.
LEMMA RequestBegin ==
  ASSUME RequestInv, ItemsInEveryCall, NEW r \in Rank,
         CommunicateFixedSize(r) \/ CommunicateSizes(r) \/ CommunicateData(r)
  PROVE  RequestInv'
<1>0. /\ scenario \in Scenarios /\ call[r] \in 0 .. NumCalls /\ NumCalls \in Nat
      /\ sizes \in [Links -> Sizes] /\ fixedSize \in [Links -> 0 .. maxBufferSize]
      /\ sizeSendReq = [l \in Links |-> sizeSendReq[l]] /\ sizeRecvReq = [l \in Links |-> sizeRecvReq[l]]
      /\ DOMAIN scattered = Links
  BY CommunicatorAssumption DEF RequestInv, ControlInv, MemberInv
<1>1. CASE CommunicateFixedSize(r)
  <2> DEFINE n == call[r] + 1
  <2>1. Begins(r, n, "fixed") /\ StartLoop(r, n, "fixed")
    BY <1>1, FixedSizeBegins
  <2>2. /\ sizes' = [l \in Links |-> IF l \in In(r) THEN <<>> ELSE sizes[l]]
        /\ fixedSize' = [l \in Links |-> IF l \in In(r) THEN FixedSizeFor(n, r, l[1]) ELSE fixedSize[l]]
        /\ sizeSendReq' = [l \in Links |-> IF l \in Out(r) THEN Posted(<<FixedSizeFor(n, r, l[2])>>)
                                           ELSE sizeSendReq[l]]
        /\ sizeRecvReq' = [l \in Links |-> IF l \in In(r) THEN Posted(<<>>) ELSE sizeRecvReq[l]]
        /\ scattered' = [l \in Links |-> IF l \in In(r) THEN <<>> ELSE scattered[l]]
        /\ sizeToRecv' = [sizeToRecv EXCEPT ![r] = Cardinality(Neighbours(r))]
        /\ call[r] < NumCalls /\ Call(n).fixedSize
    BY <1>1 DEF CommunicateFixedSize
  <2>3. n \in 1 .. NumCalls
    BY <1>0, <2>2
  <2> HIDE DEF n
  <2>4. <<>> \in Sizes
    BY DEF Sizes
  <2>5. sizes' \in [Links -> Sizes]
    BY <1>0, <2>2, <2>4
  <2>6. \A q \in Rank : FixedSizeFor(n, r, q) \in 0 .. maxBufferSize
    <3>1. \A q \in Rank : FixedSizeFor(n, r, q) \in 1 .. maxBufferSize
      BY <1>0, <2>2, <2>3, FixedSizeRight
    <3> QED BY <3>1, SizesAreNat
  <2>7. fixedSize' \in [Links -> 0 .. maxBufferSize]
    <3>1. \A l \in Links : l[1] \in Rank
      BY LinkEnds
    <3> QED BY <1>0, <2>2, <2>6, <3>1
  <2>8. /\ sizeSendReq' = [l \in Links |-> sizeSendReq'[l]] /\ sizeRecvReq' = [l \in Links |-> sizeRecvReq'[l]]
        /\ DOMAIN scattered' = Links
    BY <2>2
  <2> QED BY <2>1, <2>2, <2>5, <2>7, <2>8, BeginKeepsRequests
<1>2. CASE CommunicateSizes(r)
  <2> DEFINE n == call[r] + 1
  <2>1. Begins(r, n, "sizes") /\ StartLoop(r, n, "sizes")
    BY <1>2, SizesBegin
  <2>2. /\ sizes' = [l \in Links |-> IF l \in In(r) THEN [i \in 1 .. Entries(n, l) |-> 0] ELSE sizes[l]]
        /\ fixedSize' = [l \in Links |-> IF l \in In(r) THEN 0 ELSE fixedSize[l]]
        /\ scattered' = [l \in Links |-> IF l \in In(r) THEN <<>> ELSE scattered[l]]
        /\ sizeSendReq' = sizeSendReq /\ sizeRecvReq' = sizeRecvReq /\ sizeToRecv' = sizeToRecv
        /\ call[r] < NumCalls
    BY <1>2 DEF CommunicateSizes, sizeRequests
  <2>3. n \in 1 .. NumCalls
    BY <1>0, <2>2
  <2> HIDE DEF n
  <2>4. \A l \in Links : [i \in 1 .. Entries(n, l) |-> 0] \in Sizes
    <3> SUFFICES ASSUME NEW l \in Links PROVE [i \in 1 .. Entries(n, l) |-> 0] \in Sizes
      OBVIOUS
    <3>1. PICK m \in Nat : m = Entries(n, l)
      BY <1>0, <2>3, CallFacts
    <3>2. [i \in 1 .. m |-> 0] \in [1 .. m -> 0 .. maxBufferSize]
      BY SizesAreNat
    <3>3. [i \in 1 .. m |-> 0] \in Sizes
      BY <3>2, SeqOfFunction DEF Sizes
    <3> QED BY <3>1, <3>3
  <2>5. sizes' \in [Links -> Sizes]
    BY <1>0, <2>2, <2>4
  <2>6. fixedSize' \in [Links -> 0 .. maxBufferSize]
    <3>1. 0 \in 0 .. maxBufferSize
      BY SizesAreNat
    <3> QED BY <1>0, <2>2, <3>1
  <2>7. /\ sizeSendReq' = [l \in Links |-> sizeSendReq'[l]] /\ sizeRecvReq' = [l \in Links |-> sizeRecvReq'[l]]
        /\ DOMAIN scattered' = Links
    BY <1>0, <2>2
  <2> QED BY <2>1, <2>2, <2>5, <2>6, <2>7, BeginKeepsRequests
<1>3. CASE CommunicateData(r)
  <2>1. Begins(r, call[r], "data") /\ StartLoop(r, call[r], "data")
    BY <1>3, DataBegins
  <2>2. /\ sizes' = sizes /\ fixedSize' = fixedSize /\ sizeSendReq' = sizeSendReq /\ sizeRecvReq' = sizeRecvReq
        /\ sizeToRecv' = sizeToRecv /\ scattered' = scattered
    BY <1>3 DEF CommunicateData, sizeRequests
  <2> QED BY <1>0, <2>1, <2>2, BeginKeepsRequests
<1> QED BY <1>1, <1>2, <1>3

\* The steps that leave the calls and loops of all ranks alone.
LEMMA ControlFrame ==
  ASSUME RequestInv, scenario' = scenario, call' = call, pc' = pc
  PROVE  ControlInv'
BY SameScenario DEF RequestInv, ControlInv

\* A rank returns, or has nothing to communicate.
LEMMA RequestReturn ==
  ASSUME RequestInv, ItemsInEveryCall, NEW r \in Rank, Return(r) \/ CommunicateNothing(r)
  PROVE  RequestInv'
<1>0. /\ scenario \in Scenarios /\ call \in [Rank -> 0 .. NumCalls] /\ NumCalls \in Nat
      /\ pc \in [Rank -> {"user", "sizes", "data", "fixed"}]
      /\ \A q \in Rank : pc[q] # "user" => call[q] > 0 /\ (pc[q] = "fixed" <=> Call(call[q]).fixedSize)
      /\ MemberInv
  BY CommunicatorAssumption DEF RequestInv, ControlInv
<1>1. CASE Return(r)
  <2>0. /\ scenario' = scenario /\ call' = call
        /\ sendIndex' = sendIndex /\ recvIndex' = recvIndex /\ sizes' = sizes /\ fixedSize' = fixedSize
        /\ sendReq' = sendReq /\ recvReq' = recvReq /\ sizeRecvReq' = sizeRecvReq
        /\ toSend' = toSend /\ toRecv' = toRecv /\ sizeToRecv' = sizeToRecv /\ scattered' = scattered
        /\ pc' = [pc EXCEPT ![r] = "user"]
        /\ sizeSendReq' = [k \in Links |-> IF k \in Out(r) THEN NullRequest ELSE sizeSendReq[k]]
    BY <1>1 DEF Return, requests
  <2>1. \A l \in Links : EndsInv(l)'
    BY <1>1, ReturnKeepsEnds
  <2>2. \A k : Call(k)' = Call(k)
    BY <2>0, SameScenario
  <2>3. ControlInv'
    BY <1>0, <2>0, <2>2 DEF ControlInv
  <2>4. MemberInv'
    <3>1. DOMAIN sizeSendReq' = Links /\ sizeSendReq' = [k \in Links |-> sizeSendReq'[k]]
      BY <2>0
    <3> QED BY <1>0, <2>0, <3>1 DEF MemberInv
  <2>5. CountersInv'
    BY <2>0, OutstandingSame DEF CountersInv, RequestInv
  <2> QED BY <2>1, <2>3, <2>4, <2>5 DEF RequestInv
<1>2. CASE CommunicateNothing(r)
  <2>0. /\ call[r] < NumCalls /\ pc[r] = "user" /\ Neighbours(r) = {}
        /\ call' = [call EXCEPT ![r] = call[r] + 1]
        /\ scenario' = scenario /\ pc' = pc /\ sendIndex' = sendIndex /\ recvIndex' = recvIndex /\ sizes' = sizes
        /\ fixedSize' = fixedSize /\ sendReq' = sendReq /\ recvReq' = recvReq
        /\ sizeSendReq' = sizeSendReq /\ sizeRecvReq' = sizeRecvReq
        /\ toSend' = toSend /\ toRecv' = toRecv /\ sizeToRecv' = sizeToRecv /\ scattered' = scattered
    BY <1>2 DEF CommunicateNothing, requests, sizeRequests
  <2>1. \A l \in Links : EndsInv(l)'
    BY <1>2, NothingKeepsEnds
  <2>2. \A k : Call(k)' = Call(k)
    BY <2>0, SameScenario
  <2>3. call' \in [Rank -> 0 .. NumCalls] /\ \A q \in Rank : q # r => call'[q] = call[q]
    BY <1>0, <2>0
  <2>4. ControlInv'
    BY <1>0, <2>0, <2>2, <2>3 DEF ControlInv
  <2>5. MemberInv'
    BY <1>0, <2>0 DEF MemberInv
  <2>6. ASSUME NEW q \in Rank
        PROVE  Sending(q)' = Sending(q) /\ Receiving(q)' = Receiving(q) /\ ReceivingSize(q)' = ReceivingSize(q)
    <3>1. Sending(q)' = Sending(q) /\ ReceivingSize(q)' = ReceivingSize(q)
      BY <2>0, OutstandingSame
    <3>2. Receiving(q)' = Receiving(q)
      <4>1. CASE q # r
        <5>1. call'[q] = call[q]
          BY <2>3, <4>1
        <5> QED BY <2>0, <5>1, OutstandingSame
      <4>2. CASE q = r
        <5>1. In(r) = {} /\ In(r)' = In(r)
          BY <2>0, SameScenario DEF In
        <5> QED BY <4>2, <5>1 DEF Receiving
      <4> QED BY <4>1, <4>2
    <3> QED BY <3>1, <3>2
  <2>7. CountersInv'
    BY <2>0, <2>6 DEF CountersInv, RequestInv
  <2> QED BY <2>1, <2>4, <2>5, <2>7 DEF RequestInv
<1> QED BY <1>1, <1>2

\* A request has completed and is handled, or completes.
LEMMA RequestHandled ==
  ASSUME RequestInv, ItemsInEveryCall, NEW l \in Links,
         \/ SendCompleted(l) \/ ReceiveCompleted(l) \/ FixedSizeReceived(l)
         \/ Match(l) \/ MatchFixedSize(l)
  PROVE  RequestInv'
<1>0. MemberInv /\ \A k \in Links : EndsInv(k)
  BY DEF RequestInv
<1>1. CASE SendCompleted(l)
  <2>0. /\ scenario' = scenario /\ call' = call /\ pc' = pc /\ recvIndex' = recvIndex /\ sizes' = sizes
        /\ fixedSize' = fixedSize /\ recvReq' = recvReq /\ sizeSendReq' = sizeSendReq /\ sizeRecvReq' = sizeRecvReq
        /\ toRecv' = toRecv /\ sizeToRecv' = sizeToRecv /\ scattered' = scattered
    BY <1>1 DEF SendCompleted, sizeRequests
  <2>1. /\ EndsInv(l)' /\ sendIndex' \in [Links -> Nat] /\ sendReq' \in [Links -> Request]
        /\ \A k \in Links : k # l => sendIndex'[k] = sendIndex[k] /\ sendReq'[k] = sendReq[k]
    BY <1>1, SendCompletedKeepsEnds
  <2>2. CountersInv' /\ toSend' \in [Rank -> Nat]
    BY <1>1, SendCompletedCounts
  <2>3. \A k \in Links : k # l => EndsInv(k)'
    BY <1>0, <2>0, <2>1, EndsFrame
  <2>4. MemberInv'
    BY <1>0, <2>0, <2>1, <2>2 DEF MemberInv
  <2>5. ControlInv'
    BY <2>0, ControlFrame
  <2> QED BY <2>1, <2>2, <2>3, <2>4, <2>5 DEF RequestInv
<1>2. CASE ReceiveCompleted(l)
  <2>0. /\ scenario' = scenario /\ call' = call /\ pc' = pc /\ sendIndex' = sendIndex
        /\ fixedSize' = fixedSize /\ sendReq' = sendReq /\ sizeSendReq' = sizeSendReq /\ sizeRecvReq' = sizeRecvReq
        /\ toSend' = toSend /\ sizeToRecv' = sizeToRecv
        /\ scattered' = [scattered EXCEPT ![l] = @ \o Unpack(pc[l[2]], call[l[2]], l, recvReq[l].data).scattered]
    BY <1>2 DEF ReceiveCompleted, sizeRequests
  <2>1. /\ EndsInv(l)' /\ recvIndex' \in [Links -> Nat] /\ recvReq' \in [Links -> Request]
        /\ sizes' \in [Links -> Sizes]
        /\ \A k \in Links : k # l => recvIndex'[k] = recvIndex[k] /\ recvReq'[k] = recvReq[k]
                                     /\ sizes'[k] = sizes[k]
    BY <1>2, ReceiveCompletedKeepsEnds
  <2>2. CountersInv' /\ toRecv' \in [Rank -> Nat]
    BY <1>2, ReceiveCompletedCounts
  <2>3. \A k \in Links : k # l => EndsInv(k)'
    BY <1>0, <2>0, <2>1, EndsFrame
  <2>4. MemberInv'
    <3>1. DOMAIN scattered' = Links
      BY <1>0, <2>0 DEF MemberInv
    <3> QED BY <1>0, <2>0, <2>1, <2>2, <3>1 DEF MemberInv
  <2>5. ControlInv'
    BY <2>0, ControlFrame
  <2> QED BY <2>1, <2>2, <2>3, <2>4, <2>5 DEF RequestInv
<1>3. CASE FixedSizeReceived(l)
  <2>0. /\ scenario' = scenario /\ call' = call /\ pc' = pc /\ sendIndex' = sendIndex /\ recvIndex' = recvIndex
        /\ sizes' = sizes /\ sendReq' = sendReq /\ sizeSendReq' = sizeSendReq
        /\ toSend' = toSend /\ toRecv' = toRecv /\ scattered' = scattered
        /\ sizeRecvReq' = [sizeRecvReq EXCEPT ![l] = NullRequest]
    BY <1>3 DEF FixedSizeReceived
  <2>1. /\ EndsInv(l)' /\ recvReq' \in [Links -> Request] /\ fixedSize' \in [Links -> 0 .. maxBufferSize]
        /\ \A k \in Links : k # l => /\ recvReq'[k] = recvReq[k] /\ sizeRecvReq'[k] = sizeRecvReq[k]
                                     /\ fixedSize'[k] = fixedSize[k]
    BY <1>3, FixedSizeReceivedKeepsEnds
  <2>2. CountersInv' /\ sizeToRecv' \in [Rank -> Nat]
    BY <1>3, FixedSizeReceivedCounts
  <2>3. \A k \in Links : k # l => EndsInv(k)'
    BY <1>0, <2>0, <2>1, EndsFrame
  <2>4. MemberInv'
    <3>1. DOMAIN sizeRecvReq' = Links /\ sizeRecvReq' = [k \in Links |-> sizeRecvReq'[k]]
      BY <1>0, <2>0 DEF MemberInv
    <3> QED BY <1>0, <2>0, <2>1, <2>2, <3>1 DEF MemberInv
  <2>5. ControlInv'
    BY <2>0, ControlFrame
  <2> QED BY <2>1, <2>2, <2>3, <2>4, <2>5 DEF RequestInv
<1>4. CASE Match(l)
  <2>0. /\ scenario' = scenario /\ call' = call /\ pc' = pc /\ sendIndex' = sendIndex /\ recvIndex' = recvIndex
        /\ sizes' = sizes /\ fixedSize' = fixedSize /\ sizeSendReq' = sizeSendReq /\ sizeRecvReq' = sizeRecvReq
        /\ toSend' = toSend /\ toRecv' = toRecv /\ sizeToRecv' = sizeToRecv /\ scattered' = scattered
    BY <1>4 DEF Match, sizeRequests
  <2>1. /\ EndsInv(l)' /\ sendReq' \in [Links -> Request] /\ recvReq' \in [Links -> Request]
        /\ \A k \in Links : k # l => sendReq'[k] = sendReq[k] /\ recvReq'[k] = recvReq[k]
        /\ sendReq[l] # NullRequest /\ sendReq'[l] # NullRequest
        /\ recvReq[l] # NullRequest /\ recvReq'[l] # NullRequest
    BY <1>4, MatchKeepsEnds
  <2>2. \A k \in Links : /\ sendReq'[k] # NullRequest <=> sendReq[k] # NullRequest
                         /\ recvReq'[k] # NullRequest <=> recvReq[k] # NullRequest
    BY <2>1
  <2>3. CountersInv'
    BY <2>0, <2>2, OutstandingSame DEF CountersInv, RequestInv
  <2>4. \A k \in Links : k # l => EndsInv(k)'
    BY <1>0, <2>0, <2>1, EndsFrame
  <2>5. MemberInv'
    BY <1>0, <2>0, <2>1 DEF MemberInv
  <2>6. ControlInv'
    BY <2>0, ControlFrame
  <2> QED BY <2>1, <2>3, <2>4, <2>5, <2>6 DEF RequestInv
<1>5. CASE MatchFixedSize(l)
  <2>0. /\ scenario' = scenario /\ call' = call /\ pc' = pc /\ sendIndex' = sendIndex /\ recvIndex' = recvIndex
        /\ sizes' = sizes /\ fixedSize' = fixedSize /\ sendReq' = sendReq /\ recvReq' = recvReq
        /\ toSend' = toSend /\ toRecv' = toRecv /\ sizeToRecv' = sizeToRecv /\ scattered' = scattered
        /\ sizeSendReq' = [sizeSendReq EXCEPT ![l] = Done(<<>>)]
        /\ sizeRecvReq' = [sizeRecvReq EXCEPT ![l] = Done(sizeSendReq[l].data)]
    BY <1>5 DEF MatchFixedSize, requests
  <2>1. /\ EndsInv(l)'
        /\ \A k \in Links : k # l => sizeSendReq'[k] = sizeSendReq[k] /\ sizeRecvReq'[k] = sizeRecvReq[k]
        /\ sizeRecvReq[l] # NullRequest /\ sizeRecvReq'[l] # NullRequest
    BY <1>5, MatchFixedSizeKeepsEnds
  <2>2. \A k \in Links : sizeRecvReq'[k] # NullRequest <=> sizeRecvReq[k] # NullRequest
    BY <2>1
  <2>3. CountersInv'
    BY <2>0, <2>2, OutstandingSame DEF CountersInv, RequestInv
  <2>4. \A k \in Links : k # l => EndsInv(k)'
    BY <1>0, <2>0, <2>1, EndsFrame
  <2>5. MemberInv'
    <3>1. /\ DOMAIN sizeRecvReq' = Links /\ sizeRecvReq' = [k \in Links |-> sizeRecvReq'[k]]
          /\ DOMAIN sizeSendReq' = Links /\ sizeSendReq' = [k \in Links |-> sizeSendReq'[k]]
      BY <1>0, <2>0 DEF MemberInv
    <3> QED BY <1>0, <2>0, <3>1 DEF MemberInv
  <2>6. ControlInv'
    BY <2>0, ControlFrame
  <2> QED BY <2>1, <2>3, <2>4, <2>5, <2>6 DEF RequestInv
<1> QED BY <1>1, <1>2, <1>3, <1>4, <1>5

\* Nothing happens.
LEMMA RequestStutter ==
  ASSUME RequestInv, UNCHANGED vars
  PROVE  RequestInv'
<1>1. /\ scenario' = scenario /\ call' = call /\ pc' = pc /\ sendIndex' = sendIndex /\ recvIndex' = recvIndex
      /\ sizes' = sizes /\ fixedSize' = fixedSize /\ sendReq' = sendReq /\ recvReq' = recvReq
      /\ sizeSendReq' = sizeSendReq /\ sizeRecvReq' = sizeRecvReq
      /\ toSend' = toSend /\ toRecv' = toRecv /\ sizeToRecv' = sizeToRecv /\ scattered' = scattered
  BY DEF vars, requests, sizeRequests
<1>2. \A l \in Links : EndsInv(l)'
  BY <1>1, EndsFrame DEF RequestInv
<1>3. CountersInv'
  BY <1>1, OutstandingSame DEF CountersInv, RequestInv
<1>4. MemberInv'
  BY <1>1 DEF MemberInv, RequestInv
<1>5. ControlInv'
  BY <1>1, ControlFrame
<1> QED BY <1>2, <1>3, <1>4, <1>5 DEF RequestInv

\* Every step keeps the invariant.
LEMMA RequestStep ==
  ASSUME RequestInv, ItemsInEveryCall, [Next]_vars
  PROVE  RequestInv'
<1>1. ASSUME NEW r \in Rank, Step(r) PROVE RequestInv'
  <2>1. \A l : l \in Out(r) \/ l \in In(r) => l \in Links
    BY LinksOf DEF RequestInv, ControlInv
  <2>2. CASE CommunicateFixedSize(r) \/ CommunicateSizes(r) \/ CommunicateData(r)
    BY <2>2, RequestBegin
  <2>3. CASE CommunicateNothing(r) \/ Return(r)
    BY <2>3, RequestReturn
  <2>4. CASE \E l \in Out(r) : SendCompleted(l)
    BY <2>1, <2>4, RequestHandled
  <2>5. CASE \E l \in In(r) : ReceiveCompleted(l) \/ FixedSizeReceived(l)
    BY <2>1, <2>5, RequestHandled
  <2> QED BY <1>1, <2>2, <2>3, <2>4, <2>5 DEF Step
<1>2. ASSUME NEW l \in Links, Match(l) \/ MatchFixedSize(l) PROVE RequestInv'
  BY <1>2, RequestHandled
<1>3. CASE UNCHANGED vars
  BY <1>3, RequestStutter
<1> QED BY <1>1, <1>2, <1>3 DEF Next

\* In every execution whose calls have items on every link that has entries, the
\* requests and trackers of all ranks fit together.
THEOREM RequestsRight ==
  ASSUME ItemsInEveryCall
  PROVE  Spec => []RequestInv
<1>1. Init => RequestInv
  BY RequestInit
<1>2. RequestInv /\ [Next]_vars => RequestInv'
  BY RequestStep
<1> QED BY <1>1, <1>2, PTL DEF Spec

-----------------------------------------------------------------------------
\* What follows from the invariant.

\* Every variable has its type, and no tracker is beyond its interface.
THEOREM TypeCorrect == ASSUME ItemsInEveryCall PROVE Spec => []TypeOK
<1>1. RequestInv => TypeOK
  <2> SUFFICES ASSUME RequestInv PROVE TypeOK
    OBVIOUS
  <2>1. ControlInv /\ MemberInv
    BY DEF RequestInv
  <2>2. ASSUME NEW l \in Links
        PROVE  /\ call[l[1]] > 0 => sendIndex[l] \in 0 .. Entries(call[l[1]], l)
               /\ call[l[2]] > 0 => recvIndex[l] \in 0 .. Entries(call[l[2]], l)
               /\ sizes[l] \in Seq(0 .. maxBufferSize) /\ fixedSize[l] \in 0 .. maxBufferSize
    <3>1. SenderInv(l) /\ ReceiverInv(l) /\ l[1] \in Rank /\ l[2] \in Rank
      BY LinkEnds DEF RequestInv, EndsInv
    <3>2. call[l[1]] \in Nat /\ call[l[2]] \in Nat
      BY <2>1, <3>1, CommunicatorAssumption DEF ControlInv
    <3>3. /\ call[l[1]] > 0 => Total(call[l[1]], l) = Entries(call[l[1]], l)
          /\ call[l[2]] > 0 => Total(call[l[2]], l) = Entries(call[l[2]], l)
      BY <3>2 DEF Total
    <3> QED BY <2>1, <3>1, <3>3 DEF SenderInv, ReceiverInv, MemberInv, Sizes
  <2> QED BY <2>1, <2>2 DEF TypeOK, ControlInv, MemberInv
<1> QED BY <1>1, RequestsRight, PTL

\* The counters that end the loops are the requests that are outstanding, and a
\* call that has returned has left none.
THEOREM CountersRight == ASSUME ItemsInEveryCall PROVE Spec => []CountersExact
<1>1. RequestInv => CountersExact
  <2> SUFFICES ASSUME RequestInv, NEW r \in Rank
               PROVE  /\ toSend[r] = Cardinality(Sending(r)) /\ toRecv[r] = Cardinality(Receiving(r))
                      /\ sizeToRecv[r] = Cardinality(ReceivingSize(r))
                      /\ pc[r] = "user" => \A l \in Out(r) : sizeSendReq[l] = NullRequest
    BY DEF CountersExact, Sending, Receiving, ReceivingSize
  <2>1. ASSUME pc[r] = "user", NEW l \in Out(r) PROVE sizeSendReq[l] = NullRequest
    <3>1. l \in Links /\ l[1] = r
      BY LinksOf DEF RequestInv, ControlInv
    <3> QED BY <2>1, <3>1 DEF RequestInv, EndsInv, SenderInv
  <2> QED BY <2>1 DEF RequestInv, CountersInv
<1> QED BY <1>1, RequestsRight, PTL

\* Though all loops of all calls share their tags and communicator, a message of
\* one loop never meets a receive of another.
THEOREM LoopsApart == ASSUME ItemsInEveryCall PROVE Spec => []OnlyTheSameLoopMeets
<1>1. RequestInv => OnlyTheSameLoopMeets
  <2> SUFFICES ASSUME RequestInv, NEW l \in Links
               PROVE  /\ sendReq[l].state = "posted" /\ recvReq[l].state = "posted"
                           => call[l[1]] = call[l[2]] /\ pc[l[1]] = pc[l[2]]
                      /\ sizeSendReq[l].state = "posted" /\ sizeRecvReq[l].state = "posted"
                           => call[l[1]] = call[l[2]]
    BY DEF OnlyTheSameLoopMeets
  <2>1. ASSUME sizeSendReq[l].state = "posted", sizeRecvReq[l].state = "posted"
        PROVE  call[l[1]] = call[l[2]]
    <3>1. sizeSendReq[l] # NullRequest
      BY <2>1, RequestStates
    <3>2. FixedInv(l)
      BY <3>1 DEF RequestInv, EndsInv, SenderInv
    <3>3. call[l[1]] \in Nat /\ call[l[2]] \in Nat
      BY LinkEnds, CommunicatorAssumption DEF RequestInv, ControlInv
    <3>4. PICK a \in Nat, b \in Nat : a = call[l[1]] /\ b = call[l[2]]
      BY <3>3
    <3> QED BY <2>1, <3>2, <3>4 DEF FixedInv
  <2> QED BY <2>1, MeetInSameLoop
<1> QED BY <1>1, RequestsRight, PTL

\* The amounts of the abstract exchange are those of the data handles.
LEMMA AmountFacts ==
  ASSUME RequestInv, NEW n \in 1 .. NumCalls, NEW l \in Links
  PROVE  /\ Amount[n][l] = SizeSum(Call(n).size[l], 0, Entries(n, l)) /\ Amount[n][l] \in Nat
         /\ Amount[n][l] > 0 => Entries(n, l) > 0 /\ Linked(l)
<1>1. Entries(n, l) \in Nat /\ Call(n).size[l] \in Sizes /\ Len(Call(n).size[l]) = Entries(n, l)
      /\ (Entries(n, l) > 0 => Linked(l))
  BY CallFacts DEF RequestInv, ControlInv
<1>2. Amount[n][l] = SizeSum(Call(n).size[l], 0, Entries(n, l))
  BY DEF Amount
<1> DEFINE w == Call(n).size[l]
<1>3. w \in Seq(Nat)
  BY <1>1, SizesAreNat
<1> HIDE DEF w
<1>4. PICK m \in Nat, z \in Nat : m = Entries(n, l) /\ z = 0 /\ Len(w) = m
  BY <1>1 DEF w
<1>5. SizeSum(w, z, m) \in Nat /\ SizeSum(w, z, z) = 0
  BY <1>3, <1>4, SizeSums
<1> QED BY <1>1, <1>2, <1>4, <1>5 DEF w

\* No rank is beyond a call in which it exchanges items with a rank that has not
\* come to this call.
THEOREM StaysInStep == ASSUME ItemsInEveryCall PROVE Spec => []InStep
<1>1. ASSUME RequestInv, NEW l \in Links, NEW n \in 1 .. NumCalls, Entries(n, l) > 0
      PROVE  /\ call[l[1]] > n => call[l[2]] >= n
             /\ call[l[2]] > n => call[l[1]] >= n
  <2>0. call[l[1]] \in Nat /\ call[l[2]] \in Nat
    <3>1. \A r \in Rank : call[r] \in Nat
      BY <1>1, CommunicatorAssumption DEF RequestInv, ControlInv
    <3> QED BY <3>1, LinkEnds
  <2>1. PICK a \in Nat, b \in Nat : a = call[l[1]] /\ b = call[l[2]]
    BY <2>0
  <2>2. LinkInv(l)
    BY <1>1, CallFacts DEF RequestInv, ControlInv, EndsInv
  <2>3. PICK x \in Nat, y \in Nat : /\ x = Stage(l[1]) /\ x \in 2 * a .. 2 * a + 1
                                    /\ y = Stage(l[2]) /\ y \in 2 * b .. 2 * b + 1
    <3>1. 2 * a \in Nat /\ 2 * b \in Nat
      OBVIOUS
    <3> QED BY <2>1, <3>1 DEF Stage
  <2>4. /\ y < x => Between(l, y, x)
        /\ x < y => Between(l, x, y)
    BY <2>2, <2>3 DEF LinkInv
  <2>5. n \in Nat /\ NumCalls \in Nat
    BY CommunicatorAssumption
  <2>6. ~(y < 2 * n + 1 /\ 2 * n + 1 < x) /\ ~(x < 2 * n + 1 /\ 2 * n + 1 < y)
    <3>1. y < 2 * n + 1 /\ 2 * n + 1 < x => y < x
      BY <2>3, <2>5
    <3>2. x < 2 * n + 1 /\ 2 * n + 1 < y => x < y
      BY <2>3, <2>5
    <3> QED BY <1>1, <2>4, <3>1, <3>2 DEF Between
  <2>7. (a > n => b >= n) /\ (b > n => a >= n)
    BY <2>3, <2>5, <2>6
  <2> QED BY <2>1, <2>7
<1>2. RequestInv => InStep
  <2> SUFFICES ASSUME RequestInv PROVE InStep
    OBVIOUS
  <2> DEFINE calls == [r \in Rank |-> IF Neighbours(r) = {} THEN 0 ELSE call[r]]
  <2> SUFFICES ASSUME NEW l \in Links, NEW n \in 1 .. NumCalls, Amount[n][l] > 0
               PROVE  /\ calls[l[1]] > n => calls[l[2]] >= n
                      /\ calls[l[2]] > n => calls[l[1]] >= n
    BY DEF InStep, Exchange!InStep, Exchange!Links, Links
  <2>1. Entries(n, l) > 0 /\ Linked(l)
    BY AmountFacts
  <2>2. l[1] \in Rank /\ l[2] \in Rank /\ Neighbours(l[1]) # {} /\ Neighbours(l[2]) # {}
    <3>1. l \in Out(l[1]) /\ l \in In(l[2]) /\ l[1] \in Rank /\ l[2] \in Rank
      BY <2>1, LinkEnds, LinksOf DEF RequestInv, ControlInv
    <3> QED BY <3>1 DEF Out, In
  <2>3. calls[l[1]] = call[l[1]] /\ calls[l[2]] = call[l[2]]
    BY <2>2
  <2> QED BY <1>1, <2>1, <2>3
<1> QED BY <1>2, RequestsRight, PTL

-----------------------------------------------------------------------------
\* What is scattered.

\* The calls of scatter() so far are those for the entries the tracker has passed.
ScatterInv(l) ==
  IF Linked(l) /\ call[l[2]] > 0 /\ pc[l[2]] # "sizes"
  THEN Scatters(scattered[l], call[l[2]], l, 0, recvIndex[l])
  ELSE scattered[l] = <<>>

DeliveryInv == RequestInv /\ \A l \in Links : ScatterInv(l)

\* What is to be scattered depends on the execution alone.
LEMMA SameScatters ==
  ASSUME scenario' = scenario
  PROVE  \A calls, n, l, a, b : Scatters(calls, n, l, a, b)' = Scatters(calls, n, l, a, b)
<1>1. \A n, l, e : ItemsOf(n, l, e)' = ItemsOf(n, l, e)
  BY SameScenario DEF ItemsOf
<1>2. \A n : Call(n)' = Call(n)
  BY SameScenario
<1>3. \A n, l, e : Size(n, l, e)' = Size(n, l, e)
  BY SameScenario
<1> QED BY <1>1, <1>2, <1>3 DEF Scatters

\* A step that leaves the receiver alone, or ends its call, keeps what is scattered.
LEMMA ScatterFrame ==
  ASSUME NEW l \in Links, ScatterInv(l), scenario' = scenario, call'[l[2]] = call[l[2]],
         pc'[l[2]] = "sizes" <=> pc[l[2]] = "sizes",
         recvIndex'[l] = recvIndex[l], scattered'[l] = scattered[l]
  PROVE  ScatterInv(l)'
<1>1. Linked(l)' = Linked(l)
  BY SameScenario
<1>2. Scatters(scattered[l], call[l[2]], l, 0, recvIndex[l])' = Scatters(scattered[l], call[l[2]], l, 0, recvIndex[l])
  BY SameScatters
<1> QED BY <1>1, <1>2 DEF ScatterInv

\* A call begins, or its second loop: nothing has been scattered in it.
LEMMA ScatterBegin ==
  ASSUME RequestInv, ItemsInEveryCall, NEW r \in Rank, NEW l \in Links, ScatterInv(l),
         CommunicateFixedSize(r) \/ CommunicateSizes(r) \/ CommunicateData(r)
  PROVE  ScatterInv(l)'
<1>0. /\ scenario \in Scenarios /\ scenario' = scenario /\ l[2] \in Rank /\ r \in {r, l[2]}
      /\ DOMAIN scattered = Links
  BY LinkEnds DEF CommunicateFixedSize, CommunicateSizes, CommunicateData, RequestInv, ControlInv, MemberInv
<1>1. PICK n, loop : Begins(r, n, loop)
  BY FixedSizeBegins, SizesBegin, DataBegins
<1>2. /\ n \in 1 .. NumCalls /\ call'[r] = n /\ \A q \in Rank : q # r => call'[q] = call[q] /\ pc'[q] = pc[q]
  <2>1. n \in 1 .. NumCalls
    BY <1>1 DEF Begins
  <2> HIDE DEF Begins
  <2> QED BY <1>1, <2>1, BeginFacts
<1>3. CASE l[2] # r
  <2>1. l \notin In(r)
    BY <1>0, <1>3, LinksOf
  <2>2. scattered'[l] = scattered[l]
    BY <2>1 DEF CommunicateFixedSize, CommunicateSizes, CommunicateData
  <2>3. recvIndex'[l] = recvIndex[l]
    BY <1>1, <1>3 DEF Begins
  <2> QED BY <1>0, <1>2, <1>3, <2>2, <2>3, ScatterFrame
<1>4. CASE l[2] = r
  <2>1. scattered'[l] = <<>>
    <3>1. CASE Linked(l)
      <4>1. l \in In(r)
        BY <1>0, <1>4, <3>1, LinksOf
      <4>2. CASE CommunicateData(r)
        BY <1>4, <4>2 DEF CommunicateData, ScatterInv
      <4> QED BY <4>1, <4>2 DEF CommunicateFixedSize, CommunicateSizes
    <3>2. CASE ~Linked(l)
      <4>1. l \notin In(r) /\ scattered[l] = <<>>
        BY <1>0, <1>4, <3>2, LinksOf DEF ScatterInv
      <4> QED BY <4>1 DEF CommunicateFixedSize, CommunicateSizes, CommunicateData
    <3> QED BY <3>1, <3>2
  <2>2. recvIndex'[l] = 0
    BY <1>1, <1>4 DEF Begins
  <2>3. PICK z \in {0} : z = 0
    OBVIOUS
  <2>4. z \in 0 .. Entries(n, l) /\ z \in z .. Entries(n, l)
    <3>1. Entries(n, l) \in Nat
      BY <1>0, <1>2, CallFacts
    <3> QED BY <2>3, <3>1
  <2>5. Scatters(<<>>, n, l, 0, 0)
    BY <1>0, <1>2, <2>3, <2>4, ScattersNone
  <2>6. Scatters(scattered[l], call[l[2]], l, 0, recvIndex[l])'
    BY <1>0, <1>2, <1>4, <2>1, <2>2, <2>5, SameScatters
  <2> QED BY <2>1, <2>6 DEF ScatterInv
<1> QED BY <1>3, <1>4

\* A message is unpacked: its entries are those behind the ones before.
LEMMA ScatterReceived ==
  ASSUME RequestInv, ItemsInEveryCall, NEW l \in Links, ScatterInv(l), ReceiveCompleted(l)
  PROVE  ScatterInv(l)'
<1> DEFINE r == l[2]
           n == call[r]
           i == recvIndex[l]
           to == End(r, l, i)
           unpacked == Unpack(pc[r], n, l, recvReq[l].data)
<1>0. /\ pc[r] # "user" /\ recvReq[l].state = "done" /\ scenario' = scenario /\ call' = call /\ pc' = pc
      /\ scattered' = [scattered EXCEPT ![l] = @ \o unpacked.scattered]
      /\ DOMAIN scattered = Links
  BY DEF ReceiveCompleted, RequestInv, MemberInv
<1>1. n \in 1 .. NumCalls /\ scenario \in Scenarios /\ n > 0
  <2>1. \A q \in {l[1], l[2]} : pc[q] # "user" => call[q] \in 1 .. NumCalls
    BY EndsFacts
  <2>2. n \in 1 .. NumCalls
    BY <1>0, <2>1
  <2>3. scenario \in Scenarios
    BY DEF RequestInv, ControlInv
  <2>4. n > 0
    BY <2>2, CommunicatorAssumption
  <2> QED BY <2>2, <2>3, <2>4
<1>2. /\ Linked(l) /\ i \in 0 .. Entries(n, l) /\ to \in i .. Entries(n, l)
      /\ pc[r] = "sizes" => unpacked.scattered = <<>>
      /\ pc[r] # "sizes" => Scatters(unpacked.scattered, n, l, i, to)
  BY <1>0, UnpackRight
<1>3. recvIndex'[l] = to
  BY ReceiveCompletedKeepsEnds
<1>4. scattered'[l] = scattered[l] \o unpacked.scattered
  BY <1>0
<1> HIDE DEF to, unpacked
<1>5. CASE pc[r] = "sizes"
  <2>1. scattered[l] = <<>> /\ <<>> \o <<>> = <<>>
    BY <1>5 DEF ScatterInv
  <2> QED BY <1>0, <1>2, <1>4, <1>5, <2>1 DEF ScatterInv
<1>6. CASE pc[r] # "sizes"
  <2>1. Scatters(scattered[l], n, l, 0, i)
    BY <1>1, <1>2, <1>6 DEF ScatterInv
  <2>2. PICK z \in Nat : z = 0
    OBVIOUS
  <2>3. PICK m \in Nat : m = Entries(n, l)
    BY <1>1, CallFacts
  <2>4. z \in 0 .. Entries(n, l) /\ i \in z .. Entries(n, l)
    BY <1>2, <2>2, <2>3
  <2>5. Scatters(scattered[l] \o unpacked.scattered, n, l, 0, to)
    BY <1>1, <1>2, <1>6, <2>1, <2>2, <2>4, ScattersBoth
  <2>6. Scatters(scattered[l], call[l[2]], l, 0, recvIndex[l])'
    BY <1>0, <1>3, <1>4, <2>5, SameScatters
  <2> QED BY <1>0, <1>1, <1>2, <1>6, <2>6, SameScenario DEF ScatterInv
<1> QED BY <1>5, <1>6

\* Every step keeps what is scattered right.
LEMMA DeliveryStep ==
  ASSUME DeliveryInv, ItemsInEveryCall, [Next]_vars
  PROVE  DeliveryInv'
<1>0. RequestInv /\ RequestInv' /\ \A k \in Links : ScatterInv(k) /\ k[2] \in Rank
  BY RequestStep, LinkEnds DEF DeliveryInv
<1>1. /\ scenario \in Scenarios /\ call \in [Rank -> 0 .. NumCalls] /\ recvIndex \in [Links -> Nat]
      /\ pc \in [Rank -> {"user", "sizes", "data", "fixed"}] /\ DOMAIN scattered = Links
  BY <1>0 DEF RequestInv, ControlInv, MemberInv
<1> SUFFICES ASSUME NEW l \in Links PROVE ScatterInv(l)'
  BY <1>0 DEF DeliveryInv
<1>2. ASSUME NEW r \in Rank, Step(r) PROVE ScatterInv(l)'
  <2>1. CASE CommunicateFixedSize(r) \/ CommunicateSizes(r) \/ CommunicateData(r)
    BY <1>0, <2>1, ScatterBegin
  <2>2. CASE CommunicateNothing(r)
    <3>1. /\ scenario' = scenario /\ recvIndex' = recvIndex /\ scattered' = scattered /\ pc' = pc
          /\ call' = [call EXCEPT ![r] = @ + 1] /\ Neighbours(r) = {}
      BY <2>2 DEF CommunicateNothing
    <3>2. CASE l[2] = r
      <4>1. ~Linked(l)
        BY <1>1, <3>1, <3>2, LinksOf DEF In
      <4> QED BY <1>0, <3>1, <4>1, SameScenario DEF ScatterInv
    <3>3. CASE l[2] # r
      <4>1. call'[l[2]] = call[l[2]]
        BY <1>0, <1>1, <3>1, <3>3
      <4> QED BY <1>0, <3>1, <4>1, ScatterFrame
    <3> QED BY <3>2, <3>3
  <2>3. CASE Return(r)
    <3>1. /\ scenario' = scenario /\ recvIndex' = recvIndex /\ scattered' = scattered /\ call' = call
          /\ pc' = [pc EXCEPT ![r] = "user"] /\ pc[r] # "sizes"
      BY <2>3 DEF Return
    <3>2. pc'[l[2]] = "sizes" <=> pc[l[2]] = "sizes"
      BY <1>0, <1>1, <3>1
    <3> QED BY <1>0, <3>1, <3>2, ScatterFrame
  <2>4. ASSUME NEW k \in Out(r), SendCompleted(k) PROVE ScatterInv(l)'
    <3>1. /\ scenario' = scenario /\ recvIndex' = recvIndex /\ scattered' = scattered /\ call' = call /\ pc' = pc
      BY <2>4 DEF SendCompleted
    <3> QED BY <1>0, <3>1, ScatterFrame
  <2>5. ASSUME NEW k \in In(r), FixedSizeReceived(k) PROVE ScatterInv(l)'
    <3>1. /\ scenario' = scenario /\ recvIndex' = recvIndex /\ scattered' = scattered /\ call' = call /\ pc' = pc
      BY <2>5 DEF FixedSizeReceived
    <3> QED BY <1>0, <3>1, ScatterFrame
  <2>6. ASSUME NEW k \in In(r), ReceiveCompleted(k) PROVE ScatterInv(l)'
    <3>1. CASE k = l
      BY <1>0, <2>6, <3>1, ScatterReceived
    <3>2. CASE k # l
      <4>1. /\ scenario' = scenario /\ call' = call /\ pc' = pc
            /\ scattered'[l] = scattered[l] /\ recvIndex'[l] = recvIndex[l]
        BY <1>1, <2>6, <3>2 DEF ReceiveCompleted
      <4> QED BY <1>0, <4>1, ScatterFrame
    <3> QED BY <3>1, <3>2
  <2> QED BY <1>2, <2>1, <2>2, <2>3, <2>4, <2>5, <2>6 DEF Step
<1>3. ASSUME NEW k \in Links, Match(k) \/ MatchFixedSize(k) PROVE ScatterInv(l)'
  <2>1. /\ scenario' = scenario /\ recvIndex' = recvIndex /\ scattered' = scattered /\ call' = call /\ pc' = pc
    BY <1>3 DEF Match, MatchFixedSize
  <2> QED BY <1>0, <2>1, ScatterFrame
<1>4. CASE UNCHANGED vars
  <2>1. /\ scenario' = scenario /\ recvIndex' = recvIndex /\ scattered' = scattered /\ call' = call /\ pc' = pc
    BY <1>4 DEF vars
  <2> QED BY <1>0, <2>1, ScatterFrame
<1> QED BY <1>2, <1>3, <1>4 DEF Next

\* In every execution whose calls have items on every link that has entries, the
\* calls of scatter() are always those for the entries the tracker has passed.
THEOREM DeliveryRight ==
  ASSUME ItemsInEveryCall
  PROVE  Spec => []DeliveryInv
<1>1. Init => DeliveryInv
  <2>1. Init => \A l \in Links : ScatterInv(l)
    BY LinkEnds DEF Init, ScatterInv
  <2> QED BY <2>1, RequestInit DEF DeliveryInv
<1>2. DeliveryInv /\ [Next]_vars => DeliveryInv'
  BY DeliveryStep
<1> QED BY <1>1, <1>2, PTL DEF Spec

\* Every entry with items is scattered once, in the order of the entries, with the
\* items that were gathered for it in this call, and none is left when it returns.
THEOREM ScattersRight == ASSUME ItemsInEveryCall PROVE Spec => []ScattersExact
<1>1. DeliveryInv => ScattersExact
  <2> SUFFICES ASSUME DeliveryInv, NEW r \in Rank, NEW l \in In(r), call[r] > 0
      PROVE LET passed == CASE pc[r] = "sizes" -> 0
                            [] pc[r] = "user"  -> Entries(call[r], l)
                            [] OTHER           -> recvIndex[l]
            IN /\ \A i \in DOMAIN scattered[l] :
                    /\ LET e == scattered[l][i].entry
                       IN scattered[l][i].items = ItemsOf(call[r], l, e)
                    /\ i > 1 => scattered[l][i - 1].entry < scattered[l][i].entry
               /\ {e \in 1 .. passed : Size(call[r], l, e) > 0} =
                    {e \in 1 .. Entries(call[r], l) :
                       \E i \in DOMAIN scattered[l] : scattered[l][i].entry = e
                                                      /\ scattered[l][i].items # <<>>}
    BY DEF ScattersExact, ItemsOf
  <2> DEFINE n == call[r]
             passed == CASE pc[r] = "sizes" -> 0
                         [] pc[r] = "user"  -> Entries(n, l)
                         [] OTHER           -> recvIndex[l]
             calls == scattered[l]
  <2>1. l \in Links /\ l[2] = r /\ Linked(l) /\ RequestInv /\ scenario \in Scenarios /\ ScatterInv(l)
    BY LinksOf DEF DeliveryInv, RequestInv, ControlInv
  <2>2. n \in 1 .. NumCalls /\ Entries(n, l) \in Nat /\ Total(n, l) = Entries(n, l)
    <3>1. n \in 0 .. NumCalls /\ NumCalls \in Nat
      BY <2>1, CommunicatorAssumption DEF RequestInv, ControlInv
    <3>2. n \in 1 .. NumCalls
      BY <3>1
    <3> QED BY <2>1, <3>2, CallFacts DEF Total
  <2>3. CASE pc[r] = "sizes"
    <3>1. calls = <<>> /\ passed = 0
      BY <2>1, <2>3 DEF ScatterInv
    <3>2. DOMAIN calls = {}
      BY <3>1
    <3> HIDE DEF passed, calls
    <3>3. 1 .. passed = {}
      BY <3>1
    <3> QED BY <3>2, <3>3 DEF passed, calls
  <2>4. CASE pc[r] # "sizes"
    <3>1. Scatters(calls, n, l, 0, recvIndex[l])
      BY <2>1, <2>4 DEF ScatterInv
    <3>2. passed = recvIndex[l] /\ recvIndex[l] \in 0 .. Entries(n, l)
      <4>1. recvIndex[l] \in 0 .. Entries(n, l)
        BY <2>1, <2>2 DEF RequestInv, EndsInv, ReceiverInv
      <4>2. pc[r] = "user" => recvIndex[l] = Entries(n, l)
        BY <2>1, <2>2, NothingLeft DEF Idle
      <4> QED BY <2>4, <4>1, <4>2
    <3> HIDE DEF calls, passed
    <3>3. PICK p \in Nat : p = recvIndex[l] /\ p \in 0 .. Entries(n, l) /\ p = passed
      BY <2>2, <3>2
    <3>4. /\ DOMAIN calls = 1 .. Len(calls) /\ Len(calls) \in Nat
          /\ \A i \in 1 .. Len(calls) : calls[i].entry \in 1 .. p /\ calls[i].items = ItemsOf(n, l, calls[i].entry)
          /\ \A i \in 1 .. Len(calls) - 1 : calls[i].entry < calls[i + 1].entry
          /\ \A e \in 1 .. p : Size(n, l, e) > 0 => \E i \in 1 .. Len(calls) : calls[i].entry = e
      <4>1. 0 + 1 = 1
        OBVIOUS
      <4> QED BY <3>1, <3>3, <4>1 DEF Scatters
    <3>5. \A e \in 1 .. p : e \in 1 .. Entries(n, l) /\ (Size(n, l, e) > 0 <=> ItemsOf(n, l, e) # <<>>)
      <4> SUFFICES ASSUME NEW e \in 1 .. p
                   PROVE  e \in 1 .. Entries(n, l) /\ (Size(n, l, e) > 0 <=> ItemsOf(n, l, e) # <<>>)
        OBVIOUS
      <4>1. e \in 1 .. Entries(n, l)
        BY <2>2, <3>3
      <4>2. PICK m \in Nat : m = Size(n, l, e)
        BY <2>1, <2>2, <4>1, CallFacts, SizesAreNat
      <4>3. ItemsOf(n, l, e) \in Seq(Datum) /\ Len(ItemsOf(n, l, e)) = m
        BY <2>1, <2>2, <4>1, <4>2, ItemsOfFacts
      <4>4. m > 0 <=> ItemsOf(n, l, e) # <<>>
        BY <4>2, <4>3
      <4> QED BY <4>1, <4>2, <4>4
    <3>6. ASSUME NEW i \in DOMAIN calls, i > 1 PROVE calls[i - 1].entry < calls[i].entry
      <4>1. i - 1 \in 1 .. Len(calls) - 1 /\ i - 1 + 1 = i
        BY <3>4, <3>6
      <4> QED BY <3>4, <4>1
    <3>7. {e \in 1 .. p : Size(n, l, e) > 0} =
            {e \in 1 .. Entries(n, l) : \E i \in DOMAIN calls : calls[i].entry = e /\ calls[i].items # <<>>}
      <4> DEFINE S == {e \in 1 .. p : Size(n, l, e) > 0}
                 T == {e \in 1 .. Entries(n, l) :
                         \E i \in DOMAIN calls : calls[i].entry = e /\ calls[i].items # <<>>}
      <4>1. ASSUME NEW e \in S PROVE e \in T
        <5>1. e \in 1 .. p /\ Size(n, l, e) > 0
          OBVIOUS
        <5>2. PICK i \in 1 .. Len(calls) : calls[i].entry = e
          BY <3>4, <5>1
        <5>3. calls[i].items = ItemsOf(n, l, e) /\ ItemsOf(n, l, e) # <<>> /\ e \in 1 .. Entries(n, l)
          BY <3>4, <3>5, <5>1, <5>2
        <5> QED BY <3>4, <5>2, <5>3
      <4>2. ASSUME NEW e \in T PROVE e \in S
        <5>1. PICK i \in DOMAIN calls : calls[i].entry = e /\ calls[i].items # <<>>
          OBVIOUS
        <5>2. e \in 1 .. p /\ ItemsOf(n, l, e) # <<>>
          BY <3>4, <5>1
        <5>3. Size(n, l, e) > 0
          BY <3>5, <5>2
        <5> QED BY <5>2, <5>3
      <4> HIDE DEF S, T
      <4>3. S = T
        <5>1. S \subseteq T /\ T \subseteq S
          BY <4>1, <4>2
        <5> QED BY <5>1
      <4> QED BY <4>3 DEF S, T
    <3>8. \A i \in DOMAIN calls : calls[i].items = ItemsOf(n, l, calls[i].entry)
      BY <3>4
    <3> QED BY <3>3, <3>6, <3>7, <3>8 DEF calls, passed
  <2> QED BY <2>3, <2>4
<1> QED BY <1>1, DeliveryRight, PTL

-----------------------------------------------------------------------------
\* The abstract exchange: the items of a link that were sent, have arrived and were
\* scattered, and what a step does to them.

Upto(n, l, i) == SizeSum(Call(n).size[l], 0, i)
SentItems(n, loop, index, req, l) ==
  IF n = 0 \/ loop = "sizes" \/ ~Linked(l) THEN 0
  ELSE Upto(n, l, index) - (IF req.state = "posted" THEN Len(req.data) ELSE 0)
ScatteredItems(loop, calls) == IF loop = "sizes" THEN 0 ELSE ItemsIn(calls)
ArrivedItems(loop, calls, req) ==
  IF loop = "sizes" THEN 0
  ELSE ScatteredItems(loop, calls) + (IF req.state = "done" THEN Len(req.data) ELSE 0)

\* The items, in terms of the ends of the link.
LEMMA ItemsNow ==
  ASSUME scenario \in Scenarios, NEW l \in Links
  PROVE  /\ ItemsSent(l) = SentItems(call[l[1]], pc[l[1]], sendIndex[l], sendReq[l], l)
         /\ ItemsScattered(l) = ScatteredItems(pc[l[2]], scattered[l])
         /\ ItemsArrived(l) = ArrivedItems(pc[l[2]], scattered[l], recvReq[l])
<1>1. l[1] \in Rank /\ (l \in Out(l[1]) <=> Linked(l))
  BY LinkEnds, LinksOf
<1>2. ItemsSent(l) = SentItems(call[l[1]], pc[l[1]], sendIndex[l], sendReq[l], l)
  BY <1>1 DEF ItemsSent, SentItems, Upto
<1>3. ItemsScattered(l) = ScatteredItems(pc[l[2]], scattered[l])
  BY DEF ItemsScattered, ScatteredItems, ItemsIn, Lengths
<1>4. ItemsArrived(l) = ArrivedItems(pc[l[2]], scattered[l], recvReq[l])
  BY <1>3 DEF ItemsArrived, ArrivedItems
<1> QED BY <1>2, <1>3, <1>4

\* The same in the next state.
LEMMA ItemsNext ==
  ASSUME scenario \in Scenarios, scenario' = scenario, NEW l \in Links
  PROVE  /\ ItemsSent(l)' = SentItems(call'[l[1]], pc'[l[1]], sendIndex'[l], sendReq'[l], l)
         /\ ItemsScattered(l)' = ScatteredItems(pc'[l[2]], scattered'[l])
         /\ ItemsArrived(l)' = ArrivedItems(pc'[l[2]], scattered'[l], recvReq'[l])
<1>1. l[1] \in Rank /\ (l \in Out(l[1])' <=> Linked(l)) /\ \A n : Call(n)' = Call(n)
  BY LinkEnds, LinksOf, SameScenario
<1>2. ItemsSent(l)' = SentItems(call'[l[1]], pc'[l[1]], sendIndex'[l], sendReq'[l], l)
  BY <1>1 DEF ItemsSent, SentItems, Upto
<1>3. ItemsScattered(l)' = ScatteredItems(pc'[l[2]], scattered'[l])
  BY DEF ItemsScattered, ScatteredItems, ItemsIn, Lengths
<1>4. ItemsArrived(l)' = ArrivedItems(pc'[l[2]], scattered'[l], recvReq'[l])
  BY <1>3 DEF ItemsArrived, ArrivedItems
<1> QED BY <1>2, <1>3, <1>4

\* The items of the first entries, and of those behind them.
LEMMA UptoFacts ==
  ASSUME scenario \in Scenarios, NEW n \in 1 .. NumCalls, NEW l \in Links,
         NEW i \in 0 .. Entries(n, l), NEW j \in i .. Entries(n, l)
  PROVE  /\ Upto(n, l, i) \in Nat /\ Upto(n, l, j) \in Nat /\ SizeSum(Call(n).size[l], i, j) \in Nat
         /\ Upto(n, l, 0) = 0
         /\ Upto(n, l, j) = Upto(n, l, i) + SizeSum(Call(n).size[l], i, j)
         /\ Upto(n, l, j) <= Upto(n, l, Entries(n, l))
         /\ Upto(n, l, Entries(n, l)) = Amount[n][l] /\ Amount[n][l] \in Nat
<1> DEFINE w == Call(n).size[l]
<1>1. w \in Seq(Nat) /\ Len(w) = Entries(n, l) /\ Entries(n, l) \in Nat
  BY CallFacts, SizesAreNat
<1>2. Amount[n][l] = Upto(n, l, Entries(n, l))
  BY DEF Amount, Upto
<1>3. \A k : Upto(n, l, k) = SizeSum(w, 0, k)
  BY DEF Upto
<1> HIDE DEF w
<1>4. PICK z \in Nat, m \in Nat : z = 0 /\ m = Entries(n, l)
  BY <1>1
<1>5. z \in 0 .. Len(w) /\ i \in z .. Len(w) /\ j \in i .. Len(w) /\ i \in 0 .. Len(w) /\ j \in z .. Len(w)
      /\ m \in j .. Len(w) /\ m \in z .. Len(w)
  BY <1>1, <1>4
<1>6. /\ SizeSum(w, z, i) \in Nat /\ SizeSum(w, z, z) = 0
      /\ SizeSum(w, z, j) = SizeSum(w, z, i) + SizeSum(w, i, j)
  BY <1>1, <1>5, SizeSums
<1>7. /\ SizeSum(w, z, j) \in Nat /\ SizeSum(w, z, j) <= SizeSum(w, z, m)
  BY <1>1, <1>5, SizeSums
<1>8. SizeSum(w, z, m) \in Nat
  BY <1>1, <1>4, <1>5, SizeSums
<1>9. SizeSum(w, i, j) \in Nat
  BY <1>1, <1>5, SizeSums
<1> QED BY <1>2, <1>3, <1>4, <1>6, <1>7, <1>8, <1>9 DEF w

\* The items of the message that starts at an entry.
LEMMA MessageItems ==
  ASSUME scenario \in Scenarios, ItemsInEveryCall, NEW n \in 1 .. NumCalls, NEW l \in Links,
         NEW loop \in {"data", "fixed"}, NEW i \in 0 .. Entries(n, l)
  PROVE  LET to == PackEntries(loop, n, l, i)
             message == Gathered(loop, n, l, i, to)
         IN /\ to \in i .. Entries(n, l) /\ Len(message) \in Nat
            /\ Upto(n, l, i) \in Nat /\ Upto(n, l, to) \in Nat
            /\ Upto(n, l, to) = Upto(n, l, i) + Len(message)
            /\ Upto(n, l, to) <= Amount[n][l]
            /\ i < Entries(n, l) /\ ItemsLeft(HandleSize(loop, n, l), i) => Len(message) > 0
            /\ SetupSend(loop, n, l, i) = NullRequest => Len(message) = 0
            /\ SetupSend(loop, n, l, i) # NullRequest => SetupSend(loop, n, l, i) = Posted(message)
<1> DEFINE to == PackEntries(loop, n, l, i)
           message == Gathered(loop, n, l, i, to)
<1>1. to \in i .. Entries(n, l) /\ message \in Seq(Datum)
      /\ (i < Entries(n, l) /\ ItemsLeft(HandleSize(loop, n, l), i) => Len(message) > 0)
  BY SetupSendRight
<1>2. Len(message) = SizeSum(HandleSize(loop, n, l), i, to)
  <2> HIDE DEF to
  <2> QED BY <1>1, MessageFacts
<1>3. HandleSize(loop, n, l) = Call(n).size[l]
  BY DEF HandleSize
<1>4. /\ Upto(n, l, i) \in Nat /\ Upto(n, l, to) \in Nat /\ SizeSum(Call(n).size[l], i, to) \in Nat
      /\ Upto(n, l, to) = Upto(n, l, i) + SizeSum(Call(n).size[l], i, to)
      /\ Upto(n, l, to) <= Amount[n][l]
  <2> HIDE DEF to
  <2> QED BY <1>1, UptoFacts
<1>5. SetupSend(loop, n, l, i) = IF message = <<>> THEN NullRequest ELSE Posted(message)
  BY DEF SetupSend
<1>6. \A d : Posted(d) # NullRequest
  BY RequestStates
<1> HIDE DEF message, to
<1>7. Len(message) \in Nat /\ (message = <<>> => Len(message) = 0)
  BY <1>1
<1> QED BY <1>1, <1>2, <1>3, <1>4, <1>5, <1>6, <1>7 DEF message, to

-----------------------------------------------------------------------------
\* The steps of the abstract exchange, in terms of the calls, loops and items.

\* The amounts do not change.
LEMMA AmountSame ==
  ASSUME scenario' = scenario
  PROVE  Amount' = Amount
<1>1. \A n, l : SizeSum(Call(n).size[l], 0, Entries(n, l))' = SizeSum(Call(n).size[l], 0, Entries(n, l))
  BY SameScenario
<1> QED BY <1>1 DEF Amount

\* A step that changes none of the items nor the calls is none of the exchange.
LEMMA ExchangeStutters ==
  ASSUME scenario' = scenario,
         \A r \in Rank : /\ Neighbours(r) # {} => call'[r] = call[r]
                         /\ pc'[r] = "user" <=> pc[r] = "user",
         \A l \in Links : /\ ItemsSent(l)' = ItemsSent(l) /\ ItemsArrived(l)' = ItemsArrived(l)
                          /\ ItemsScattered(l)' = ItemsScattered(l)
  PROVE  UNCHANGED Exchange!vars
<1>1. Amount' = Amount
  BY AmountSame
<1>2. [r \in Rank |-> IF Neighbours(r) = {} THEN 0 ELSE call[r]]' = [r \in Rank |-> IF Neighbours(r) = {} THEN 0 ELSE call[r]]
  BY SameScenario
<1>3. [r \in Rank |-> pc[r] # "user"]' = [r \in Rank |-> pc[r] # "user"]
  OBVIOUS
<1>4. /\ [l \in Links |-> ItemsSent(l)]' = [l \in Links |-> ItemsSent(l)]
      /\ [l \in Links |-> ItemsArrived(l)]' = [l \in Links |-> ItemsArrived(l)]
      /\ [l \in Links |-> ItemsScattered(l)]' = [l \in Links |-> ItemsScattered(l)]
  OBVIOUS
<1> QED BY <1>1, <1>2, <1>3, <1>4 DEF Exchange!vars

\* A rank enters a call.
LEMMA ExchangeEnters ==
  ASSUME NEW r \in Rank, scenario' = scenario, Neighbours(r) # {}, call[r] < NumCalls,
         pc[r] = "user", pc'[r] # "user", call'[r] = call[r] + 1,
         \A q \in Rank : q # r => call'[q] = call[q] /\ pc'[q] = pc[q],
         \A l \in Links : /\ ItemsSent(l)' = IF l[1] = r THEN 0 ELSE ItemsSent(l)
                          /\ ItemsArrived(l)' = IF l[2] = r THEN 0 ELSE ItemsArrived(l)
                          /\ ItemsScattered(l)' = IF l[2] = r THEN 0 ELSE ItemsScattered(l)
  PROVE  Exchange!Enter(r)
<1> DEFINE xcall == [q \in Rank |-> IF Neighbours(q) = {} THEN 0 ELSE call[q]]
           xinside == [q \in Rank |-> pc[q] # "user"]
           xsent == [l \in Links |-> ItemsSent(l)]
           xarrived == [l \in Links |-> ItemsArrived(l)]
           xscattered == [l \in Links |-> ItemsScattered(l)]
<1>1. Amount' = Amount
  BY AmountSame
<1>2. xcall' = [xcall EXCEPT ![r] = @ + 1]
  BY SameScenario
<1>3. xinside' = [xinside EXCEPT ![r] = TRUE]
  OBVIOUS
<1>4. /\ xsent' = [l \in Links |-> IF l[1] = r THEN 0 ELSE xsent[l]]
      /\ xarrived' = [l \in Links |-> IF l[2] = r THEN 0 ELSE xarrived[l]]
      /\ xscattered' = [l \in Links |-> IF l[2] = r THEN 0 ELSE xscattered[l]]
  OBVIOUS
<1>5. ~xinside[r] /\ xcall[r] < NumCalls
  OBVIOUS
<1>6. Exchange!Links = Links
  BY DEF Links, Exchange!Links
<1> QED BY <1>1, <1>2, <1>3, <1>4, <1>5, <1>6 DEF Exchange!Enter

\* Items of a link arrive.
LEMMA ExchangeTransfers ==
  ASSUME NEW l \in Links, scenario' = scenario, call' = call, pc' = pc,
         pc[l[1]] # "user", pc[l[2]] # "user", call[l[1]] = call[l[2]],
         Neighbours(l[1]) # {}, Neighbours(l[2]) # {}, call[l[1]] # 0,
         NEW n, n \in ItemsSent(l) + 1 .. Amount[call[l[1]]][l], ItemsSent(l)' = n, ItemsArrived(l)' = n,
         \A k \in Links : /\ k # l => ItemsSent(k)' = ItemsSent(k) /\ ItemsArrived(k)' = ItemsArrived(k)
                          /\ ItemsScattered(k)' = ItemsScattered(k)
  PROVE  Exchange!Transfer(l)
<1> DEFINE xcall == [q \in Rank |-> IF Neighbours(q) = {} THEN 0 ELSE call[q]]
           xinside == [q \in Rank |-> pc[q] # "user"]
           xsent == [k \in Links |-> ItemsSent(k)]
           xarrived == [k \in Links |-> ItemsArrived(k)]
           xscattered == [k \in Links |-> ItemsScattered(k)]
<1>0. l[1] \in Rank /\ l[2] \in Rank
  BY LinkEnds
<1>1. Amount' = Amount
  BY AmountSame
<1>2. xcall' = xcall /\ xinside' = xinside
  BY SameScenario
<1>3. xscattered' = xscattered
  OBVIOUS
<1>4. xsent' = [xsent EXCEPT ![l] = n] /\ xarrived' = [xarrived EXCEPT ![l] = n]
  OBVIOUS
<1>5. /\ xinside[l[1]] /\ xinside[l[2]] /\ xcall[l[1]] = xcall[l[2]]
      /\ xcall[l[1]] = call[l[1]] /\ xsent[l] = ItemsSent(l)
  BY <1>0
<1>6. Exchange!Expected(xcall[l[1]], l) = Amount[call[l[1]]][l]
  BY <1>5 DEF Exchange!Expected
<1>7. n \in xsent[l] + 1 .. Exchange!Expected(xcall[l[1]], l)
  BY <1>5, <1>6
<1> QED BY <1>1, <1>2, <1>3, <1>4, <1>5, <1>7 DEF Exchange!Transfer

\* Items that have arrived are scattered.
LEMMA ExchangeScatters ==
  ASSUME NEW l \in Links, scenario' = scenario, call' = call, pc' = pc, pc[l[2]] # "user",
         NEW n, n \in ItemsScattered(l) + 1 .. ItemsArrived(l), ItemsScattered(l)' = n,
         \A k \in Links : /\ k # l => ItemsScattered(k)' = ItemsScattered(k)
                          /\ ItemsSent(k)' = ItemsSent(k) /\ ItemsArrived(k)' = ItemsArrived(k)
  PROVE  Exchange!Scatter(l)
<1> DEFINE xcall == [q \in Rank |-> IF Neighbours(q) = {} THEN 0 ELSE call[q]]
           xinside == [q \in Rank |-> pc[q] # "user"]
           xsent == [k \in Links |-> ItemsSent(k)]
           xarrived == [k \in Links |-> ItemsArrived(k)]
           xscattered == [k \in Links |-> ItemsScattered(k)]
<1>0. l[2] \in Rank
  BY LinkEnds
<1>1. Amount' = Amount
  BY AmountSame
<1>2. xcall' = xcall /\ xinside' = xinside
  BY SameScenario
<1>3. xsent' = xsent /\ xarrived' = xarrived
  OBVIOUS
<1>4. xscattered' = [xscattered EXCEPT ![l] = n]
  OBVIOUS
<1>5. xinside[l[2]] /\ n \in xscattered[l] + 1 .. xarrived[l]
  BY <1>0
<1> QED BY <1>1, <1>2, <1>3, <1>4, <1>5 DEF Exchange!Scatter

\* A rank leaves a call.
LEMMA ExchangeReturns ==
  ASSUME NEW r \in Rank, scenario' = scenario, call' = call, pc[r] # "user", pc'[r] = "user", call[r] # 0,
         \A q \in Rank : q # r => pc'[q] = pc[q],
         \A l \in Links : /\ l[1] = r => ItemsSent(l) = IF Neighbours(r) = {} THEN 0 ELSE Amount[call[r]][l]
                          /\ l[2] = r => ItemsScattered(l) = IF Neighbours(r) = {} THEN 0 ELSE Amount[call[r]][l]
                          /\ ItemsSent(l)' = ItemsSent(l) /\ ItemsArrived(l)' = ItemsArrived(l)
                          /\ ItemsScattered(l)' = ItemsScattered(l)
  PROVE  Exchange!Return(r)
<1> DEFINE xcall == [q \in Rank |-> IF Neighbours(q) = {} THEN 0 ELSE call[q]]
           xinside == [q \in Rank |-> pc[q] # "user"]
           xsent == [k \in Links |-> ItemsSent(k)]
           xarrived == [k \in Links |-> ItemsArrived(k)]
           xscattered == [k \in Links |-> ItemsScattered(k)]
<1>1. Amount' = Amount
  BY AmountSame
<1>2. xcall' = xcall
  BY SameScenario
<1>3. xinside' = [xinside EXCEPT ![r] = FALSE] /\ xinside[r]
  OBVIOUS
<1>4. xsent' = xsent /\ xarrived' = xarrived /\ xscattered' = xscattered
  OBVIOUS
<1>5. \A l \in Links : Exchange!Expected(xcall[r], l) = IF Neighbours(r) = {} THEN 0 ELSE Amount[call[r]][l]
  BY DEF Exchange!Expected
<1>6. ASSUME NEW q \in Rank
      PROVE  /\ xsent[<<r, q>>] = Exchange!Expected(xcall[r], <<r, q>>)
             /\ xscattered[<<q, r>>] = Exchange!Expected(xcall[r], <<q, r>>)
  <2>1. <<r, q>> \in Links /\ <<q, r>> \in Links /\ <<r, q>>[1] = r /\ <<q, r>>[2] = r
    BY DEF Links
  <2> HIDE DEF xcall
  <2> QED BY <1>5, <2>1
<1> QED BY <1>1, <1>2, <1>3, <1>4, <1>6 DEF Exchange!Return

-----------------------------------------------------------------------------
\* Every step is one of the abstract exchange, or none.

\* A loop begins: no item has been sent in it, and none has arrived.
LEMMA BeginItems ==
  ASSUME DeliveryInv, ItemsInEveryCall, NEW r \in Rank, NEW l \in Links,
         CommunicateFixedSize(r) \/ CommunicateSizes(r) \/ CommunicateData(r)
  PROVE  /\ ItemsSent(l)' = IF l[1] = r THEN 0 ELSE ItemsSent(l)
         /\ ItemsArrived(l)' = IF l[2] = r THEN 0 ELSE ItemsArrived(l)
         /\ ItemsScattered(l)' = IF l[2] = r THEN 0 ELSE ItemsScattered(l)
<1>0. /\ RequestInv /\ ScatterInv(l) /\ scenario \in Scenarios /\ scenario' = scenario
      /\ l[1] \in Rank /\ l[2] \in Rank /\ DOMAIN scattered = Links
  BY LinkEnds DEF CommunicateFixedSize, CommunicateSizes, CommunicateData, DeliveryInv, RequestInv, ControlInv,
                  MemberInv
<1>1. PICK n, loop : Begins(r, n, loop)
  BY <1>0, FixedSizeBegins, SizesBegin, DataBegins
<1>2. n \in 1 .. NumCalls /\ loop \in {"sizes", "data", "fixed"}
  BY <1>1 DEF Begins
<1>3. /\ call'[r] = n /\ pc'[r] = loop /\ \A q \in Rank : q # r => call'[q] = call[q] /\ pc'[q] = pc[q]
  <2> HIDE DEF Begins
  <2> QED BY <1>0, <1>1, <1>2, BeginFacts
<1>4. ASSUME l[1] # r PROVE ItemsSent(l)' = ItemsSent(l)
  <2>1. sendIndex'[l] = sendIndex[l] /\ sendReq'[l] = sendReq[l] /\ call'[l[1]] = call[l[1]] /\ pc'[l[1]] = pc[l[1]]
    BY <1>0, <1>1, <1>3, <1>4 DEF Begins
  <2> QED BY <1>0, <2>1, ItemsNow, ItemsNext
<1>5. ASSUME l[1] = r PROVE ItemsSent(l)' = 0
  <2>1. ItemsSent(l)' = SentItems(n, loop, sendIndex'[l], sendReq'[l], l)
    BY <1>0, <1>3, <1>5, ItemsNext
  <2>2. CASE loop = "sizes"
    BY <2>1, <2>2 DEF SentItems
  <2>3. CASE loop \in {"data", "fixed"}
    <3>1. PICK z \in {0} : z = 0
      OBVIOUS
    <3>2. Entries(n, l) \in Nat
      BY <1>0, <1>2, CallFacts
    <3>3. z \in 0 .. Entries(n, l) /\ z \in z .. Entries(n, l)
      BY <3>1, <3>2
    <3>4. sendIndex'[l] = PackEntries(loop, n, l, z) /\ sendReq'[l] = SetupSend(loop, n, l, z)
      BY <1>1, <1>5, <3>1 DEF Begins
    <3>5. Upto(n, l, 0) = 0
      BY <1>0, <1>2, <3>3, UptoFacts
    <3> DEFINE to == PackEntries(loop, n, l, z)
               message == Gathered(loop, n, l, z, to)
    <3>6. /\ Len(message) \in Nat /\ Upto(n, l, to) = Upto(n, l, z) + Len(message)
          /\ SetupSend(loop, n, l, z) = NullRequest => Len(message) = 0
          /\ SetupSend(loop, n, l, z) # NullRequest => SetupSend(loop, n, l, z) = Posted(message)
      BY <1>0, <1>2, <2>3, <3>3, MessageItems
    <3> HIDE DEF to, message
    <3>7. Upto(n, l, to) = Len(message)
      BY <3>1, <3>5, <3>6
    <3>8. sendIndex'[l] = to
      BY <3>4 DEF to
    <3>9. Upto(n, l, to) - (IF sendReq'[l].state = "posted" THEN Len(sendReq'[l].data) ELSE 0) = 0
      <4>1. CASE sendReq'[l] = NullRequest
        BY <3>4, <3>6, <3>7, <4>1, RequestStates
      <4>2. CASE sendReq'[l] # NullRequest
        BY <3>4, <3>6, <3>7, <4>2, RequestStates
      <4> QED BY <4>1, <4>2
    <3> QED BY <2>1, <3>8, <3>9 DEF SentItems
  <2> QED BY <1>2, <2>2, <2>3
<1>6. ASSUME l[2] # r PROVE ItemsArrived(l)' = ItemsArrived(l) /\ ItemsScattered(l)' = ItemsScattered(l)
  <2>1. recvReq'[l] = recvReq[l] /\ pc'[l[2]] = pc[l[2]]
    BY <1>0, <1>1, <1>3, <1>6 DEF Begins
  <2>2. l \notin In(r)
    BY <1>0, <1>6, LinksOf
  <2>3. scattered'[l] = scattered[l]
    BY <2>2 DEF CommunicateFixedSize, CommunicateSizes, CommunicateData
  <2> QED BY <1>0, <2>1, <2>3, ItemsNow, ItemsNext
<1>7. ASSUME l[2] = r PROVE ItemsArrived(l)' = 0 /\ ItemsScattered(l)' = 0
  <2>1. recvReq'[l].state # "done"
    <3>1. recvReq'[l] \in {Posted(<<>>), NullRequest}
      BY <1>1, <1>7 DEF Begins
    <3> QED BY <3>1, RequestStates
  <2>2. scattered'[l] = <<>>
    <3>1. l \in In(r) <=> Linked(l)
      BY <1>0, <1>7, LinksOf
    <3>2. CASE CommunicateData(r)
      BY <1>0, <1>7, <3>2 DEF CommunicateData, ScatterInv
    <3>3. CASE CommunicateFixedSize(r) \/ CommunicateSizes(r)
      <4>1. scattered'[l] = IF Linked(l) THEN <<>> ELSE scattered[l]
        BY <3>1, <3>3 DEF CommunicateFixedSize, CommunicateSizes
      <4> QED BY <1>0, <4>1 DEF ScatterInv
    <3> QED BY <3>2, <3>3
  <2>3. ItemsIn(<<>>) = 0
    <3>1. <<>> \in Seq(Scattering) /\ Len(<<>>) = 0
      OBVIOUS
    <3>2. Lengths(<<>>) \in Seq(Nat)
      BY <3>1, LengthsRight
    <3> QED BY <3>1, <3>2, SumsSteps DEF ItemsIn
  <2>4. ScatteredItems(pc'[l[2]], scattered'[l]) = 0
    BY <2>2, <2>3 DEF ScatteredItems
  <2>5. ArrivedItems(pc'[l[2]], scattered'[l], recvReq'[l]) = 0
    BY <2>1, <2>4 DEF ArrivedItems
  <2> QED BY <1>0, <2>4, <2>5, ItemsNext
<1> QED BY <1>4, <1>5, <1>6, <1>7

\* The first loop of a call enters it, the second one changes nothing.
LEMMA BeginSimulates ==
  ASSUME DeliveryInv, ItemsInEveryCall, NEW r \in Rank,
         CommunicateFixedSize(r) \/ CommunicateSizes(r) \/ CommunicateData(r)
  PROVE  [Exchange!Next]_(Exchange!vars)
<1>0. /\ RequestInv /\ scenario \in Scenarios /\ scenario' = scenario
  BY DEF CommunicateFixedSize, CommunicateSizes, CommunicateData, DeliveryInv, RequestInv, ControlInv
<1>1. CASE CommunicateFixedSize(r) \/ CommunicateSizes(r)
  <2>1. /\ pc[r] = "user" /\ call[r] < NumCalls /\ Neighbours(r) # {}
        /\ call' = [call EXCEPT ![r] = call[r] + 1]
        /\ \E loop \in {"fixed", "sizes"} : pc' = [pc EXCEPT ![r] = loop]
    BY <1>1 DEF CommunicateFixedSize, CommunicateSizes, StartLoop
  <2>2. /\ call'[r] = call[r] + 1 /\ pc'[r] # "user"
        /\ \A q \in Rank : q # r => call'[q] = call[q] /\ pc'[q] = pc[q]
    BY <1>0, <2>1 DEF RequestInv, ControlInv
  <2>3. \A l \in Links : /\ ItemsSent(l)' = IF l[1] = r THEN 0 ELSE ItemsSent(l)
                         /\ ItemsArrived(l)' = IF l[2] = r THEN 0 ELSE ItemsArrived(l)
                         /\ ItemsScattered(l)' = IF l[2] = r THEN 0 ELSE ItemsScattered(l)
    BY <1>1, BeginItems
  <2>4. Exchange!Enter(r)
    BY <1>0, <2>1, <2>2, <2>3, ExchangeEnters
  <2> QED BY <2>4 DEF Exchange!Next
<1>2. CASE CommunicateData(r)
  <2>1. pc[r] = "sizes" /\ call' = call /\ pc' = [pc EXCEPT ![r] = "data"]
    BY <1>2 DEF CommunicateData, StartLoop
  <2>2. \A q \in Rank : pc'[q] = "user" <=> pc[q] = "user"
    BY <1>0, <2>1 DEF RequestInv, ControlInv
  <2>3. ASSUME NEW l \in Links
        PROVE  /\ ItemsSent(l)' = ItemsSent(l) /\ ItemsArrived(l)' = ItemsArrived(l)
               /\ ItemsScattered(l)' = ItemsScattered(l)
    <3>1. /\ l[1] = r => ItemsSent(l) = 0
          /\ l[2] = r => ItemsArrived(l) = 0 /\ ItemsScattered(l) = 0
      BY <2>1 DEF ItemsSent, ItemsArrived, ItemsScattered
    <3>2. /\ ItemsSent(l)' = IF l[1] = r THEN 0 ELSE ItemsSent(l)
          /\ ItemsArrived(l)' = IF l[2] = r THEN 0 ELSE ItemsArrived(l)
          /\ ItemsScattered(l)' = IF l[2] = r THEN 0 ELSE ItemsScattered(l)
      BY <1>2, BeginItems
    <3> QED BY <3>1, <3>2
  <2> QED BY <1>0, <2>1, <2>2, <2>3, ExchangeStutters
<1> QED BY <1>1, <1>2

\* The sender goes on with the next message: what has arrived is what was packed before.
LEMMA SendCompletedSimulates ==
  ASSUME DeliveryInv, ItemsInEveryCall, NEW l \in Links, SendCompleted(l)
  PROVE  [Exchange!Next]_(Exchange!vars)
<1> DEFINE s == l[1]
           n == call[s]
           i == sendIndex[l]
<1>0. /\ RequestInv /\ scenario \in Scenarios /\ scenario' = scenario /\ call' = call /\ pc' = pc
      /\ recvReq' = recvReq /\ scattered' = scattered /\ pc[s] # "user" /\ sendReq[l].state = "done"
      /\ sendIndex \in [Links -> Nat] /\ sendReq \in [Links -> Request] /\ SenderInv(l)
  BY DEF SendCompleted, DeliveryInv, RequestInv, ControlInv, MemberInv, EndsInv
<1>1. \A k \in Links : /\ ItemsArrived(k)' = ItemsArrived(k) /\ ItemsScattered(k)' = ItemsScattered(k)
                       /\ k # l => ItemsSent(k)' = ItemsSent(k)
  <2>1. \A k \in Links : k # l => sendIndex'[k] = sendIndex[k] /\ sendReq'[k] = sendReq[k]
    BY <1>0, SendCompletedKeepsEnds
  <2> QED BY <1>0, <2>1, ItemsNow, ItemsNext
<1>2. n \in 1 .. NumCalls /\ Total(n, l) = Entries(n, l) /\ i \in 0 .. Entries(n, l)
      /\ pc[s] \in {"sizes", "data", "fixed"}
  <2>1. n \in 1 .. NumCalls /\ Total(n, l) = Entries(n, l) /\ pc[s] \in {"sizes", "data", "fixed"}
    BY <1>0, EndsFacts
  <2> QED BY <1>0, <2>1 DEF SenderInv
<1>3. ItemsSent(l)' = ItemsSent(l)
  <2>1. ItemsSent(l) = SentItems(n, pc[s], i, sendReq[l], l)
    BY <1>0, ItemsNow
  <2>2. ItemsSent(l)' = SentItems(n, pc[s], sendIndex'[l], sendReq'[l], l)
    BY <1>0, ItemsNext
  <2>3. CASE pc[s] = "sizes"
    BY <2>1, <2>2, <2>3 DEF SentItems
  <2>4. CASE pc[s] \in {"data", "fixed"} /\ i = Entries(n, l)
    <3>1. sendIndex'[l] = i /\ sendReq'[l] = NullRequest
      BY <1>0, <2>4 DEF SendCompleted
    <3> QED BY <1>0, <2>1, <2>2, <3>1, RequestStates DEF SentItems
  <2>5. CASE pc[s] \in {"data", "fixed"} /\ i # Entries(n, l)
    <3> DEFINE to == PackEntries(pc[s], n, l, i)
               message == Gathered(pc[s], n, l, i, to)
    <3>1. sendIndex'[l] = to /\ sendReq'[l] = SetupSend(pc[s], n, l, i)
      BY <1>0, <2>5 DEF SendCompleted
    <3>2. /\ Len(message) \in Nat /\ Upto(n, l, i) \in Nat /\ Upto(n, l, to) = Upto(n, l, i) + Len(message)
          /\ SetupSend(pc[s], n, l, i) = NullRequest => Len(message) = 0
          /\ SetupSend(pc[s], n, l, i) # NullRequest => SetupSend(pc[s], n, l, i) = Posted(message)
      BY <1>0, <1>2, <2>5, MessageItems
    <3> HIDE DEF to, message
    <3>3. Upto(n, l, to) - (IF sendReq'[l].state = "posted" THEN Len(sendReq'[l].data) ELSE 0) = Upto(n, l, i)
      <4>1. CASE sendReq'[l] = NullRequest
        BY <3>1, <3>2, <4>1, RequestStates
      <4>2. CASE sendReq'[l] # NullRequest
        BY <3>1, <3>2, <4>2, RequestStates
      <4> QED BY <4>1, <4>2
    <3>4. Upto(n, l, i) - 0 = Upto(n, l, i)
      BY <3>2
    <3> QED BY <1>0, <2>1, <2>2, <3>1, <3>3, <3>4 DEF SentItems
  <2> QED BY <1>2, <2>3, <2>4, <2>5
<1> QED BY <1>0, <1>1, <1>3, ExchangeStutters

\* A message is unpacked: its items are scattered.
LEMMA ReceiveCompletedSimulates ==
  ASSUME DeliveryInv, ItemsInEveryCall, NEW l \in Links, ReceiveCompleted(l)
  PROVE  [Exchange!Next]_(Exchange!vars)
<1> DEFINE r == l[2]
           n == call[r]
           i == recvIndex[l]
           to == End(r, l, i)
           message == Message(r, l, i)
<1>0. /\ RequestInv /\ ScatterInv(l) /\ ScatterInv(l)' /\ scenario \in Scenarios /\ scenario' = scenario
      /\ call' = call /\ pc' = pc /\ sendIndex' = sendIndex /\ sendReq' = sendReq
      /\ recvReq[l].state = "done" /\ pc[r] # "user" /\ DOMAIN scattered = Links /\ ReceiverInv(l)
      /\ scattered' = [scattered EXCEPT ![l] = @ \o Unpack(pc[r], n, l, recvReq[l].data).scattered]
  <2>1. RequestInv /\ ScatterInv(l) /\ ScatterInv(l)'
    BY ScatterReceived DEF DeliveryInv
  <2> QED BY <2>1 DEF ReceiveCompleted, RequestInv, ControlInv, MemberInv, EndsInv
<1>1. \A k \in Links : /\ ItemsSent(k)' = ItemsSent(k)
                       /\ k # l => ItemsArrived(k)' = ItemsArrived(k) /\ ItemsScattered(k)' = ItemsScattered(k)
  <2>1. \A k \in Links : k # l => recvReq'[k] = recvReq[k] /\ scattered'[k] = scattered[k]
    BY <1>0, ReceiveCompletedKeepsEnds
  <2> QED BY <1>0, <2>1, ItemsNow, ItemsNext
<1>2. n \in 1 .. NumCalls /\ pc[r] \in {"sizes", "data", "fixed"} /\ Linked(l) /\ i \in 0 .. Entries(n, l)
      /\ n > 0
  <2>1. n \in 1 .. NumCalls /\ pc[r] \in {"sizes", "data", "fixed"}
    BY <1>0, EndsFacts
  <2>2. Linked(l) /\ i \in 0 .. Entries(n, l)
    BY <1>0, UnpackRight
  <2> QED BY <2>1, <2>2, CommunicatorAssumption
<1>3. CASE pc[r] = "sizes"
  <2>1. ItemsArrived(l)' = ItemsArrived(l) /\ ItemsScattered(l)' = ItemsScattered(l)
    BY <1>0, <1>3, ItemsNow, ItemsNext DEF ArrivedItems, ScatteredItems
  <2> QED BY <1>0, <1>1, <2>1, ExchangeStutters
<1>4. CASE pc[r] \in {"data", "fixed"}
  <2>1. recvReq[l].data = message
    BY <1>0, RequestStates DEF ReceiverInv
  <2>2. ItemsIn(scattered[l]) = Upto(n, l, i)
    BY <1>0, <1>2, <1>4 DEF ScatterInv, Scatters, Upto
  <2>3. recvIndex'[l] = to /\ recvReq'[l].state # "done"
    <3>1. recvIndex'[l] = to
      BY <1>0, ReceiveCompletedKeepsEnds
    <3>2. recvReq'[l] \in {NullRequest, Posted(<<>>)}
      BY <1>0 DEF ReceiveCompleted, SetupRecv, RequestInv, MemberInv
    <3> QED BY <3>1, <3>2, RequestStates
  <2>4. ItemsIn(scattered'[l]) = Upto(n, l, to)
    <3>1. Scatters(scattered'[l], n, l, 0, to)
      BY <1>0, <1>2, <1>4, <2>3, SameScatters, SameScenario DEF ScatterInv
    <3> QED BY <3>1 DEF Scatters, Upto
  <2>5. /\ Len(message) \in Nat /\ Upto(n, l, i) \in Nat /\ Upto(n, l, to) = Upto(n, l, i) + Len(message)
    BY <1>0, <1>2, <1>4, MessageItems DEF End, Message
  <2> HIDE DEF to, message
  <2>6. /\ ItemsScattered(l) = Upto(n, l, i) /\ ItemsScattered(l)' = Upto(n, l, to)
        /\ ItemsArrived(l) = Upto(n, l, to) /\ ItemsArrived(l)' = Upto(n, l, to)
    <3>1. ItemsScattered(l) = Upto(n, l, i) /\ ItemsArrived(l) = Upto(n, l, i) + Len(message)
      BY <1>0, <1>4, <2>1, <2>2, ItemsNow DEF ArrivedItems, ScatteredItems
    <3>2. ItemsScattered(l)' = Upto(n, l, to) /\ ItemsArrived(l)' = Upto(n, l, to) + 0
      BY <1>0, <1>4, <2>3, <2>4, ItemsNext DEF ArrivedItems, ScatteredItems
    <3> QED BY <2>5, <3>1, <3>2
  <2>7. CASE Len(message) = 0
    <3>1. ItemsArrived(l)' = ItemsArrived(l) /\ ItemsScattered(l)' = ItemsScattered(l)
      BY <2>5, <2>6, <2>7
    <3> QED BY <1>0, <1>1, <3>1, ExchangeStutters
  <2>8. CASE Len(message) > 0
    <3>1. PICK m : m = Upto(n, l, to)
      OBVIOUS
    <3>2. m \in ItemsScattered(l) + 1 .. ItemsArrived(l) /\ ItemsScattered(l)' = m
          /\ ItemsArrived(l)' = ItemsArrived(l)
      BY <2>5, <2>6, <2>8, <3>1
    <3>3. Exchange!Scatter(l)
      BY <1>0, <1>1, <3>2, ExchangeScatters
    <3> QED BY <3>3 DEF Exchange!Next, Exchange!Links, Links
  <2> QED BY <2>5, <2>7, <2>8
<1> QED BY <1>2, <1>3, <1>4

\* A message is matched: its items arrive.
LEMMA MatchSimulates ==
  ASSUME DeliveryInv, ItemsInEveryCall, NEW l \in Links, Match(l)
  PROVE  [Exchange!Next]_(Exchange!vars)
<1> DEFINE s == l[1]
           r == l[2]
           n == call[s]
           i == recvIndex[l]
           to == End(s, l, i)
           message == Message(s, l, i)
<1>0. /\ RequestInv /\ ScatterInv(l) /\ scenario \in Scenarios /\ scenario' = scenario
      /\ call' = call /\ pc' = pc /\ sendIndex' = sendIndex /\ scattered' = scattered
      /\ sendReq[l].state = "posted" /\ recvReq[l].state = "posted"
      /\ sendReq' = [sendReq EXCEPT ![l] = Done(<<>>)]
      /\ recvReq' = [recvReq EXCEPT ![l] = Done(sendReq[l].data)]
      /\ sendReq \in [Links -> Request] /\ recvReq \in [Links -> Request] /\ SenderInv(l) /\ ReceiverInv(l)
  BY DEF Match, DeliveryInv, RequestInv, ControlInv, MemberInv, EndsInv
<1>1. \A k \in Links : /\ ItemsScattered(k)' = ItemsScattered(k)
                       /\ k # l => ItemsArrived(k)' = ItemsArrived(k) /\ ItemsSent(k)' = ItemsSent(k)
  <2>1. \A k \in Links : k # l => recvReq'[k] = recvReq[k] /\ sendReq'[k] = sendReq[k]
    BY <1>0
  <2> QED BY <1>0, <2>1, ItemsNow, ItemsNext
<1>2. n = call[r] /\ pc[s] = pc[r] /\ Linked(l) /\ Same(l)
  BY <1>0, MeetInSameLoop
<1>3. s \in Rank /\ r \in Rank /\ Neighbours(s) # {} /\ Neighbours(r) # {}
  <2>1. s \in Rank /\ r \in Rank
    BY LinkEnds
  <2>2. l \in Out(s) /\ l \in In(r)
    BY <1>0, <1>2, <2>1, LinksOf
  <2> QED BY <2>1, <2>2 DEF Out, In
<1>4. pc[s] # "user" /\ n \in 1 .. NumCalls /\ pc[s] \in {"sizes", "data", "fixed"} /\ i \in 0 .. Entries(n, l)
      /\ n # 0 /\ i < Entries(n, l) /\ ItemsLeft(HandleSize(pc[s], n, l), i)
  <2>1. pc[s] # "user"
    BY <1>0, RequestStates DEF SenderInv
  <2>2. n \in 1 .. NumCalls /\ pc[s] \in {"sizes", "data", "fixed"} /\ Total(n, l) = Entries(n, l)
    BY <1>0, <2>1, EndsFacts
  <2>3. n > 0
    BY <2>2, CommunicatorAssumption
  <2>4. i \in 0 .. Entries(n, l) /\ i < Entries(n, l)
    BY <1>0, <1>2, <2>2, RequestStates DEF ReceiverInv
  <2>5. ItemsLeft(HandleSize(pc[s], n, l), i)
    BY <1>0, <1>2, <2>3 DEF ReceiverInv
  <2> QED BY <2>1, <2>2, <2>3, <2>4, <2>5
<1>5. CASE pc[s] = "sizes"
  <2>1. ItemsArrived(l)' = ItemsArrived(l) /\ ItemsSent(l)' = ItemsSent(l)
    BY <1>0, <1>2, <1>5, ItemsNow, ItemsNext DEF ArrivedItems, SentItems
  <2> QED BY <1>0, <1>1, <2>1, ExchangeStutters
<1>6. CASE pc[s] \in {"data", "fixed"}
  <2>1. sendReq[l].data = message /\ sendIndex[l] = to
    <3>1. Received(l) = i
      BY <1>0 DEF Received
    <3> QED BY <1>0, <1>2, <3>1, RequestStates DEF Same
  <2>2. ItemsIn(scattered[l]) = Upto(n, l, i)
    <3>1. Scatters(scattered[l], n, l, 0, i)
      <4>1. call[r] > 0
        BY <1>2, <1>4, CommunicatorAssumption
      <4> QED BY <1>0, <1>2, <1>6, <4>1 DEF ScatterInv
    <3> QED BY <3>1 DEF Scatters, Upto
  <2>3. /\ Len(message) \in Nat /\ Upto(n, l, i) \in Nat /\ Upto(n, l, to) = Upto(n, l, i) + Len(message)
        /\ Len(message) > 0 /\ Upto(n, l, to) <= Amount[n][l]
    BY <1>0, <1>4, <1>6, MessageItems DEF End, Message
  <2>4. Amount[n][l] \in Nat
    BY <1>0, <1>4, AmountFacts
  <2>5. /\ sendReq'[l].state = "done" /\ recvReq'[l].state = "done" /\ recvReq'[l].data = message
    BY <1>0, <2>1, RequestStates
  <2> HIDE DEF to, message
  <2>6. /\ ItemsSent(l) = Upto(n, l, i) /\ ItemsSent(l)' = Upto(n, l, to) /\ ItemsArrived(l)' = Upto(n, l, to)
    <3>1. ItemsSent(l) = Upto(n, l, to) - Len(message)
      BY <1>0, <1>2, <1>4, <1>6, <2>1, ItemsNow DEF SentItems
    <3>2. ItemsSent(l)' = Upto(n, l, to) - 0
      BY <1>0, <1>2, <1>4, <1>6, <2>1, <2>5, ItemsNext DEF SentItems
    <3>3. ItemsArrived(l)' = Upto(n, l, i) + Len(message)
      BY <1>0, <1>2, <1>6, <2>2, <2>5, ItemsNext DEF ArrivedItems, ScatteredItems
    <3> QED BY <2>3, <3>1, <3>2, <3>3
  <2>7. PICK m : m = Upto(n, l, to)
    OBVIOUS
  <2>8. m \in ItemsSent(l) + 1 .. Amount[call[l[1]]][l] /\ ItemsSent(l)' = m /\ ItemsArrived(l)' = m
    BY <2>3, <2>4, <2>6, <2>7
  <2>9. Exchange!Transfer(l)
    BY <1>0, <1>1, <1>2, <1>3, <1>4, <2>8, ExchangeTransfers
  <2> QED BY <2>9 DEF Exchange!Next, Exchange!Links, Links
<1> QED BY <1>4, <1>5, <1>6

\* A rank returns: all it sends has arrived, and all it is to receive is scattered.
LEMMA ReturnSimulates ==
  ASSUME DeliveryInv, ItemsInEveryCall, NEW r \in Rank, Return(r)
  PROVE  [Exchange!Next]_(Exchange!vars)
<1>0. /\ RequestInv /\ scenario \in Scenarios /\ scenario' = scenario /\ call' = call /\ pc[r] \in {"data", "fixed"}
      /\ sendIndex' = sendIndex /\ sendReq' = sendReq /\ recvReq' = recvReq /\ scattered' = scattered
      /\ pc' = [pc EXCEPT ![r] = "user"] /\ pc \in [Rank -> {"user", "sizes", "data", "fixed"}]
      /\ LoopDone(r) /\ call[r] \in 0 .. NumCalls /\ call[r] > 0
  BY DEF Return, requests, DeliveryInv, RequestInv, ControlInv
<1>1. pc'[r] = "user" /\ (\A q \in Rank : q # r => pc'[q] = pc[q])
      /\ \A q \in Rank : pc'[q] = "sizes" <=> pc[q] = "sizes"
  BY <1>0
<1>2. call[r] \in 1 .. NumCalls /\ call[r] # 0
  BY <1>0, CommunicatorAssumption
<1>3. Idle(r)
  BY <1>0, NothingLeft
<1>4. ASSUME NEW l \in Links
      PROVE  /\ ItemsSent(l)' = ItemsSent(l) /\ ItemsArrived(l)' = ItemsArrived(l)
             /\ ItemsScattered(l)' = ItemsScattered(l)
  <2>1. l[1] \in Rank /\ l[2] \in Rank
    BY LinkEnds
  <2>2. /\ (pc'[l[1]] = "sizes" <=> pc[l[1]] = "sizes") /\ (pc'[l[2]] = "sizes" <=> pc[l[2]] = "sizes")
    BY <1>1, <2>1
  <2> QED BY <1>0, <2>2, ItemsNow, ItemsNext DEF SentItems, ArrivedItems, ScatteredItems
<1>5. ASSUME NEW l \in Links
      PROVE  /\ Total(call[r], l) = Entries(call[r], l) /\ Entries(call[r], l) \in Nat
             /\ Upto(call[r], l, 0) = 0 /\ Upto(call[r], l, Entries(call[r], l)) = Amount[call[r]][l]
             /\ Amount[call[r]][l] \in Nat
             /\ ~Linked(l) => Entries(call[r], l) = 0
             /\ l[1] = r \/ l[2] = r => (Neighbours(r) = {} => ~Linked(l))
  <2>1. Entries(call[r], l) \in Nat /\ (~Linked(l) => Entries(call[r], l) = 0)
    BY <1>0, <1>2, CallFacts
  <2>2. PICK z \in {0} : z = 0
    OBVIOUS
  <2>3. z \in 0 .. Entries(call[r], l) /\ z \in z .. Entries(call[r], l)
    BY <2>1, <2>2
  <2>4. /\ Upto(call[r], l, 0) = 0 /\ Upto(call[r], l, Entries(call[r], l)) = Amount[call[r]][l]
        /\ Amount[call[r]][l] \in Nat
    BY <1>0, <1>2, <2>3, UptoFacts
  <2>5. l[1] = r \/ l[2] = r => (Neighbours(r) = {} => ~Linked(l))
    BY <1>0, LinksOf DEF In, Out
  <2> QED BY <1>2, <2>1, <2>4, <2>5 DEF Total
<1>6. ASSUME NEW l \in Links, l[1] = r
      PROVE  ItemsSent(l) = IF Neighbours(r) = {} THEN 0 ELSE Amount[call[r]][l]
  <2>1. ItemsSent(l) = SentItems(call[r], pc[r], sendIndex[l], sendReq[l], l)
    BY <1>0, <1>6, ItemsNow
  <2>2. sendIndex[l] = Entries(call[r], l) /\ sendReq[l].state # "posted"
    BY <1>3, <1>5, <1>6, RequestStates DEF Idle
  <2>3. CASE Linked(l)
    <3>1. ItemsSent(l) = Amount[call[r]][l] - 0
      BY <1>0, <1>2, <1>5, <2>1, <2>2, <2>3 DEF SentItems
    <3> QED BY <1>5, <1>6, <2>3, <3>1
  <2>4. CASE ~Linked(l)
    <3>1. Amount[call[r]][l] = 0
      BY <1>5, <2>4
    <3> QED BY <2>1, <2>4, <3>1 DEF SentItems
  <2> QED BY <2>3, <2>4
<1>7. ASSUME NEW l \in Links, l[2] = r
      PROVE  ItemsScattered(l) = IF Neighbours(r) = {} THEN 0 ELSE Amount[call[r]][l]
  <2>1. ItemsScattered(l) = ItemsIn(scattered[l])
    BY <1>0, <1>7, ItemsNow DEF ScatteredItems
  <2>2. recvIndex[l] = Entries(call[r], l) /\ ScatterInv(l)
    BY <1>3, <1>5, <1>7 DEF Idle, DeliveryInv
  <2>3. CASE Linked(l)
    <3>1. Scatters(scattered[l], call[r], l, 0, Entries(call[r], l))
      BY <1>0, <1>7, <2>2, <2>3 DEF ScatterInv
    <3>2. ItemsIn(scattered[l]) = Amount[call[r]][l]
      BY <1>5, <3>1 DEF Scatters, Upto
    <3> QED BY <1>5, <1>7, <2>1, <2>3, <3>2
  <2>4. CASE ~Linked(l)
    <3>1. Amount[call[r]][l] = 0 /\ scattered[l] = <<>>
      BY <1>5, <2>2, <2>4 DEF ScatterInv
    <3>2. <<>> \in Seq(Scattering) /\ Len(<<>>) = 0
      OBVIOUS
    <3>3. ItemsIn(<<>>) = 0
      BY <3>2, LengthsRight, SumsSteps DEF ItemsIn
    <3> QED BY <2>1, <3>1, <3>3
  <2> QED BY <2>3, <2>4
<1>8. Exchange!Return(r)
  BY <1>0, <1>1, <1>2, <1>4, <1>6, <1>7, ExchangeReturns
<1> QED BY <1>8 DEF Exchange!Next

\* Every step is one of the exchange, or none.
LEMMA StepSimulates ==
  ASSUME DeliveryInv, ItemsInEveryCall, [Next]_vars
  PROVE  [Exchange!Next]_(Exchange!vars)
<1>0. RequestInv /\ scenario \in Scenarios
  BY DEF DeliveryInv, RequestInv, ControlInv
<1>1. ASSUME NEW r \in Rank, Step(r) PROVE [Exchange!Next]_(Exchange!vars)
  <2>1. \A l : l \in Out(r) \/ l \in In(r) => l \in Links
    BY <1>0, LinksOf
  <2>2. CASE CommunicateFixedSize(r) \/ CommunicateSizes(r) \/ CommunicateData(r)
    BY <2>2, BeginSimulates
  <2>3. CASE CommunicateNothing(r)
    <3>1. /\ scenario' = scenario /\ pc' = pc /\ sendIndex' = sendIndex /\ sendReq' = sendReq /\ recvReq' = recvReq
          /\ scattered' = scattered /\ call' = [call EXCEPT ![r] = @ + 1] /\ Neighbours(r) = {}
      BY <2>3 DEF CommunicateNothing, requests
    <3>2. \A q \in Rank : q # r => call'[q] = call[q]
      BY <1>0, <3>1 DEF RequestInv, ControlInv
    <3>3. ASSUME NEW l \in Links
          PROVE  /\ ItemsSent(l)' = ItemsSent(l) /\ ItemsArrived(l)' = ItemsArrived(l)
                 /\ ItemsScattered(l)' = ItemsScattered(l)
      <4>1. l[1] \in Rank
        BY LinkEnds
      <4>2. l[1] = r => ~Linked(l)
        BY <1>0, <3>1, LinksOf DEF Out
      <4> QED BY <1>0, <3>1, <3>2, <4>1, <4>2, ItemsNow, ItemsNext DEF SentItems
    <3>4. \A q \in Rank : Neighbours(q) # {} => call'[q] = call[q]
      BY <3>1, <3>2
    <3> QED BY <3>1, <3>3, <3>4, ExchangeStutters
  <2>4. CASE Return(r)
    BY <2>4, ReturnSimulates
  <2>5. CASE \E l \in Out(r) : SendCompleted(l)
    BY <2>1, <2>5, SendCompletedSimulates
  <2>6. ASSUME NEW l \in In(r), FixedSizeReceived(l) PROVE [Exchange!Next]_(Exchange!vars)
    <3>1. /\ scenario' = scenario /\ call' = call /\ pc' = pc /\ sendIndex' = sendIndex /\ sendReq' = sendReq
          /\ scattered' = scattered
      BY <2>6 DEF FixedSizeReceived
    <3>2. l \in Links /\ sizeRecvReq[l] # NullRequest /\ ReceiverInv(l)
      BY <1>0, <2>1, <2>6, RequestStates DEF FixedSizeReceived, RequestInv, EndsInv
    <3>3. recvReq[l].state # "done" /\ recvReq'[l].state # "done"
      <4>1. recvReq[l] = NullRequest
        BY <3>2 DEF ReceiverInv
      <4>2. recvReq'[l] \in {NullRequest, Posted(<<>>)}
        BY <1>0, <2>6, <3>2 DEF FixedSizeReceived, SetupRecv, RequestInv, MemberInv
      <4> QED BY <4>1, <4>2, RequestStates
    <3>4. \A k \in Links : k # l => recvReq'[k] = recvReq[k]
      BY <1>0, <2>6 DEF FixedSizeReceived, RequestInv, MemberInv
    <3>5. \A k \in Links : ArrivedItems(pc[k[2]], scattered[k], recvReq'[k])
                             = ArrivedItems(pc[k[2]], scattered[k], recvReq[k])
      BY <3>3, <3>4 DEF ArrivedItems
    <3>6. \A k \in Links : /\ ItemsSent(k)' = ItemsSent(k) /\ ItemsArrived(k)' = ItemsArrived(k)
                           /\ ItemsScattered(k)' = ItemsScattered(k)
      BY <1>0, <3>1, <3>5, ItemsNow, ItemsNext
    <3> QED BY <3>1, <3>6, ExchangeStutters
  <2>7. CASE \E l \in In(r) : ReceiveCompleted(l) \/ FixedSizeReceived(l)
    BY <2>1, <2>6, <2>7, ReceiveCompletedSimulates
  <2> QED BY <1>1, <2>2, <2>3, <2>4, <2>5, <2>7 DEF Step
<1>2. ASSUME NEW l \in Links, Match(l) PROVE [Exchange!Next]_(Exchange!vars)
  BY <1>2, MatchSimulates
<1>3. ASSUME NEW l \in Links, MatchFixedSize(l) PROVE [Exchange!Next]_(Exchange!vars)
  <2>1. /\ scenario' = scenario /\ call' = call /\ pc' = pc /\ sendIndex' = sendIndex /\ sendReq' = sendReq
        /\ recvReq' = recvReq /\ scattered' = scattered
    BY <1>3 DEF MatchFixedSize, requests
  <2>2. \A k \in Links : /\ ItemsSent(k)' = ItemsSent(k) /\ ItemsArrived(k)' = ItemsArrived(k)
                         /\ ItemsScattered(k)' = ItemsScattered(k)
    BY <1>0, <2>1, ItemsNow, ItemsNext
  <2> QED BY <2>1, <2>2, ExchangeStutters
<1>4. CASE UNCHANGED vars
  <2>1. /\ scenario' = scenario /\ call' = call /\ pc' = pc /\ sendIndex' = sendIndex /\ sendReq' = sendReq
        /\ recvReq' = recvReq /\ scattered' = scattered
    BY <1>4 DEF vars, requests
  <2>2. \A k \in Links : /\ ItemsSent(k)' = ItemsSent(k) /\ ItemsArrived(k)' = ItemsArrived(k)
                         /\ ItemsScattered(k)' = ItemsScattered(k)
    BY <1>0, <2>1, ItemsNow, ItemsNext
  <2> QED BY <2>1, <2>2, ExchangeStutters
<1> QED BY <1>1, <1>2, <1>3, <1>4 DEF Next

\* Before the first call nothing has been exchanged.
LEMMA InitSimulates ==
  ASSUME Init, ItemsInEveryCall
  PROVE  Exchange!Init
<1>0. RequestInv /\ scenario \in Scenarios
  BY RequestInit DEF Init
<1>1. Amount \in [1 .. NumCalls -> [Links -> Nat]]
  <2>1. \A n \in 1 .. NumCalls, l \in Links : Amount[n][l] \in Nat
    BY <1>0, AmountFacts
  <2>2. Amount = [n \in 1 .. NumCalls |-> [l \in Links |-> Amount[n][l]]]
    BY DEF Amount
  <2> HIDE DEF Amount
  <2> QED BY <2>1, <2>2
<1>2. [r \in Rank |-> IF Neighbours(r) = {} THEN 0 ELSE call[r]] = [r \in Rank |-> 0]
  BY DEF Init
<1>3. [r \in Rank |-> pc[r] # "user"] = [r \in Rank |-> FALSE]
  BY DEF Init
<1>4. ASSUME NEW l \in Links PROVE ItemsSent(l) = 0 /\ ItemsArrived(l) = 0 /\ ItemsScattered(l) = 0
  <2>1. /\ l[1] \in Rank /\ l[2] \in Rank /\ call[l[1]] = 0 /\ scattered[l] = <<>>
        /\ recvReq[l] = NullRequest
    BY LinkEnds DEF Init
  <2>2. <<>> \in Seq(Scattering) /\ Len(<<>>) = 0
    OBVIOUS
  <2>3. ItemsIn(<<>>) = 0
    BY <2>2, LengthsRight, SumsSteps DEF ItemsIn
  <2> QED BY <1>0, <2>1, <2>3, ItemsNow, RequestStates DEF SentItems, ScatteredItems, ArrivedItems
<1>5. /\ [l \in Links |-> ItemsSent(l)] = [l \in Links |-> 0]
      /\ [l \in Links |-> ItemsArrived(l)] = [l \in Links |-> 0]
      /\ [l \in Links |-> ItemsScattered(l)] = [l \in Links |-> 0]
  BY <1>4
<1> QED BY <1>1, <1>2, <1>3, <1>5 DEF Exchange!Init, Exchange!Links, Links

\* The buffers, trackers and requests implement the exchange that forward() and
\* backward() promise: every step is one of it, or changes nothing of it.
THEOREM ExchangeImplemented ==
  ASSUME ItemsInEveryCall
  PROVE  Spec => ImplementsExchange
<1>1. Init => Exchange!Init
  BY InitSimulates
<1>2. DeliveryInv /\ [Next]_vars => [Exchange!Next]_(Exchange!vars)
  BY StepSimulates
<1> QED BY <1>1, <1>2, DeliveryRight, PTL DEF Spec, ImplementsExchange, Exchange!Spec
=============================================================================
