-------------------------- MODULE ParallelIndexSet --------------------------
(***************************************************************************)
(* Dune::ParallelIndexSet (dune/common/parallel/indexset.hh) with          *)
(* ParallelLocalIndex as its local index: the sorted array of pairs one    *)
(* process keeps, and its two-phase resize.  Calls the class rejects with  *)
(* InvalidIndexSetState are guards: they throw before they change anything.*)
(***************************************************************************)
EXTENDS Integers, Sequences, FiniteSets, Functions

CONSTANTS
  Global,     \* global indices, integers here because the code compares them
  Attribute,  \* attributes of a local index, compared too
  Local,      \* local numbers a caller may pass to add()
  MaxSize,    \* bound: pairs in localIndices_ and newIndices_ together
  MaxSeqNo    \* bound: calls of endResize()

ASSUME IndexAssumption ==
  /\ Global \subseteq Int /\ Attribute \subseteq Int /\ Local \subseteq Nat
  /\ MaxSize \in Nat /\ MaxSeqNo \in Nat

VARIABLES
  localIndices,   \* localIndices_
  newIndices,     \* newIndices_, the pairs added since beginResize()
  state,          \* state_
  seqNo,          \* seqNo_
  deletedEntries  \* deletedEntries_

vars == <<localIndices, newIndices, state, seqNo, deletedEntries>>

-----------------------------------------------------------------------------

\* An IndexPair: deleted is the LocalIndexState of its local index.
Pair == [global : Global, local : Nat, attribute : Attribute, deleted : BOOLEAN]

\* The order of IndexSetSortFunctor: by global index, then by attribute.
PairLess(a, b) ==
  \/ a.global < b.global
  \/ a.global = b.global /\ a.attribute < b.attribute

Sorted(s) == \A i, j \in DOMAIN s : i < j => ~PairLess(s[j], s[i])

\* The outcomes of std::sort, which leaves the order of equal pairs open.
SortedOrders(s) ==
  {t \in {[i \in DOMAIN s |-> s[perm[i]]] : perm \in Bijection(DOMAIN s, DOMAIN s)} : Sorted(t)}

\* Mutant: once there are no more new pairs, deleted ones are kept.
MergeKeepsDeletedTail(old, added) ==
  LET from[at \in (1 .. Len(old) + 1) \X (1 .. Len(added) + 1)] ==
        LET i == at[1]
            j == at[2]
        IN IF j > Len(added) THEN SubSeq(old, i, Len(old))
           ELSE IF i > Len(old) THEN SubSeq(added, j, Len(added))
           ELSE IF old[i].deleted THEN from[<<i + 1, j>>]
           ELSE IF PairLess(old[i], added[j]) THEN <<old[i]>> \o from[<<i + 1, j>>]
           ELSE <<added[j]>> \o from[<<i, j + 1>>]
  IN from[<<1, 1>>]

\* The two-way merge of two sorted sequences, without the deleted pairs of the
\* old one; of two equal pairs the new one comes first.  from[<<i, j>>] is what
\* is still to be written when old and added have come to positions i and j.
MergeSorted(old, added) ==
  LET from[at \in (1 .. Len(old) + 1) \X (1 .. Len(added) + 1)] ==
        LET i == at[1]
            j == at[2]
        IN IF i > Len(old) THEN SubSeq(added, j, Len(added))
           ELSE IF old[i].deleted THEN from[<<i + 1, j>>]
           ELSE IF j > Len(added) \/ PairLess(old[i], added[j])
             THEN <<old[i]>> \o from[<<i + 1, j>>]
           ELSE <<added[j]>> \o from[<<i, j + 1>>]
  IN from[<<1, 1>>]

Alive(pair) == ~pair.deleted

\* Mutant: deleted pairs are only left out if something is added.
MergeForgetsDeleted(added) ==
  IF localIndices = <<>> THEN added
  ELSE IF added # <<>>
    THEN MergeSorted(localIndices, added)
    ELSE localIndices

\* merge(): without anything new and anything deleted the array is left alone.
Merge(added) ==
  IF localIndices = <<>> THEN added
  ELSE IF added # <<>> \/ deletedEntries
    THEN MergeSorted(localIndices, added)
    ELSE localIndices

-----------------------------------------------------------------------------

Init ==
  /\ localIndices = <<>> /\ newIndices = <<>>
  /\ state = "GROUND" /\ seqNo = 0 /\ deletedEntries = FALSE

BeginResize ==
  /\ state = "GROUND"
  /\ state' = "RESIZE"
  /\ deletedEntries' = FALSE
  /\ UNCHANGED <<localIndices, newIndices, seqNo>>

Add(global, local, attribute) ==
  /\ state = "RESIZE"
  /\ Len(localIndices) + Len(newIndices) < MaxSize
  /\ newIndices' = Append(newIndices,
       [global |-> global, local |-> local, attribute |-> attribute, deleted |-> FALSE])
  /\ UNCHANGED <<localIndices, state, seqNo, deletedEntries>>

MarkAsDeleted(position) ==
  /\ state = "RESIZE"
  /\ deletedEntries' = TRUE
  /\ localIndices' = [localIndices EXCEPT ![position].deleted = TRUE]
  /\ UNCHANGED <<newIndices, state, seqNo>>

\* Mutants: the new pairs are not sorted; they are not cleared.
EndResizeNotCleared ==
  /\ state = "RESIZE"
  /\ seqNo < MaxSeqNo
  /\ \E added \in SortedOrders(newIndices) : localIndices' = Merge(added)
  /\ seqNo' = seqNo + 1
  /\ state' = "GROUND"
  /\ UNCHANGED <<newIndices, deletedEntries>>

EndResizeUnsorted ==
  /\ state = "RESIZE"
  /\ seqNo < MaxSeqNo
  /\ localIndices' = Merge(newIndices)
  /\ newIndices' = <<>>
  /\ seqNo' = seqNo + 1
  /\ state' = "GROUND"
  /\ UNCHANGED deletedEntries

EndResize ==
  /\ state = "RESIZE"
  /\ seqNo < MaxSeqNo
  /\ \E added \in SortedOrders(newIndices) : localIndices' = Merge(added)
  /\ newIndices' = <<>>
  /\ seqNo' = seqNo + 1
  /\ state' = "GROUND"
  /\ UNCHANGED deletedEntries

RenumberLocal ==
  /\ state = "GROUND"
  /\ localIndices' = [i \in DOMAIN localIndices |-> [localIndices[i] EXCEPT !.local = i - 1]]
  /\ UNCHANGED <<newIndices, state, seqNo, deletedEntries>>

Next ==
  \/ BeginResize
  \/ \E g \in Global, l \in Local, a \in Attribute : Add(g, l, a)
  \/ \E position \in DOMAIN localIndices : MarkAsDeleted(position)
  \/ EndResize
  \/ RenumberLocal

Spec == Init /\ [][Next]_vars

-----------------------------------------------------------------------------

\* Mutant: the search goes right of an equal element.
SearchUpperBound(s, global) ==
  LET loop[at \in (0 .. Len(s)) \X (-1 .. Len(s))] ==
        LET low == at[1]
            high == at[2]
            probe == (high + low) \div 2
        IN IF low >= high THEN low
           ELSE IF global < s[probe + 1].global THEN loop[<<low, probe>>]
           ELSE loop[<<probe + 1, high>>]
  IN [low |-> loop[<<0, Len(s) - 1>>], entered |-> Len(s) > 1]

\* The binary search of at(), exists() and operator[]: positions from 0 as in
\* the code; entered is FALSE when the loop was never entered and probe is -1.
Search(s, global) ==
  LET loop[at \in (0 .. Len(s)) \X (-1 .. Len(s))] ==
        LET low == at[1]
            high == at[2]
            probe == (high + low) \div 2
        IN IF low >= high THEN low
           ELSE IF global <= s[probe + 1].global THEN loop[<<low, probe>>]
           ELSE loop[<<probe + 1, high>>]
  IN [low |-> loop[<<0, Len(s) - 1>>], entered |-> Len(s) > 1]

\* exists(global)
Exists(global) ==
  LET found == Search(localIndices, global)
  IN found.entered /\ localIndices[found.low + 1].global = global

\* operator[](global) returns whatever the search ends at.
Subscript(global) == localIndices[Search(localIndices, global).low + 1]

\* at(global) does too, unless it throws RangeError under the conditions of exists().
AtThrows(global) == ~Exists(global)

Globals == {localIndices[i].global : i \in DOMAIN localIndices}

-----------------------------------------------------------------------------

\* Types of indexset.hh's members; new pairs are kept during a resize only.
TypeOK ==
  /\ localIndices \in Seq(Pair) /\ newIndices \in Seq(Pair)
  /\ state \in {"GROUND", "RESIZE"}
  /\ seqNo \in 0 .. MaxSeqNo
  /\ deletedEntries \in BOOLEAN
  /\ state = "GROUND" => newIndices = <<>>

\* What merge() and every lookup rely on: the array stays sorted by global
\* index and attribute over any sequence of resizes, with equal pairs too.
AlwaysSorted == Sorted(localIndices)

\* A pair marked as deleted does not outlive its resize, even if nothing was
\* added and even if all pairs were deleted; none is marked between resizes.
NoDeletedBetweenResizes ==
  state = "GROUND" => \A i \in DOMAIN localIndices : Alive(localIndices[i])

\* Inductive: also, during a resize, what is new is alive, and the array has
\* a deleted pair only if deletedEntries_ says so, since merge() looks at it.
IndexInv ==
  /\ TypeOK /\ AlwaysSorted
  /\ \A i \in DOMAIN newIndices : Alive(newIndices[i])
  /\ \A i \in DOMAIN localIndices : Alive(localIndices[i]) \/ (state = "RESIZE" /\ deletedEntries)

\* How often x occurs in s.
Count(s, x) == Cardinality({i \in DOMAIN s : s[i] = x})

\* endResize() loses nothing and invents nothing: as a bag, the new array is
\* the pairs that were not deleted together with the pairs added, unchanged.
ResizeIsExact ==
  [][EndResize =>
       \A x \in {localIndices'[i] : i \in DOMAIN localIndices'}
                  \cup {localIndices[i] : i \in DOMAIN localIndices}
                  \cup {newIndices[i] : i \in DOMAIN newIndices} :
         Count(localIndices', x) =
           (IF Alive(x) THEN Count(localIndices, x) ELSE 0) + Count(newIndices, x)]_vars

\* The lookup of a global index in the array ends at its first pair (the one
\* with the smallest attribute), and exists() tells apart the known and the
\* unknown ones, except in a set of one pair, where it always says no.
LookupFindsFirst ==
  /\ \A g \in Globals : \E i \in DOMAIN localIndices :
       /\ Subscript(g) = localIndices[i] /\ localIndices[i].global = g
       /\ \A j \in 1 .. i - 1 : localIndices[j].global # g
  /\ Len(localIndices) # 1 => \A g \in Global : Exists(g) <=> g \in Globals

\* at()'s documentation: RangeError is thrown if the global id is not known.
AtThrowsOnlyIfUnknown == \A g \in Global : AtThrows(g) => g \notin Globals

=============================================================================
