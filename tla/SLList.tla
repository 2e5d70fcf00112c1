------------------------------- MODULE SLList -------------------------------
(***************************************************************************)
(* Dune::SLList (dune/common/sllist.hh) with PoolAllocator as allocator    *)
(* (dune/common/poolallocator.hh): a singly linked list with a tail, its   *)
(* modifying iterator, and the pool whose free cells are linked through    *)
(* the same memory.                                                        *)
(***************************************************************************)
EXTENDS Integers, FiniteSets, SequencesExt

CONSTANTS
  Items,
  elements,  \* Pool::elements, cells in a chunk
  MaxCells   \* bound: cells the pool may grow to

VARIABLES
  next,      \* next_ of a cell, of an Element as well as of a free Reference;
             \* cell zero is beforeHead_, and -1 the null pointer
  item,      \* item_ of a cell
  head,      \* head_ of the pool
  tail,      \* tail_
  size,      \* size_
  modify,    \* the modifying iterator: the cells before_ and iterator_ point to
  contents,  \* history: the items the list should have
  position   \* history: where the iterator should be, zero if there is none

list == <<next, item, head, tail, size>>
vars == <<list, modify, contents, position>>

-----------------------------------------------------------------------------

Null == -1
Cells == DOMAIN next \ {0}

Init ==
  /\ next = [c \in {0} |-> Null] /\ item = [c \in {} |-> Null]
  /\ head = Null /\ tail = 0 /\ size = 0
  /\ modify = [before |-> Null, at |-> Null]
  /\ contents = <<>> /\ position = 0

\* Mutant: the loop over the new cells ends one too early.
GrowShort ==
  LET n == Cardinality(Cells)
      new == n + 1 .. n + elements
  IN [next |-> [c \in DOMAIN next \cup new |->
                  IF c \in DOMAIN next THEN next[c]
                  ELSE IF c >= n + elements - 1 THEN Null ELSE c + 1],
      head |-> n + 1]

\* Pool::grow: a chunk of cells linked to each other.
Grow ==
  LET n == Cardinality(Cells)
      new == n + 1 .. n + elements
  IN [next |-> [c \in DOMAIN next \cup new |->
                  IF c \in DOMAIN next THEN next[c]
                  ELSE IF c = n + elements THEN Null ELSE c + 1],
      head |-> n + 1]

\* Pool::allocate leaves a cell, the other free cells and their links.
Memory == IF head = Null THEN Grow ELSE [next |-> next, head |-> head]
MayAllocate == head # Null \/ Cardinality(Cells) + elements <= MaxCells

\* Pool::free of the cells in order, one after the other.
Free(links, order) ==
  [next |-> [c \in DOMAIN links |->
               IF c \notin ToSet(order) THEN links[c]
               ELSE LET i == CHOOSE j \in DOMAIN order : order[j] = c
                    IN IF i = 1 THEN head ELSE order[i - 1]],
   head |-> IF order = <<>> THEN head ELSE Last(order)]

\* Mutant: as in push_back, the new cell is always the last.
TailAlways(current, new) == new

\* The tail after an insertion: the new cell, if there is none behind it.
TailAfter(current, new) == IF next[current] = Null THEN new ELSE tail

\* A new cell for v behind current.
Link(current, v) ==
  LET pool == Memory
      new == pool.head
  IN /\ MayAllocate
     /\ next' = [pool.next EXCEPT ![current] = new, ![new] = next[current]]
     /\ head' = pool.next[new]
     /\ item' = [c \in DOMAIN item \cup {new} |-> IF c = new THEN v ELSE item[c]]
     /\ tail' = TailAfter(current, new)
     /\ size' = size + 1

\* Mutant: the tail is not watched, as in clear().
TailStays(current) == tail

\* The tail after the deletion of the cell behind current.
TailWithout(current) == IF next[current] = tail THEN current ELSE tail

\* deleteNext(current).
Unlink(current) ==
  LET gone == next[current]
      pool == Free([next EXCEPT ![current] = next[gone]], <<gone>>)
  IN /\ gone # Null
     /\ next' = pool.next /\ head' = pool.head
     /\ tail' = TailWithout(current)
     /\ size' = size - 1
     /\ item' = item

NoIterator == modify' = [before |-> Null, at |-> Null] /\ position' = 0

-----------------------------------------------------------------------------
\* The list's own operations; a modifying iterator is not used afterwards.

PushBack(v) == Link(tail, v) /\ contents' = Append(contents, v) /\ NoIterator
PushFront(v) == Link(0, v) /\ contents' = <<v>> \o contents /\ NoIterator
PopFront == Unlink(0) /\ contents' = Tail(contents) /\ NoIterator

\* The cells linked to each other from first on, of which there cannot be more than all.
Follow(links, first) ==
  LET all == Cardinality(DOMAIN links \ {0})
      from[at \in (DOMAIN links \cup {Null}) \X (0 .. all)] ==
        LET c == at[1]
            left == at[2]
        IN IF c = Null \/ left = 0 THEN <<>> ELSE <<c>> \o from[<<links[c], left - 1>>]
  IN from[<<first, all>>]

\* The cells of the list in order.
Chain == Follow(next, next[0])

\* clear(), with the tail set at the end; also what assigning the list to itself does.
Clear ==
  LET pool == Free([next EXCEPT ![0] = Null], Chain)
  IN /\ next' = pool.next /\ head' = pool.head
     /\ tail' = 0
     /\ size' = size - Len(Chain)
     /\ item' = item
     /\ contents' = <<>> /\ NoIterator

-----------------------------------------------------------------------------
\* The modifying iterator.

BeginModify ==
  /\ modify' = [before |-> 0, at |-> next[0]]
  /\ position' = 1
  /\ UNCHANGED <<list, contents>>

EndModify ==
  /\ modify' = [before |-> tail, at |-> Null]
  /\ position' = Len(contents) + 1
  /\ UNCHANGED <<list, contents>>

Increment ==
  /\ position > 0 /\ modify.at # Null
  /\ modify' = [before |-> next[modify.before], at |-> next[modify.at]]
  /\ position' = position + 1
  /\ UNCHANGED <<list, contents>>

\* insert(v): the iterator stays at its element, behind the new one.
Insert(v) ==
  /\ position > 0
  /\ Link(modify.before, v)
  /\ modify' = [modify EXCEPT !.before = next'[@]]
  /\ contents' = InsertAt(contents, position, v)
  /\ position' = position + 1

\* remove(): the iterator moves to the next element first.
RemoveHere ==
  /\ position > 0 /\ modify.at # Null
  /\ Unlink(modify.before)
  /\ modify' = [modify EXCEPT !.at = next[@]]
  /\ contents' = RemoveAt(contents, position)
  /\ UNCHANGED position

Next ==
  \/ \E v \in Items : PushBack(v) \/ PushFront(v) \/ Insert(v)
  \/ PopFront \/ Clear \/ BeginModify \/ EndModify \/ Increment \/ RemoveHere

-----------------------------------------------------------------------------

\* The chain from beforeHead_ is what was inserted and not removed, tail_ is its end and
\* size_ its length, and the modifying iterator is where it should be.
SLListExact ==
  /\ [i \in DOMAIN Chain |-> item[Chain[i]]] = contents
  /\ size = Len(Chain)
  /\ tail = IF Chain = <<>> THEN 0 ELSE Last(Chain)
  /\ position > 0 =>
       /\ modify.before = IF position = 1 THEN 0 ELSE Chain[position - 1]
       /\ modify.at = IF position > Len(Chain) THEN Null ELSE Chain[position]

\* The free cells of the pool, as they are linked.
FreeCells == Follow(next, head)

\* Every cell of the pool is in the list or free, never both, and once: none is handed
\* out twice and none is lost.
CellsPartitioned ==
  /\ Len(Chain) + Len(FreeCells) = Cardinality(Cells)
  /\ ToSet(Chain) \cup ToSet(FreeCells) = Cells

=============================================================================
