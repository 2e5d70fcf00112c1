------------------------------ MODULE ArrayList ------------------------------
(***************************************************************************)
(* Dune::ArrayList (dune/common/arraylist.hh): a list in chunks of a fixed *)
(* size that grows at the back and is erased from the front, and an        *)
(* iterator that is kept over it.  The entries are numbered in the order   *)
(* they are pushed.                                                        *)
(***************************************************************************)
EXTENDS Integers, Sequences

CONSTANTS
  chunkSize,  \* chunkSize_
  MaxPushes   \* bound: calls of push_back

VARIABLES
  memory,     \* the arrays ever allocated
  chunks,     \* chunks_: indices of memory, zero for a pointer that was reset
  capacity,   \* capacity_
  size,       \* size_
  start,      \* start_
  kept,       \* position_ of the iterator
  contents,   \* history: the entries the list should have
  keptAt,     \* history: the entry the iterator should be at, zero for none
  pushes,     \* history: the number of entries pushed
  moved       \* history: purge() has moved chunks since the last clear()

list == <<memory, chunks, capacity, size, start>>
vars == <<list, kept, contents, keptAt, pushes, moved>>

-----------------------------------------------------------------------------

Init ==
  /\ memory = <<>> /\ chunks = <<>>
  /\ capacity = 0 /\ size = 0 /\ start = 0
  /\ kept = 0 /\ keptAt = 0
  /\ contents = <<>> /\ pushes = 0 /\ moved = FALSE

\* Where elementAt(i) looks: the chunk and the place in it.
Chunk(i) == i \div chunkSize + 1
ElementAt(i) == memory[chunks[Chunk(i)]][i % chunkSize]

PushBack ==
  LET index == start + size
      grows == index = capacity
      owner == IF grows THEN Append(chunks, Len(memory) + 1) ELSE chunks
      grown == IF grows THEN Append(memory, [k \in 0 .. chunkSize - 1 |-> 0]) ELSE memory
  IN /\ pushes < MaxPushes
     /\ pushes' = pushes + 1
     /\ owner[Chunk(index)] # 0
     /\ chunks' = owner
     /\ memory' = [grown EXCEPT ![owner[Chunk(index)]][index % chunkSize] = pushes + 1]
     /\ capacity' = IF grows THEN capacity + chunkSize ELSE capacity
     /\ size' = size + 1
     /\ contents' = Append(contents, pushes + 1)
     /\ UNCHANGED <<start, kept, keptAt, moved>>

\* Mutant: entries in front of start_ are not counted.
ReleasedFew(position) == (position - start) \div chunkSize

\* The chunks that are given up when the list begins at position.
Released(position) == (position - start + (start % chunkSize)) \div chunkSize

\* eraseToHere() of an iterator at the i-th entry, which it erases too.
EraseToHere(i) ==
  LET position == start + i
      first == position \div chunkSize - Released(position) + 1
  IN /\ i \in 1 .. size
     /\ size' = size - i
     /\ start' = position
     /\ chunks' = [c \in DOMAIN chunks |->
                     IF c \in first .. position \div chunkSize THEN 0 ELSE chunks[c]]
     /\ contents' = SubSeq(contents, i + 1, size)
     /\ keptAt' = IF kept < position THEN 0 ELSE keptAt
     /\ UNCHANGED <<memory, capacity, kept, pushes, moved>>

\* Chunks are copied to the left; only those with all places taken are counted, and
\* what stays behind is neither forgotten nor subtracted from the capacity.
Purge ==
  LET distance == start \div chunkSize
      occupied == ((start % chunkSize) + size) \div chunkSize
  IN /\ distance > 0
     /\ chunks' = [c \in DOMAIN chunks |-> IF c <= occupied THEN chunks[c + distance] ELSE chunks[c]]
     /\ start' = start % chunkSize
     /\ moved' = TRUE
     /\ keptAt' = 0
     /\ UNCHANGED <<memory, capacity, size, kept, contents, pushes>>

Clear ==
  /\ chunks' = <<>>
  /\ capacity' = 0 /\ size' = 0 /\ start' = 0
  /\ contents' = <<>> /\ keptAt' = 0 /\ moved' = FALSE
  /\ UNCHANGED <<memory, kept, pushes>>

\* begin(), advanced to the i-th entry.
KeepIterator(i) ==
  /\ i \in 1 .. size /\ ~moved
  /\ kept' = start + i - 1
  /\ keptAt' = contents[i]
  /\ UNCHANGED <<list, contents, pushes, moved>>

Next ==
  \/ PushBack \/ Purge \/ Clear
  \/ \E i \in 1 .. MaxPushes : EraseToHere(i) \/ KeepIterator(i)

-----------------------------------------------------------------------------

\* The list holds what was pushed and not erased, an iterator stays at its entry
\* whatever is pushed or erased in front of it, and no chunk is kept that lies in
\* front of the list.  Once purge() has moved chunks nothing of this is promised.
ArrayListExact ==
  ~moved =>
    /\ size = Len(contents) /\ start + size <= capacity
    /\ \A i \in 1 .. size : chunks[Chunk(start + i - 1)] # 0 /\ ElementAt(start + i - 1) = contents[i]
    /\ keptAt # 0 => ElementAt(kept) = keptAt
    /\ \A c \in 1 .. start \div chunkSize : chunks[c] = 0

=============================================================================
