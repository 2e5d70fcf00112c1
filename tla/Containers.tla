------------------------------ MODULE Containers ------------------------------
(***************************************************************************)
(* The sequential containers, one of them per execution.                   *)
(***************************************************************************)
EXTENDS ParallelIndexSet

CONSTANTS
  chunkSize, MaxPushes,       \* of ArrayList
  Items, elements, MaxCells,  \* of SLList
  Keys, Data, MaxNodes        \* of lru

\* A chunk of an ArrayList has room, and so has one of a Pool (its static_assert).
ASSUME ContainersAssumption ==
  /\ chunkSize \in Nat \ {0} /\ MaxPushes \in Nat
  /\ elements \in Nat \ {0} /\ MaxCells \in Nat
  /\ MaxNodes \in Nat

VARIABLES
  container,  \* the one in use
  memory, chunks, capacity, arraySize, start, kept, array, keptAt, pushes, moved,
  next, item, head, tail, listSize, modify, items, position,
  nodes, node, index, recent, twice

arrayVars == <<memory, chunks, capacity, arraySize, start, kept, array, keptAt, pushes, moved>>
listVars == <<next, item, head, tail, listSize, modify, items, position>>
lruVars == <<nodes, node, index, recent, twice>>

A == INSTANCE ArrayList WITH size <- arraySize, contents <- array
L == INSTANCE SLList WITH size <- listSize, contents <- items
U == INSTANCE lru

InitAll ==
  /\ container \in {"ParallelIndexSet", "ArrayList", "SLList", "lru"}
  /\ Init /\ A!Init /\ L!Init /\ U!Init

NextAll ==
  /\ container' = container
  /\ \/ container = "ParallelIndexSet" /\ Next /\ UNCHANGED <<arrayVars, listVars, lruVars>>
     \/ container = "ArrayList" /\ A!Next /\ UNCHANGED <<vars, listVars, lruVars>>
     \/ container = "SLList" /\ L!Next /\ UNCHANGED <<vars, arrayVars, lruVars>>
     \/ container = "lru" /\ U!Next /\ UNCHANGED <<vars, arrayVars, listVars>>

SpecAll == InitAll /\ [][NextAll]_<<vars, container, arrayVars, listVars, lruVars>>

ArrayListExact == A!ArrayListExact
SLListExact == L!SLListExact
CellsPartitioned == L!CellsPartitioned
LruExact == U!LruExact

=============================================================================
