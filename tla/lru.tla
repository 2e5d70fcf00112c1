--------------------------------- MODULE lru ---------------------------------
(***************************************************************************)
(* Dune::lru (dune/common/lru.hh): a list of key and data, the most recent *)
(* first, and an index from keys to nodes of the list.                     *)
(***************************************************************************)
EXTENDS Integers, SequencesExt

CONSTANTS
  Keys,
  Data,
  MaxNodes  \* bound: calls of insert

VARIABLES
  nodes,   \* _data: identities of the list's nodes, in order
  node,    \* key and data of every node ever inserted
  index,   \* _index: a key to a node
  recent,  \* history: keys and data by recency, as documented
  twice    \* history: keys inserted while they were present

vars == <<nodes, node, index, recent, twice>>

-----------------------------------------------------------------------------

Init ==
  /\ nodes = <<>> /\ node = <<>>
  /\ index = [k \in {} |-> 0]
  /\ recent = <<>> /\ twice = {}

\* The history without a key, and with a key that is there moved to the front.
Place(k) == CHOOSE i \in DOMAIN recent : recent[i].key = k
Known(k) == \E i \in DOMAIN recent : recent[i].key = k
Without(k) == IF Known(k) THEN RemoveAt(recent, Place(k)) ELSE recent
ToFront(k) == IF Known(k) THEN <<recent[Place(k)]>> \o Without(k) ELSE recent

\* insert(key, data): the index is not changed if it has the key already.
Insert(k, d) ==
  LET new == Len(node) + 1
  IN /\ new <= MaxNodes
     /\ node' = Append(node, [key |-> k, data |-> d])
     /\ nodes' = <<new>> \o nodes
     /\ index' = [q \in DOMAIN index \cup {k} |-> IF q \in DOMAIN index THEN index[q] ELSE new]
     /\ recent' = <<[key |-> k, data |-> d]>> \o Without(k)
     /\ twice' = IF k \in DOMAIN index THEN twice \cup {k} ELSE twice

\* touch(key), also insert(key); it throws for a key it does not know.
Touch(k) ==
  /\ k \in DOMAIN index
  /\ nodes' = LET i == CHOOSE j \in DOMAIN nodes : nodes[j] = index[k]
              IN <<index[k]>> \o RemoveAt(nodes, i)
  /\ recent' = ToFront(k)
  /\ UNCHANGED <<node, index, twice>>

\* Mutant: the key is read after its node is gone.
ForgetLate(gone, left) ==
  [q \in DOMAIN index \ (IF left = <<>> THEN {} ELSE {node[Last(left)].key}) |-> index[q]]

\* The index without the key of a node that is removed.
Forget(gone, left) == [q \in DOMAIN index \ {node[gone].key} |-> index[q]]

PopFront ==
  /\ nodes # <<>>
  /\ nodes' = Tail(nodes)
  /\ index' = Forget(Head(nodes), Tail(nodes))
  /\ recent' = SubSeq(recent, 2, Len(recent))
  /\ UNCHANGED <<node, twice>>

PopBack ==
  /\ nodes # <<>>
  /\ nodes' = Front(nodes)
  /\ index' = Forget(Last(nodes), Front(nodes))
  /\ recent' = SubSeq(recent, 1, Len(recent) - 1)
  /\ UNCHANGED <<node, twice>>

\* resize(new_size) asserts that it does not grow, and calls pop_back.
Resize(new) ==
  /\ new \in 0 .. Len(nodes)
  /\ nodes' = SubSeq(nodes, 1, new)
  /\ LET gone == {node[nodes[i]].key : i \in new + 1 .. Len(nodes)}
     IN index' = [q \in DOMAIN index \ gone |-> index[q]]
  /\ recent' = IF new < Len(recent) THEN SubSeq(recent, 1, new) ELSE recent
  /\ UNCHANGED <<node, twice>>

Clear ==
  /\ nodes' = <<>> /\ index' = [k \in {} |-> 0]
  /\ recent' = <<>> /\ twice' = {}
  /\ node' = node

Next ==
  \/ \E k \in Keys : Touch(k) \/ \E d \in Data : Insert(k, d)
  \/ PopFront \/ PopBack \/ Clear
  \/ \E new \in 0 .. MaxNodes : Resize(new)

-----------------------------------------------------------------------------

\* The index never leads to a node that is gone, or to one of another key, even if a
\* key was inserted twice; if none was, list and index are the documented container:
\* every key once, by recency, with its data.
LruExact ==
  /\ \A k \in DOMAIN index : Contains(nodes, index[k]) /\ node[index[k]].key = k
  /\ twice = {} => /\ [i \in DOMAIN nodes |-> node[nodes[i]]] = recent
                   /\ DOMAIN index = {recent[i].key : i \in DOMAIN recent}

=============================================================================
