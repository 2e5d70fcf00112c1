-------------------------- MODULE RemoteIndexLists --------------------------
(***************************************************************************)
(* What RemoteIndices (remoteindices.hh) computes from a received message  *)
(* and its own index sets: unpackCreateRemote and the two unpackIndices,   *)
(* and the interface InterfaceBuilder (interface.hh) derives from a list.  *)
(* An index set is a sequence of pairs sorted by global index and          *)
(* attribute; a RemoteIndex is the attribute on the remote process and the *)
(* local pair.                                                             *)
(***************************************************************************)
EXTENDS Integers, Sequences, FiniteSets, SequencesExt

\* The content of memory that is not a pair of the array.
Garbage == [global |-> -1, attribute |-> -1, local |-> -1, public |-> FALSE]

RemoteIndex(attribute, pair) == [attribute |-> attribute, pair |-> pair]

\* packEntries<ignorePublic>: the pairs that are published, in order.
PackEntries(set, ignorePublic) ==
  LET Published(pair) == ignorePublic \/ pair.public IN SelectSeq(set, Published)

\* Mutant: the local run is never started again.
RunNotRestarted(received, n, l, m) == m

\* Where the comparison goes on after received[n], whose local run is from l to
\* m - 1: at its start again if the next entry has the same global index.
AfterRun(received, n, l, m) ==
  IF n < Len(received) /\ received[n + 1].global = received[n].global THEN l ELSE m

\* The RemoteIndex of a received entry with a local pair of its global index; an
\* entry of our own is not paired with the pair of its own attribute.
PairWith(index, pair, fromOurSelf) ==
  IF fromOurSelf /\ index.attribute = pair.attribute THEN <<>>
  ELSE <<RemoteIndex(index.attribute, pair)>>

\* unpackIndices for one list: a merge of the two sorted sequences that pairs
\* every received entry with every local pair of the same global index.
\* from[<<n, l, m>>] is what is still to be added when received[n] is compared with
\* local[m], and the local run of its global index starts at l.
UnpackIndices(received, local, fromOurSelf) ==
  LET from[at \in (1 .. Len(received) + 1) \X (1 .. Len(local) + 1) \X (1 .. Len(local) + 1)] ==
        LET n == at[1]
            l == at[2]
            m == at[3]
            next == AfterRun(received, n, l, m)
        IN IF n > Len(received) THEN <<>>
           ELSE IF m <= Len(local) /\ local[m].global = received[n].global
             THEN PairWith(received[n], local[m], fromOurSelf) \o from[<<n, l, m + 1>>]
           ELSE IF m <= Len(local) /\ local[m].global < received[n].global
             THEN from[<<n, m + 1, m + 1>>]
           ELSE from[<<n + 1, next, next>>]
  IN from[<<1, 1, 1>>]

\* The first pair whose global index is not smaller, or one past the end.
LowerBound(local, global) ==
  Cardinality({i \in DOMAIN local : local[i].global < global}) + 1

\* unpackIndices for both lists at once: of each received entry the first local
\* source and destination pair.  The receive list takes its pair from the
\* destination array at the position found in the SOURCE array.
UnpackIndicesTwo(received, source, dest) ==
  LET Known(local) == SelectSeq(received, LAMBDA index :
        \E i \in DOMAIN local : local[i].global = index.global)
      At(local, i) == IF i \in DOMAIN local THEN local[i] ELSE Garbage
  IN [send    |-> [n \in DOMAIN Known(source) |->
                     LET index == Known(source)[n]
                     IN RemoteIndex(index.attribute, source[LowerBound(source, index.global)])],
      receive |-> [n \in DOMAIN Known(dest) |->
                     LET index == Known(dest)[n]
                     IN RemoteIndex(index.attribute, At(dest, LowerBound(source, index.global)))]]

\* unpackCreateRemote: from a message [two, source, dest] and the pairs this
\* process publishes of its own source and destination index sets.
UnpackCreateRemote(message, source, dest, sendTwo, fromOurSelf) ==
  IF ~message.two
    THEN IF sendTwo
      THEN UnpackIndicesTwo(message.source, source, dest)
      ELSE LET list == UnpackIndices(message.source, source, fromOurSelf)
           IN [send |-> list, receive |-> list]
    ELSE LET entries == message.source \o message.dest
             forSend == IF sendTwo THEN message.dest
                        ELSE SubSeq(entries, 1, Len(message.dest))
         IN [receive |-> UnpackIndices(message.source, dest, fromOurSelf),
             send    |-> UnpackIndices(forSend, source, fromOurSelf)]

\* The members of s at the positions, in order.
Subsequence(s, positions) ==
  LET upto[i \in 0 .. Len(s)] ==
        IF i = 0 THEN <<>>
        ELSE IF i \in positions THEN Append(upto[i - 1], s[i]) ELSE upto[i - 1]
  IN upto[Len(s)]

\* The entries of a list from local pairs with an attribute in localFlags to
\* remote ones with an attribute in remoteFlags.
Selected(list, localFlags, remoteFlags) ==
  Subsequence(list, {i \in DOMAIN list : /\ list[i].pair.attribute \in localFlags
                                         /\ list[i].attribute \in remoteFlags})

\* Mutant: the flags are mixed up.
SendInterfaceSwapped(list, sourceFlags, destFlags) == Selected(list, destFlags, sourceFlags)

\* buildInterface: the entries of a send list from attributes in sourceFlags
\* to attributes in destFlags, and of a receive list the other way round.
SendInterface(list, sourceFlags, destFlags) == Selected(list, sourceFlags, destFlags)

ReceiveInterface(list, sourceFlags, destFlags) == Selected(list, destFlags, sourceFlags)

\* The order of an index set, and of the pairs that are published of one.
Pair == [global : Int, attribute : Int, local : Int, public : BOOLEAN]
Before(a, b) == a.global < b.global \/ (a.global = b.global /\ a.attribute < b.attribute)
Ascending(set) == set \in Seq(Pair) /\ \A i, j \in DOMAIN set : i < j => Before(set[i], set[j])

=============================================================================
