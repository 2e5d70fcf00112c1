---------------------------- MODULE IndicesSyncer ----------------------------
(***************************************************************************)
(* Dune::IndicesSyncer (dune/common/parallel/indicessyncer.hh) on all      *)
(* ranks: in sync() every process tells each neighbour what it knows of    *)
(* the indices they share, and adds what it is told to its index set and   *)
(* to its lists of remote indices, where new neighbours may turn up.       *)
(*                                                                         *)
(* A process has one attribute for a global index, and everything listed   *)
(* is true of the process it is listed for.  Sequence numbers, buffer      *)
(* sizes and the local numbers of the new pairs are left out.              *)
(***************************************************************************)
EXTENDS Integers, FiniteSets, SequencesExt

CONSTANTS
  procs,     \* MPI_Comm_size
  Scenarios  \* the executions considered, see Scenario

Rank == 0 .. procs - 1

IndexPair == [global : Int, attribute : Int]
RemoteIndex == [global : Int, mine : Int, theirs : Int]

\* What remoteIndices_ of r may be.
RemoteLists(r, map) ==
  DOMAIN map \subseteq Rank \ {r} /\ map \in [DOMAIN map -> Seq(RemoteIndex)]

\* How often sync() is called, with useFixedOrder or not and of one syncer object or
\* a new one each time; the index sets and the lists of remote indices before.
Scenario(s) ==
  /\ s.rounds \in Nat /\ s.fixedOrder \in BOOLEAN /\ s.sameSyncer \in BOOLEAN
  /\ s.indexSet \in [Rank -> Seq(IndexPair)]
  /\ DOMAIN s.lists = Rank /\ \A r \in Rank : RemoteLists(r, s.lists[r])
  \* Neighbours name each other, if only with an empty list.
  /\ \A r, q \in Rank : q \in DOMAIN s.lists[r] <=> r \in DOMAIN s.lists[q]

\* What is said of the attributes of the processes: by their own pairs and by the others.
Claims(s) ==
  (UNION {{<<r, pair.global, pair.attribute>> : pair \in ToSet(s.indexSet[r])} : r \in Rank})
    \cup (UNION {UNION {{<<q, e.global, e.theirs>> : e \in ToSet(s.lists[r][q])} :
                          q \in DOMAIN s.lists[r]} : r \in Rank})

\* A process has one attribute for an index, and whoever lists another process for an
\* index has it; the lists are sorted.
Truthful(s) ==
  /\ \A c, d \in Claims(s) : c[1] = d[1] /\ c[2] = d[2] => c[3] = d[3]
  /\ \A r \in Rank : \A q \in DOMAIN s.lists[r] :
       LET list == s.lists[r][q]
       IN /\ \A i, j \in 1 .. Len(list) : i < j => list[i].global <= list[j].global
          /\ \A e \in ToSet(list) :
               [global |-> e.global, attribute |-> e.mine] \in ToSet(s.indexSet[r])

\* The messages of two syncs cannot be taken for each other.
Orderly(s) == s.fixedOrder \/ s.rounds <= 1

ASSUME IndicesSyncerAssumption == procs \in Nat \ {0} /\ \A s \in Scenarios : Scenario(s)

VARIABLES
  scenario,   \* the execution
  round,      \* the number of sync() calls a rank has entered
  pc,         \* "user", "syncing", or "undefined" after a read beyond the data
  indexSet,   \* indexSet_: the pairs in order
  newIndices, \* the pairs added since beginResize
  lists,      \* remoteIndices_: a neighbour to its list, in order
  infoSend,   \* infoSend_: a neighbour to the number of published indices
  expected,   \* those of oldNeighbours that recvAndUnpack is still to be called for
  sent,       \* messages of unmatched MPI_Issends, by destination
  before      \* history: index set and lists at the start of every round

vars == <<scenario, round, pc, indexSet, newIndices, lists, infoSend, expected, sent, before>>

-----------------------------------------------------------------------------

Nothing == [d \in {} |-> <<>>]

PairLess(a, b) == a.global < b.global \/ (a.global = b.global /\ a.attribute < b.attribute)
Pair(entry) == [global |-> entry.global, attribute |-> entry.mine]

\* The first position of a list whose entry is not among those skipped, its length
\* plus one if there is none: how far the sorted lists' iterators are advanced.
FirstFrom(list, skipped) ==
  LET upto == {i \in 1 .. Len(list) : list[i] \notin skipped}
  IN IF upto = {} THEN Len(list) + 1 ELSE Min(upto)

\* The members of a sequence at some of its positions, in order.
Subsequence(s, positions) ==
  LET upto[i \in 0 .. Len(s)] ==
        IF i = 0 THEN <<>>
        ELSE IF i \in positions THEN Append(upto[i - 1], s[i]) ELSE upto[i - 1]
  IN upto[Len(s)]

PairsBelow(list, pair) == {e \in ToSet(list) : PairLess(Pair(e), pair)}
GlobalsBelow(list, global) == {e \in ToSet(list) : e.global < global}

\* The neighbours CollectiveIterator stops at for a local pair, and those the
\* iterators of packAndSend stop at.
CountedFor(r, pair) ==
  {q \in DOMAIN lists[r] : LET i == FirstFrom(lists[r][q], PairsBelow(lists[r][q], pair))
                           IN i <= Len(lists[r][q]) /\ Pair(lists[r][q][i]) = pair}
KnownBy(r, global) ==
  {q \in DOMAIN lists[r] : LET i == FirstFrom(lists[r][q], GlobalsBelow(lists[r][q], global))
                           IN i <= Len(lists[r][q]) /\ lists[r][q][i].global = global}

\* Mutant: the counts of an earlier sync() are always kept.
CarriedAlways(r, d) == IF d \in DOMAIN infoSend[r] THEN infoSend[r][d] ELSE 0

\* infoSend_ is a member that is never cleared.
Carried(r, d) ==
  IF scenario.sameSyncer /\ d \in DOMAIN infoSend[r] THEN infoSend[r][d] ELSE 0
Publish(r, d) ==
  Carried(r, d) + Cardinality({i \in DOMAIN indexSet[r] : d \in CountedFor(r, indexSet[r][i])})

\* The message of packAndSend: what r knows of every index that d has too.
Message(r, d) ==
  LET shared == Subsequence(indexSet[r], {i \in DOMAIN indexSet[r] :
                                            d \in KnownBy(r, indexSet[r][i].global)})
      first(q, g) == lists[r][q][FirstFrom(lists[r][q], GlobalsBelow(lists[r][q], g))]
      entry(pair) ==
        [global |-> pair.global, attribute |-> pair.attribute,
         pairs |-> {<<q, first(q, pair.global).theirs>> : q \in KnownBy(r, pair.global)}]
  IN [round |-> round[r] + 1, publish |-> Publish(r, d),
      entries |-> [i \in DOMAIN shared |-> entry(shared[i])]]

-----------------------------------------------------------------------------
\* What recvAndUnpack does with a published entry.

\* Mutant: nobody looks whether the entry is there.
InsertAnyway(list, new) == InsertAt(list, FirstFrom(list, PairsBelow(list, Pair(new))), new)

\* insertIntoRemoteIndexList: an entry is taken to be there already if the local
\* attribute of its pair is the remote attribute looked for.
InsertIntoRemoteIndexList(list, new) ==
  LET i == FirstFrom(list, PairsBelow(list, Pair(new)))
      there == i <= Len(list) /\ Pair(list[i]) = Pair(new) /\ new.mine = new.theirs
  IN IF there THEN list ELSE InsertAt(list, i, new)

\* Mutants: the sender is not entered itself; what it knows of others is ignored.
SourceAttributesNoSource(r, source, entry) == {p \in entry.pairs : p[1] # r}
SourceAttributesOnlySource(r, source, entry) == {<<source, entry.attribute>>}

SourceAttributes(r, source, entry) ==
  {<<source, entry.attribute>>} \cup {p \in entry.pairs : p[1] # r}

MyAttribute(r, entry) == (CHOOSE p \in entry.pairs : p[1] = r)[2]

\* The pairs added to the index set; while it is resized the lookups do not see them.
NewPairs(r, entries) ==
  LET told == [i \in DOMAIN entries |->
                 [global |-> entries[i].global, attribute |-> MyAttribute(r, entries[i])]]
  IN Subsequence(told, {i \in DOMAIN told : ~Contains(indexSet[r], told[i])})

\* The entries for process q that a message from source holds, in its order.
EntriesFor(r, source, q, entries) ==
  LET about == Subsequence(entries, {i \in DOMAIN entries :
                                       \E p \in SourceAttributes(r, source, entries[i]) : p[1] = q})
      theirs(e) == (CHOOSE p \in SourceAttributes(r, source, e) : p[1] = q)[2]
  IN [i \in DOMAIN about |-> [global |-> about[i].global, mine |-> MyAttribute(r, about[i]),
                              theirs |-> theirs(about[i])]]

InsertAll(list, new) ==
  LET upto[i \in 0 .. Len(new)] ==
        IF i = 0 THEN list ELSE InsertIntoRemoteIndexList(upto[i - 1], new[i])
  IN upto[Len(new)]

\* The lists with those entries inserted, new neighbours' lists included.
UnpackInto(r, source, entries) ==
  LET named == {q \in Rank : EntriesFor(r, source, q, entries) # <<>>}
      old(q) == IF q \in DOMAIN lists[r] THEN lists[r][q] ELSE <<>>
  IN [q \in DOMAIN lists[r] \cup named |->
        InsertAll(old(q), EntriesFor(r, source, q, entries))]

-----------------------------------------------------------------------------
\* repairLocalIndexPointers walks through index set and list at the same time.

\* The position of pair found from position i on, or zero: the walk reads what lies
\* behind the last pair.
FoundFrom(set, i, pair) ==
  LET same == {j \in DOMAIN set : set[j] = pair}
      ahead == {j \in same : j >= i}
      wraps == \E k \in DOMAIN set : k > i /\ set[k].global > pair.global
  IN IF ahead # {} THEN Min(ahead) ELSE IF wraps /\ same # {} THEN Min(same) ELSE 0

Repairable(set, list) ==
  LET next[k \in 0 .. Len(list)] ==
        IF k = 0 THEN 1
        ELSE LET j == IF next[k - 1] = 0 THEN 0 ELSE FoundFrom(set, next[k - 1], Pair(list[k]))
             IN IF j = 0 THEN 0 ELSE j + 1
  IN next[Len(list)] # 0

\* endResize: the added pairs are sorted into the index set.
Merge(set, new) ==
  LET upto[i \in 0 .. Len(new)] ==
        IF i = 0 THEN set
        ELSE InsertAt(upto[i - 1], FirstFrom(upto[i - 1], {p \in ToSet(upto[i - 1]) :
                                                            ~PairLess(new[i], p)}), new[i])
  IN upto[Len(new)]

-----------------------------------------------------------------------------

Init ==
  /\ scenario \in Scenarios
  /\ round = [r \in Rank |-> 0]
  /\ pc = [r \in Rank |-> "user"]
  /\ indexSet = scenario.indexSet
  /\ newIndices = [r \in Rank |-> <<>>]
  /\ lists = scenario.lists
  /\ infoSend = [r \in Rank |-> Nothing]
  /\ expected = [r \in Rank |-> {}]
  /\ sent = [r \in Rank |-> Nothing]
  /\ before = [r \in Rank |-> <<>>]

MayStart(r) == pc[r] = "user" /\ round[r] < scenario.rounds

\* sync() up to the first recvAndUnpack: sizes, beginResize and all the MPI_Issends.
StartSync(r) ==
  LET neighbours == DOMAIN lists[r]
  IN /\ MayStart(r)
     /\ round' = [round EXCEPT ![r] = @ + 1]
     /\ pc' = [pc EXCEPT ![r] = "syncing"]
     /\ infoSend' = [infoSend EXCEPT ![r] = [d \in neighbours |-> Publish(r, d)]]
     /\ sent' = [sent EXCEPT ![r] = [d \in neighbours |-> Message(r, d)]]
     /\ expected' = [expected EXCEPT ![r] = neighbours]
     /\ before' = [before EXCEPT ![r] = Append(@, [set |-> indexSet[r], lists |-> lists[r]])]
     /\ UNCHANGED <<scenario, indexSet, newIndices, lists>>

\* Mutant: MPI_ANY_SOURCE although the order is to be fixed.
MayReceiveAny(r, source) ==
  pc[r] = "syncing" /\ expected[r] # {} /\ r \in DOMAIN sent[source]

\* What MPI_Probe finds: a message of any source, or of the next old neighbour.
MayReceive(r, source) ==
  /\ pc[r] = "syncing" /\ expected[r] # {}
  /\ r \in DOMAIN sent[source]
  /\ scenario.fixedOrder => source = Min(expected[r])

\* recvAndUnpack, called for the old neighbours in order.  A header that counts more
\* entries than were packed makes it read beyond the message.
RecvAndUnpack(r, source) ==
  /\ MayReceive(r, source)
  /\ LET message == sent[source][r]
     IN /\ newIndices' = [newIndices EXCEPT ![r] = @ \o NewPairs(r, message.entries)]
        /\ lists' = [lists EXCEPT ![r] = UnpackInto(r, source, message.entries)]
        /\ pc' = [pc EXCEPT ![r] = IF message.publish = Len(message.entries) THEN @
                                   ELSE "undefined"]
  /\ sent' = [sent EXCEPT ![source] = [d \in DOMAIN @ \ {r} |-> @[d]]]
  /\ expected' = [expected EXCEPT ![r] = @ \ {Min(@)}]
  /\ UNCHANGED <<scenario, round, indexSet, infoSend, before>>

MayFinish(r) == pc[r] = "syncing" /\ expected[r] = {} /\ sent[r] = Nothing

\* MPI_Waitall returns; endResize and the repair of the pointers end the call.
FinishSync(r) ==
  LET merged == Merge(indexSet[r], newIndices[r])
  IN /\ MayFinish(r)
     /\ indexSet' = [indexSet EXCEPT ![r] = merged]
     /\ newIndices' = [newIndices EXCEPT ![r] = <<>>]
     /\ pc' = [pc EXCEPT ![r] =
                 IF \A q \in DOMAIN lists[r] : Repairable(merged, lists[r][q])
                 THEN "user" ELSE "undefined"]
     /\ UNCHANGED <<scenario, round, lists, infoSend, expected, sent, before>>

Step(r) == StartSync(r) \/ FinishSync(r) \/ \E source \in Rank : RecvAndUnpack(r, source)

Next == \E r \in Rank : Step(r)

Spec == Init /\ [][Next]_vars

-----------------------------------------------------------------------------
\* Properties.

Listed(map, q) == IF q \in DOMAIN map THEN ToSet(map[q]) ELSE {}

\* What a process p with the lists map can tell r of the indices it lists r for: that r
\* has them, and that p itself has them and whoever else p lists for them.
PairsTold(map, r) == {[global |-> e.global, attribute |-> e.theirs] : e \in Listed(map, r)}
EntriesTold(p, map, r, q) ==
  IF q = p
  THEN {[global |-> e.global, mine |-> e.theirs, theirs |-> e.mine] : e \in Listed(map, r)}
  ELSE {[global |-> both[1].global, mine |-> both[1].theirs, theirs |-> both[2].theirs] :
          both \in {b \in Listed(map, r) \X Listed(map, q) : b[1].global = b[2].global}}

\* What r knows when those in heard have told it, in the round numbered k, what they
\* knew when they came to it.
PairsAfter(r, k, heard) ==
  ToSet(before[r][k].set) \cup UNION {PairsTold(before[p][k].lists, r) : p \in heard}
EntriesAfter(r, k, q, heard) ==
  Listed(before[r][k].lists, q)
    \cup UNION {EntriesTold(p, before[p][k].lists, r, q) : p \in heard}

Finished(r) == pc[r] = "user" /\ round[r] > 0

\* A finished sync has added every index and every remote index its neighbours could
\* tell of, and nothing else, whatever the order of the messages (how often a pair
\* is there is another matter).
SyncExact ==
  \A r \in Rank : Finished(r) =>
    LET near == DOMAIN before[r][round[r]].lists
    IN /\ ToSet(indexSet[r]) = PairsAfter(r, round[r], near)
       /\ DOMAIN lists[r]
            = near \cup {q \in Rank \ {r} : EntriesAfter(r, round[r], q, near) # {}}
       /\ \A q \in DOMAIN lists[r] :
            ToSet(lists[r][q]) = EntriesAfter(r, round[r], q, near)

\* Two processes that have finished the same sync list each other for the same
\* indices with the same attributes, and have them, also if they did not know of each
\* other before: what the next sync and any interface built from the lists rely on.
MutualAfterSync ==
  \A r, q \in Rank : Finished(r) /\ Finished(q) /\ round[r] = round[q] =>
    /\ q \in DOMAIN lists[r] <=> r \in DOMAIN lists[q]
    /\ q \in DOMAIN lists[r] => \A e \in ToSet(lists[r][q]) :
         /\ Contains(indexSet[r], Pair(e))
         /\ Contains(indexSet[q], [global |-> e.global, attribute |-> e.theirs])
         /\ Contains(lists[q][r], [global |-> e.global, mine |-> e.theirs, theirs |-> e.mine])

\* No message of a process that is already in its next sync is taken for one of this
\* sync: they have one tag, and nothing but the order of the receives tells them apart.
RoundsApart ==
  \A r, source \in Rank :
    MayReceive(r, source) => sent[source][r].round = round[r]

\* The lists can be pointed to the merged index set: the walk finds every pair.
PointersRepaired == \A r \in Rank : pc[r] # "undefined"

-----------------------------------------------------------------------------
\* The executions in which that is so.

InOrder(list) == \A i, j \in 1 .. Len(list) : i < j => list[i].global < list[j].global

\* The entries for q that r can be told of by p in the first sync, or has itself.
Tells(s, p, r, q) ==
  IF p = r THEN Listed(s.lists[r], q) ELSE EntriesTold(p, s.lists[p], r, q)

\* No entry with two attributes is inserted where it is already.
NoneTwice(s) ==
  \/ \A c, d \in Claims(s) : c[2] = d[2] => c[3] = d[3]
  \/ /\ s.rounds = 1
     /\ \A r, q, p, t \in Rank : r # q => \A e \in Tells(s, p, r, q) \cap Tells(s, t, r, q) :
          e.mine # e.theirs => p = t

\* Every sync is one of a new syncer, and the sets and lists name an index once.
Plain(s) ==
  /\ s.rounds > 0 /\ (s.sameSyncer => s.rounds = 1)
  /\ \A r \in Rank : /\ InOrder(s.indexSet[r])
                     /\ \A q \in DOMAIN s.lists[r] : InOrder(s.lists[r][q])
  /\ NoneTwice(s)

=============================================================================
