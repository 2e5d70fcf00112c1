---------------------------- MODULE RemoteIndices ----------------------------
(***************************************************************************)
(* Dune::RemoteIndices (dune/common/parallel/remoteindices.hh) on all      *)
(* ranks of a communicator: rebuild() decides locally whether the lists    *)
(* are out of date, then all processes meet in an MPI_Allreduce and        *)
(* exchange their published indices, in a ring or, with a list of          *)
(* neighbours, by synchronous sends that are received in any order.  The   *)
(* user code around it is a sequence of rebuilds and resizes.              *)
(***************************************************************************)
EXTENDS RemoteIndexLists

CONSTANTS
  procs,     \* MPI_Comm_size
  Scenarios  \* the executions considered, see Scenario

Rank == 0 .. procs - 1

\* What the processes do, their arguments to the class and their index sets; a
\* "resize" takes the sets of the ranks in resizers to their next content.
Scenario(s) ==
  /\ s.program \in Seq([op : {"resize", "rebuild"}, ignorePublic : BOOLEAN])
  /\ s.neighbours \in [Rank -> SUBSET Rank]  \* setNeighbours
  /\ s.includeSelf \in BOOLEAN               \* setIncludeSelf
  /\ s.two \subseteq Rank                    \* the ranks with source_ # target_
  /\ s.resizers \subseteq Rank
  /\ \A r \in Rank : Len(s.sets[r].source) >= 1 /\ Len(s.sets[r].target) >= 1

ASSUME RemoteIndicesAssumption == procs \in Nat \ {0} /\ \A s \in Scenarios : Scenario(s)

NoData == [from |-> -1]  \* a buffer nobody has written to
NoLists == [r \in {} |-> <<>>]

VARIABLES
  scenario,       \* the execution
  seqNo,          \* seqNo() of a rank's index sets, the content's number
  step,           \* the next step of Program
  pc,             \* "user", or where rebuild() blocks or is about to return
  synced,         \* sourceSeqNo_ and destSeqNo_, -1 at first
  firstBuild,     \* firstBuild
  publicIgnored,  \* publicIgnored
  neighbourIds,   \* neighbourIds
  remoteIndices,  \* remoteIndices_: a rank to its [send, receive] lists
  entered,        \* how often a rank has entered the MPI_Allreduce
  proc,           \* the ring's iteration
  buffer,         \* buffer[0] and buffer[1]
  pending,        \* destinations of synchronous sends not matched yet
  received,       \* messages received in the neighbours' exchange
  heard           \* history: rank a ring message was attributed to, its origin

object == <<synced, firstBuild, publicIgnored>>
vars == <<scenario, seqNo, step, pc, object, neighbourIds, remoteIndices,
          entered, proc, buffer, pending, received, heard>>

-----------------------------------------------------------------------------

Succ(r) == (r + 1) % procs
Pred(r) == (r + procs - 1) % procs
In(r) == proc[r] % 2         \* index of p_in

\* Mutants: the two buffers are never swapped; the ring is not closed.
OutNotSwapped(r) == 0
RemoteProcNotWrapped(r) == r - proc[r]

Even(r) == r % 2 = 0
Out(r) == 1 - (proc[r] % 2)  \* index of p_out
RemoteProc(r) == (r + procs - proc[r]) % procs

Program == scenario.program
IncludeSelf == scenario.includeSelf
SendTwo(r) == r \in scenario.two
Source(r) == scenario.sets[r].source[seqNo[r].source]
Target(r) == IF SendTwo(r) THEN scenario.sets[r].target[seqNo[r].target] ELSE Source(r)
SeqNos(r) == [source |-> seqNo[r].source,
              dest   |-> IF SendTwo(r) THEN seqNo[r].target ELSE seqNo[r].source]
IgnorePublic(r) == Program[step[r]].ignorePublic

\* What is packed into buffer[0]; from stands for the envelope and is not read
\* by the exchange in the ring.
Message(r) ==
  [from |-> r, two |-> SendTwo(r), source |-> PackEntries(Source(r), IgnorePublic(r)),
   dest |-> IF SendTwo(r) THEN PackEntries(Target(r), IgnorePublic(r)) ELSE <<>>]

\* remoteIndices_ of r after unpackCreateRemote: nothing is inserted if both
\* lists are empty, and std::map::insert keeps an entry that is there.  With one
\* index set destPairs is sourcePairs, but destPublish is 0.
Unpack(r, map, message, remoteProc, fromOurSelf) ==
  LET sourcePairs == PackEntries(Source(r), IgnorePublic(r))
      destPairs == IF SendTwo(r) THEN PackEntries(Target(r), IgnorePublic(r)) ELSE <<>>
      lists == UnpackCreateRemote(message, sourcePairs, destPairs, SendTwo(r), fromOurSelf)
  IN IF lists.send = <<>> /\ lists.receive = <<>> THEN map
     ELSE [q \in DOMAIN map \cup {remoteProc} |-> IF q \in DOMAIN map THEN map[q] ELSE lists]

\* The message s has posted for r, whichever way s exchanges.
Posted(s, r) == r \in pending[s]
Payload(s) == IF neighbourIds[s] = {} THEN buffer[s][Out(s)] ELSE buffer[s][0]

-----------------------------------------------------------------------------

Init ==
  /\ scenario \in Scenarios
  /\ seqNo = [r \in Rank |-> [source |-> 1, target |-> 1]]
  /\ step = [r \in Rank |-> 1] /\ pc = [r \in Rank |-> "user"]
  /\ synced = [r \in Rank |-> [source |-> -1, dest |-> -1]]
  /\ firstBuild = [r \in Rank |-> TRUE] /\ publicIgnored = [r \in Rank |-> FALSE]
  /\ neighbourIds = scenario.neighbours
  /\ remoteIndices = [r \in Rank |-> NoLists]
  /\ entered = [r \in Rank |-> 0]
  /\ proc = [r \in Rank |-> 1]
  /\ buffer = [r \in Rank |-> [i \in {0, 1} |-> NoData]]
  /\ pending = [r \in Rank |-> {}]
  /\ received = [r \in Rank |-> 0]
  /\ heard = [r \in Rank |-> {}]

AtCall(r, op) == pc[r] = "user" /\ step[r] \in DOMAIN Program /\ Program[step[r]].op = op

\* beginResize(), changes and endResize() of the rank's index sets.
Resize(r) ==
  /\ AtCall(r, "resize")
  /\ step' = [step EXCEPT ![r] = @ + 1]
  /\ seqNo' = IF r \in scenario.resizers
              THEN [seqNo EXCEPT ![r] = [source |-> @.source + 1, target |-> @.target + 1]]
              ELSE seqNo
  /\ UNCHANGED <<scenario, pc, object, neighbourIds, remoteIndices, entered, proc,
                 buffer, pending, received, heard>>

IsSynced(r) == synced[r] = SeqNos(r)
NeedsRebuild(r) == firstBuild[r] \/ IgnorePublic(r) # publicIgnored[r] \/ ~IsSynced(r)

\* rebuild() finds the lists up to date.
RebuildSkips(r) ==
  /\ AtCall(r, "rebuild") /\ ~NeedsRebuild(r)
  /\ step' = [step EXCEPT ![r] = @ + 1]
  /\ UNCHANGED <<scenario, seqNo, pc, object, neighbourIds, remoteIndices, entered,
                 proc, buffer, pending, received, heard>>

\* buildRemote has something to communicate.
Communicates(r) == procs > 1 \/ SendTwo(r) \/ IncludeSelf

\* rebuild() frees the lists and blocks in the MPI_Allreduce of buildRemote.
RebuildStarts(r) ==
  /\ AtCall(r, "rebuild") /\ NeedsRebuild(r)
  /\ remoteIndices' = [remoteIndices EXCEPT ![r] = NoLists]
  /\ firstBuild' = [firstBuild EXCEPT ![r] = TRUE]
  /\ pc' = [pc EXCEPT ![r] = IF Communicates(r) THEN "reduce" ELSE "return"]
  /\ entered' = [entered EXCEPT ![r] = IF Communicates(r) THEN @ + 1 ELSE @]
  /\ UNCHANGED <<scenario, seqNo, step, synced, publicIgnored, neighbourIds, proc,
                 buffer, pending, received, heard>>

\* Mutant: nobody waits for the others.
ReduceNotWaiting(r) == TRUE

\* The MPI_Allreduce returns once everybody is in it.
ReduceComplete(r) == \A s \in Rank : entered[s] >= entered[r]

\* Then the indices are packed, and matched with our own if that is asked for;
\* our own rank is no neighbour.
ReduceReturns(r) ==
  /\ pc[r] = "reduce"
  /\ ReduceComplete(r)
  /\ neighbourIds' = [neighbourIds EXCEPT ![r] = @ \ {r}]
  /\ buffer' = [buffer EXCEPT ![r] = [i \in {0, 1} |-> IF i = 0 THEN Message(r) ELSE NoData]]
  /\ remoteIndices' = IF SendTwo(r) \/ IncludeSelf
       THEN [remoteIndices EXCEPT ![r] = Unpack(r, @, Message(r), r, IncludeSelf)]
       ELSE remoteIndices

\* neighbourIds is empty: the first iteration of the ring begins, if any.
StartRing(r) ==
  /\ ReduceReturns(r)
  /\ neighbourIds'[r] = {}
  /\ proc' = [proc EXCEPT ![r] = 1]
  /\ pc' = [pc EXCEPT ![r] = IF procs = 1 THEN "return" ELSE IF Even(r) THEN "ssend" ELSE "recv"]
  /\ pending' = [pending EXCEPT ![r] = IF procs > 1 /\ Even(r) THEN {Succ(r)} ELSE {}]
  /\ heard' = [heard EXCEPT ![r] = {}]
  /\ UNCHANGED <<scenario, seqNo, step, object, entered, received>>

\* An MPI_Issend to every neighbour.
StartNeighbours(r) ==
  /\ ReduceReturns(r)
  /\ neighbourIds'[r] # {}
  /\ pc' = [pc EXCEPT ![r] = "probe"]
  /\ pending' = [pending EXCEPT ![r] = neighbourIds'[r]]
  /\ received' = [received EXCEPT ![r] = 0]
  /\ UNCHANGED <<scenario, seqNo, step, object, entered, proc, heard>>

-----------------------------------------------------------------------------
\* The ring.  An iteration ends with the unpacking of p_in.

EndIteration(r, message) ==
  /\ remoteIndices' = [remoteIndices EXCEPT ![r] =
                         Unpack(r, @, message, RemoteProc(r), FALSE)]
  /\ heard' = [heard EXCEPT ![r] = @ \cup {<<RemoteProc(r), message.from>>}]
  /\ proc' = [proc EXCEPT ![r] = @ + 1]

AfterIteration(r, first) == IF proc[r] + 1 < procs THEN first ELSE "return"

EvenSendReturns(r) ==
  /\ pc[r] = "ssend" /\ Even(r) /\ ~Posted(r, Succ(r))
  /\ pc' = [pc EXCEPT ![r] = "recv"]
  /\ UNCHANGED <<scenario, seqNo, step, object, neighbourIds, remoteIndices, entered,
                 proc, buffer, pending, received, heard>>

OddSendReturns(r) ==
  /\ pc[r] = "ssend" /\ ~Even(r) /\ ~Posted(r, Succ(r))
  /\ EndIteration(r, buffer[r][In(r)])
  /\ pc' = [pc EXCEPT ![r] = AfterIteration(r, "recv")]
  /\ UNCHANGED <<scenario, seqNo, step, object, neighbourIds, entered, buffer,
                 pending, received>>

\* MPI_Recv from the predecessor into p_in.
ReceiveFromPred(r) ==
  /\ pc[r] = "recv"
  /\ Posted(Pred(r), r)
  /\ buffer' = [buffer EXCEPT ![r][In(r)] = Payload(Pred(r))]

EvenReceives(r) ==
  /\ Even(r) /\ ReceiveFromPred(r)
  /\ EndIteration(r, Payload(Pred(r)))
  /\ pc' = [pc EXCEPT ![r] = AfterIteration(r, "ssend")]
  /\ pending' = [pending EXCEPT ![Pred(r)] = @ \ {r},
                                ![r] = IF proc[r] + 1 < procs THEN {Succ(r)} ELSE {}]
  /\ UNCHANGED <<scenario, seqNo, step, object, neighbourIds, entered, received>>

OddReceives(r) ==
  /\ ~Even(r) /\ ReceiveFromPred(r)
  /\ pending' = [pending EXCEPT ![Pred(r)] = @ \ {r}, ![r] = {Succ(r)}]
  /\ pc' = [pc EXCEPT ![r] = "ssend"]
  /\ UNCHANGED <<scenario, seqNo, step, object, neighbourIds, remoteIndices, entered,
                 proc, received, heard>>

-----------------------------------------------------------------------------
\* The exchange with the neighbours.

\* Mutant: this rank counts as one of its neighbours.
NoNeighboursWithSelf(r) == Cardinality(neighbourIds[r] \cup {r})

NoNeighbours(r) == Cardinality(neighbourIds[r])

\* MPI_Probe of any source, and MPI_Recv of the message it found.
ProbeAndReceive(r, s) ==
  /\ pc[r] = "probe"
  /\ received[r] < NoNeighbours(r)
  /\ Posted(s, r)
  /\ pending' = [pending EXCEPT ![s] = @ \ {r}]
  /\ received' = [received EXCEPT ![r] = @ + 1]
  /\ buffer' = [buffer EXCEPT ![r][1] = Payload(s)]
  /\ remoteIndices' = [remoteIndices EXCEPT ![r] = Unpack(r, @, Payload(s), s, FALSE)]
  /\ UNCHANGED <<scenario, seqNo, step, pc, object, neighbourIds, entered, proc, heard>>

\* MPI_Waitall: every synchronous send has been matched.
WaitAll(r) ==
  /\ pc[r] = "probe"
  /\ received[r] = NoNeighbours(r)
  /\ pending[r] = {}
  /\ pc' = [pc EXCEPT ![r] = "return"]
  /\ UNCHANGED <<scenario, seqNo, step, object, neighbourIds, remoteIndices, entered,
                 proc, buffer, pending, received, heard>>

-----------------------------------------------------------------------------

\* buildRemote returns to rebuild(), which records what the lists belong to.
Return(r) ==
  /\ pc[r] = "return"
  /\ synced' = [synced EXCEPT ![r] = SeqNos(r)]
  /\ firstBuild' = [firstBuild EXCEPT ![r] = FALSE]
  /\ publicIgnored' = [publicIgnored EXCEPT ![r] = IgnorePublic(r)]
  /\ pc' = [pc EXCEPT ![r] = "user"]
  /\ step' = [step EXCEPT ![r] = @ + 1]
  /\ UNCHANGED <<scenario, seqNo, neighbourIds, remoteIndices, entered, proc, buffer,
                 pending, received, heard>>

Step(r) ==
  \/ Resize(r)
  \/ RebuildSkips(r) \/ RebuildStarts(r)
  \/ StartRing(r) \/ StartNeighbours(r)
  \/ EvenSendReturns(r) \/ OddSendReturns(r) \/ EvenReceives(r) \/ OddReceives(r)
  \/ \E s \in Rank : ProbeAndReceive(r, s)
  \/ WaitAll(r)
  \/ Return(r)

Next == \E r \in Rank : Step(r)

Spec == Init /\ [][Next]_vars

\* MPI makes progress, and user code goes on to its next call.
FairSpec == Spec /\ \A r \in Rank : WF_vars(Step(r))

-----------------------------------------------------------------------------

\* A RemoteIndex of each received entry with each local pair of its global
\* index; of our own process, not of an entry with itself.
Product(remote, local, fromOurSelf) ==
  {RemoteIndex(pair[1].attribute, pair[2]) :
     pair \in {other \in ToSet(remote) \X ToSet(local) :
                 /\ other[1].global = other[2].global
                 /\ fromOurSelf => other[1].attribute # other[2].attribute}}

\* list has exactly the members of set, once each, by increasing global index.
Lists(list, set) ==
  /\ ToSet(list) = set /\ Len(list) = Cardinality(set)
  /\ \A i, j \in DOMAIN list : i < j => list[i].pair.global <= list[j].pair.global

\* The content of r's sets when the lists that p holds were built: the program
\* is the same everywhere, so their sequence numbers are those p recorded.
PublishedSource(p, r) == PackEntries(scenario.sets[r].source[synced[p].source], publicIgnored[p])
PublishedDest(p, r) ==
  IF SendTwo(r) THEN PackEntries(scenario.sets[r].target[synced[p].dest], publicIgnored[p])
  ELSE PublishedSource(p, r)

Built(p) == pc[p] = "user" /\ ~firstBuild[p]

\* The ranks whose indices p learns of.
Informed(p) ==
  ((IF neighbourIds[p] = {} THEN Rank ELSE neighbourIds[p]) \ {p})
    \cup (IF SendTwo(p) \/ IncludeSelf THEN {p} ELSE {})

\* Types of remoteindices.hh's members and of the buffers.
TypeOK ==
  /\ step \in [Rank -> 1 .. Len(Program) + 1]
  /\ pc \in [Rank -> {"user", "reduce", "ssend", "recv", "probe", "return"}]
  /\ firstBuild \in [Rank -> BOOLEAN] /\ publicIgnored \in [Rank -> BOOLEAN]
  /\ neighbourIds \in [Rank -> SUBSET Rank] /\ pending \in [Rank -> SUBSET Rank]
  /\ entered \in [Rank -> 0 .. Len(Program)]
  /\ proc \in [Rank -> 1 .. procs] /\ received \in [Rank -> 0 .. procs]
  /\ \A r \in Rank :
       /\ \A i \in {0, 1} : buffer[r][i].from \in Rank \cup {-1}
       /\ DOMAIN remoteIndices[r] \subseteq Rank

\* After rebuild() a process knows of every process it asked about exactly the
\* indices both know, at their current version, each combination of remote and
\* local attribute once and in the order of the global indices: whatever the
\* processes hold, in whichever order messages are received, and however far
\* ahead with the next rebuild another process may be.
ListsExact ==
  \A p \in Rank : Built(p) =>
    /\ DOMAIN remoteIndices[p] \subseteq Informed(p)
    /\ \A q \in Informed(p) :
         LET self == p = q /\ IncludeSelf
             receive == Product(PublishedSource(p, q), PublishedDest(p, p), self)
             send == Product(PublishedDest(p, q), PublishedSource(p, p), self)
         IN IF q \in DOMAIN remoteIndices[p]
            THEN /\ Lists(remoteIndices[p][q].receive, receive)
                 /\ Lists(remoteIndices[p][q].send, send)
            ELSE receive = {} /\ send = {}

\* The lists p holds for q; none is as good as empty ones.
ListsFor(p, q) ==
  IF q \in DOMAIN remoteIndices[p] THEN remoteIndices[p][q] ELSE [send |-> <<>>, receive |-> <<>>]

Attributes == {remote.attribute : remote \in UNION {UNION {
  ToSet(ListsFor(p, q).send) \cup ToSet(ListsFor(p, q).receive) : q \in Rank} : p \in Rank}}

\* What p sends to q and what q receives from p, for the same flags.
Sent(p, q, sourceFlags, destFlags) ==
  SendInterface(ListsFor(p, q).send, sourceFlags, destFlags)
Expected(p, q, sourceFlags, destFlags) ==
  ReceiveInterface(ListsFor(q, p).receive, sourceFlags, destFlags)

\* p and q have built their lists in the same rebuild.
BuiltTogether(p, q) ==
  /\ Built(p) /\ Built(q)
  /\ synced[p] = synced[q] /\ publicIgnored[p] = publicIgnored[q]

\* A sent and an expected entry are about the same pair on either side.
SamePairs(sent, expected) ==
  /\ sent.attribute = expected.pair.attribute
  /\ sent.pair.attribute = expected.attribute

Single(flags) == \E attribute \in flags : flags = {attribute}

\* The interfaces built on two processes from the same rebuild fit together:
\* as many entries are sent as are expected, and the k-th are of the same global
\* index.  With a single attribute in one of the flag sets, they are of the same
\* pair on either side.
InterfacesMatch ==
  \A p, q \in Rank : BuiltTogether(p, q) =>
    \A sourceFlags, destFlags \in SUBSET Attributes :
      LET sent == Sent(p, q, sourceFlags, destFlags)
          expected == Expected(p, q, sourceFlags, destFlags)
      IN /\ Len(sent) = Len(expected)
         /\ \A k \in DOMAIN sent :
              /\ sent[k].pair.global = expected[k].pair.global
              /\ Single(sourceFlags) \/ Single(destFlags) => SamePairs(sent[k], expected[k])

\* The number of the content of the sets after i calls of the program.
ContentAfter(s, i) ==
  IF s.resizers = {} THEN 1 ELSE 1 + Cardinality({j \in 1 .. i : s.program[j].op = "resize"})

\* The scenarios in which the lists are proved to be exact: what is published is in
\* order, the ranks agree on having one index set or two and on whether these change,
\* and name each other as neighbours or nobody at all.
Regular(s) ==
  /\ s.two \in {{}, Rank} /\ s.resizers \in {{}, Rank}
  /\ \A r, q \in Rank : q \in s.neighbours[r] => r \in s.neighbours[q]
  /\ \/ \A r \in Rank : s.neighbours[r] \ {r} = {}
     \/ \A r \in Rank : s.neighbours[r] \ {r} # {}
  /\ \A r \in Rank, all \in BOOLEAN : \A n \in 1 .. ContentAfter(s, Len(s.program)) :
       /\ Ascending(PackEntries(s.sets[r].source[n], all))
       /\ s.two = Rank => Ascending(PackEntries(s.sets[r].target[n], all))

RegularScenarios == \A s \in Scenarios : Regular(s)

\* The rebuild is no deadlock: every process gets to the end of its program.
NobodyHangs == <>(\A r \in Rank : pc[r] = "user" /\ step[r] = Len(Program) + 1)

-----------------------------------------------------------------------------
\* A single rebuild without neighbours is the ring of RingExchange.

RingOnce ==
  /\ \A r \in Rank : scenario.neighbours[r] = {}
  /\ Len(Program) = 1 /\ Program[1].op = "rebuild"

RingPc(r) ==
  IF ~RingOnce THEN "idle"
  ELSE IF pc[r] \in {"ssend", "recv"} THEN pc[r]
  ELSE IF step[r] = 1 /\ pc[r] # "return" THEN "idle" ELSE "done"

RingProc(r) == IF RingOnce THEN proc[r] ELSE 1
RingGot(r) == IF RingOnce THEN heard[r] ELSE {}
RingPending(r) == RingOnce /\ pending[r] # {}

\* A buffer is the origin of its message, a process that is alone needs none.
RingBuffer(r) ==
  IF procs = 1 \/ RingPc(r) = "idle" THEN [i \in {0, 1} |-> IF i = 0 THEN r ELSE -1]
  ELSE [i \in {0, 1} |-> buffer[r][i].from]

Ring == INSTANCE RingExchange WITH
  proc    <- [r \in Rank |-> RingProc(r)],
  pc      <- [r \in Rank |-> RingPc(r)],
  buffer  <- [r \in Rank |-> RingBuffer(r)],
  pending <- [r \in Rank |-> RingPending(r)],
  got     <- [r \in Rank |-> RingGot(r)]

\* Every step of such a rebuild is a step of the ring exchange or leaves it alone.
ImplementsRing == Ring!Spec

=============================================================================
