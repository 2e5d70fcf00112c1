---------------------- MODULE VariableSizeCommunicator ----------------------
(***************************************************************************)
(* Dune::VariableSizeCommunicator (variablesizecommunicator.hh) on all     *)
(* ranks of a communicator: forward() and backward() with a data handle    *)
(* whose number of items per entry is fixed, or not.  Data are packed      *)
(* entry by entry into a message of at most maxBufferSize items; when one  *)
(* has been received the next is packed.  With a variable size the sizes   *)
(* are communicated before in the same way and with the same tag.          *)
(*                                                                         *)
(* A link <<s, r>> is what rank s sends to its neighbour r.  A tracker's   *)
(* index_ is the number of entries it has passed.  An item is the call it  *)
(* is from and its entry; a message of sizes holds the sizes instead.      *)
(***************************************************************************)
EXTENDS Integers, FiniteSets, Sequences

CONSTANTS
  procs,         \* MPI_Comm_size
  maxBufferSize, \* maxBufferSize_
  NumCalls,      \* how often every rank communicates
  Scenarios      \* the executions considered, see Scenario

Rank == 0 .. procs - 1
Links == Rank \X Rank
Opposite(l) == <<l[2], l[1]>>

\* The length of every send interface of forward(), which is that of the receive
\* interface it belongs to, and what the handles of the calls say: size of the
\* entries of each send interface of this call.  Every item fits in a buffer.
Scenario(s) ==
  /\ s.interface \in [Links -> Nat]
  /\ DOMAIN s.calls = 1 .. NumCalls
  /\ \A n \in 1 .. NumCalls, l \in Links :
       LET c == s.calls[n]
           sizes == c.size[l]
       IN /\ c.fixedSize \in BOOLEAN /\ c.forward \in BOOLEAN
          /\ sizes \in Seq(0 .. maxBufferSize)
          /\ Len(sizes) = s.interface[IF c.forward THEN l ELSE Opposite(l)]
          /\ c.fixedSize => \A i \in DOMAIN sizes : sizes[i] = sizes[1] /\ sizes[1] > 0

\* In a call some of the entries of an interface, if it has any, have items. The code
\* needs this to return, see ZeroSizesSkipped; the theorems assume it.
HasItems(s) ==
  \A n \in 1 .. NumCalls, l \in Links :
    LET size == s.calls[n].size[l] IN Len(size) > 0 => \E i \in DOMAIN size : size[i] > 0

ASSUME CommunicatorAssumption ==
  /\ NumCalls \in Nat
  /\ procs \in Nat \ {0} /\ maxBufferSize \in Nat \ {0}
  /\ \A s \in Scenarios : Scenario(s)

VARIABLES
  scenario,   \* the execution
  call,       \* how often a rank has called forward or backward
  pc,         \* "user", or the loop it is in: "sizes", "data" or "fixed"
  sendIndex,  \* index_ of the sender's tracker of a link
  recvIndex,  \* index_ of the receiver's tracker
  sizes,      \* sizes_ of the receiver's tracker
  fixedSize,  \* fixedSize of the receiver's tracker
  sendReq,    \* the request of a send, tag 933399
  recvReq,    \* the request of a receive, tag 933399
  sizeSendReq, sizeRecvReq,   \* requests of the fixed size, tag 933881
  toSend, toRecv, sizeToRecv, \* the counters of the loop
  scattered   \* history: the calls of scatter() in the receiver's last call

requests == <<sendReq, recvReq>>
sizeRequests == <<sizeSendReq, sizeRecvReq>>
vars == <<scenario, call, pc, sendIndex, recvIndex, sizes, fixedSize, requests,
          sizeRequests, toSend, toRecv, sizeToRecv, scattered>>

-----------------------------------------------------------------------------
(* The interfaces and the data handle.                                     *)

\* All arguments and interfaces of call n; entries of a link, as its sender and its
\* receiver see them: InterfaceInformationChooser takes first or second of the pair.
Call(n) == scenario.calls[n]
Entries(n, l) == scenario.interface[IF Call(n).forward THEN l ELSE Opposite(l)]
Size(n, l, i) == Call(n).size[l][i]
Neighbours(r) == {q \in Rank : scenario.interface[<<r, q>>] + scenario.interface[<<q, r>>] > 0}

Out(r) == {<<r, q>> : q \in Neighbours(r)}  \* send_trackers
In(r) == {<<q, r>> : q \in Neighbours(r)}   \* recv_trackers

\* The sums of the sizes of the first entries, and of those behind from, up to to.
Sums(size) == LET sum[i \in 0 .. Len(size)] == IF i = 0 THEN 0 ELSE sum[i - 1] + size[i] IN sum
SizeSum(size, from, to) == Sums(size)[to] - Sums(size)[from]

\* size() of the data handle of a loop: SizeDataHandle has one item per entry.
HandleSize(loop, n, l) == IF loop = "sizes" THEN [i \in 1 .. Entries(n, l) |-> 1] ELSE Call(n).size[l]

\* gather() of one item: in the loop of communicateSizes the size of the entry.
Item(n, i) == [kind |-> "item", call |-> n, value |-> i]
Gather(loop, n, l, i) ==
  IF loop = "sizes" THEN [kind |-> "size", call |-> n, value |-> Size(n, l, i)] ELSE Item(n, i)

\* The entry the k-th item behind the first entries is of.
EntryOf(size, from, k) ==
  CHOOSE i \in 1 .. Len(size) : SizeSum(size, from, i - 1) < k /\ k <= SizeSum(size, from, i)

\* What is written to a buffer for the entries behind from, up to to.
Gathered(loop, n, l, from, to) ==
  LET size == HandleSize(loop, n, l)
  IN [k \in 1 .. SizeSum(size, from, to) |-> Gather(loop, n, l, EntryOf(size, from, k))]

-----------------------------------------------------------------------------
(* Requests and what is packed and unpacked.                               *)

NullRequest == [state |-> "null", data |-> <<>>]
Posted(data) == [state |-> "posted", data |-> data]
Done(data) == [state |-> "done", data |-> data]

\* What is in a buffer behind the message is not known.
Unread == [kind |-> "unread", call |-> 0, value |-> 0]
Read(message, i) == IF i \in DOMAIN message THEN message[i] ELSE Unread

\* PackEntries: the entries from index on that fit, and those of size zero behind.
Pack(size, index) ==
  CHOOSE to \in index .. Len(size) :
    \A i \in index .. Len(size) : i <= to <=> SizeSum(size, index, i) <= maxBufferSize
PackEntries(loop, n, l, index) == Pack(HandleSize(loop, n, l), index)

\* Mutants: the buffer is not reset, so that a message starts with what was packed
\* first; a receive is posted when nothing is left; sizes are copied beyond what is
\* left; a tracker stays at indices of size zero.
SetupSendNoReset(loop, n, l, index) ==
  LET size == Len(Gathered(loop, n, l, index, PackEntries(loop, n, l, index)))
      message == SubSeq(Gathered(loop, n, l, 0, Entries(n, l)), 1, size)
  IN IF message = <<>> THEN NullRequest ELSE Posted(message)
SetupRecvAlways(n, l, index) == Posted(<<>>)
UnpackSizesFullBuffer(l, message) ==
  [index |-> recvIndex[l] + maxBufferSize,
   sizes |-> [i \in DOMAIN sizes[l] |->
                IF i > recvIndex[l] THEN Read(message, i - recvIndex[l]).value ELSE sizes[l][i]],
   scattered |-> <<>>]
SkipZeroNot(known, index) == index

\* SetupSendRequest: no message without items.
SetupSend(loop, n, l, index) ==
  LET message == Gathered(loop, n, l, index, PackEntries(loop, n, l, index))
  IN IF message = <<>> THEN NullRequest ELSE Posted(message)

\* SetupRecvRequest; indices of size zero count as left.
SetupRecv(n, l, index) == IF index < Entries(n, l) THEN Posted(<<>>) ELSE NullRequest

\* skipZeroIndices
SkipZero(known, index) ==
  CHOOSE to \in index .. Len(known) :
    /\ \A i \in index + 1 .. to : known[i] = 0
    /\ to < Len(known) => known[to + 1] # 0

\* UnpackSizeEntries: copies as many sizes as fit in a buffer and are left.
UnpackSizes(l, message) ==
  LET index == recvIndex[l]
      no == IF maxBufferSize < Len(sizes[l]) - index THEN maxBufferSize ELSE Len(sizes[l]) - index
  IN [index |-> index + no,
      sizes |-> [i \in DOMAIN sizes[l] |->
                   IF i \in index + 1 .. index + no THEN Read(message, i - index).value ELSE sizes[l][i]],
      scattered |-> <<>>]

\* UnpackEntries with a fixed size: the number of entries is that of a full buffer.
UnpackFixed(n, l, message) ==
  LET index == recvIndex[l]
      fits == maxBufferSize \div fixedSize[l]
      no == IF fits < Entries(n, l) - index THEN fits ELSE Entries(n, l) - index
      items(i) == [k \in 1 .. fixedSize[l] |-> Read(message, (i - 1) * fixedSize[l] + k)]
  IN [index |-> index + no, sizes |-> sizes[l],
      scattered |-> [i \in 1 .. no |-> [entry |-> index + i, items |-> items(i)]]]

\* UnpackEntries with a variable size: until all items of the message are used,
\* stepping over indices of size zero, except where the tracker starts.
UnpackVariable(l, message) ==
  LET index == recvIndex[l]
      known == sizes[l]
      visited == {e \in index + 1 .. Len(known) :
                    /\ SizeSum(known, index, e - 1) < Len(message)
                    /\ e = index + 1 \/ known[e] > 0}
      items(e) == [k \in 1 .. known[e] |-> Read(message, SizeSum(known, index, e - 1) + k)]
      loop[e \in index .. Len(known)] ==
        IF e = index THEN [index |-> index, scattered |-> <<>>]
        ELSE IF e \in visited
          THEN [index |-> e, scattered |-> Append(loop[e - 1].scattered, [entry |-> e, items |-> items(e)])]
        ELSE loop[e - 1]
      end == loop[Len(known)]
  IN [index |-> SkipZero(known, end.index), sizes |-> known, scattered |-> end.scattered]

Unpack(loop, n, l, message) ==
  CASE loop = "sizes" -> UnpackSizes(l, message)
    [] loop = "fixed" -> UnpackFixed(n, l, message)
    [] loop = "data"  -> UnpackVariable(l, message)

-----------------------------------------------------------------------------
(* The loops.                                                              *)

\* What the tracker of r sends as fixedSize to q: the size of an entry for q, or
\* what is left from the neighbours before if there is none.
Highest(ranks) == CHOOSE p \in ranks : \A o \in ranks : o <= p
FixedSizeFor(n, r, q) ==
  LET filled == {p \in Neighbours(r) : p <= q /\ Entries(n, <<r, p>>) > 0}
  IN IF filled = {} THEN 1 ELSE Size(n, <<r, Highest(filled)>>, 1)

\* setupInterfaceTrackers and setupRequests, up to the loop.  With a fixed size
\* nothing can be received yet; the counters are of interfaces that are not empty,
\* else of valid requests.
StartLoop(r, n, loop) ==
  LET send(l) == SetupSend(loop, n, l, 0)
      recv(l) == IF loop = "fixed" THEN NullRequest ELSE SetupRecv(n, l, 0)
  IN /\ pc' = [pc EXCEPT ![r] = loop]
     /\ sendIndex' = [l \in Links |-> IF l \in Out(r) THEN PackEntries(loop, n, l, 0) ELSE sendIndex[l]]
     /\ recvIndex' = [l \in Links |-> IF l \in In(r) THEN 0 ELSE recvIndex[l]]
     /\ sendReq' = [l \in Links |-> IF l \in Out(r) THEN send(l) ELSE sendReq[l]]
     /\ recvReq' = [l \in Links |-> IF l \in In(r) THEN recv(l) ELSE recvReq[l]]
     /\ toSend' = [toSend EXCEPT ![r] = Cardinality({l \in Out(r) :
                     IF loop = "fixed" THEN Entries(n, l) > 0 ELSE send(l) # NullRequest})]
     /\ toRecv' = [toRecv EXCEPT ![r] = Cardinality({l \in In(r) :
                     IF loop = "fixed" THEN Entries(n, l) > 0 ELSE recv(l) # NullRequest})]

\* Mutants: the loop does not wait for the sends, or for the receives.
SendsForgotten(r) == toRecv[r] + sizeToRecv[r] = 0
ReceivesForgotten(r) == toSend[r] + sizeToRecv[r] = 0

\* The loop ends; without a fixed size sizeToRecv is 0.
LoopDone(r) == toSend[r] + toRecv[r] + sizeToRecv[r] = 0

\* communicate without a neighbour
CommunicateNothing(r) ==
  /\ pc[r] = "user" /\ call[r] < NumCalls /\ Neighbours(r) = {}
  /\ call' = [call EXCEPT ![r] = @ + 1]
  /\ UNCHANGED <<scenario, pc, sendIndex, recvIndex, sizes, fixedSize, requests,
                 sizeRequests, toSend, toRecv, sizeToRecv, scattered>>

\* communicateFixedSize up to its loop
CommunicateFixedSize(r) ==
  LET n == call[r] + 1
  IN /\ pc[r] = "user" /\ call[r] < NumCalls /\ Neighbours(r) # {} /\ Call(n).fixedSize
     /\ call' = [call EXCEPT ![r] = n]
     /\ StartLoop(r, n, "fixed")
     /\ sizes' = [l \in Links |-> IF l \in In(r) THEN <<>> ELSE sizes[l]]
     /\ sizeSendReq' = [l \in Links |-> IF l \in Out(r) THEN Posted(<<FixedSizeFor(n, r, l[2])>>) ELSE sizeSendReq[l]]
     /\ sizeRecvReq' = [l \in Links |-> IF l \in In(r) THEN Posted(<<>>) ELSE sizeRecvReq[l]]
     /\ sizeToRecv' = [sizeToRecv EXCEPT ![r] = Cardinality(Neighbours(r))]
     /\ scattered' = [l \in Links |-> IF l \in In(r) THEN <<>> ELSE scattered[l]]
     /\ fixedSize' = [l \in Links |-> IF l \in In(r) THEN FixedSizeFor(n, r, l[1]) ELSE fixedSize[l]]
     /\ UNCHANGED scenario

\* communicateVariableSize up to the loop of communicateSizes
CommunicateSizes(r) ==
  LET n == call[r] + 1
  IN /\ pc[r] = "user" /\ call[r] < NumCalls /\ Neighbours(r) # {} /\ ~Call(n).fixedSize
     /\ call' = [call EXCEPT ![r] = n]
     /\ StartLoop(r, n, "sizes")
     /\ sizes' = [l \in Links |-> IF l \in In(r) THEN [i \in 1 .. Entries(n, l) |-> 0] ELSE sizes[l]]
     /\ fixedSize' = [l \in Links |-> IF l \in In(r) THEN 0 ELSE fixedSize[l]]
     /\ scattered' = [l \in Links |-> IF l \in In(r) THEN <<>> ELSE scattered[l]]
     /\ UNCHANGED <<scenario, sizeRequests, sizeToRecv>>

\* The end of communicateSizes, and communicateVariableSize up to its loop
CommunicateData(r) ==
  /\ pc[r] = "sizes" /\ LoopDone(r)
  /\ StartLoop(r, call[r], "data")
  /\ UNCHANGED <<scenario, call, sizes, fixedSize, sizeRequests, sizeToRecv, scattered>>

\* checkSendAndContinueSending for one completed request
SendCompleted(l) ==
  LET s == l[1]
      n == call[s]
      finished == sendIndex[l] = Entries(n, l)
  IN /\ pc[s] # "user" /\ toSend[s] > 0 /\ sendReq[l].state = "done"
     /\ IF finished THEN /\ sendReq' = [sendReq EXCEPT ![l] = NullRequest]
                         /\ toSend' = [toSend EXCEPT ![s] = @ - 1]
                         /\ UNCHANGED sendIndex
        ELSE /\ sendReq' = [sendReq EXCEPT ![l] = SetupSend(pc[s], n, l, sendIndex[l])]
             /\ sendIndex' = [sendIndex EXCEPT ![l] = PackEntries(pc[s], n, l, @)]
             /\ UNCHANGED toSend
     /\ UNCHANGED <<scenario, call, pc, recvIndex, sizes, fixedSize, recvReq, sizeRequests,
                    toRecv, sizeToRecv, scattered>>

\* checkAndContinue with UnpackSizeEntries, or checkReceiveAndContinueReceiving,
\* for one completed request
ReceiveCompleted(l) ==
  LET r == l[2]
      unpacked == Unpack(pc[r], call[r], l, recvReq[l].data)
      finished == unpacked.index = Entries(call[r], l)
  IN /\ pc[r] # "user" /\ (pc[r] = "fixed" \/ toRecv[r] > 0)
     /\ recvReq[l].state = "done"
     /\ recvIndex' = [recvIndex EXCEPT ![l] = unpacked.index]
     /\ sizes' = [sizes EXCEPT ![l] = unpacked.sizes]
     /\ scattered' = [scattered EXCEPT ![l] = @ \o unpacked.scattered]
     /\ recvReq' = [recvReq EXCEPT ![l] = SetupRecv(call[r], l, unpacked.index)]
     /\ toRecv' = [toRecv EXCEPT ![r] = IF finished THEN @ - 1 ELSE @]
     /\ UNCHANGED <<scenario, call, pc, sendIndex, fixedSize, sendReq, sizeRequests,
                    toSend, sizeToRecv>>

\* receiveSizeAndSetupReceive for one completed request
FixedSizeReceived(l) ==
  LET r == l[2]
  IN /\ pc[r] = "fixed" /\ sizeToRecv[r] > 0 /\ sizeRecvReq[l].state = "done"
     /\ fixedSize' = [fixedSize EXCEPT ![l] = sizeRecvReq[l].data[1]]
     /\ sizeRecvReq' = [sizeRecvReq EXCEPT ![l] = NullRequest]
     /\ recvReq' = [recvReq EXCEPT ![l] = SetupRecv(call[r], l, recvIndex[l])]
     /\ sizeToRecv' = [sizeToRecv EXCEPT ![r] = @ - 1]
     /\ UNCHANGED <<scenario, call, pc, sendIndex, recvIndex, sizes, sendReq, sizeSendReq,
                    toSend, toRecv, scattered>>

\* The end of the call; with a fixed size MPI_Waitall for the sizes that were sent.
Return(r) ==
  /\ pc[r] \in {"data", "fixed"} /\ LoopDone(r)
  /\ \A l \in Out(r) : sizeSendReq[l].state # "posted"
  /\ pc' = [pc EXCEPT ![r] = "user"]
  /\ sizeSendReq' = [l \in Links |-> IF l \in Out(r) THEN NullRequest ELSE sizeSendReq[l]]
  /\ UNCHANGED <<scenario, call, sendIndex, recvIndex, sizes, fixedSize, requests,
                 sizeRecvReq, toSend, toRecv, sizeToRecv, scattered>>

\* MPI: a posted synchronous send meets a posted receive, and both complete.
Match(l) ==
  /\ sendReq[l].state = "posted" /\ recvReq[l].state = "posted"
  /\ sendReq' = [sendReq EXCEPT ![l] = Done(<<>>)]
  /\ recvReq' = [recvReq EXCEPT ![l] = Done(sendReq[l].data)]
  /\ UNCHANGED <<scenario, call, pc, sendIndex, recvIndex, sizes, fixedSize, sizeRequests,
                 toSend, toRecv, sizeToRecv, scattered>>

MatchFixedSize(l) ==
  /\ sizeSendReq[l].state = "posted" /\ sizeRecvReq[l].state = "posted"
  /\ sizeSendReq' = [sizeSendReq EXCEPT ![l] = Done(<<>>)]
  /\ sizeRecvReq' = [sizeRecvReq EXCEPT ![l] = Done(sizeSendReq[l].data)]
  /\ UNCHANGED <<scenario, call, pc, sendIndex, recvIndex, sizes, fixedSize, requests,
                 toSend, toRecv, sizeToRecv, scattered>>

Init ==
  /\ scenario \in Scenarios
  /\ call = [r \in Rank |-> 0]
  /\ pc = [r \in Rank |-> "user"]
  /\ sendIndex = [l \in Links |-> 0]
  /\ recvIndex = [l \in Links |-> 0]
  /\ sizes = [l \in Links |-> <<>>]
  /\ fixedSize = [l \in Links |-> 0]
  /\ sendReq = [l \in Links |-> NullRequest]
  /\ recvReq = [l \in Links |-> NullRequest]
  /\ sizeSendReq = [l \in Links |-> NullRequest]
  /\ sizeRecvReq = [l \in Links |-> NullRequest]
  /\ toSend = [r \in Rank |-> 0]
  /\ toRecv = [r \in Rank |-> 0]
  /\ sizeToRecv = [r \in Rank |-> 0]
  /\ scattered = [l \in Links |-> <<>>]

Step(r) ==
  \/ CommunicateNothing(r) \/ CommunicateFixedSize(r) \/ CommunicateSizes(r)
  \/ CommunicateData(r) \/ Return(r)
  \/ \E l \in Out(r) : SendCompleted(l)
  \/ \E l \in In(r) : ReceiveCompleted(l) \/ FixedSizeReceived(l)

Next ==
  \/ \E r \in Rank : Step(r)
  \/ \E l \in Links : Match(l) \/ MatchFixedSize(l)

Spec == Init /\ [][Next]_vars

\* Ranks poll their requests and MPI makes progress: while a step can be taken one is.
\* As every rank makes finitely many calls this is all the fairness that is needed.
Fairness == WF_vars(Next)

FairSpec == Spec /\ Fairness

-----------------------------------------------------------------------------

Request == [state : {"null", "posted", "done"}, data : Seq([kind : {"size", "item"}, call : Nat, value : Nat])]

TypeOK ==
  /\ scenario \in Scenarios
  /\ call \in [Rank -> 0 .. NumCalls]
  /\ pc \in [Rank -> {"user", "sizes", "data", "fixed"}]
  /\ sendReq \in [Links -> Request] /\ recvReq \in [Links -> Request]
  /\ toSend \in [Rank -> Nat] /\ toRecv \in [Rank -> Nat] /\ sizeToRecv \in [Rank -> Nat]
  /\ \A l \in Links :
       /\ call[l[1]] > 0 => sendIndex[l] \in 0 .. Entries(call[l[1]], l)
       /\ call[l[2]] > 0 => recvIndex[l] \in 0 .. Entries(call[l[2]], l)
       /\ sizes[l] \in Seq(0 .. maxBufferSize) /\ fixedSize[l] \in 0 .. maxBufferSize

\* Every call of scatter() gets the items that gather() wrote for this entry in
\* this call, all of them; entries come in their order and none with items is left
\* out up to the position of the tracker, or at all when the call has returned.
ScattersExact ==
  \A r \in Rank : \A l \in In(r) :
    LET passed == CASE pc[r] = "sizes" -> 0
                    [] pc[r] = "user"  -> Entries(call[r], l)
                    [] OTHER           -> recvIndex[l]
    IN call[r] > 0 =>
         /\ \A i \in DOMAIN scattered[l] :
              /\ LET e == scattered[l][i].entry
                 IN scattered[l][i].items = [k \in 1 .. Size(call[r], l, e) |-> Item(call[r], e)]
              /\ i > 1 => scattered[l][i - 1].entry < scattered[l][i].entry
         /\ {e \in 1 .. passed : Size(call[r], l, e) > 0} =
              {e \in 1 .. Entries(call[r], l) :
                 \E i \in DOMAIN scattered[l] : scattered[l][i].entry = e
                                                /\ scattered[l][i].items # <<>>}

\* The counters that end the loops are the requests that are outstanding, also when
\* a completed request is followed by another one; so no request outlives the call
\* whose buffers it uses.
CountersExact ==
  \A r \in Rank :
    /\ toSend[r] = Cardinality({l \in Out(r) : sendReq[l] # NullRequest})
    /\ toRecv[r] = Cardinality({l \in In(r) :
         \/ recvReq[l] # NullRequest
         \/ sizeRecvReq[l] # NullRequest /\ Entries(call[r], l) > 0})
    /\ sizeToRecv[r] = Cardinality({l \in In(r) : sizeRecvReq[l] # NullRequest})
    /\ pc[r] = "user" => \A l \in Out(r) : sizeSendReq[l] = NullRequest

\* Sizes and data have one tag, and successive calls one communicator; still a
\* message meets only a receive of the same loop of the same call.
OnlyTheSameLoopMeets ==
  \A l \in Links :
    /\ sendReq[l].state = "posted" /\ recvReq[l].state = "posted"
         => call[l[1]] = call[l[2]] /\ pc[l[1]] = pc[l[2]]
    /\ sizeSendReq[l].state = "posted" /\ sizeRecvReq[l].state = "posted"
         => call[l[1]] = call[l[2]]

\* Entries of size zero are skipped, as the comments say: nothing is waited for when
\* all entries that are left have size zero.
ZeroSizesSkipped ==
  \A l \in Links :
    pc[l[2]] = "data" /\ recvReq[l].state = "posted" =>
      \E e \in recvIndex[l] + 1 .. Len(sizes[l]) : sizes[l][e] > 0

\* Every call returns on every rank, in any order in which requests complete.
EveryoneReturns == <>(\A r \in Rank : call[r] = NumCalls /\ pc[r] = "user")

\* Implementation of the abstract exchange: what has arrived are the items of the
\* messages that were matched; a rank without neighbours takes no part.
Amount == [n \in 1 .. NumCalls |-> [l \in Links |-> SizeSum(Call(n).size[l], 0, Entries(n, l))]]
ItemsSent(l) ==
  LET s == l[1]
  IN IF call[s] = 0 \/ pc[s] = "sizes" \/ l \notin Out(s) THEN 0
     ELSE SizeSum(Call(call[s]).size[l], 0, sendIndex[l])
            - (IF sendReq[l].state = "posted" THEN Len(sendReq[l].data) ELSE 0)
ItemsScattered(l) ==
  IF pc[l[2]] = "sizes" THEN 0 ELSE Sums([i \in DOMAIN scattered[l] |-> Len(scattered[l][i].items)])[Len(scattered[l])]
ItemsArrived(l) ==
  IF pc[l[2]] = "sizes" THEN 0
  ELSE ItemsScattered(l) + (IF recvReq[l].state = "done" THEN Len(recvReq[l].data) ELSE 0)

Exchange == INSTANCE ChunkedExchange WITH
  Ranks <- Rank, amount <- Amount,
  call <- [r \in Rank |-> IF Neighbours(r) = {} THEN 0 ELSE call[r]],
  inside <- [r \in Rank |-> pc[r] # "user"],
  sent <- [l \in Links |-> ItemsSent(l)], arrived <- [l \in Links |-> ItemsArrived(l)],
  scattered <- [l \in Links |-> ItemsScattered(l)]

\* The buffers, trackers and requests implement the abstract exchange.
ImplementsExchange == Exchange!Spec

\* Nobody is beyond a call in which it exchanges data with a process that has not
\* come to this call.
InStep == Exchange!InStep
=============================================================================
