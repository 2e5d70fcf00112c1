------------------------ MODULE BufferedCommunicator ------------------------
(***************************************************************************)
(* Dune::BufferedCommunicator (dune/common/parallel/communicator.hh) on    *)
(* all ranks: build() lays the messages out in two buffers, forward() and  *)
(* backward() gather, exchange and scatter.  An interface is given by the  *)
(* keys of its entries; every entry is one item.                           *)
(***************************************************************************)
EXTENDS Integers, FiniteSets, SequencesExt

CONSTANTS
  procs,  \* the size of communicator_
  calls   \* forward() is called in odd calls, backward() in even ones

Rank == 0 .. procs - 1

VARIABLES
  interfaces,   \* interfaces_: a neighbour to the entries sent (first) and received
  information,  \* messageInformation_: start and size of both messages
  buffers,      \* buffers_
  call,         \* calls a rank has entered; -1 before build()
  receiving,    \* neighbours with an MPI_Irecv that has not got its message
  arrived,      \* neighbours whose message is not scattered yet
  sending,      \* neighbours with an MPI_Issend that is not matched
  scattered     \* history: what was scattered, by call

vars == <<interfaces, information, buffers, call, receiving, arrived, sending, scattered>>

-----------------------------------------------------------------------------

Init ==
  /\ interfaces = [r \in Rank |-> <<>>]
  /\ information = [r \in Rank |-> <<>>]
  /\ buffers = [r \in Rank |-> <<>>]
  /\ call = [r \in Rank |-> -1]
  /\ receiving = [r \in Rank |-> {}]
  /\ arrived = [r \in Rank |-> {}]
  /\ sending = [r \in Rank |-> {}]
  /\ scattered = [r \in Rank |-> {}]

Side == {"first", "second"}
Outgoing(c) == IF c % 2 = 1 THEN "first" ELSE "second"
Incoming(c) == IF c % 2 = 1 THEN "second" ELSE "first"

\* Mutant: the sizes are not added up.
StartInFront(interface, side, q) == 0

\* bufferSize_ when the loop of build() comes to rank k: a map is in order.
SizeBefore(interface, side, k) ==
  LET size(q) == IF q \in DOMAIN interface THEN Len(interface[q][side]) ELSE 0
      upto[i \in 0 .. k] == IF i = 0 THEN 0 ELSE upto[i - 1] + size(i - 1)
  IN upto[k]

Start(interface, side, q) == SizeBefore(interface, side, q)
Total(interface, side) == SizeBefore(interface, side, procs)

\* build(interface); neighbours without any entry get no message information.
Build(r, interface) ==
  LET named == {q \in DOMAIN interface : interface[q].first # <<>> \/ interface[q].second # <<>>}
      about(q) == [side \in Side |-> [start |-> Start(interface, side, q),
                                      size |-> Len(interface[q][side])]]
  IN /\ call[r] = -1
     /\ interfaces' = [interfaces EXCEPT ![r] = interface]
     /\ information' = [information EXCEPT ![r] = [q \in named |-> about(q)]]
     /\ buffers' = [buffers EXCEPT ![r] =
                      [side \in Side |-> [i \in 1 .. Total(interface, side) |-> <<>>]]]
     /\ call' = [call EXCEPT ![r] = 0]
     /\ UNCHANGED <<receiving, arrived, sending, scattered>>

\* What the gatherer puts into the buffer: an item is known by its rank, key and call.
Gather(r, side, c) ==
  LET items(q) == IF q \in DOMAIN interfaces[r]
                  THEN [i \in DOMAIN interfaces[r][q][side] |-> <<r, interfaces[r][q][side][i], c>>]
                  ELSE <<>>
      upto[k \in 0 .. procs] == IF k = 0 THEN <<>> ELSE upto[k - 1] \o items(k - 1)
  IN upto[procs]

Idle(r) == receiving[r] = {} /\ arrived[r] = {} /\ sending[r] = {}

MayStartCall(r) == call[r] \in 0 .. calls - 1 /\ Idle(r)

\* sendRecv up to its waits: gather, then all receives and all sends that have a size.
StartCall(r) ==
  LET c == call[r] + 1
  IN /\ MayStartCall(r)
     /\ call' = [call EXCEPT ![r] = c]
     /\ buffers' = [buffers EXCEPT ![r][Outgoing(c)] = Gather(r, Outgoing(c), c)]
     /\ receiving' = [receiving EXCEPT ![r] =
                        {q \in DOMAIN information[r] : information[r][q][Incoming(c)].size > 0}]
     /\ sending' = [sending EXCEPT ![r] =
                      {q \in DOMAIN information[r] : information[r][q][Outgoing(c)].size > 0}]
     /\ UNCHANGED <<interfaces, information, arrived, scattered>>

MayTransfer(r, q) == q \in sending[r] /\ r \in receiving[q]

\* A send meets the receive posted for it: bytes from one buffer into the other.
Transfer(r, q) ==
  LET from == information[r][q][Outgoing(call[r])]
      to == information[q][r][Incoming(call[q])]
      message == SubSeq(buffers[r][Outgoing(call[r])], from.start + 1, from.start + from.size)
  IN /\ MayTransfer(r, q)
     /\ buffers' = [buffers EXCEPT ![q][Incoming(call[q])] =
                      [i \in DOMAIN @ |-> IF i - to.start \in DOMAIN message
                                          THEN message[i - to.start] ELSE @[i]]]
     /\ sending' = [sending EXCEPT ![r] = @ \ {q}]
     /\ receiving' = [receiving EXCEPT ![q] = @ \ {r}]
     /\ arrived' = [arrived EXCEPT ![q] = @ \cup {r}]
     /\ UNCHANGED <<interfaces, information, call, scattered>>

\* MPI_Waitany gives any message that has arrived; its entries are scattered.
Scatter(r, q) ==
  LET side == Incoming(call[r])
  IN /\ q \in arrived[r]
     /\ scattered' = [scattered EXCEPT ![r] = @ \cup
          {[call |-> call[r], from |-> q, entry |-> interfaces[r][q][side][i],
            item |-> buffers[r][side][information[r][q][side].start + i]] :
              i \in DOMAIN interfaces[r][q][side]}]
     /\ arrived' = [arrived EXCEPT ![r] = @ \ {q}]
     /\ UNCHANGED <<interfaces, information, buffers, call, receiving, sending>>

Step(r) == StartCall(r) \/ \E q \in Rank : Transfer(r, q) \/ Scatter(r, q)

-----------------------------------------------------------------------------

MayStep(r) == MayStartCall(r) \/ arrived[r] # {} \/ \E q \in Rank : MayTransfer(r, q)
Finished(r) == call[r] = calls /\ Idle(r)

\* Every entry gets the item of its own key, from the right rank and of the same call,
\* although no message names any of them, and a call that has returned left none out.
DeliversExactly ==
  \A r \in Rank :
    /\ \A s \in scattered[r] : s.item = <<s.from, s.entry, s.call>>
    /\ Idle(r) => \A c \in 1 .. call[r] : \A q \in DOMAIN interfaces[r] :
         \A key \in ToSet(interfaces[r][q][Incoming(c)]) :
           \E s \in scattered[r] : s.call = c /\ s.from = q /\ s.entry = key

=============================================================================
