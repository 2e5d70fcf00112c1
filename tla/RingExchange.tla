---------------------------- MODULE RingExchange ----------------------------
(***************************************************************************)
(* The ring of RemoteIndices::buildRemote (remoteindices.hh): in each of   *)
(* procs-1 iterations every process passes the buffer it got in the last   *)
(* iteration to its successor by a synchronous send and gets the next one  *)
(* from its predecessor; even ranks send first, odd ranks receive first.   *)
(* What a buffer holds is abstracted to the rank that packed it.  The      *)
(* process a received buffer is attributed to is never in the message: it  *)
(* is computed from the iteration.                                         *)
(***************************************************************************)
EXTENDS Integers

CONSTANT procs  \* MPI_Comm_size

ASSUME ProcsAssumption == procs \in Nat \ {0}

Rank == 0 .. procs - 1
NoData == -1  \* a buffer nobody has written to

VARIABLES
  pc,      \* "idle" before the exchange, "ssend" or "recv" in it, "done"
  proc,    \* the iteration, from 1 to procs-1
  buffer,  \* buffer[0] and buffer[1]
  pending, \* an MPI_Ssend that no MPI_Recv has matched yet
  got      \* pairs of the process data was attributed to and its true origin

vars == <<pc, proc, buffer, pending, got>>

-----------------------------------------------------------------------------

Succ(r) == (r + 1) % procs
Pred(r) == (r + procs - 1) % procs

\* Mutants: every rank sends first; the two buffers are never swapped; the
\* process is one off.
EveryoneEven(r) == TRUE
OutNotSwapped(r) == 0
RemoteProcOneOff(r) == (r + procs - proc[r] + 1) % procs

Even(r) == r % 2 = 0
In(r) == proc[r] % 2         \* index of p_in
Out(r) == 1 - (proc[r] % 2)  \* index of p_out

\* The process the indices of this iteration are from, as the code computes it.
RemoteProc(r) == (r + procs - proc[r]) % procs

Init ==
  /\ pc = [r \in Rank |-> "idle"]
  /\ proc = [r \in Rank |-> 1]
  /\ buffer = [r \in Rank |-> [i \in {0, 1} |-> IF i = 0 THEN r ELSE NoData]]
  /\ pending = [r \in Rank |-> FALSE]
  /\ got = [r \in Rank |-> {}]

\* The first operation of an iteration: where control is, and what is posted.
FirstOp(r) == IF Even(r) THEN "ssend" ELSE "recv"

\* The loop is entered, or left at once by a process that is alone.
Enter(r) ==
  /\ pc[r] = "idle"
  /\ pc' = [pc EXCEPT ![r] = IF procs > 1 THEN FirstOp(r) ELSE "done"]
  /\ pending' = [pending EXCEPT ![r] = procs > 1 /\ Even(r)]
  /\ UNCHANGED <<proc, buffer, got>>

\* The even rank's MPI_Ssend returns: its message has been matched.
EvenSendReturns(r) ==
  /\ pc[r] = "ssend" /\ Even(r) /\ ~pending[r]
  /\ pc' = [pc EXCEPT ![r] = "recv"]
  /\ UNCHANGED <<proc, buffer, pending, got>>

\* The odd rank's MPI_Ssend returns; the iteration ends with the unpacking.
OddSendReturns(r) ==
  /\ pc[r] = "ssend" /\ ~Even(r) /\ ~pending[r]
  /\ got' = [got EXCEPT ![r] = @ \cup {<<RemoteProc(r), buffer[r][In(r)]>>}]
  /\ proc' = [proc EXCEPT ![r] = @ + 1]
  /\ pc' = [pc EXCEPT ![r] = IF proc[r] + 1 < procs THEN "recv" ELSE "done"]
  /\ UNCHANGED <<buffer, pending>>

\* The odd rank's MPI_Recv takes the predecessor's p_out; its own send follows.
OddReceives(r) ==
  /\ pc[r] = "recv" /\ ~Even(r) /\ pending[Pred(r)]
  /\ buffer' = [buffer EXCEPT ![r][In(r)] = buffer[Pred(r)][Out(Pred(r))]]
  /\ pending' = [pending EXCEPT ![Pred(r)] = FALSE, ![r] = TRUE]
  /\ pc' = [pc EXCEPT ![r] = "ssend"]
  /\ UNCHANGED <<proc, got>>

\* The even rank's MPI_Recv ends its iteration: unpack, and send again.
EvenReceives(r) ==
  /\ pc[r] = "recv" /\ Even(r) /\ pending[Pred(r)]
  /\ buffer' = [buffer EXCEPT ![r][In(r)] = buffer[Pred(r)][Out(Pred(r))]]
  /\ got' = [got EXCEPT ![r] = @ \cup {<<RemoteProc(r), buffer[Pred(r)][Out(Pred(r))]>>}]
  /\ proc' = [proc EXCEPT ![r] = @ + 1]
  /\ pc' = [pc EXCEPT ![r] = IF proc[r] + 1 < procs THEN "ssend" ELSE "done"]
  /\ pending' = [pending EXCEPT ![Pred(r)] = FALSE, ![r] = proc[r] + 1 < procs]

Step(r) ==
  \/ Enter(r)
  \/ EvenSendReturns(r) \/ OddSendReturns(r)
  \/ EvenReceives(r) \/ OddReceives(r)

Next == \E r \in Rank : Step(r)

Spec == Init /\ [][Next]_vars

\* MPI makes progress: an operation that can complete does.
FairSpec == Spec /\ \A r \in Rank : WF_vars(Step(r))

-----------------------------------------------------------------------------

TypeOK ==
  /\ pc \in [Rank -> {"idle", "ssend", "recv", "done"}]
  /\ proc \in [Rank -> 1 .. procs]
  /\ buffer \in [Rank -> [{0, 1} -> Rank \cup {NoData}]]
  /\ pending \in [Rank -> BOOLEAN]
  /\ got \in [Rank -> SUBSET (Rank \X (Rank \cup {NoData}))]

\* Index data is never attributed to a process that did not publish it, though
\* no message says whose data it carries.
AttributedToOrigin == \A r \in Rank : \A g \in got[r] : g[1] = g[2]

\* Whoever is through has the data of every other process.
CompleteWhenDone ==
  \A r \in Rank : pc[r] = "done" => {g[2] : g \in got[r]} = Rank \ {r}

\* The ring never locks up, whether the number of processes is even or odd.
EveryoneDone == <>(\A r \in Rank : pc[r] = "done")

-----------------------------------------------------------------------------
\* The strengthening of AttributedToOrigin and CompleteWhenDone that is inductive.

\* Messages r has had matched, and messages it has received.
Sent(r) ==
  IF pc[r] = "done" THEN procs - 1
  ELSE IF (pc[r] = "ssend" /\ ~pending[r]) \/ (pc[r] = "recv" /\ Even(r)) THEN proc[r]
  ELSE proc[r] - 1

Received(r) ==
  IF pc[r] = "ssend" /\ ~Even(r) THEN proc[r] ELSE proc[r] - 1

\* The rank k places before r in the ring.
Behind(r, k) == IF k <= r THEN r - k ELSE r + procs - k

LocalInv(r) ==
  /\ pc[r] = "idle" => proc[r] = 1 /\ ~pending[r]
  /\ pending[r] => pc[r] = "ssend"
  /\ pc[r] \in {"ssend", "recv"} => proc[r] < procs
  /\ pc[r] = "done" => proc[r] = procs
  /\ pc[r] # "done" => buffer[r][Out(r)] = Behind(r, proc[r] - 1)
  /\ pc[r] = "ssend" /\ ~Even(r) => buffer[r][In(r)] = Behind(r, proc[r])
  /\ got[r] = {<<Behind(r, k), Behind(r, k)>> : k \in 1 .. proc[r] - 1}

\* Inductive: a send and the receive it meets are of the same iteration, the
\* buffer to be sent in iteration k is from k-1 places back, and what has been
\* unpacked by then is that of the k-1 ranks before.
RingInv == \A r \in Rank : LocalInv(r) /\ Sent(r) = Received(Succ(r))

=============================================================================
