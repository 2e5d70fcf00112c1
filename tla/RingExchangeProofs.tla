------------------------- MODULE RingExchangeProofs -------------------------
(***************************************************************************)
(* For every number of processes, the ring of RemoteIndices::buildRemote   *)
(* attributes every buffer to the process that packed it, and a process    *)
(* that is through has the buffer of each of the others.                   *)
(***************************************************************************)
EXTENDS RingExchange, TLAPS

\* The remainder of a number below twice the modulus.
LEMMA ModBelow ==
  ASSUME NEW n \in Nat \ {0}, NEW x \in 0 .. 2 * n - 1
  PROVE  x % n = IF x < n THEN x ELSE x - n
OBVIOUS

\* Remainders modulo two alternate.
LEMMA Parity ==
  ASSUME NEW k \in Nat
  PROVE  k % 2 \in {0, 1} /\ (k + 1) % 2 = 1 - (k % 2)
OBVIOUS

\* The ring: successors and predecessors without remainders.
LEMMA Neighbours ==
  ASSUME NEW r \in Rank
  PROVE  /\ Succ(r) = IF r = procs - 1 THEN 0 ELSE r + 1
         /\ Pred(r) = IF r = 0 THEN procs - 1 ELSE r - 1
         /\ Succ(r) \in Rank /\ Pred(r) \in Rank
         /\ Succ(Pred(r)) = r /\ Pred(Succ(r)) = r
<1> USE ProcsAssumption DEF Rank
<1>1. Succ(r) = IF r = procs - 1 THEN 0 ELSE r + 1
  <2>1. PICK x \in 0 .. 2 * procs - 1 : x = r + 1
    OBVIOUS
  <2>2. x % procs = IF x < procs THEN x ELSE x - procs
    BY ModBelow
  <2> QED BY <2>1, <2>2 DEF Succ
<1>2. Pred(r) = IF r = 0 THEN procs - 1 ELSE r - 1
  <2>1. PICK x \in 0 .. 2 * procs - 1 : x = r + procs - 1
    OBVIOUS
  <2>2. x % procs = IF x < procs THEN x ELSE x - procs
    BY ModBelow
  <2> QED BY <2>1, <2>2 DEF Pred
<1>3. Succ(r) \in Rank /\ Pred(r) \in Rank
  BY <1>1, <1>2
<1>4. Succ(Pred(r)) = IF Pred(r) = procs - 1 THEN 0 ELSE Pred(r) + 1
  <2>1. Pred(r) + 1 \in 0 .. 2 * procs - 1
    BY <1>3
  <2> QED BY <2>1, <1>3, ModBelow DEF Succ
<1>5. Pred(Succ(r)) = IF Succ(r) = 0 THEN procs - 1 ELSE Succ(r) - 1
  <2>1. Succ(r) + procs - 1 \in 0 .. 2 * procs - 1
    BY <1>3
  <2> QED BY <2>1, <1>3, ModBelow DEF Pred
<1> QED BY <1>1, <1>2, <1>3, <1>4, <1>5

\* Stepping back: one step further back than one's predecessor.
LEMMA BehindPred ==
  ASSUME NEW r \in Rank, NEW k \in 1 .. procs
  PROVE  /\ Behind(Pred(r), k - 1) = Behind(r, k)
         /\ k < procs => Behind(r, k) \in Rank
         /\ Behind(r, 0) = r
BY ProcsAssumption, Neighbours DEF Behind, Rank

\* The rank the code computes is the one the data comes from.
LEMMA RemoteProcIsBehind ==
  ASSUME TypeOK, NEW r \in Rank
  PROVE  RemoteProc(r) = Behind(r, proc[r])
<1> USE ProcsAssumption DEF Rank
<1>1. proc[r] \in 1 .. procs
  BY DEF TypeOK
<1>2. r + procs - proc[r] \in 0 .. 2 * procs - 1
  BY <1>1
<1> QED BY <1>1, <1>2, ModBelow DEF RemoteProc, Behind

\* The members of the two buffers' index pair.
LEMMA InOut ==
  ASSUME TypeOK, NEW r \in Rank
  PROVE  /\ In(r) \in {0, 1} /\ Out(r) \in {0, 1} /\ In(r) # Out(r)
         /\ 1 - ((proc[r] + 1) % 2) = In(r)
<1>1. proc[r] \in Nat
  BY ProcsAssumption DEF TypeOK
<1> QED BY <1>1, Parity DEF In, Out

-----------------------------------------------------------------------------

\* What has been unpacked after one more iteration.
LEMMA OneMoreBehind ==
  ASSUME NEW r \in Rank, NEW n \in Nat \ {0}
  PROVE  {<<Behind(r, k), Behind(r, k)>> : k \in 1 .. (n + 1) - 1}
           = {<<Behind(r, k), Behind(r, k)>> : k \in 1 .. n - 1} \cup {<<Behind(r, n), Behind(r, n)>>}
<1>1. 1 .. (n + 1) - 1 = (1 .. n - 1) \cup {n}
  OBVIOUS
<1> QED BY <1>1, Zenon

\* The initial values have their types.
LEMMA TypeInit == Init => TypeOK
BY ProcsAssumption DEF Init, TypeOK, Rank, NoData

Inv == TypeOK /\ RingInv

\* Every step keeps the types.
LEMMA TypeStep == Inv /\ [Next]_vars => TypeOK'
<1> SUFFICES ASSUME Inv, [Next]_vars PROVE TypeOK'
  OBVIOUS
<1>0. TypeOK /\ \A r \in Rank : LocalInv(r)
  BY DEF Inv, RingInv
<1> USE ProcsAssumption DEF TypeOK
<1>1. ASSUME NEW r \in Rank, Enter(r) PROVE TypeOK'
  BY <1>0, <1>1 DEF Enter, FirstOp, Even
<1>2. ASSUME NEW r \in Rank, EvenSendReturns(r) PROVE TypeOK'
  BY <1>0, <1>2 DEF EvenSendReturns
<1>3. ASSUME NEW r \in Rank, OddSendReturns(r) PROVE TypeOK'
  <2>1. proc[r] + 1 \in 1 .. procs
    BY <1>0, <1>3 DEF OddSendReturns, LocalInv
  <2>2. <<RemoteProc(r), buffer[r][In(r)]>> \in Rank \X (Rank \cup {NoData})
    <3>1. Behind(r, proc[r]) \in Rank
      BY <1>0, <1>3, BehindPred DEF OddSendReturns, LocalInv
    <3> QED BY <1>0, <3>1, RemoteProcIsBehind, InOut
  <2> QED BY <1>0, <1>3, <2>1, <2>2 DEF OddSendReturns
<1>4. ASSUME NEW r \in Rank, EvenReceives(r) PROVE TypeOK'
  <2>1. proc[r] + 1 \in 1 .. procs
    BY <1>0, <1>4 DEF EvenReceives, LocalInv
  <2>2. buffer[Pred(r)][Out(Pred(r))] \in Rank \cup {NoData}
    BY <1>0, Neighbours, InOut
  <2>3. RemoteProc(r) \in Rank
    <3>1. proc[r] \in 1 .. procs /\ proc[r] < procs
      BY <1>0, <1>4 DEF EvenReceives, LocalInv
    <3>2. Behind(r, proc[r]) \in Rank
      BY <3>1, BehindPred
    <3> QED BY <1>0, <3>2, RemoteProcIsBehind
  <2>4. got' \in [Rank -> SUBSET (Rank \X (Rank \cup {NoData}))]
    BY <1>0, <1>4, <2>2, <2>3 DEF EvenReceives
  <2>5. buffer' \in [Rank -> [{0, 1} -> Rank \cup {NoData}]]
    BY <1>0, <1>4, <2>2, InOut DEF EvenReceives
  <2>6. pending' \in [Rank -> BOOLEAN] /\ pc' \in [Rank -> {"idle", "ssend", "recv", "done"}]
    <3>1. pc' \in [Rank -> {"idle", "ssend", "recv", "done"}]
      BY <1>0, <1>4 DEF EvenReceives
    <3>2. (proc[r] + 1 < procs) \in BOOLEAN
      OBVIOUS
    <3>3. pending' = [pending EXCEPT ![Pred(r)] = FALSE, ![r] = proc[r] + 1 < procs]
      BY <1>4 DEF EvenReceives
    <3>4. pending' \in [Rank -> BOOLEAN]
      BY <1>0, <3>2, <3>3, Zenon
    <3> QED BY <3>1, <3>4
  <2>7. proc' \in [Rank -> 1 .. procs]
    BY <1>0, <1>4, <2>1 DEF EvenReceives
  <2> QED BY <2>4, <2>5, <2>6, <2>7
<1>5. ASSUME NEW r \in Rank, OddReceives(r) PROVE TypeOK'
  <2>2. buffer[Pred(r)][Out(Pred(r))] \in Rank \cup {NoData}
    BY <1>0, Neighbours, InOut
  <2>5. buffer' \in [Rank -> [{0, 1} -> Rank \cup {NoData}]]
    BY <1>0, <1>5, <2>2, InOut DEF OddReceives
  <2>6. pending' \in [Rank -> BOOLEAN] /\ pc' \in [Rank -> {"idle", "ssend", "recv", "done"}]
    BY <1>0, <1>5 DEF OddReceives
  <2> QED BY <1>0, <1>5, <2>5, <2>6 DEF OddReceives
<1>6. CASE UNCHANGED vars
  BY <1>0, <1>6 DEF vars
<1> QED BY <1>1, <1>2, <1>3, <1>4, <1>5, <1>6 DEF Next, Step

\* A step of r that matches no message: nothing counted changes.
LEMMA LocalStep ==
  ASSUME Inv, NEW r \in Rank,
         \A q \in Rank \ {r} : /\ pc'[q] = pc[q] /\ proc'[q] = proc[q]
                               /\ buffer'[q] = buffer[q] /\ pending'[q] = pending[q]
                               /\ got'[q] = got[q],
         LocalInv(r)', Sent(r)' = Sent(r), Received(r)' = Received(r)
  PROVE  RingInv'
<1>1. ASSUME NEW q \in Rank \ {r}
      PROVE LocalInv(q)' /\ Sent(q)' = Sent(q) /\ Received(q)' = Received(q)
  BY DEF Inv, RingInv, LocalInv, Sent, Received, In, Out
<1>2. \A q \in Rank : Sent(q)' = Sent(q) /\ Received(q)' = Received(q)
  BY <1>1
<1>3. \A q \in Rank : Sent(q)' = Received(Succ(q))'
  <2> SUFFICES ASSUME NEW q \in Rank PROVE Sent(q)' = Received(Succ(q))'
    OBVIOUS
  <2>1. PICK s \in Rank : s = Succ(q)
    BY Neighbours
  <2>2. Received(Succ(q))' = Received(s)'
    BY <2>1 DEF Received, Succ
  <2> QED BY <1>2, <2>1, <2>2 DEF Inv, RingInv
<1> QED BY <1>1, <1>3 DEF RingInv

\* A receive of r matches the send of its predecessor in the same iteration.
LEMMA ReceiveStep ==
  ASSUME Inv, NEW r \in Rank, NEW p \in Rank, p = Pred(r), p # r,
         \A q \in Rank \ {r} : /\ pc'[q] = pc[q] /\ proc'[q] = proc[q]
                               /\ buffer'[q] = buffer[q] /\ got'[q] = got[q],
         \A q \in Rank \ {r, p} : pending'[q] = pending[q],
         pc[p] = "ssend", pending[p], ~pending'[p],
         LocalInv(r)', Sent(r)' = Sent(r), Received(r)' = Received(r) + 1
  PROVE  RingInv'
<1>1. ASSUME NEW q \in Rank \ {r} PROVE LocalInv(q)' /\ Received(q)' = Received(q)
  BY DEF Inv, RingInv, LocalInv, Received, In, Out
<1>2. ASSUME NEW q \in Rank \ {r, p} PROVE Sent(q)' = Sent(q)
  BY DEF Sent
<1>3. Sent(p)' = Sent(p) + 1
  BY ProcsAssumption DEF Sent, Inv, TypeOK
<1>4. \A q \in Rank : Sent(q)' = Received(Succ(q))'
  <2> SUFFICES ASSUME NEW q \in Rank PROVE Sent(q)' = Received(Succ(q))'
    OBVIOUS
  <2>1. PICK s \in Rank : s = Succ(q)
    BY Neighbours
  <2>2. Received(Succ(q))' = Received(s)'
    BY <2>1 DEF Received, Succ
  <2>3. Sent(q) = Received(s)
    BY <2>1 DEF Inv, RingInv
  <2>4. s = r <=> q = p
    BY <2>1, Neighbours
  <2> QED BY <1>1, <1>2, <1>3, <2>2, <2>3, <2>4
<1> QED BY <1>1, <1>4 DEF RingInv

\* Before the exchange every rank has its own data in buffer[0].
LEMMA RingInit == Init => RingInv
<1> SUFFICES ASSUME Init PROVE RingInv
  OBVIOUS
<1>2. ASSUME NEW r \in Rank PROVE LocalInv(r)
  <2>1. {<<Behind(r, k), Behind(r, k)>> : k \in 1 .. 1 - 1} = {}
    OBVIOUS
  <2> QED BY <2>1, ProcsAssumption, BehindPred DEF Init, LocalInv, In, Out, Rank
<1>3. \A r \in Rank : Sent(r) = 0 /\ Received(r) = 0
  BY DEF Init, Sent, Received
<1> QED BY <1>2, <1>3, Neighbours DEF RingInv

\* Every step keeps the sends and receives of neighbours in step.
LEMMA RingStep == Inv /\ [Next]_vars => RingInv'
<1> SUFFICES ASSUME Inv, [Next]_vars PROVE RingInv'
  OBVIOUS
<1>0. /\ TypeOK
      /\ \A r \in Rank : LocalInv(r) /\ Sent(r) = Received(Succ(r))
  BY DEF Inv, RingInv
<1>a. ASSUME NEW r \in Rank PROVE proc[r] \in 1 .. procs /\ proc[r] \in Nat
  BY <1>0, ProcsAssumption DEF TypeOK
<1>d. ASSUME NEW r \in Rank, proc'[r] = proc[r] + 1,
             got'[r] = got[r] \cup {<<RemoteProc(r), Behind(r, proc[r])>>}
      PROVE got'[r] = {<<Behind(r, k), Behind(r, k)>> : k \in 1 .. proc'[r] - 1}
  <2>1. RemoteProc(r) = Behind(r, proc[r])
    BY <1>0, RemoteProcIsBehind
  <2>2. got[r] = {<<Behind(r, k), Behind(r, k)>> : k \in 1 .. proc[r] - 1}
    BY <1>0 DEF LocalInv
  <2>3. proc[r] \in Nat \ {0}
    BY <1>a
  <2> QED BY <1>d, <2>1, <2>2, <2>3, OneMoreBehind
<1>1. ASSUME NEW r \in Rank, Enter(r) PROVE RingInv'
  <2>1. /\ proc' = proc /\ buffer' = buffer /\ got' = got /\ pc[r] = "idle" /\ proc[r] = 1
        /\ pc'[r] = IF procs > 1 THEN FirstOp(r) ELSE "done"
        /\ pending'[r] <=> (procs > 1 /\ Even(r))
        /\ ~pending[r]
    BY <1>0, <1>1 DEF Enter, LocalInv, TypeOK
  <2>2. LocalInv(r)'
    BY <1>0, <2>1, ProcsAssumption DEF LocalInv, In, Out, FirstOp, Even
  <2>3. Sent(r)' = Sent(r) /\ Received(r)' = Received(r)
    BY <2>1, ProcsAssumption DEF Sent, Received, FirstOp, Even
  <2> QED BY <1>0, <1>1, <2>2, <2>3, LocalStep DEF Enter, TypeOK
<1>2. ASSUME NEW r \in Rank, EvenSendReturns(r) PROVE RingInv'
  <2>1. /\ proc' = proc /\ buffer' = buffer /\ got' = got /\ pending' = pending
        /\ pc[r] = "ssend" /\ pc'[r] = "recv" /\ Even(r) /\ ~pending[r]
    BY <1>0, <1>2 DEF EvenSendReturns, TypeOK
  <2>2. LocalInv(r)'
    BY <1>0, <2>1 DEF LocalInv, In, Out, Even
  <2>3. Sent(r)' = Sent(r) /\ Received(r)' = Received(r)
    BY <2>1 DEF Sent, Received, Even
  <2> QED BY <1>0, <1>2, <2>2, <2>3, LocalStep DEF EvenSendReturns, TypeOK
<1>3. ASSUME NEW r \in Rank, OddSendReturns(r) PROVE RingInv'
  <2>1. /\ buffer' = buffer /\ pending' = pending
        /\ pc[r] = "ssend" /\ ~Even(r) /\ ~pending[r]
        /\ proc'[r] = proc[r] + 1
        /\ pc'[r] = IF proc[r] + 1 < procs THEN "recv" ELSE "done"
        /\ got'[r] = got[r] \cup {<<RemoteProc(r), buffer[r][In(r)]>>}
        /\ proc[r] < procs
    BY <1>0, <1>3 DEF OddSendReturns, TypeOK, LocalInv
  <2>2. buffer[r][In(r)] = Behind(r, proc[r])
    BY <1>0, <2>1 DEF LocalInv
  <2>3. LocalInv(r)'
    <3>1. Out(r)' = In(r)
      BY <1>0, <2>1, InOut DEF Out
    <3>2. (proc[r] + 1) - 1 = proc[r] /\ (~(proc[r] + 1 < procs) => proc[r] + 1 = procs)
      BY <1>a, <2>1, ProcsAssumption
    <3>3. Behind(r, proc[r] - 1)' = Behind(r, proc[r])
      BY <2>1, <3>2 DEF Behind
    <3>4. got'[r] = {<<Behind(r, k), Behind(r, k)>> : k \in 1 .. proc'[r] - 1}
      BY <1>0, <2>1, <2>2, <1>d
    <3> QED BY <2>1, <2>2, <3>1, <3>2, <3>3, <3>4 DEF LocalInv
  <2>4. Sent(r)' = Sent(r) /\ Received(r)' = Received(r)
    BY <1>a, <2>1, ProcsAssumption DEF Sent, Received, Even
  <2> QED BY <1>0, <1>3, <2>3, <2>4, LocalStep DEF OddSendReturns, TypeOK
<1>b. ASSUME NEW r \in Rank, pc[r] = "recv", pending[Pred(r)]
      PROVE /\ Pred(r) \in Rank /\ Pred(r) # r /\ pc[Pred(r)] = "ssend"
            /\ proc[Pred(r)] = proc[r] /\ proc[r] < procs
            /\ buffer[Pred(r)][Out(Pred(r))] = Behind(r, proc[r])
  <2>1. Pred(r) \in Rank /\ Succ(Pred(r)) = r
    BY Neighbours
  <2>2. pc[Pred(r)] = "ssend" /\ proc[r] < procs
    BY <1>0, <1>b, <2>1 DEF LocalInv
  <2>3. Sent(Pred(r)) = Received(r)
    BY <1>0, <2>1
  <2>4. proc[Pred(r)] = proc[r]
    BY <1>a, <1>b, <2>1, <2>2, <2>3 DEF Sent, Received
  <2>5. buffer[Pred(r)][Out(Pred(r))] = Behind(Pred(r), proc[r] - 1)
    BY <1>0, <2>1, <2>2, <2>4 DEF LocalInv
  <2> QED BY <1>a, <1>b, <2>1, <2>2, <2>4, <2>5, BehindPred
<1>4. ASSUME NEW r \in Rank, EvenReceives(r) PROVE RingInv'
  <2>1. PICK p \in Rank : /\ p = Pred(r) /\ p # r /\ pc[p] = "ssend" /\ pending[p]
                          /\ proc[r] < procs
                          /\ buffer[p][Out(p)] = Behind(r, proc[r])
    BY <1>4, <1>b DEF EvenReceives
  <2>2. PICK again \in BOOLEAN : again <=> proc[r] + 1 < procs
    OBVIOUS
  <2>3. /\ pc[r] = "recv" /\ Even(r) /\ ~pending[r] /\ ~pending'[p] /\ pending'[r] = again
        /\ pc'[r] = IF again THEN "ssend" ELSE "done"
        /\ proc'[r] = proc[r] + 1
        /\ buffer'[r][In(r)] = Behind(r, proc[r])
        /\ got'[r] = got[r] \cup {<<RemoteProc(r), Behind(r, proc[r])>>}
    BY <1>0, <1>4, <2>1, <2>2, InOut DEF EvenReceives, TypeOK, LocalInv
  <2>4. LocalInv(r)'
    <3>1. Out(r)' = In(r)
      BY <1>0, <2>3, InOut DEF Out
    <3>2. (proc[r] + 1) - 1 = proc[r] /\ (~again => proc[r] + 1 = procs)
      BY <1>a, <2>1, <2>2, ProcsAssumption
    <3>3. Behind(r, proc[r] - 1)' = Behind(r, proc[r])
      BY <2>3, <3>2 DEF Behind
    <3>4. Even(r)' /\ buffer'[r][Out(r)'] = Behind(r, proc[r] - 1)'
      BY <2>3, <3>1, <3>3 DEF Even
    <3>5. got'[r] = {<<Behind(r, k), Behind(r, k)>> : k \in 1 .. proc'[r] - 1}
      BY <2>3, <1>d
    <3> QED BY <2>2, <2>3, <3>2, <3>4, <3>5 DEF LocalInv
  <2>5. Sent(r)' = Sent(r) /\ Received(r)' = Received(r) + 1
    BY <1>a, <2>1, <2>2, <2>3, ProcsAssumption DEF Sent, Received, Even
  <2>7. /\ \A q \in Rank \ {r} : /\ pc'[q] = pc[q] /\ proc'[q] = proc[q]
                                 /\ buffer'[q] = buffer[q] /\ got'[q] = got[q]
        /\ \A q \in Rank \ {r, p} : pending'[q] = pending[q]
    BY <1>0, <1>4, <2>1 DEF EvenReceives, TypeOK
  <2> QED BY <2>1, <2>3, <2>4, <2>5, <2>7, ReceiveStep
<1>5. ASSUME NEW r \in Rank, OddReceives(r) PROVE RingInv'
  <2>1. PICK p \in Rank : /\ p = Pred(r) /\ p # r /\ pc[p] = "ssend" /\ pending[p]
                          /\ proc[r] < procs
                          /\ buffer[p][Out(p)] = Behind(r, proc[r])
    BY <1>5, <1>b DEF OddReceives
  <2>2. /\ pc[r] = "recv" /\ ~Even(r) /\ ~pending[r] /\ ~pending'[p] /\ pending'[r]
        /\ pc'[r] = "ssend" /\ proc'[r] = proc[r] /\ got' = got
        /\ buffer'[r][In(r)] = Behind(r, proc[r])
        /\ buffer'[r][Out(r)] = buffer[r][Out(r)]
    BY <1>0, <1>5, <2>1, InOut DEF OddReceives, TypeOK, LocalInv
  <2>3. LocalInv(r)'
    <3>1. Out(r)' = Out(r) /\ In(r)' = In(r) /\ ~Even(r)'
      BY <2>2 DEF Out, In, Even
    <3>2. Behind(r, proc[r] - 1)' = Behind(r, proc[r] - 1) /\ Behind(r, proc[r])' = Behind(r, proc[r])
      BY <2>2 DEF Behind
    <3>3. buffer[r][Out(r)] = Behind(r, proc[r] - 1)
      BY <1>0, <2>2 DEF LocalInv
    <3>4. got'[r] = {<<Behind(r, k), Behind(r, k)>> : k \in 1 .. proc'[r] - 1}
      BY <1>0, <2>2 DEF LocalInv
    <3> QED BY <2>1, <2>2, <3>1, <3>2, <3>3, <3>4 DEF LocalInv
  <2>4. Sent(r)' = Sent(r) /\ Received(r)' = Received(r) + 1
    BY <1>a, <2>2 DEF Sent, Received, Even
  <2>6. /\ \A q \in Rank \ {r} : /\ pc'[q] = pc[q] /\ proc'[q] = proc[q]
                                 /\ buffer'[q] = buffer[q] /\ got'[q] = got[q]
        /\ \A q \in Rank \ {r, p} : pending'[q] = pending[q]
    BY <1>0, <1>5, <2>1 DEF OddReceives, TypeOK
  <2> QED BY <2>1, <2>2, <2>3, <2>4, <2>6, ReceiveStep
<1>6. CASE UNCHANGED vars
  BY <1>0, <1>6 DEF vars, RingInv, LocalInv, Sent, Received, In, Out
<1> QED BY <1>1, <1>2, <1>3, <1>4, <1>5, <1>6 DEF Next, Step

-----------------------------------------------------------------------------

\* The variables of the exchange keep their types.
THEOREM TypeCorrect == Spec => []TypeOK
<1>1. Init => Inv
  BY TypeInit, RingInit DEF Inv
<1>2. Inv /\ [Next]_vars => Inv'
  BY TypeStep, RingStep DEF Inv
<1>3. Inv => TypeOK
  BY DEF Inv
<1> QED BY <1>1, <1>2, <1>3, PTL DEF Spec

\* RingInv is an invariant of the exchange.
THEOREM RingInvariant == Spec => []RingInv
<1>1. Init => Inv
  BY TypeInit, RingInit DEF Inv
<1>2. Inv /\ [Next]_vars => Inv'
  BY TypeStep, RingStep DEF Inv
<1>3. Inv => RingInv
  BY DEF Inv
<1> QED BY <1>1, <1>2, <1>3, PTL DEF Spec

\* For every number of processes, index data is attributed to its origin.
THEOREM RightOrigin == Spec => []AttributedToOrigin
<1>1. RingInv => AttributedToOrigin
  BY DEF RingInv, LocalInv, AttributedToOrigin
<1> QED BY <1>1, RingInvariant, PTL

\* The procs - 1 ranks behind a rank are all the others.
LEMMA AllBehind ==
  ASSUME NEW r \in Rank
  PROVE  {Behind(r, k) : k \in 1 .. procs - 1} = Rank \ {r}
<1> USE ProcsAssumption DEF Rank, Behind
<1>1. ASSUME NEW k \in 1 .. procs - 1 PROVE Behind(r, k) \in Rank \ {r}
  OBVIOUS
<1>2. ASSUME NEW q \in Rank \ {r} PROVE \E k \in 1 .. procs - 1 : q = Behind(r, k)
  <2>1. CASE q < r
    <3>1. r - q \in 1 .. procs - 1 /\ q = Behind(r, r - q)
      BY <2>1
    <3> QED BY <3>1
  <2>2. CASE q > r
    <3>1. r + procs - q \in 1 .. procs - 1 /\ q = Behind(r, r + procs - q)
      BY <2>2
    <3> QED BY <3>1
  <2> QED BY <2>1, <2>2
<1> QED BY <1>1, <1>2

\* For every number of processes, whoever is through has everybody's data.
THEOREM RingIsComplete == Spec => []CompleteWhenDone
<1>1. ASSUME Inv PROVE CompleteWhenDone
  <2> SUFFICES ASSUME NEW r \in Rank, pc[r] = "done"
               PROVE  {g[2] : g \in got[r]} = Rank \ {r}
    BY DEF CompleteWhenDone
  <2>1. got[r] = {<<Behind(r, k), Behind(r, k)>> : k \in 1 .. procs - 1}
    BY <1>1 DEF Inv, RingInv, LocalInv
  <2>2. {g[2] : g \in got[r]} = {Behind(r, k) : k \in 1 .. procs - 1}
    <3>1. ASSUME NEW g \in got[r] PROVE g[2] \in {Behind(r, k) : k \in 1 .. procs - 1}
      BY <2>1
    <3>2. ASSUME NEW k \in 1 .. procs - 1 PROVE \E g \in got[r] : Behind(r, k) = g[2]
      <4>1. <<Behind(r, k), Behind(r, k)>> \in got[r]
        BY <2>1
      <4>2. <<Behind(r, k), Behind(r, k)>>[2] = Behind(r, k)
        OBVIOUS
      <4> QED BY <4>1, <4>2
    <3> QED BY <3>1, <3>2
  <2> QED BY <2>2, AllBehind
<1>2. Spec => []Inv
  BY TypeCorrect, RingInvariant, PTL DEF Inv
<1> QED BY <1>1, <1>2, PTL
=============================================================================
