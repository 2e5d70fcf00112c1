------------------------- MODULE RemoteIndicesProofs -------------------------
(***************************************************************************)
(* For any processes and scenarios: the types of RemoteIndices, and that a *)
(* rebuild without neighbours is the ring of RingExchange, so that what is *)
(* proved about the ring holds of the rebuild.  For scenarios whose ranks  *)
(* agree on the shape of the exchange: the lists are exact after every     *)
(* rebuild, and the interfaces of two processes fit together.              *)
(***************************************************************************)
EXTENDS RemoteIndices, FunctionTheorems, FiniteSetTheorems, SequenceTheorems, WellFoundedInduction, TLAPS

\* The remainder of a number below twice the modulus.
LEMMA ModBelow ==
  ASSUME NEW n \in Nat \ {0}, NEW x \in 0 .. 2 * n - 1
  PROVE  x % n = IF x < n THEN x ELSE x - n
OBVIOUS

\* Successors and predecessors in the ring are ranks, and inverse to each other.
LEMMA Neighbouring ==
  ASSUME NEW r \in Rank
  PROVE  /\ Succ(r) \in Rank /\ Pred(r) \in Rank
         /\ Succ(Pred(r)) = r
         /\ procs > 1 => Pred(r) # r
<1> USE RemoteIndicesAssumption DEF Rank
<1>1. r + 1 \in 0 .. 2 * procs - 1 /\ r + procs - 1 \in 0 .. 2 * procs - 1
  OBVIOUS
<1>2. /\ Succ(r) = IF r + 1 < procs THEN r + 1 ELSE 0
      /\ Pred(r) = IF r = 0 THEN procs - 1 ELSE r - 1
  <2>1. ASSUME NEW x \in 0 .. 2 * procs - 1 PROVE x % procs = IF x < procs THEN x ELSE x - procs
    BY ModBelow
  <2> HIDE RemoteIndicesAssumption
  <2>2. PICK x \in 0 .. 2 * procs - 1 : x = r + 1
    BY <1>1
  <2>3. PICK y \in 0 .. 2 * procs - 1 : y = r + procs - 1
    BY <1>1
  <2>4. /\ x % procs = IF x < procs THEN x ELSE x - procs
        /\ y % procs = IF y < procs THEN y ELSE y - procs
    BY <2>1
  <2>5. Succ(r) = x % procs /\ Pred(r) = y % procs
    BY <2>2, <2>3 DEF Succ, Pred
  <2> QED BY RemoteIndicesAssumption, <2>2, <2>3, <2>4, <2>5
<1>3. PICK z \in 0 .. 2 * procs - 1 : z = Pred(r) + 1
  BY <1>2
<1>4. z % procs = IF z < procs THEN z ELSE z - procs
  BY ModBelow
<1>5. Succ(Pred(r)) = z % procs
  BY <1>3 DEF Succ
<1> QED BY <1>2, <1>3, <1>4, <1>5

\* The rank a ring message is attributed to is a rank.
LEMMA RemoteProcType ==
  ASSUME NEW r \in Rank, proc[r] \in 1 .. procs
  PROVE  RemoteProc(r) \in Rank
<1>1. procs \in Nat \ {0} /\ r + procs - proc[r] \in 0 .. 2 * procs - 1
  BY RemoteIndicesAssumption DEF Rank
<1>2. PICK x \in 0 .. 2 * procs - 1 : x = r + procs - proc[r]
  BY <1>1
<1>3. x % procs = IF x < procs THEN x ELSE x - procs
  BY <1>1, ModBelow
<1> QED BY <1>1, <1>2, <1>3 DEF RemoteProc, Rank

\* The two buffers' numbers.
LEMMA InOut ==
  ASSUME NEW r \in Rank, proc[r] \in 1 .. procs
  PROVE  In(r) \in {0, 1} /\ Out(r) \in {0, 1}
<1>1. proc[r] \in Nat
  BY RemoteIndicesAssumption
<1> QED BY <1>1 DEF In, Out

\* A rank has at most as many neighbours as there are ranks.
LEMMA FewNeighbours ==
  ASSUME NEW r \in Rank, neighbourIds[r] \subseteq Rank
  PROVE  NoNeighbours(r) \in 0 .. procs
<1>1. IsFiniteSet(Rank) /\ Cardinality(Rank) = procs
  BY RemoteIndicesAssumption, FS_Interval DEF Rank
<1>2. NoNeighbours(r) \in Nat /\ NoNeighbours(r) <= procs
  BY <1>1, FS_Subset, FS_CardinalityType DEF NoNeighbours
<1> QED BY <1>2, RemoteIndicesAssumption

-----------------------------------------------------------------------------

\* Whoever is inside a rebuild has come to one in the program, has met the others
\* no more often than there were rebuilds, and in the ring has an iteration to make.
ControlInv ==
  /\ scenario \in Scenarios
  /\ step \in [Rank -> 1 .. Len(Program) + 1]
  /\ pc \in [Rank -> {"user", "reduce", "ssend", "recv", "probe", "return"}]
  /\ entered \in [Rank -> 0 .. Len(Program)]
  /\ proc \in [Rank -> 1 .. procs]
  /\ \A r \in Rank :
       /\ pc[r] # "user" => step[r] \in DOMAIN Program
       /\ entered[r] <= IF pc[r] = "user" THEN step[r] - 1 ELSE step[r]
       /\ pc[r] \in {"ssend", "recv"} => proc[r] < procs

MemberInv ==
  /\ firstBuild \in [Rank -> BOOLEAN] /\ publicIgnored \in [Rank -> BOOLEAN]
  /\ neighbourIds \in [Rank -> SUBSET Rank] /\ pending \in [Rank -> SUBSET Rank]
  /\ received \in [Rank -> 0 .. procs]

BufferInv ==
  /\ DOMAIN buffer = Rank /\ DOMAIN remoteIndices = Rank /\ DOMAIN heard = Rank
  /\ \A r \in Rank :
       /\ DOMAIN buffer[r] = {0, 1}
       /\ \A i \in {0, 1} : buffer[r][i].from \in Rank \cup {-1}
       /\ DOMAIN remoteIndices[r] \subseteq Rank

\* Inductive: the types and a little of where control can be.
TypeInv == ControlInv /\ MemberInv /\ BufferInv

LEMMA ProgramType ==
  ASSUME scenario \in Scenarios
  PROVE  /\ Scenario(scenario)
         /\ Len(Program) \in Nat /\ DOMAIN Program = 1 .. Len(Program)
BY RemoteIndicesAssumption DEF Scenario, Program

LEMMA TypeInit == Init => TypeInv
<1> SUFFICES ASSUME Init PROVE TypeInv
  OBVIOUS
<1>1. /\ scenario \in Scenarios /\ Scenario(scenario)
      /\ Len(Program) \in Nat /\ DOMAIN Program = 1 .. Len(Program)
  BY ProgramType DEF Init
<1>2. procs \in Nat \ {0}
  BY RemoteIndicesAssumption
<1>3. ControlInv
  BY <1>1, <1>2 DEF Init, ControlInv
<1>4. MemberInv
  BY <1>1, <1>2 DEF Init, MemberInv, Scenario
<1>5. BufferInv
  BY <1>1, <1>2 DEF Init, BufferInv, NoData, NoLists
<1> QED BY <1>3, <1>4, <1>5 DEF TypeInv

\* Lists are entered for ranks only.
LEMMA UnpackType ==
  ASSUME NEW r, NEW map, NEW message, NEW remoteProc \in Rank, NEW self, DOMAIN map \subseteq Rank
  PROVE  DOMAIN Unpack(r, map, message, remoteProc, self) \subseteq Rank
BY DEF Unpack

\* What is packed is from the rank that packs it.
LEMMA MessageFrom == \A r \in Rank : Message(r).from = r
BY DEF Message

\* No step changes the scenario.
LEMMA ScenarioStays == [Next]_vars => scenario' = scenario
<1>1. ASSUME NEW r \in Rank, Step(r) PROVE scenario' = scenario
  <2>1. CASE Resize(r) \/ RebuildSkips(r) \/ RebuildStarts(r)
    BY <2>1 DEF Resize, RebuildSkips, RebuildStarts
  <2>2. CASE StartRing(r) \/ StartNeighbours(r)
    BY <2>2 DEF StartRing, StartNeighbours
  <2>3. CASE EvenSendReturns(r) \/ OddSendReturns(r)
    BY <2>3 DEF EvenSendReturns, OddSendReturns
  <2>4. CASE EvenReceives(r) \/ OddReceives(r)
    BY <2>4 DEF EvenReceives, OddReceives
  <2>5. CASE \E s \in Rank : ProbeAndReceive(r, s)
    BY <2>5 DEF ProbeAndReceive
  <2>6. CASE WaitAll(r) \/ Return(r)
    BY <2>6 DEF WaitAll, Return
  <2> QED BY <1>1, <2>1, <2>2, <2>3, <2>4, <2>5, <2>6 DEF Step
<1>2. CASE UNCHANGED vars
  BY <1>2 DEF vars
<1> QED BY <1>1, <1>2 DEF Next

\* Every step keeps the types.
LEMMA TypeStep == TypeInv /\ [Next]_vars => TypeInv'
<1> SUFFICES ASSUME TypeInv, [Next]_vars PROVE TypeInv'
  OBVIOUS
<1>i. ControlInv /\ MemberInv /\ BufferInv
  BY DEF TypeInv
<1>p. procs \in Nat \ {0}
  BY RemoteIndicesAssumption
<1>s. Len(Program) \in Nat /\ DOMAIN Program = 1 .. Len(Program)
  BY <1>i, ProgramType DEF ControlInv
<1>n. \A r \in Rank : Succ(r) \in Rank /\ Pred(r) \in Rank /\ NoNeighbours(r) \in 0 .. procs
  BY <1>i, Neighbouring, FewNeighbours DEF MemberInv
<1>c. scenario' = scenario /\ Program' = Program
  BY ScenarioStays DEF Program
<1> USE DEF object
<1>1. ASSUME NEW r \in Rank, Resize(r) PROVE TypeInv'
  <2> USE <1>1 DEF Resize
  <2>1. ControlInv'
    BY <1>i, <1>p, <1>s, <1>c DEF ControlInv, AtCall
  <2>2. MemberInv'
    BY <1>i, <1>p DEF MemberInv
  <2>3. BufferInv'
    BY <1>i DEF BufferInv
  <2> QED BY <2>1, <2>2, <2>3 DEF TypeInv
<1>2. ASSUME NEW r \in Rank, RebuildSkips(r) PROVE TypeInv'
  <2> USE <1>2 DEF RebuildSkips
  <2>1. ControlInv'
    BY <1>i, <1>p, <1>s, <1>c DEF ControlInv, AtCall
  <2>2. MemberInv'
    BY <1>i, <1>p DEF MemberInv
  <2>3. BufferInv'
    BY <1>i DEF BufferInv
  <2> QED BY <2>1, <2>2, <2>3 DEF TypeInv
<1>3. ASSUME NEW r \in Rank, RebuildStarts(r) PROVE TypeInv'
  <2> USE <1>3 DEF RebuildStarts
  <2>1. ControlInv'
    BY <1>i, <1>p, <1>s, <1>c DEF ControlInv, AtCall
  <2>2. MemberInv'
    BY <1>i, <1>p DEF MemberInv
  <2>3. BufferInv'
    BY <1>i DEF BufferInv, NoLists
  <2> QED BY <2>1, <2>2, <2>3 DEF TypeInv
<1>4. ASSUME NEW r \in Rank, ReduceReturns(r), DOMAIN heard' = Rank
      PROVE  neighbourIds' \in [Rank -> SUBSET Rank] /\ BufferInv'
  <2>1. DOMAIN Unpack(r, remoteIndices[r], Message(r), r, IncludeSelf) \subseteq Rank
    BY <1>i, UnpackType DEF BufferInv
  <2>2. NoData.from = -1
    BY DEF NoData
  <2>3. neighbourIds' \in [Rank -> SUBSET Rank]
    BY <1>i, <1>4 DEF ReduceReturns, MemberInv
  <2>4. DOMAIN remoteIndices' = Rank /\ \A q \in Rank : DOMAIN remoteIndices'[q] \subseteq Rank
    BY <1>i, <1>4, <2>1 DEF ReduceReturns, BufferInv
  <2>5. DOMAIN buffer' = Rank /\ \A q \in Rank : DOMAIN buffer'[q] = {0, 1}
    BY <1>i, <1>4 DEF ReduceReturns, BufferInv
  <2>6. \A q \in Rank : \A i \in {0, 1} : buffer'[q][i].from \in Rank \cup {-1}
    BY <1>i, <1>4, <2>2, MessageFrom DEF ReduceReturns, BufferInv
  <2> QED BY <1>i, <1>4, <2>3, <2>4, <2>5, <2>6 DEF BufferInv
<1>5. ASSUME NEW r \in Rank, StartRing(r) PROVE TypeInv'
  <2>a. DOMAIN heard' = Rank /\ ReduceReturns(r)
    BY <1>i, <1>5 DEF StartRing, BufferInv
  <2>b. neighbourIds' \in [Rank -> SUBSET Rank] /\ BufferInv'
    BY <1>4, <2>a
  <2> USE <1>5 DEF StartRing
  <2>1. ControlInv'
    BY <1>i, <1>p, <1>s, <1>c DEF ControlInv, ReduceReturns
  <2>2. MemberInv'
    BY <1>i, <1>p, <1>n, <2>b DEF MemberInv
  <2>3. BufferInv'
    BY <2>b
  <2> QED BY <2>1, <2>2, <2>3 DEF TypeInv
<1>6. ASSUME NEW r \in Rank, StartNeighbours(r) PROVE TypeInv'
  <2>a. DOMAIN heard' = Rank /\ ReduceReturns(r)
    BY <1>i, <1>6 DEF StartNeighbours, BufferInv
  <2>b. neighbourIds' \in [Rank -> SUBSET Rank] /\ neighbourIds'[r] \in SUBSET Rank /\ BufferInv'
    BY <1>4, <2>a
  <2> USE <1>6 DEF StartNeighbours
  <2>1. ControlInv'
    BY <1>i, <1>p, <1>s, <1>c DEF ControlInv, ReduceReturns
  <2>2. MemberInv'
    BY <1>i, <1>p, <2>b DEF MemberInv
  <2>3. BufferInv'
    BY <2>b
  <2> QED BY <2>1, <2>2, <2>3 DEF TypeInv
<1>7. ASSUME NEW r \in Rank, EvenSendReturns(r) PROVE TypeInv'
  <2> USE <1>7 DEF EvenSendReturns
  <2>1. ControlInv'
    BY <1>i, <1>p, <1>s, <1>c DEF ControlInv
  <2>2. MemberInv'
    BY <1>i, <1>p DEF MemberInv
  <2>3. BufferInv'
    BY <1>i DEF BufferInv
  <2> QED BY <2>1, <2>2, <2>3 DEF TypeInv
<1>8. ASSUME NEW r \in Rank, OddSendReturns(r) PROVE TypeInv'
  <2>a. DOMAIN Unpack(r, remoteIndices[r], buffer[r][In(r)], RemoteProc(r), FALSE) \subseteq Rank
    BY <1>i, UnpackType, RemoteProcType DEF ControlInv, BufferInv
  <2> USE <1>8 DEF OddSendReturns
  <2>1. ControlInv'
    BY <1>i, <1>p, <1>s, <1>c DEF ControlInv, EndIteration, AfterIteration
  <2>2. MemberInv'
    BY <1>i, <1>p DEF MemberInv, EndIteration
  <2>3. BufferInv'
    BY <1>i, <2>a DEF BufferInv, EndIteration
  <2> QED BY <2>1, <2>2, <2>3 DEF TypeInv
<1>9. ASSUME NEW r \in Rank, NEW s \in Rank PROVE Payload(s).from \in Rank \cup {-1} /\ In(r) \in {0, 1}
  BY <1>i, InOut DEF Payload, ControlInv, BufferInv
<1>10. ASSUME NEW r \in Rank, EvenReceives(r) PROVE TypeInv'
  <2>a. DOMAIN Unpack(r, remoteIndices[r], Payload(Pred(r)), RemoteProc(r), FALSE) \subseteq Rank
    BY <1>i, UnpackType, RemoteProcType DEF ControlInv, BufferInv
  <2> USE <1>10 DEF EvenReceives
  <2>1. ControlInv'
    BY <1>i, <1>p, <1>s, <1>c DEF ControlInv, ReceiveFromPred, EndIteration, AfterIteration
  <2>2. MemberInv'
    BY <1>i, <1>p, <1>n DEF MemberInv
  <2>3. BufferInv'
    BY <1>i, <1>n, <1>9, <2>a DEF BufferInv, ReceiveFromPred, EndIteration
  <2> QED BY <2>1, <2>2, <2>3 DEF TypeInv
<1>11. ASSUME NEW r \in Rank, OddReceives(r) PROVE TypeInv'
  <2> USE <1>11 DEF OddReceives
  <2>1. ControlInv'
    BY <1>i, <1>p, <1>s, <1>c DEF ControlInv, ReceiveFromPred
  <2>2. MemberInv'
    BY <1>i, <1>p, <1>n DEF MemberInv
  <2>3. BufferInv'
    BY <1>i, <1>n, <1>9 DEF BufferInv, ReceiveFromPred
  <2> QED BY <2>1, <2>2, <2>3 DEF TypeInv
<1>12. ASSUME NEW r \in Rank, NEW s \in Rank, ProbeAndReceive(r, s) PROVE TypeInv'
  <2>a. DOMAIN Unpack(r, remoteIndices[r], Payload(s), s, FALSE) \subseteq Rank
    BY <1>i, UnpackType DEF BufferInv
  <2> USE <1>12 DEF ProbeAndReceive
  <2>1. ControlInv'
    BY <1>i, <1>p, <1>s, <1>c DEF ControlInv
  <2>2. MemberInv'
    BY <1>i, <1>p, <1>n DEF MemberInv
  <2>3. BufferInv'
    BY <1>i, <1>9, <2>a DEF BufferInv
  <2> QED BY <2>1, <2>2, <2>3 DEF TypeInv
<1>13. ASSUME NEW r \in Rank, WaitAll(r) PROVE TypeInv'
  <2> USE <1>13 DEF WaitAll
  <2>1. ControlInv'
    BY <1>i, <1>p, <1>s, <1>c DEF ControlInv
  <2>2. MemberInv'
    BY <1>i, <1>p DEF MemberInv
  <2>3. BufferInv'
    BY <1>i DEF BufferInv
  <2> QED BY <2>1, <2>2, <2>3 DEF TypeInv
<1>14. ASSUME NEW r \in Rank, Return(r) PROVE TypeInv'
  <2>a. IgnorePublic(r) \in BOOLEAN
    <3> DEFINE Calls == [op : {"resize", "rebuild"}, ignorePublic : BOOLEAN]
    <3>1. Program \in Seq(Calls)
      BY <1>i, ProgramType DEF ControlInv, Scenario, Program
    <3>2. step[r] \in 1 .. Len(Program)
      BY <1>i, <1>s, <1>14 DEF ControlInv, Return
    <3>3. Program[step[r]] \in Calls
      <4> HIDE DEF Calls
      <4> QED BY <3>1, <3>2
    <3> QED BY <3>3 DEF IgnorePublic
  <2> USE <1>14 DEF Return
  <2>1. ControlInv'
    BY <1>i, <1>p, <1>s, <1>c DEF ControlInv
  <2>2. MemberInv'
    BY <1>i, <1>p, <2>a DEF MemberInv
  <2>3. BufferInv'
    BY <1>i DEF BufferInv
  <2> QED BY <2>1, <2>2, <2>3 DEF TypeInv
<1>15. CASE UNCHANGED vars
  BY <1>i, <1>c, <1>15 DEF vars, TypeInv, ControlInv, MemberInv, BufferInv
<1> QED BY <1>1, <1>2, <1>3, <1>5, <1>6, <1>7, <1>8, <1>10, <1>11, <1>12, <1>13, <1>14, <1>15 DEF Next, Step


\* The types of the members, the buffers and the control state are an invariant of the rebuild.
THEOREM TypeInvariant == Spec => []TypeInv
<1> QED BY TypeInit, TypeStep, PTL DEF Spec

\* The members of RemoteIndices keep their types, whatever the processes do.
THEOREM TypeCorrect == Spec => []TypeOK
<1>1. TypeInv => TypeOK
  BY DEF TypeInv, ControlInv, MemberInv, BufferInv, TypeOK
<1> QED BY <1>1, TypeInvariant, PTL

-----------------------------------------------------------------------------
(* A rebuild in the ring.                                                  *)

\* Where a process is in a single rebuild without neighbours: its lists are out of
\* date when it starts, it has sent and unpacked nothing before the ring, and what it
\* sends is for its successor.
RingPlaceInv ==
  RingOnce => \A r \in Rank :
    /\ neighbourIds[r] = {}
    /\ pc[r] # "probe"
    /\ step[r] = 1 /\ pc[r] = "user" => firstBuild[r]
    /\ pending[r] \subseteq {Succ(r)}
    /\ RingPc(r) = "idle" => pending[r] = {} /\ heard[r] = {} /\ proc[r] = 1

LEMMA RingPlaceInit == Init => RingPlaceInv
BY DEF Init, RingPlaceInv, RingOnce, RingPc

LEMMA RingPlaceStep == TypeInv /\ RingPlaceInv /\ [Next]_vars => RingPlaceInv'
<1> SUFFICES ASSUME TypeInv, RingPlaceInv, [Next]_vars, RingOnce' PROVE RingPlaceInv'
  BY DEF RingPlaceInv
<1>i. ControlInv /\ MemberInv /\ BufferInv
  BY DEF TypeInv
<1>c. scenario' = scenario /\ Program' = Program
  BY ScenarioStays DEF Program
<1>r. RingOnce /\ DOMAIN Program = {1} /\ Program[1].op = "rebuild"
  <2>1. RingOnce
    BY <1>c DEF RingOnce
  <2> QED BY <1>i, <2>1, ProgramType DEF ControlInv, RingOnce
<1>n. \A r \in Rank : Succ(r) \in Rank /\ Pred(r) \in Rank /\ Succ(Pred(r)) = r
  BY Neighbouring
<1>q. \A r \in Rank : /\ neighbourIds[r] = {} /\ pc[r] # "probe"
                      /\ step[r] = 1 /\ pc[r] = "user" => firstBuild[r]
                      /\ pending[r] \subseteq {Succ(r)}
                      /\ RingPc(r) = "idle" => pending[r] = {} /\ heard[r] = {} /\ proc[r] = 1
  BY <1>r DEF RingPlaceInv
<1> USE <1>i, <1>c, <1>r, <1>q DEF ControlInv, MemberInv, BufferInv, RingPlaceInv, RingPc, object
<1>1. ASSUME NEW r \in Rank, Resize(r) PROVE RingPlaceInv'
  BY <1>1 DEF Resize, AtCall
<1>2. ASSUME NEW r \in Rank, RebuildSkips(r) PROVE RingPlaceInv'
  BY <1>2 DEF RebuildSkips, AtCall, NeedsRebuild
<1>3. ASSUME NEW r \in Rank, RebuildStarts(r) PROVE RingPlaceInv'
  BY <1>3 DEF RebuildStarts, AtCall
<1>4. ASSUME NEW r \in Rank, StartRing(r) PROVE RingPlaceInv'
  BY <1>4 DEF StartRing, ReduceReturns
<1>5. ASSUME NEW r \in Rank, StartNeighbours(r) PROVE RingPlaceInv'
  BY <1>5 DEF StartNeighbours, ReduceReturns
<1>6. ASSUME NEW r \in Rank, EvenSendReturns(r) PROVE RingPlaceInv'
  BY <1>6 DEF EvenSendReturns
<1>7. ASSUME NEW r \in Rank, OddSendReturns(r) PROVE RingPlaceInv'
  BY <1>7 DEF OddSendReturns, EndIteration, AfterIteration
<1>8. ASSUME NEW r \in Rank, EvenReceives(r) PROVE RingPlaceInv'
  BY <1>8, <1>n DEF EvenReceives, ReceiveFromPred, EndIteration, AfterIteration
<1>9. ASSUME NEW r \in Rank, OddReceives(r) PROVE RingPlaceInv'
  BY <1>9, <1>n DEF OddReceives, ReceiveFromPred
<1>10. ASSUME NEW r \in Rank, NEW s \in Rank, ProbeAndReceive(r, s) PROVE RingPlaceInv'
  BY <1>10 DEF ProbeAndReceive
<1>11. ASSUME NEW r \in Rank, WaitAll(r) PROVE RingPlaceInv'
  BY <1>11 DEF WaitAll
<1>12. ASSUME NEW r \in Rank, Return(r) PROVE RingPlaceInv'
  BY <1>12 DEF Return
<1>13. CASE UNCHANGED vars
  BY <1>13 DEF vars
<1> QED BY <1>1, <1>2, <1>3, <1>4, <1>5, <1>6, <1>7, <1>8, <1>9, <1>10, <1>11, <1>12, <1>13 DEF Next, Step

\* The states of the rebuild are states of the ring exchange.
LEMMA RingMapsInit == Init => Ring!Init
<1> SUFFICES ASSUME Init PROVE Ring!Init
  OBVIOUS
<1>1. ASSUME NEW r \in Rank
      PROVE  /\ RingPc(r) = "idle" /\ RingProc(r) = 1 /\ RingGot(r) = {} /\ RingPending(r) = FALSE
             /\ RingBuffer(r) = [i \in {0, 1} |-> IF i = 0 THEN r ELSE -1]
  BY DEF Init, RingPc, RingProc, RingGot, RingPending, RingBuffer
<1>2. Ring!Rank = Rank /\ Ring!NoData = -1
  BY DEF Rank, Ring!Rank, Ring!NoData
<1>3. [r \in Rank |-> RingBuffer(r)] = [r \in Rank |-> [i \in {0, 1} |-> IF i = 0 THEN r ELSE -1]]
  BY <1>1
<1>4. [r \in Rank |-> RingPending(r)] = [r \in Rank |-> FALSE]
  BY <1>1, Zenon
<1>5. /\ [r \in Rank |-> RingPc(r)] = [r \in Rank |-> "idle"]
      /\ [r \in Rank |-> RingProc(r)] = [r \in Rank |-> 1]
      /\ [r \in Rank |-> RingGot(r)] = [r \in Rank |-> {}]
  BY <1>1
<1> QED BY <1>2, <1>3, <1>4, <1>5, Zenon DEF Ring!Init

\* What the ring exchange sees of a process.
LEMMA RingView ==
  ASSUME RingOnce, NEW r \in Rank
  PROVE  /\ RingProc(r) = proc[r] /\ RingGot(r) = heard[r]
         /\ RingPending(r) = (pending[r] # {})
BY DEF RingProc, RingGot, RingPending

\* A process whose own part does not change looks the same to the ring exchange.
LEMMA RingSame ==
  ASSUME TypeInv, NEW q \in Rank, RingOnce' = RingOnce, pc'[q] = pc[q], step'[q] = step[q]
  PROVE  /\ RingPc(q)' = RingPc(q)
         /\ proc'[q] = proc[q] => RingProc(q)' = RingProc(q)
         /\ heard'[q] = heard[q] => RingGot(q)' = RingGot(q)
         /\ pending'[q] = pending[q] => RingPending(q)' = RingPending(q)
         /\ buffer'[q] = buffer[q] => RingBuffer(q)' = RingBuffer(q)
<1>1. RingPc(q)' = RingPc(q)
  BY DEF RingPc
<1> QED BY <1>1 DEF RingProc, RingGot, RingPending, RingBuffer

\* Every step in such a rebuild is one of the ring exchange, or leaves it alone.
LEMMA RingMapsStep == TypeInv /\ RingPlaceInv /\ [Next]_vars => [Ring!Next]_(Ring!vars)
<1> SUFFICES ASSUME TypeInv, RingPlaceInv, [Next]_vars PROVE [Ring!Next]_(Ring!vars)
  OBVIOUS
<1>i. ControlInv /\ MemberInv /\ BufferInv
  BY DEF TypeInv
<1>c. scenario' = scenario /\ Program' = Program /\ RingOnce' = RingOnce
  <2>1. scenario' = scenario
    BY ScenarioStays
  <2> QED BY <2>1 DEF Program, RingOnce
<1>s. ASSUME \A q \in Rank : /\ RingPc(q)' = RingPc(q) /\ RingProc(q)' = RingProc(q)
                             /\ RingBuffer(q)' = RingBuffer(q) /\ RingPending(q)' = RingPending(q)
                             /\ RingGot(q)' = RingGot(q)
      PROVE  UNCHANGED Ring!vars
  BY <1>s DEF Ring!vars
<1>1. CASE ~RingOnce
  BY <1>1, <1>c, <1>s DEF RingPc, RingProc, RingBuffer, RingPending, RingGot
<1>2. CASE RingOnce
  <2>n. \A r \in Rank : /\ Succ(r) \in Rank /\ Pred(r) \in Rank /\ Succ(Pred(r)) = r
                        /\ procs > 1 => Pred(r) # r
    BY Neighbouring
  <2>p. procs \in Nat \ {0} /\ \A r \in Rank : r \in Nat /\ r < procs
    BY RemoteIndicesAssumption DEF Rank
  <2>r. DOMAIN Program = {1} /\ Program[1].op = "rebuild"
    BY <1>i, <1>2, ProgramType DEF ControlInv, RingOnce
  <2>q. \A r \in Rank : /\ neighbourIds[r] = {} /\ pc[r] # "probe"
                        /\ step[r] = 1 /\ pc[r] = "user" => firstBuild[r]
                        /\ pending[r] \subseteq {Succ(r)}
                        /\ RingPc(r) = "idle" => pending[r] = {} /\ heard[r] = {} /\ proc[r] = 1
    BY <1>2 DEF RingPlaceInv
  <2>io. \A r \in Rank : In(r) \in {0, 1} /\ Out(r) \in {0, 1}
    BY <1>i, InOut DEF ControlInv
  <2>v. \A q \in Rank : /\ RingProc(q) = proc[q] /\ RingGot(q) = heard[q] /\ RingPending(q) = (pending[q] # {})
                        /\ RingProc(q)' = proc'[q] /\ RingGot(q)' = heard'[q] /\ RingPending(q)' = (pending'[q] # {})
    BY <1>2, <1>c, RingView DEF RingProc, RingGot, RingPending
  <2>1. ASSUME NEW r \in Rank, Resize(r) PROVE FALSE
    BY <2>r, <2>1 DEF Resize, AtCall
  <2>2. ASSUME NEW r \in Rank, RebuildSkips(r) PROVE FALSE
    BY <2>r, <2>q, <2>2 DEF RebuildSkips, NeedsRebuild, AtCall
  <2>3. ASSUME NEW r \in Rank, StartNeighbours(r) \/ WaitAll(r) \/ \E s \in Rank : ProbeAndReceive(r, s) PROVE FALSE
    <3>1. ~(WaitAll(r) \/ \E s \in Rank : ProbeAndReceive(r, s))
      BY <2>q DEF WaitAll, ProbeAndReceive
    <3>2. ASSUME StartNeighbours(r) PROVE FALSE
      BY <1>i, <2>q, <3>2 DEF StartNeighbours, ReduceReturns, MemberInv
    <3> QED BY <2>3, <3>1, <3>2
  <2>4. ASSUME NEW r \in Rank, Return(r) PROVE UNCHANGED Ring!vars
    <3>1. UNCHANGED <<proc, buffer, pending, heard>>
      BY <2>4 DEF Return
    <3>2. \A q \in Rank : RingPc(q)' = RingPc(q)
      BY <1>i, <1>c, <1>2, <2>r, <2>4 DEF Return, RingPc, ControlInv
    <3> QED BY <1>s, <2>v, <3>1, <3>2 DEF RingBuffer
  <2>5. ASSUME NEW r \in Rank, RebuildStarts(r) PROVE Ring!Enter(r) \/ UNCHANGED Ring!vars
    <3>1. UNCHANGED <<step, proc, buffer, pending, heard>>
      BY <2>5 DEF RebuildStarts
    <3>2. RingPc(r) = "idle" /\ step[r] = 1
      BY <1>2, <2>r, <2>5 DEF RebuildStarts, AtCall, RingPc
    <3>3. CASE Communicates(r)
      <4>1. \A q \in Rank : RingPc(q)' = RingPc(q)
        BY <1>i, <1>c, <1>2, <2>5, <3>1, <3>2, <3>3 DEF RebuildStarts, RingPc, ControlInv
      <4> QED BY <1>s, <2>v, <3>1, <4>1 DEF RingBuffer
    <3>4. CASE ~Communicates(r)
      <4>1. procs = 1
        BY <2>p, <3>4 DEF Communicates
      <4>2. RingPc(r)' = "done"
        BY <1>i, <1>c, <1>2, <2>5, <3>1, <3>2, <3>4 DEF RebuildStarts, RingPc, ControlInv
      <4>3. \A q \in Rank : q = r /\ RingBuffer(q)' = RingBuffer(q)
        BY <2>p, <4>1 DEF RingBuffer, Rank
      <4>4. RingPending(r) = FALSE /\ RingPending(r)' = FALSE /\ RingProc(r)' = RingProc(r) /\ RingGot(r)' = RingGot(r)
        BY <2>q, <2>v, <3>1, <3>2
      <4>5. ~(procs > 1)
        BY <4>1
      <4> QED BY <3>2, <4>2, <4>3, <4>4, <4>5 DEF Ring!Enter
    <3> QED BY <3>3, <3>4
  <2>6. ASSUME NEW r \in Rank, StartRing(r) PROVE Ring!Enter(r)
    <3>1. RingPc(r) = "idle" /\ procs \in Nat
      BY <1>2, <2>p, <2>r, <2>6 DEF StartRing, ReduceReturns, RingPc, ControlInv, TypeInv
    <3>2. \A q \in Rank : RingPc(q)' = IF q # r THEN RingPc(q) ELSE IF procs > 1 THEN Ring!FirstOp(r) ELSE "done"
      BY <1>i, <1>c, <1>2, <2>p, <2>6 DEF StartRing, RingPc, ControlInv, Ring!FirstOp, Ring!Even, Even
    <3>3. \A q \in Rank : RingPending(q)' = IF q # r THEN RingPending(q) ELSE procs > 1 /\ Ring!Even(r)
      <4>1. /\ pending' = [pending EXCEPT ![r] = IF procs > 1 /\ Even(r) THEN {Succ(r)} ELSE {}]
            /\ DOMAIN pending = Rank
        BY <1>i, <2>6 DEF StartRing, MemberInv
      <4>2. Ring!Even(r) = Even(r)
        BY DEF Ring!Even, Even
      <4>3. /\ \A q \in Rank : q # r => pending'[q] = pending[q]
            /\ pending'[r] # {} <=> procs > 1 /\ Even(r)
        BY <4>1
      <4> QED BY <2>v, <4>2, <4>3
    <3>4. \A q \in Rank : RingProc(q)' = RingProc(q) /\ RingGot(q)' = RingGot(q)
      <4>1. proc' = [proc EXCEPT ![r] = 1] /\ heard' = [heard EXCEPT ![r] = {}]
        BY <2>6 DEF StartRing
      <4>2. proc[r] = 1 /\ heard[r] = {}
        BY <2>q, <3>1
      <4>3. \A q \in Rank : proc'[q] = proc[q] /\ heard'[q] = heard[q]
        BY <1>i, <4>1, <4>2 DEF ControlInv, BufferInv
      <4> QED BY <2>v, <4>3
    <3>5. \A q \in Rank : RingBuffer(q)' = RingBuffer(q)
      <4>1. ASSUME NEW q \in Rank, q # r PROVE RingBuffer(q)' = RingBuffer(q)
        BY <1>i, <2>6, <3>2, <4>1 DEF StartRing, ReduceReturns, BufferInv, RingBuffer
      <4>2. buffer'[r][0].from = r /\ buffer'[r][1].from = -1
        BY <1>i, <2>6 DEF StartRing, ReduceReturns, BufferInv, Message, NoData
      <4>3. [i \in {0, 1} |-> buffer'[r][i].from] = [i \in {0, 1} |-> IF i = 0 THEN r ELSE -1]
        BY <4>2
      <4> QED BY <3>1, <4>1, <4>3 DEF RingBuffer
    <3> QED BY <3>1, <3>2, <3>3, <3>4, <3>5 DEF Ring!Enter
  <2>7. ASSUME NEW r \in Rank, EvenSendReturns(r) PROVE Ring!EvenSendReturns(r)
    <3>1. UNCHANGED <<step, proc, buffer, pending, heard>>
      BY <2>7 DEF EvenSendReturns
    <3>2. RingPc(r) = "ssend" /\ Ring!Even(r) /\ RingPending(r) = FALSE
      BY <1>2, <2>q, <2>v, <2>7 DEF EvenSendReturns, RingPc, Even, Ring!Even, Posted
    <3>3. \A q \in Rank : RingPc(q)' = IF q = r THEN "recv" ELSE RingPc(q)
      BY <1>i, <1>c, <1>2, <2>7 DEF EvenSendReturns, RingPc, ControlInv
    <3>4. \A q \in Rank : /\ RingProc(q)' = RingProc(q) /\ RingPending(q)' = RingPending(q)
                          /\ RingGot(q)' = RingGot(q)
      BY <2>v, <3>1
    <3>5. \A q \in Rank : RingBuffer(q)' = RingBuffer(q)
      BY <3>1, <3>2, <3>3 DEF RingBuffer
    <3> QED BY <3>2, <3>3, <3>4, <3>5 DEF Ring!EvenSendReturns
  <2>b. ASSUME NEW q \in Rank, NEW i \in {0, 1}, procs > 1, RingPc(q) # "idle"
        PROVE  RingBuffer(q)[i] = buffer[q][i].from
    BY <2>b, <2>p DEF RingBuffer
  <2>l. ASSUME NEW r \in Rank, pc[r] \in {"ssend", "recv"} PROVE procs > 1 /\ RingPc(r) = pc[r]
    BY <1>i, <1>2, <2>p, <2>l DEF ControlInv, RingPc
  <2>8. ASSUME NEW r \in Rank, OddSendReturns(r) PROVE Ring!OddSendReturns(r)
    <3>0. pc[r] = "ssend" /\ UNCHANGED <<step, buffer, pending>>
      BY <2>8 DEF OddSendReturns, EndIteration
    <3>1. procs > 1 /\ RingPc(r) = "ssend" /\ ~Ring!Even(r) /\ RingPending(r) = FALSE
      BY <2>q, <2>v, <2>l, <2>8, <3>0 DEF OddSendReturns, Even, Ring!Even, Posted
    <3>2. \A q \in Rank : RingPc(q)' = IF q # r THEN RingPc(q) ELSE IF RingProc(r) + 1 < procs THEN "recv" ELSE "done"
      BY <1>i, <1>c, <1>2, <2>v, <2>8 DEF OddSendReturns, AfterIteration, RingPc, ControlInv
    <3>3. \A q \in Rank : RingProc(q)' = IF q = r THEN RingProc(q) + 1 ELSE RingProc(q)
      BY <1>i, <2>v, <2>8 DEF OddSendReturns, EndIteration, ControlInv
    <3>4. \A q \in Rank : RingPending(q)' = RingPending(q)
      BY <2>v, <3>0
    <3>5. \A q \in Rank : RingBuffer(q)' = RingBuffer(q)
      BY <3>0, <3>1, <3>2 DEF RingBuffer
    <3>6. Ring!In(r) = In(r) /\ Ring!RemoteProc(r) = RemoteProc(r)
      BY <2>v DEF Ring!In, In, Ring!RemoteProc, RemoteProc
    <3>7. RingBuffer(r)[In(r)] = buffer[r][In(r)].from
      BY <2>b, <2>io, <3>1
    <3>8. \A q \in Rank : RingGot(q)' = IF q = r THEN RingGot(q) \cup {<<RemoteProc(r), RingBuffer(r)[In(r)]>>} ELSE RingGot(q)
      BY <1>i, <2>v, <2>8, <3>7 DEF OddSendReturns, EndIteration, BufferInv
    <3> QED BY <3>1, <3>2, <3>3, <3>4, <3>5, <3>6, <3>8 DEF Ring!OddSendReturns
  <2>t. ASSUME NEW r \in Rank, ReceiveFromPred(r)
        PROVE  /\ procs > 1 /\ RingPc(r) = "recv" /\ Ring!Pred(r) = Pred(r) /\ RingPending(Pred(r)) = TRUE
               /\ RingPc(Pred(r)) # "idle"
               /\ RingBuffer(Ring!Pred(r))[Ring!Out(Pred(r))] = Payload(Pred(r)).from
               /\ Ring!In(r) = In(r)
               /\ \A q \in Rank : \A i \in {0, 1} :
                     buffer'[q][i] = IF q = r /\ i = In(r) THEN Payload(Pred(r)) ELSE buffer[q][i]
    <3>1. pc[r] = "recv" /\ pending[Pred(r)] # {}
      BY <2>t DEF ReceiveFromPred, Posted
    <3>2. procs > 1 /\ RingPc(r) = "recv" /\ Ring!Pred(r) = Pred(r)
      BY <2>l, <3>1 DEF Ring!Pred, Pred
    <3>3. RingPending(Pred(r)) = TRUE /\ RingPc(Pred(r)) # "idle"
      BY <2>n, <2>q, <2>v, <3>1
    <3>4. Payload(Pred(r)) = buffer[Pred(r)][Out(Pred(r))]
      BY <2>n, <2>q DEF Payload
    <3>5. Ring!Out(Pred(r)) = Out(Pred(r)) /\ Ring!In(r) = In(r)
      BY <2>n, <2>v DEF Ring!Out, Out, Ring!In, In
    <3>6. RingBuffer(Pred(r))[Out(Pred(r))] = buffer[Pred(r)][Out(Pred(r))].from
      BY <2>b, <2>n, <2>io, <3>2, <3>3
    <3>7. \A q \in Rank : \A i \in {0, 1} :
            buffer'[q][i] = IF q = r /\ i = In(r) THEN Payload(Pred(r)) ELSE buffer[q][i]
      BY <1>i, <2>io, <2>t DEF ReceiveFromPred, BufferInv
    <3> QED BY <3>2, <3>3, <3>4, <3>5, <3>6, <3>7
  <2>u. ASSUME NEW r \in Rank, ReceiveFromPred(r), RingPc(r)' # "idle",
               \A q \in Rank : q # r => RingPc(q)' = RingPc(q)
        PROVE  \A q \in Rank : RingBuffer(q)' = IF q = r THEN [RingBuffer(r) EXCEPT ![In(r)] = Payload(Pred(r)).from]
                                                        ELSE RingBuffer(q)
    <3>1. ASSUME NEW q \in Rank, q # r PROVE RingBuffer(q)' = RingBuffer(q)
      <4>1. buffer'[q][0] = buffer[q][0] /\ buffer'[q][1] = buffer[q][1]
        BY <2>t, <2>u, <3>1
      <4>2. [i \in {0, 1} |-> buffer'[q][i].from] = [i \in {0, 1} |-> buffer[q][i].from]
        BY <4>1
      <4> QED BY <2>u, <3>1, <4>2 DEF RingBuffer
    <3>2. procs > 1 /\ RingPc(r) = "recv"
      BY <2>t, <2>u
    <3>3. RingBuffer(r) = [i \in {0, 1} |-> buffer[r][i].from] /\ RingBuffer(r)' = [i \in {0, 1} |-> buffer'[r][i].from]
      BY <2>p, <2>u, <3>2 DEF RingBuffer
    <3>4. \A i \in {0, 1} : buffer'[r][i] = IF i = In(r) THEN Payload(Pred(r)) ELSE buffer[r][i]
      BY <2>t, <2>u
    <3>5. RingBuffer(r)' = [RingBuffer(r) EXCEPT ![In(r)] = Payload(Pred(r)).from]
      BY <3>3, <3>4
    <3> QED BY <3>1, <3>5
  <2>9. ASSUME NEW r \in Rank, EvenReceives(r) PROVE Ring!EvenReceives(r)
    <3>0. ReceiveFromPred(r) /\ UNCHANGED step
      BY <2>9 DEF EvenReceives
    <3>1. procs > 1 /\ RingPc(r) = "recv" /\ Ring!Even(r) /\ Ring!Pred(r) = Pred(r) /\ RingPending(Pred(r)) = TRUE
      BY <2>t, <2>9, <3>0 DEF EvenReceives, Even, Ring!Even
    <3>2. \A q \in Rank : RingPc(q)' = IF q # r THEN RingPc(q) ELSE IF RingProc(r) + 1 < procs THEN "ssend" ELSE "done"
      BY <1>i, <1>c, <1>2, <2>v, <2>9 DEF EvenReceives, AfterIteration, RingPc, ControlInv
    <3>3. \A q \in Rank : RingProc(q)' = IF q = r THEN RingProc(q) + 1 ELSE RingProc(q)
      BY <1>i, <2>v, <2>9 DEF EvenReceives, EndIteration, ControlInv
    <3>4. \A q \in Rank : RingPending(q)' = IF q = r THEN RingProc(r) + 1 < procs
                                            ELSE IF q = Pred(r) THEN FALSE ELSE RingPending(q)
      <4>1. \A q \in Rank : pending'[q] = IF q = r THEN IF proc[r] + 1 < procs THEN {Succ(r)} ELSE {}
                                          ELSE IF q = Pred(r) THEN pending[q] \ {r} ELSE pending[q]
        BY <1>i, <2>n, <2>9, <3>1 DEF EvenReceives, MemberInv
      <4>2. pending[Pred(r)] \ {r} = {}
        BY <2>n, <2>q
      <4>3. (pending'[r] # {}) = (proc[r] + 1 < procs)
        <5>1. CASE proc[r] + 1 < procs
          <6>1. (pending'[r] # {}) = TRUE /\ (proc[r] + 1 < procs) = TRUE
            BY <4>1, <5>1
          <6> QED BY <6>1
        <5>2. CASE ~(proc[r] + 1 < procs)
          <6>1. pending'[r] = {}
            BY <4>1, <5>2
          <6>2. (pending'[r] # {}) = FALSE
            BY <6>1
          <6>3. (proc[r] + 1 < procs) = FALSE
            BY <5>2
          <6> QED BY <6>2, <6>3
        <5> QED BY <5>1, <5>2
      <4>4. ASSUME NEW q \in Rank, q # r
            PROVE  (pending'[q] # {}) = IF q = Pred(r) THEN FALSE ELSE (pending[q] # {})
        BY <4>1, <4>2, <4>4
      <4> QED BY <2>v, <4>3, <4>4
    <3>5. \A q \in Rank : RingBuffer(q)' = IF q = r THEN [RingBuffer(r) EXCEPT ![In(r)] = Payload(Pred(r)).from]
                                                        ELSE RingBuffer(q)
      BY <2>u, <3>0, <3>2
    <3>6. Ring!RemoteProc(r) = RemoteProc(r)
      BY <2>v DEF Ring!RemoteProc, RemoteProc
    <3>8. \A q \in Rank : RingGot(q)' = IF q = r THEN RingGot(q) \cup {<<RemoteProc(r), Payload(Pred(r)).from>>} ELSE RingGot(q)
      BY <1>i, <2>v, <2>9 DEF EvenReceives, EndIteration, BufferInv
    <3>9. /\ RingBuffer(Ring!Pred(r))[Ring!Out(Pred(r))] = Payload(Pred(r)).from /\ Ring!In(r) = In(r) /\ Pred(r) # r
          /\ Pred(r) \in Rank
      BY <2>t, <2>n, <3>0, <3>1
    <3> QED BY <3>1, <3>2, <3>3, <3>4, <3>5, <3>6, <3>8, <3>9 DEF Ring!EvenReceives
  <2>10. ASSUME NEW r \in Rank, OddReceives(r) PROVE Ring!OddReceives(r)
    <3>0. ReceiveFromPred(r) /\ UNCHANGED <<step, proc, heard>>
      BY <2>10 DEF OddReceives
    <3>1. procs > 1 /\ RingPc(r) = "recv" /\ ~Ring!Even(r) /\ Ring!Pred(r) = Pred(r) /\ RingPending(Pred(r)) = TRUE
      BY <2>t, <2>10, <3>0 DEF OddReceives, Even, Ring!Even
    <3>2. \A q \in Rank : RingPc(q)' = IF q # r THEN RingPc(q) ELSE "ssend"
      BY <1>i, <1>c, <1>2, <2>10 DEF OddReceives, RingPc, ControlInv
    <3>3. \A q \in Rank : RingProc(q)' = RingProc(q) /\ RingGot(q)' = RingGot(q)
      BY <2>v, <3>0
    <3>4. \A q \in Rank : RingPending(q)' = IF q = r THEN TRUE ELSE IF q = Pred(r) THEN FALSE ELSE RingPending(q)
      <4>1. \A q \in Rank : pending'[q] = IF q = r THEN {Succ(r)}
                                          ELSE IF q = Pred(r) THEN pending[q] \ {r} ELSE pending[q]
        BY <1>i, <2>n, <2>10, <3>1 DEF OddReceives, MemberInv
      <4>2. pending[Pred(r)] \ {r} = {}
        BY <2>n, <2>q
      <4> QED BY <2>v, <4>1, <4>2
    <3>5. \A q \in Rank : RingBuffer(q)' = IF q = r THEN [RingBuffer(r) EXCEPT ![In(r)] = Payload(Pred(r)).from]
                                                        ELSE RingBuffer(q)
      BY <2>u, <3>0, <3>2
    <3>9. /\ RingBuffer(Ring!Pred(r))[Ring!Out(Pred(r))] = Payload(Pred(r)).from /\ Ring!In(r) = In(r) /\ Pred(r) # r
          /\ Pred(r) \in Rank
      BY <2>t, <2>n, <3>0, <3>1
    <3> QED BY <3>1, <3>2, <3>3, <3>4, <3>5, <3>9 DEF Ring!OddReceives
  <2>11. CASE UNCHANGED vars
    <3>1. \A q \in Rank : RingPc(q)' = RingPc(q)
      BY <1>c, <2>11 DEF vars, RingPc
    <3> QED BY <1>s, <2>v, <2>11, <3>1 DEF vars, RingBuffer
  <2>12. Ring!Rank = Rank
    BY DEF Rank, Ring!Rank
  <2> QED BY <2>1, <2>2, <2>3, <2>4, <2>5, <2>6, <2>7, <2>8, <2>9, <2>10, <2>11, <2>12 DEF Next, Step, Ring!Next, Ring!Step
<1> QED BY <1>1, <1>2

\* The rebuild implements the ring exchange: whatever the processes and their index
\* sets, each step of a single rebuild without neighbours is a step of the ring or
\* changes nothing that it knows of.
THEOREM RingImplemented == Spec => ImplementsRing
<1>1. Spec => []RingPlaceInv
  BY RingPlaceInit, RingPlaceStep, TypeInvariant, PTL DEF Spec
<1> QED BY <1>1, RingMapsInit, RingMapsStep, TypeInvariant, PTL DEF Spec, ImplementsRing, Ring!Spec

-----------------------------------------------------------------------------
(* What is proved about the ring holds of the rebuild.                     *)

Proved == INSTANCE RingExchangeProofs WITH
  proc    <- [r \in Rank |-> RingProc(r)],
  pc      <- [r \in Rank |-> RingPc(r)],
  buffer  <- [r \in Rank |-> RingBuffer(r)],
  pending <- [r \in Rank |-> RingPending(r)],
  got     <- [r \in Rank |-> RingGot(r)]

\* The proofs are about the same exchange.
LEMMA SameExchange == Ring!Spec => Proved!Spec
<1>1. Ring!Init => Proved!Init
  BY DEF Ring!Init, Proved!Init, Ring!Rank, Proved!Rank, Ring!NoData, Proved!NoData
<1>2. [Ring!Next]_(Ring!vars) => [Proved!Next]_(Proved!vars)
  BY DEF Ring!vars, Proved!vars, Ring!Next, Proved!Next, Ring!Step, Proved!Step, Ring!Rank, Proved!Rank,
         Ring!Enter, Proved!Enter, Ring!FirstOp, Proved!FirstOp, Ring!Even, Proved!Even,
         Ring!EvenSendReturns, Proved!EvenSendReturns, Ring!OddSendReturns, Proved!OddSendReturns,
         Ring!OddReceives, Proved!OddReceives, Ring!EvenReceives, Proved!EvenReceives,
         Ring!Pred, Proved!Pred, Ring!In, Proved!In, Ring!Out, Proved!Out, Ring!RemoteProc, Proved!RemoteProc
<1> QED BY <1>1, <1>2, PTL DEF Ring!Spec, Proved!Spec

\* A process that is through with the ring has unpacked one message of every other
\* process, and each as that of the process that had packed it.
EverybodyHeard ==
  RingOnce => \A r \in Rank : RingPc(r) = "done" => heard[r] = {<<q, q>> : q \in Rank \ {r}}

\* The ring of a rebuild is complete and attributes everything to its origin, for any
\* number of processes and any index sets, although no message says whose it is.
THEOREM RebuildHearsEverybody == Spec => []EverybodyHeard
<1>1. Proved!ProcsAssumption
  BY RemoteIndicesAssumption DEF Proved!ProcsAssumption
<1>2. Spec => [](Proved!TypeOK /\ Proved!CompleteWhenDone /\ Proved!AttributedToOrigin)
  BY <1>1, RingImplemented, SameExchange, Proved!TypeCorrect, Proved!RingIsComplete, Proved!RightOrigin, PTL
     DEF ImplementsRing
<1>3. Proved!TypeOK /\ Proved!CompleteWhenDone /\ Proved!AttributedToOrigin => EverybodyHeard
  <2> SUFFICES ASSUME Proved!TypeOK, Proved!CompleteWhenDone, Proved!AttributedToOrigin, RingOnce,
                      NEW r \in Rank, RingPc(r) = "done"
               PROVE  heard[r] = {<<q, q>> : q \in Rank \ {r}}
    BY DEF EverybodyHeard
  <2>1. Proved!Rank = Rank /\ RingGot(r) = heard[r]
    BY RingView DEF Rank, Proved!Rank
  <2>2. {g[2] : g \in heard[r]} = Rank \ {r}
    BY <2>1 DEF Proved!CompleteWhenDone
  <2>3. \A g \in heard[r] : g[1] = g[2]
    BY <2>1 DEF Proved!AttributedToOrigin
  <2>4. heard[r] \subseteq Rank \X (Rank \cup {-1})
    BY <2>1 DEF Proved!TypeOK, Proved!NoData
  <2>5. \A g \in heard[r] : g = <<g[2], g[2]>> /\ g[2] \in Rank \ {r}
    BY <2>2, <2>3, <2>4
  <2> QED BY <2>2, <2>5
<1> QED BY <1>2, <1>3, PTL

\* Induction over the natural numbers, for a set instead of a predicate.
LEMMA InductionOverNat ==
  ASSUME NEW T \in SUBSET Nat, 0 \in T, \A n \in T : n + 1 \in T
  PROVE  T = Nat
<1> DEFINE Less == OpToRel(<, Nat)
<1> SUFFICES ASSUME Nat \ T # {} PROVE FALSE
  OBVIOUS
<1>1. IsWellFoundedOn(Less, Nat)
  BY NatLessThanWellFounded
<1>2. \A x, y \in Nat : <<x, y>> \in Less <=> x < y
  BY DEF OpToRel
<1> HIDE DEF Less
<1>3. PICK m \in Nat \ T : \A n \in Nat \ T : ~(<<n, m>> \in Less)
  BY <1>1, WFMin
<1>4. m # 0 /\ m - 1 \in Nat
  BY <1>3
<1>5. m - 1 \in T
  <2>1. m - 1 < m
    BY <1>4
  <2> QED BY <1>2, <1>3, <1>4, <2>1
<1> QED BY <1>3, <1>4, <1>5

\* Induction over a measure, for a set instead of a predicate.
LEMMA InductionOverMeasure ==
  ASSUME NEW P, NEW size \in [P -> Nat], NEW Q \in SUBSET P,
         \A x \in P : (\A y \in P : size[y] < size[x] => y \in Q) => x \in Q
  PROVE  Q = P
<1> DEFINE T == {n \in Nat : \A x \in P : size[x] < n => x \in Q}
<1>1. 0 \in T
  OBVIOUS
<1>2. ASSUME NEW n \in T PROVE n + 1 \in T
  <2> SUFFICES ASSUME NEW x \in P, size[x] < n + 1 PROVE x \in Q
    OBVIOUS
  <2>1. \A y \in P : size[y] < size[x] => size[y] < n
    OBVIOUS
  <2> QED BY <2>1
<1>3. T = Nat
  <2> HIDE DEF T
  <2> QED BY <1>1, <1>2, InductionOverNat DEF T
<1>4. ASSUME NEW x \in P PROVE x \in Q
  <2>1. size[x] + 1 \in T
    BY <1>3
  <2> QED BY <2>1
<1> QED BY <1>4

-----------------------------------------------------------------------------
(* The recursion of unpackIndices.                                         *)

Places(remote, local) == (1 .. Len(remote) + 1) \X (1 .. Len(local) + 1) \X (1 .. Len(local) + 1)

\* What is still to be added at a place, given the function that says so.
FromBody(f, remote, local, fromOurSelf, at) ==
  LET n == at[1]
      l == at[2]
      m == at[3]
      next == AfterRun(remote, n, l, m)
  IN IF n > Len(remote) THEN <<>>
     ELSE IF m <= Len(local) /\ local[m].global = remote[n].global
       THEN PairWith(remote[n], local[m], fromOurSelf) \o f[<<n, l, m + 1>>]
     ELSE IF m <= Len(local) /\ local[m].global < remote[n].global
       THEN f[<<n, m + 1, m + 1>>]
     ELSE f[<<n + 1, next, next>>]

\* Comparisons of three numbers.
LEMMA LessThan ==
  \A a, b, c \in Int : /\ a <= b /\ b < c => a < c
                       /\ a < b /\ b <= c => a < c
                       /\ a <= b /\ a # b => a < b
OBVIOUS

\* What decreases: comparisons that are still possible.
Ahead(remote, local, at) ==
  (Len(remote) + 1 - at[1]) * (Len(local) + 2) + (Len(local) + 1 - at[3])

\* The places a place continues at are of the domain, with less ahead of them.
LEMMA PlacesDecrease ==
  ASSUME NEW S, NEW remote \in Seq(S), NEW local \in Seq(S), NEW at \in Places(remote, local)
  PROVE  /\ at[1] \in 1 .. Len(remote) + 1 /\ at[2] \in 1 .. Len(local) + 1 /\ at[3] \in 1 .. Len(local) + 1
         /\ at = <<at[1], at[2], at[3]>>
         /\ Len(remote) \in Nat /\ Len(local) \in Nat
         /\ Ahead(remote, local, at) \in Nat
         /\ \A n, l, m : <<n, l, m>> \in Places(remote, local) <=>
              n \in 1 .. Len(remote) + 1 /\ l \in 1 .. Len(local) + 1 /\ m \in 1 .. Len(local) + 1
         /\ at[3] <= Len(local) => \A l \in 1 .. Len(local) + 1 :
              LET to == <<at[1], l, at[3] + 1>>
              IN to \in Places(remote, local) /\ Ahead(remote, local, to) < Ahead(remote, local, at)
         /\ at[1] <= Len(remote) => \A l, m \in 1 .. Len(local) + 1 :
              LET to == <<at[1] + 1, l, m>>
              IN to \in Places(remote, local) /\ Ahead(remote, local, to) < Ahead(remote, local, at)
<1>1. Len(remote) \in Nat /\ Len(local) \in Nat
  OBVIOUS
<1>2. /\ at[1] \in 1 .. Len(remote) + 1 /\ at[2] \in 1 .. Len(local) + 1 /\ at[3] \in 1 .. Len(local) + 1
      /\ at = <<at[1], at[2], at[3]>>
  BY DEF Places
<1>3. \A n, l, m : <<n, l, m>> \in Places(remote, local) <=>
              n \in 1 .. Len(remote) + 1 /\ l \in 1 .. Len(local) + 1 /\ m \in 1 .. Len(local) + 1
  BY DEF Places
<1>4. \A k \in Nat, w \in Nat : k * w \in Nat /\ (k + 1) * w = k * w + w
  OBVIOUS
<1> DEFINE R == Len(remote)
           L == Len(local)
<1>5. Ahead(remote, local, at) \in Nat
  <2>1. (R + 1 - at[1]) * (L + 2) \in Nat
    <3>1. R + 1 - at[1] \in Nat /\ L + 2 \in Nat
      BY <1>1, <1>2
    <3> HIDE DEF R, L
    <3> QED BY <1>4, <3>1
  <2>2. L + 1 - at[3] \in Nat
    BY <1>1, <1>2
  <2> QED BY <2>1, <2>2 DEF Ahead
<1>6. ASSUME at[3] <= Len(local), NEW l \in 1 .. Len(local) + 1
      PROVE  LET to == <<at[1], l, at[3] + 1>>
             IN to \in Places(remote, local) /\ Ahead(remote, local, to) < Ahead(remote, local, at)
  <2> DEFINE to == <<at[1], l, at[3] + 1>>
  <2>1. to \in Places(remote, local)
    BY <1>1, <1>2, <1>3, <1>6
  <2>2. (R + 1 - at[1]) * (L + 2) \in Nat
    <3>1. R + 1 - at[1] \in Nat /\ L + 2 \in Nat
      BY <1>1, <1>2
    <3> HIDE DEF R, L
    <3> QED BY <1>4, <3>1
  <2>3. to[1] = at[1] /\ to[3] = at[3] + 1
    OBVIOUS
  <2> HIDE DEF to
  <2>4. Ahead(remote, local, to) = (R + 1 - at[1]) * (L + 2) + (L + 1 - (at[3] + 1))
    BY <2>3 DEF Ahead
  <2>5. Ahead(remote, local, at) = (R + 1 - at[1]) * (L + 2) + (L + 1 - at[3])
    BY DEF Ahead
  <2>6. Ahead(remote, local, to) < Ahead(remote, local, at)
    <3> DEFINE kw == (R + 1 - at[1]) * (L + 2)
               a == L + 1 - (at[3] + 1)
               b == L + 1 - at[3]
    <3>1. kw \in Nat
      BY <2>2
    <3>2. Ahead(remote, local, to) = kw + a /\ Ahead(remote, local, at) = kw + b
      BY <2>4, <2>5
    <3> HIDE DEF kw
    <3>3. a \in Int /\ b \in Int /\ a < b
      <4>1. L \in Int /\ at[3] \in Int
        BY <1>1, <1>2
      <4> HIDE DEF L
      <4>2. \A x, y \in Int : x + 1 - (y + 1) \in Int /\ x + 1 - y \in Int /\ x + 1 - (y + 1) < x + 1 - y
        OBVIOUS
      <4> QED BY <4>1, <4>2
    <3> HIDE DEF a, b
    <3> QED BY <3>1, <3>2, <3>3
  <2> QED BY <2>1, <2>6 DEF to
<1>7. ASSUME at[1] <= Len(remote), NEW l \in 1 .. Len(local) + 1, NEW m \in 1 .. Len(local) + 1
      PROVE  LET to == <<at[1] + 1, l, m>>
             IN to \in Places(remote, local) /\ Ahead(remote, local, to) < Ahead(remote, local, at)
  <2> DEFINE to == <<at[1] + 1, l, m>>
             k == R - at[1]
             w == L + 2
  <2>1. to \in Places(remote, local)
    BY <1>1, <1>2, <1>3, <1>7
  <2>2. k \in Nat /\ w \in Nat
    BY <1>1, <1>2, <1>7
  <2>3. to[1] = at[1] + 1 /\ to[3] = m
    OBVIOUS
  <2>4. R + 1 - (at[1] + 1) = k /\ R + 1 - at[1] = k + 1
    BY <1>1, <1>2
  <2> HIDE DEF to
  <2>5. Ahead(remote, local, to) = k * w + (L + 1 - m)
    BY <2>3, <2>4 DEF Ahead
  <2>6. Ahead(remote, local, at) = (k + 1) * w + (L + 1 - at[3])
    BY <2>4 DEF Ahead
  <2>7. L + 1 - m < w + (L + 1 - at[3])
    <3>1. L \in Nat /\ m \in Int /\ m >= 1 /\ at[3] \in Int /\ at[3] <= L + 1
      BY <1>1, <1>2
    <3> HIDE DEF L
    <3>2. \A x \in Nat, y, z \in Int : y >= 1 /\ z <= x + 1 => x + 1 - y < x + 2 + (x + 1 - z)
      OBVIOUS
    <3> QED BY <3>1, <3>2
  <2>8. k * w \in Nat /\ (k + 1) * w = k * w + w
    <3> HIDE DEF k, w
    <3> QED BY <1>4, <2>2
  <2>9. L + 1 - m \in Int /\ L + 1 - at[3] \in Int
    BY <1>1, <1>2
  <2>10. Ahead(remote, local, to) < Ahead(remote, local, at)
    <3> DEFINE a == L + 1 - m
               b == L + 1 - at[3]
               kw == k * w
    <3>1. /\ Ahead(remote, local, to) = kw + a /\ Ahead(remote, local, at) = (kw + w) + b
          /\ a < w + b /\ a \in Int /\ b \in Int /\ kw \in Nat /\ w \in Nat
      BY <2>2, <2>5, <2>6, <2>7, <2>8, <2>9
    <3> HIDE DEF a, b, kw, w
    <3> QED BY <3>1
  <2> QED BY <2>1, <2>10 DEF to
<1> QED BY <1>1, <1>2, <1>3, <1>5, <1>6, <1>7

\* The next entry is compared with the run again or with what follows it.
LEMMA AfterRunIs ==
  ASSUME NEW remote, NEW n, NEW l, NEW m
  PROVE  AfterRun(remote, n, l, m) \in {l, m}
BY DEF AfterRun

\* The function unpackIndices is written with exists, so that it is what its
\* definition says.
LEMMA UnpackDefined ==
  ASSUME NEW S, NEW remote \in Seq(S), NEW local \in Seq(S), NEW fromOurSelf \in BOOLEAN
  PROVE  \E f : /\ f = [at \in Places(remote, local) |-> FromBody(f, remote, local, fromOurSelf, at)]
                /\ UnpackIndices(remote, local, fromOurSelf) = f[<<1, 1, 1>>]
<1> DEFINE P == Places(remote, local)
           size(at) == Ahead(remote, local, at)
           Body(f, at) == FromBody(f, remote, local, fromOurSelf, at)
           Up(f, k) == \A at \in P : size(at) < k => f[at] = Body(f, at)
           T == {k \in Nat : \E f : Up(f, k)}
<1>1. \A at \in P : size(at) \in Nat
  BY PlacesDecrease
<1>2. ASSUME NEW f, NEW g, NEW at \in P, \A to \in P : size(to) < size(at) => f[to] = g[to]
      PROVE  Body(f, at) = Body(g, at)
  <2> DEFINE n == at[1]
             l == at[2]
             m == at[3]
             next == AfterRun(remote, n, l, m)
  <2>1. /\ n \in 1 .. Len(remote) + 1 /\ l \in 1 .. Len(local) + 1 /\ m \in 1 .. Len(local) + 1
        /\ Len(remote) \in Nat /\ Len(local) \in Nat
    BY PlacesDecrease
  <2>2. next \in 1 .. Len(local) + 1
    BY <2>1, AfterRunIs
  <2>3. m <= Len(local) => f[<<n, l, m + 1>>] = g[<<n, l, m + 1>>]
    BY <1>2, <2>1, PlacesDecrease
  <2>4. m <= Len(local) => f[<<n, m + 1, m + 1>>] = g[<<n, m + 1, m + 1>>]
    <3>1. m <= Len(local) => m + 1 \in 1 .. Len(local) + 1
      BY <2>1
    <3> QED BY <1>2, <2>1, <3>1, PlacesDecrease
  <2>5. n <= Len(remote) => f[<<n + 1, next, next>>] = g[<<n + 1, next, next>>]
    <3> HIDE DEF next
    <3> QED BY <1>2, <2>1, <2>2, PlacesDecrease
  <2> QED BY <2>1, <2>3, <2>4, <2>5 DEF FromBody
<1> HIDE DEF Body, size
<1>3. 0 \in T
  <2>1. \A at \in P : ~(size(at) < 0)
    BY <1>1
  <2> QED BY <2>1
<1>4. ASSUME NEW k \in T PROVE k + 1 \in T
  <2>1. PICK f : Up(f, k)
    OBVIOUS
  <2> DEFINE g == [at \in P |-> IF size(at) < k THEN f[at] ELSE Body(f, at)]
  <2>2. \A at \in P : size(at) < k => g[at] = f[at]
    OBVIOUS
  <2>3. \A at \in P : g[at] = Body(f, at)
    BY <2>1
  <2> HIDE DEF g, P
  <2>4. ASSUME NEW at \in P, size(at) < k + 1 PROVE Body(g, at) = Body(f, at)
    <3>1. \A to \in P : size(to) < size(at) => size(to) < k
      BY <1>1, <2>4
    <3> QED BY <1>2, <2>2, <3>1
  <2>5. Up(g, k + 1)
    BY <2>3, <2>4
  <2>6. k + 1 \in Nat
    OBVIOUS
  <2> HIDE DEF Up
  <2> QED BY <2>5, <2>6
<1>5. T = Nat
  <2> HIDE DEF T
  <2> QED BY <1>3, <1>4, InductionOverNat DEF T
<1>6. \A at \in P : size(at) < (Len(remote) + 1) * (Len(local) + 2) + (Len(local) + 2)
  <2> SUFFICES ASSUME NEW at \in P PROVE size(at) < (Len(remote) + 1) * (Len(local) + 2) + (Len(local) + 2)
    OBVIOUS
  <2>1. /\ at[1] \in 1 .. Len(remote) + 1 /\ at[3] \in 1 .. Len(local) + 1
        /\ Len(remote) \in Nat /\ Len(local) \in Nat
    BY PlacesDecrease
  <2> DEFINE k == Len(remote) + 1 - at[1]
             w == Len(local) + 2
  <2>2. k \in Nat /\ at[1] \in Nat /\ w \in Nat /\ Len(remote) + 1 = k + at[1]
    BY <2>1
  <2>3. ASSUME NEW a \in Nat, NEW b \in Nat, NEW c \in Nat PROVE (a + b) * c = a * c + b * c /\ a * c \in Nat /\ b * c \in Nat
    OBVIOUS
  <2>4. size(at) = k * w + (Len(local) + 1 - at[3])
    BY DEF size, Ahead
  <2>5. Len(local) + 1 - at[3] < w /\ Len(local) + 1 - at[3] \in Nat
    BY <2>1
  <2>6. (Len(remote) + 1) * w = k * w + at[1] * w /\ k * w \in Nat /\ at[1] * w \in Nat
    <3>1. (k + at[1]) * w = k * w + at[1] * w /\ k * w \in Nat /\ at[1] * w \in Nat
      <4> HIDE DEF k, w
      <4> QED BY <2>2, <2>3
    <3>2. Len(remote) + 1 = k + at[1]
      BY <2>2
    <3> HIDE DEF k, w
    <3> QED BY <3>1, <3>2
  <2> DEFINE kw == k * w
             aw == at[1] * w
             r == Len(local) + 1 - at[3]
  <2>7. kw + r < (kw + aw) + w
    <3>1. kw \in Nat /\ aw \in Nat /\ r \in Nat /\ r < w /\ w \in Nat
      BY <2>2, <2>5, <2>6
    <3> HIDE DEF kw, aw, r, w
    <3> QED BY <3>1
  <2> QED BY <2>4, <2>6, <2>7
<1>7. PICK f : Up(f, (Len(remote) + 1) * (Len(local) + 2) + (Len(local) + 2))
  <2>1. Len(remote) + 1 \in Nat /\ Len(local) + 2 \in Nat
    OBVIOUS
  <2>2. \A a, b \in Nat : a * b + b \in Nat
    OBVIOUS
  <2>3. (Len(remote) + 1) * (Len(local) + 2) + (Len(local) + 2) \in T
    BY <1>5, <2>1, <2>2
  <2> QED BY <2>3
<1> DEFINE g == [at \in P |-> f[at]]
<1>8. \A at \in P : g[at] = Body(g, at)
  <2>1. ASSUME NEW at \in P PROVE f[at] = Body(f, at)
    BY <1>6, <1>7
  <2>2. ASSUME NEW at \in P PROVE Body(f, at) = Body(g, at)
    BY <1>2
  <2> QED BY <2>1, <2>2
<1>9. g = [at \in P |-> Body(g, at)]
  BY <1>8
<1> DEFINE from == CHOOSE from : from = [at \in P |-> Body(from, at)]
<1> HIDE DEF g
<1>10. from = [at \in P |-> Body(from, at)]
  BY <1>9, Zenon
<1>11. UnpackIndices(remote, local, fromOurSelf) = from[<<1, 1, 1>>]
  BY Zenon DEF UnpackIndices, FromBody, Places, Body
<1> QED BY <1>10, <1>11, Zenon DEF Body

-----------------------------------------------------------------------------
(* What unpackIndices computes.                                            *)

RemoteEntry == [attribute : Int, pair : Pair]

\* The order of the entries of a list: by global index, then by the attribute on the
\* remote process, then by that of the local pair.
Precedes(a, b) ==
  \/ a.pair.global < b.pair.global
  \/ a.pair.global = b.pair.global /\ a.attribute < b.attribute
  \/ a.pair.global = b.pair.global /\ a.attribute = b.attribute /\ a.pair.attribute < b.pair.attribute

InOrder(list) == \A i, j \in DOMAIN list : i < j => Precedes(list[i], list[j])

\* An entry in front of a list.
LEMMA InFront ==
  ASSUME NEW S, NEW e \in S, NEW list \in Seq(S)
  PROVE  LET longer == <<e>> \o list
         IN  /\ longer \in Seq(S) /\ Len(longer) = Len(list) + 1 /\ longer[1] = e
             /\ \A i \in 1 .. Len(list) : longer[i + 1] = list[i]
             /\ ToSet(longer) = {e} \cup ToSet(list)
<1> DEFINE longer == <<e>> \o list
<1>1. /\ longer \in Seq(S) /\ Len(longer) = Len(list) + 1 /\ longer[1] = e /\ Len(list) \in Nat
      /\ \A i \in 1 .. Len(list) : longer[i + 1] = list[i]
  <2>1. <<e>> \in Seq(S)
    OBVIOUS
  <2>2. longer \in Seq(S) /\ Len(longer) = Len(list) + 1 /\ longer[1] = e /\ Len(list) \in Nat
    BY <2>1
  <2>3. ASSUME NEW i \in 1 .. Len(list) PROVE longer[i + 1] = list[i]
    BY <2>1
  <2> QED BY <2>2, <2>3
<1> HIDE DEF longer
<1>2. \A p \in DOMAIN longer : p = 1 \/ (p - 1 \in DOMAIN list /\ longer[p] = list[p - 1])
  <2> SUFFICES ASSUME NEW p \in DOMAIN longer, p # 1 PROVE p - 1 \in DOMAIN list /\ longer[p] = list[p - 1]
    OBVIOUS
  <2>1. p - 1 \in 1 .. Len(list) /\ (p - 1) + 1 = p
    BY <1>1
  <2>2. longer[(p - 1) + 1] = list[p - 1]
    BY <1>1, <2>1
  <2> QED BY <2>1, <2>2
<1>3. ToSet(longer) \subseteq {e} \cup ToSet(list)
  BY <1>1, <1>2 DEF ToSet
<1>4. {e} \cup ToSet(list) \subseteq ToSet(longer)
  <2>1. e \in ToSet(longer)
    <3>1. 1 \in DOMAIN longer
      BY <1>1
    <3> QED BY <1>1, <3>1 DEF ToSet
  <2>2. ASSUME NEW i \in DOMAIN list PROVE list[i] \in ToSet(longer)
    <3>1. i + 1 \in DOMAIN longer /\ longer[i + 1] = list[i]
      BY <1>1
    <3> QED BY <3>1 DEF ToSet
  <2> QED BY <2>1, <2>2 DEF ToSet
<1> QED BY <1>1, <1>3, <1>4 DEF longer

LEMMA InFrontInOrder ==
  ASSUME NEW e \in RemoteEntry, NEW list \in Seq(RemoteEntry), InOrder(list),
         \A other \in ToSet(list) : Precedes(e, other)
  PROVE  InOrder(<<e>> \o list)
<1> DEFINE longer == <<e>> \o list
<1>1. /\ longer \in Seq(RemoteEntry) /\ Len(longer) = Len(list) + 1 /\ longer[1] = e /\ Len(list) \in Nat
      /\ \A i \in 1 .. Len(list) : longer[i + 1] = list[i]
  BY InFront
<1> HIDE DEF longer
<1>2. ASSUME NEW i \in DOMAIN longer, NEW j \in DOMAIN longer, i < j PROVE Precedes(longer[i], longer[j])
  <2>1. j - 1 \in 1 .. Len(list) /\ longer[j] = list[j - 1]
    <3>1. j - 1 \in 1 .. Len(list) /\ (j - 1) + 1 = j
      BY <1>1, <1>2
    <3> QED BY <1>1, <3>1
  <2>2. CASE i = 1
    <3>1. longer[j] \in ToSet(list)
      BY <2>1 DEF ToSet
    <3> QED BY <1>1, <2>2, <3>1
  <2>3. CASE i # 1
    <3>1. i - 1 \in 1 .. Len(list) /\ (i - 1) + 1 = i /\ i - 1 < j - 1
      BY <1>1, <1>2, <2>3
    <3>2. longer[i] = list[i - 1]
      BY <1>1, <3>1
    <3> QED BY <2>1, <3>1, <3>2 DEF InOrder
  <2> QED BY <2>2, <2>3
<1> QED BY <1>2 DEF InOrder, longer

\* An ascending set, by its globals and attributes.
LEMMA AscendingFacts ==
  ASSUME NEW s, Ascending(s)
  PROVE  /\ s \in Seq(Pair) /\ Len(s) \in Nat /\ DOMAIN s = 1 .. Len(s)
         /\ \A i \in 1 .. Len(s) : s[i] \in Pair /\ s[i].global \in Int /\ s[i].attribute \in Int
         /\ \A i, j \in 1 .. Len(s) : i < j =>
              /\ s[i].global <= s[j].global
              /\ s[i].global = s[j].global => s[i].attribute < s[j].attribute
<1>1. s \in Seq(Pair)
  BY DEF Ascending
<1>2. Len(s) \in Nat /\ DOMAIN s = 1 .. Len(s)
  BY <1>1
<1>3. \A i \in 1 .. Len(s) : s[i] \in Pair
  BY <1>1
<1>4. \A i \in 1 .. Len(s) : s[i].global \in Int /\ s[i].attribute \in Int
  BY <1>3 DEF Pair
<1>5. ASSUME NEW i \in 1 .. Len(s), NEW j \in 1 .. Len(s), i < j
      PROVE  /\ s[i].global <= s[j].global
             /\ s[i].global = s[j].global => s[i].attribute < s[j].attribute
  <2>1. Before(s[i], s[j])
    BY <1>2, <1>5 DEF Ascending
  <2> QED BY <1>4, <2>1 DEF Before
<1> QED BY <1>1, <1>2, <1>3, <1>4, <1>5

\* The positions of received entries and local pairs that are still to be paired.
Matches(remote, local, fromOurSelf, at) ==
  {to \in (at[1] .. Len(remote)) \X (1 .. Len(local)) :
     /\ to[1] = at[1] => to[2] >= at[3]
     /\ remote[to[1]].global = local[to[2]].global
     /\ fromOurSelf => remote[to[1]].attribute # local[to[2]].attribute}

\* The local run at a place: it begins where the received global index does.
Ready(remote, local, at) ==
  /\ at[2] <= at[3]
  /\ at[1] <= Len(remote) =>
       /\ \A i \in 1 .. at[2] - 1 : local[i].global < remote[at[1]].global
       /\ \A i \in at[2] .. at[3] - 1 : local[i].global = remote[at[1]].global

EntriesAt(remote, local, places) == {RemoteIndex(remote[to[1]].attribute, local[to[2]]) : to \in places}

LEMMA MatchesArePairs ==
  ASSUME NEW remote, NEW local, NEW fromOurSelf \in BOOLEAN, NEW at, NEW to \in Matches(remote, local, fromOurSelf, at)
  PROVE  to = <<to[1], to[2]>>
BY DEF Matches

\* The merge may go on from one place to another after listing the pairs in done.
GoesOn(remote, local, fromOurSelf, at, done, to) ==
  /\ Ready(remote, local, to)
  /\ Matches(remote, local, fromOurSelf, at) = Matches(remote, local, fromOurSelf, to) \cup done

\* What a step of the merge leaves to be paired.
LEMMA MatchesStep ==
  ASSUME NEW remote, NEW local, Ascending(remote), Ascending(local), NEW fromOurSelf \in BOOLEAN,
         NEW n \in 1 .. Len(remote), NEW l \in 1 .. Len(local) + 1, NEW m \in 1 .. Len(local) + 1,
         Ready(remote, local, <<n, l, m>>), NEW next, next = AfterRun(remote, n, l, m),
         NEW own, own = IF fromOurSelf /\ remote[n].attribute = local[m].attribute THEN {} ELSE {<<n, m>>}
  PROVE  /\ m <= Len(local) /\ local[m].global = remote[n].global =>
              GoesOn(remote, local, fromOurSelf, <<n, l, m>>, own, <<n, l, m + 1>>)
         /\ m <= Len(local) /\ local[m].global < remote[n].global =>
              GoesOn(remote, local, fromOurSelf, <<n, l, m>>, {}, <<n, m + 1, m + 1>>)
         /\ ~(m <= Len(local)) \/ remote[n].global < local[m].global =>
              GoesOn(remote, local, fromOurSelf, <<n, l, m>>, {}, <<n + 1, next, next>>)
<1> DEFINE left(to) == Matches(remote, local, fromOurSelf, to)
           at == <<n, l, m>>
<1>r. /\ Len(remote) \in Nat /\ \A i \in 1 .. Len(remote) : remote[i].global \in Int
      /\ \A i, j \in 1 .. Len(remote) : i < j => remote[i].global <= remote[j].global
  BY AscendingFacts
<1>l. /\ Len(local) \in Nat /\ \A i \in 1 .. Len(local) : local[i].global \in Int
      /\ \A i, j \in 1 .. Len(local) : i < j => local[i].global <= local[j].global
  BY AscendingFacts
<1>b. /\ l <= m /\ \A i \in 1 .. l - 1 : local[i].global < remote[n].global
      /\ \A i \in l .. m - 1 : local[i].global = remote[n].global
  BY <1>r DEF Ready
<1>w. \A k, i : <<k, i>> \in left(at) <=>
           /\ k \in n .. Len(remote) /\ i \in 1 .. Len(local) /\ (k = n => i >= m)
           /\ remote[k].global = local[i].global
           /\ fromOurSelf => remote[k].attribute # local[i].attribute
  BY DEF Matches
<1>p. ASSUME NEW A, NEW B, \A to \in A : to = <<to[1], to[2]>>, \A to \in B : to = <<to[1], to[2]>>,
             \A k, i : <<k, i>> \in A <=> <<k, i>> \in B
      PROVE  A = B
  <2>1. \A to \in A : to \in B
    BY <1>p
  <2>2. \A to \in B : to \in A
    BY <1>p
  <2> QED BY <2>1, <2>2
<1>q. \A to : \A x \in left(to) : x = <<x[1], x[2]>>
  BY MatchesArePairs
<1> HIDE DEF left
<1>1. ASSUME m <= Len(local), local[m].global = remote[n].global
      PROVE  Ready(remote, local, <<n, l, m + 1>>) /\ left(at) = left(<<n, l, m + 1>>) \cup own
  <2> DEFINE to == <<n, l, m + 1>>
  <2>1. Ready(remote, local, to)
    <3>1. \A i \in l .. (m + 1) - 1 : i = m \/ i \in l .. m - 1
      OBVIOUS
    <3> QED BY <1>1, <1>b, <3>1 DEF Ready
  <2>2. \A k, i : <<k, i>> \in left(to) <=>
           /\ k \in n .. Len(remote) /\ i \in 1 .. Len(local) /\ (k = n => i >= m + 1)
           /\ remote[k].global = local[i].global
           /\ fromOurSelf => remote[k].attribute # local[i].attribute
    BY DEF left, Matches
  <2>3. ASSUME NEW k, NEW i PROVE <<k, i>> \in left(at) <=> <<k, i>> \in left(to) \cup own
    <3> HIDE DEF at, to
    <3>1. <<k, i>> \in own <=> k = n /\ i = m /\ (fromOurSelf => remote[n].attribute # local[m].attribute)
      OBVIOUS
    <3>2. CASE k = n /\ i = m
      <4>1. n \in n .. Len(remote) /\ m \in 1 .. Len(local) /\ m >= m /\ ~(m >= m + 1)
        BY <1>1, <1>r, <1>l
      <4> QED BY <1>1, <1>w, <2>2, <3>1, <3>2, <4>1
    <3>3. CASE k = n /\ i # m
      <4>1. i \in 1 .. Len(local) => (i >= m <=> i >= m + 1)
        BY <1>l, <3>3
      <4> QED BY <1>w, <2>2, <3>1, <3>3, <4>1
    <3>4. CASE k # n
      BY <1>w, <2>2, <3>1, <3>4
    <3> QED BY <3>2, <3>3, <3>4
  <2>4. \A x \in left(to) \cup own : x = <<x[1], x[2]>>
    BY <1>q
  <2>5. left(at) = left(to) \cup own
    <3>1. \A x \in left(at) : x = <<x[1], x[2]>>
      BY <1>q
    <3> HIDE DEF at, to
    <3> QED BY <1>p, <2>3, <2>4, <3>1
  <2> QED BY <2>1, <2>5
<1>2. ASSUME m <= Len(local), local[m].global < remote[n].global
      PROVE  Ready(remote, local, <<n, m + 1, m + 1>>) /\ left(at) = left(<<n, m + 1, m + 1>>)
  <2> DEFINE to == <<n, m + 1, m + 1>>
  <2>1. Ready(remote, local, to)
    <3>1. ASSUME NEW i \in 1 .. (m + 1) - 1 PROVE local[i].global < remote[n].global
      <4>1. i \in 1 .. Len(local) /\ m \in 1 .. Len(local) /\ (i = m \/ i < m)
        BY <1>2, <1>l
      <4>2. local[i].global <= local[m].global
        BY <1>l, <4>1
      <4>3. local[i].global \in Int /\ local[m].global \in Int /\ remote[n].global \in Int
        BY <1>l, <1>r, <4>1
      <4> QED BY <1>2, <4>2, <4>3, LessThan
    <3>2. \A i \in m + 1 .. (m + 1) - 1 : FALSE
      OBVIOUS
    <3> QED BY <3>1, <3>2 DEF Ready
  <2>2. \A k, i : <<k, i>> \in left(to) <=>
           /\ k \in n .. Len(remote) /\ i \in 1 .. Len(local) /\ (k = n => i >= m + 1)
           /\ remote[k].global = local[i].global
           /\ fromOurSelf => remote[k].attribute # local[i].attribute
    BY DEF left, Matches
  <2>3. ASSUME NEW k, NEW i PROVE <<k, i>> \in left(at) <=> <<k, i>> \in left(to)
    <3> HIDE DEF at, to
    <3>1. CASE k = n /\ i = m
      <4>1. remote[n].global # local[m].global
        <5>1. m \in 1 .. Len(local)
          BY <1>2, <1>l
        <5> QED BY <1>2, <1>l, <1>r, <5>1
      <4> QED BY <1>w, <2>2, <3>1, <4>1
    <3>2. CASE k = n /\ i # m
      <4>1. i \in 1 .. Len(local) => (i >= m <=> i >= m + 1)
        BY <1>l, <3>2
      <4> QED BY <1>w, <2>2, <3>2, <4>1
    <3>3. CASE k # n
      BY <1>w, <2>2, <3>3
    <3> QED BY <3>1, <3>2, <3>3
  <2>4. left(at) = left(to)
    <3>1. \A x \in left(at) : x = <<x[1], x[2]>>
      BY <1>q
    <3>2. \A x \in left(to) : x = <<x[1], x[2]>>
      BY <1>q
    <3> HIDE DEF at, to
    <3> QED BY <1>p, <2>3, <3>1, <3>2
  <2> QED BY <2>1, <2>4
<1>3. ASSUME ~(m <= Len(local)) \/ remote[n].global < local[m].global
      PROVE  Ready(remote, local, <<n + 1, next, next>>) /\ left(at) = left(<<n + 1, next, next>>)
  <2> DEFINE to == <<n + 1, next, next>>
  <2>0. next \in {l, m} /\ next \in 1 .. Len(local) + 1
    BY AfterRunIs
  <2>1. ASSUME NEW i \in 1 .. next - 1, n + 1 <= Len(remote) PROVE local[i].global < remote[n + 1].global
    <3>0. i \in 1 .. Len(local) /\ n + 1 \in 1 .. Len(remote) /\ n < n + 1 /\ n < Len(remote)
      BY <1>l, <1>r, <2>0, <2>1
    <3>1. remote[n].global <= remote[n + 1].global
      BY <1>r, <3>0
    <3>t. local[i].global \in Int /\ remote[n].global \in Int /\ remote[n + 1].global \in Int
      BY <1>l, <1>r, <3>0
    <3>2. CASE i < l
      <4>1. local[i].global < remote[n].global
        BY <1>b, <3>2
      <4> QED BY <3>1, <3>t, <4>1, LessThan
    <3>3. CASE l <= i
      <4>1. next = m /\ l # m
        BY <1>b, <2>0, <3>3
      <4>2. remote[n + 1].global # remote[n].global
        BY <3>0, <4>1 DEF AfterRun
      <4>3. i \in l .. m - 1
        BY <2>1, <3>3, <4>1
      <4>4. local[i].global = remote[n].global
        BY <1>b, <4>3
      <4> QED BY <3>1, <3>t, <4>2, <4>4, LessThan
    <3> QED BY <1>l, <3>0, <3>2, <3>3
  <2>2. Ready(remote, local, to)
    <3>1. \A i \in next .. next - 1 : FALSE
      BY <2>0
    <3> QED BY <2>0, <2>1, <3>1 DEF Ready
  <2>3. \A k, i : <<k, i>> \in left(to) <=>
           /\ k \in n + 1 .. Len(remote) /\ i \in 1 .. Len(local) /\ (k = n + 1 => i >= next)
           /\ remote[k].global = local[i].global
           /\ fromOurSelf => remote[k].attribute # local[i].attribute
    BY DEF left, Matches
  <2>4. ASSUME NEW i \in 1 .. Len(local), i >= m PROVE remote[n].global # local[i].global
    <3>1. m \in 1 .. Len(local) /\ remote[n].global < local[m].global
      BY <1>3, <1>l, <2>4
    <3>2. local[m].global <= local[i].global
      <4>1. i = m \/ m < i
        BY <2>4
      <4> QED BY <1>l, <3>1, <4>1
    <3> QED BY <1>l, <1>r, <3>1, <3>2
  <2>5. ASSUME NEW k, NEW i PROVE <<k, i>> \in left(at) <=> <<k, i>> \in left(to)
    <3> HIDE DEF at, to
    <3>1. CASE k = n
      <4>1. ~(n \in n + 1 .. Len(remote))
        OBVIOUS
      <4> QED BY <1>w, <2>3, <2>4, <3>1, <4>1
    <3>2. CASE k = n + 1 /\ k \in n + 1 .. Len(remote) /\ i \in 1 .. Len(local) /\ remote[k].global = local[i].global
      <4>1. i >= next
        <5>1. n + 1 <= Len(remote)
          BY <1>r, <3>2
        <5>2. i \notin 1 .. next - 1
          <6>1. remote[n + 1].global \in Int /\ local[i].global = remote[n + 1].global
            BY <1>r, <3>2
          <6> QED BY <2>1, <5>1, <6>1
        <5> QED BY <2>0, <3>2, <5>2
      <4>2. k \in n .. Len(remote) /\ k # n
        BY <3>2
      <4> QED BY <1>w, <2>3, <3>2, <4>1, <4>2
    <3>3. CASE k # n /\ k # n + 1
      <4>1. k \in n .. Len(remote) <=> k \in n + 1 .. Len(remote)
        BY <3>3
      <4> QED BY <1>w, <2>3, <3>3, <4>1
    <3>4. CASE k = n + 1 /\ ~(k \in n + 1 .. Len(remote) /\ i \in 1 .. Len(local) /\ remote[k].global = local[i].global)
      <4>1. k \in n .. Len(remote) <=> k \in n + 1 .. Len(remote)
        BY <3>4
      <4> QED BY <1>w, <2>3, <3>4, <4>1
    <3> QED BY <3>1, <3>2, <3>3, <3>4
  <2>6. left(at) = left(to)
    <3>1. \A x \in left(at) : x = <<x[1], x[2]>>
      BY <1>q
    <3>2. \A x \in left(to) : x = <<x[1], x[2]>>
      BY <1>q
    <3> HIDE DEF at, to
    <3> QED BY <1>p, <2>5, <3>1, <3>2
  <2> QED BY <2>2, <2>6
<1> QED BY <1>1, <1>2, <1>3 DEF left, GoesOn

\* The entry a match stands for.
LEMMA MatchEntry ==
  ASSUME NEW remote, NEW local, Ascending(remote), Ascending(local), NEW fromOurSelf \in BOOLEAN,
         NEW n \in 1 .. Len(remote) + 1, NEW l, NEW m,
         NEW to \in Matches(remote, local, fromOurSelf, <<n, l, m>>)
  PROVE  /\ to[1] \in n .. Len(remote) /\ to[2] \in 1 .. Len(local) /\ (to[1] = n => to[2] >= m)
         /\ remote[to[1]].global = local[to[2]].global
         /\ LET e == RemoteIndex(remote[to[1]].attribute, local[to[2]])
            IN  /\ e \in RemoteEntry
                /\ e.attribute = remote[to[1]].attribute /\ e.pair = local[to[2]]
<1>1. /\ to[1] \in n .. Len(remote) /\ to[2] \in 1 .. Len(local) /\ (to[1] = n => to[2] >= m)
      /\ remote[to[1]].global = local[to[2]].global
  BY DEF Matches
<1>2. remote[to[1]].attribute \in Int /\ local[to[2]] \in Pair
  <2>1. to[1] \in 1 .. Len(remote)
    BY <1>1
  <2> QED BY <1>1, <2>1, AscendingFacts
<1> QED BY <1>1, <1>2 DEF RemoteIndex, RemoteEntry

\* The merge lists every match once, in order.
LEMMA MergeIsRight ==
  ASSUME NEW remote, NEW local, Ascending(remote), Ascending(local), NEW fromOurSelf \in BOOLEAN
  PROVE  LET list == UnpackIndices(remote, local, fromOurSelf)
         IN  /\ list \in Seq(RemoteEntry) /\ InOrder(list)
             /\ ToSet(list) = EntriesAt(remote, local, Matches(remote, local, fromOurSelf, <<1, 1, 1>>))
<1>r. /\ remote \in Seq(Pair) /\ Len(remote) \in Nat
      /\ \A i \in 1 .. Len(remote) : remote[i].global \in Int /\ remote[i].attribute \in Int
      /\ \A i, j \in 1 .. Len(remote) : i < j =>
              /\ remote[i].global <= remote[j].global
              /\ remote[i].global = remote[j].global => remote[i].attribute < remote[j].attribute
  BY AscendingFacts
<1>l. /\ local \in Seq(Pair) /\ Len(local) \in Nat
      /\ \A i \in 1 .. Len(local) : local[i] \in Pair /\ local[i].global \in Int /\ local[i].attribute \in Int
      /\ \A i, j \in 1 .. Len(local) : i < j =>
              /\ local[i].global <= local[j].global
              /\ local[i].global = local[j].global => local[i].attribute < local[j].attribute
  BY AscendingFacts
<1>1. PICK f : /\ f = [at \in Places(remote, local) |-> FromBody(f, remote, local, fromOurSelf, at)]
               /\ UnpackIndices(remote, local, fromOurSelf) = f[<<1, 1, 1>>]
  BY <1>r, <1>l, UnpackDefined
<1> DEFINE P == Places(remote, local)
           size == [at \in P |-> Ahead(remote, local, at)]
           left(at) == EntriesAt(remote, local, Matches(remote, local, fromOurSelf, at))
           Good(at) == Ready(remote, local, at) =>
                         f[at] \in Seq(RemoteEntry) /\ InOrder(f[at]) /\ ToSet(f[at]) = left(at)
           Q == {at \in P : Good(at)}
<1>2. size \in [P -> Nat]
  <2>1. \A at \in P : Ahead(remote, local, at) \in Nat
    BY <1>r, <1>l, PlacesDecrease
  <2> QED BY <2>1
<1>3. ASSUME NEW at \in P, \A to \in P : size[to] < size[at] => to \in Q
      PROVE  at \in Q
  <2>a. PICK n \in 1 .. Len(remote) + 1, l \in 1 .. Len(local) + 1, m \in 1 .. Len(local) + 1 : at = <<n, l, m>>
    <3>1. /\ at[1] \in 1 .. Len(remote) + 1 /\ at[2] \in 1 .. Len(local) + 1 /\ at[3] \in 1 .. Len(local) + 1
          /\ at = <<at[1], at[2], at[3]>>
      BY <1>r, <1>l, PlacesDecrease
    <3> QED BY <3>1
  <2> DEFINE next == AfterRun(remote, n, l, m)
  <2>0. /\ at[1] = n /\ at[2] = l /\ at[3] = m /\ at = <<n, l, m>>
        /\ next \in 1 .. Len(local) + 1
    BY <2>a, AfterRunIs
  <2>1. ASSUME NEW to \in P, Ahead(remote, local, to) < Ahead(remote, local, at), Ready(remote, local, to)
        PROVE  f[to] \in Seq(RemoteEntry) /\ InOrder(f[to]) /\ ToSet(f[to]) = left(to)
    BY <1>3, <2>1
  <2>2. f[at] = IF n > Len(remote) THEN <<>>
                ELSE IF m <= Len(local) /\ local[m].global = remote[n].global
                  THEN PairWith(remote[n], local[m], fromOurSelf) \o f[<<n, l, m + 1>>]
                ELSE IF m <= Len(local) /\ local[m].global < remote[n].global
                  THEN f[<<n, m + 1, m + 1>>]
                ELSE f[<<n + 1, next, next>>]
    <3>1. f[at] = FromBody(f, remote, local, fromOurSelf, at)
      BY <1>1
    <3> QED BY <2>0, <3>1 DEF FromBody
  <2>3. ASSUME Ready(remote, local, at)
        PROVE  f[at] \in Seq(RemoteEntry) /\ InOrder(f[at]) /\ ToSet(f[at]) = left(at)
    <3> HIDE DEF size, Good, Q, left
    <3>1. CASE n > Len(remote)
      <4>1. f[at] = <<>>
        BY <2>2, <3>1
      <4>2. Matches(remote, local, fromOurSelf, at) = {}
        BY <1>r, <2>0, <3>1 DEF Matches
      <4>3. <<>> \in Seq(RemoteEntry) /\ InOrder(<<>>) /\ ToSet(<<>>) = {}
        BY DEF InOrder, ToSet
      <4>4. left(at) = {}
        BY <4>2 DEF EntriesAt, left
      <4> QED BY <4>1, <4>3, <4>4
    <3> SUFFICES ASSUME n \in 1 .. Len(remote)
                 PROVE  f[at] \in Seq(RemoteEntry) /\ InOrder(f[at]) /\ ToSet(f[at]) = left(at)
      BY <1>r, <2>0, <3>1
    <3>a. Ready(remote, local, <<n, l, m>>)
      BY <2>0, <2>3
    <3>2. CASE m <= Len(local) /\ local[m].global = remote[n].global
      <4> DEFINE to == <<n, l, m + 1>>
                 e == RemoteIndex(remote[n].attribute, local[m])
                 own == fromOurSelf /\ remote[n].attribute = local[m].attribute
      <4>1. to \in P /\ Ahead(remote, local, to) < Ahead(remote, local, at)
        BY <1>r, <1>l, <2>0, <3>2, PlacesDecrease
      <4>2. /\ Ready(remote, local, to)
            /\ Matches(remote, local, fromOurSelf, at)
                 = Matches(remote, local, fromOurSelf, to) \cup (IF own THEN {} ELSE {<<n, m>>})
        <5>1. GoesOn(remote, local, fromOurSelf, <<n, l, m>>, IF own THEN {} ELSE {<<n, m>>}, <<n, l, m + 1>>)
          BY <3>a, <3>2, MatchesStep
        <5> QED BY <2>0, <5>1 DEF GoesOn
      <4>3. f[to] \in Seq(RemoteEntry) /\ InOrder(f[to]) /\ ToSet(f[to]) = left(to)
        BY <2>1, <4>1, <4>2
      <4>4. f[at] = PairWith(remote[n], local[m], fromOurSelf) \o f[to]
        <5>1. ~(n > Len(remote))
          BY <1>r
        <5> QED BY <2>2, <3>2, <5>1
      <4>5. CASE own
        <5>1. PairWith(remote[n], local[m], fromOurSelf) = <<>>
          BY <4>5 DEF PairWith
        <5>2. f[at] = f[to]
          BY <4>3, <4>4, <5>1
        <5>3. Matches(remote, local, fromOurSelf, at) = Matches(remote, local, fromOurSelf, to)
          BY <4>2, <4>5
        <5>4. left(at) = left(to)
          BY <5>3 DEF left
        <5> QED BY <4>3, <5>2, <5>4
      <4>6. CASE ~own
        <5>1. f[at] = <<e>> \o f[to]
          BY <4>4, <4>6 DEF PairWith
        <5>2. e \in RemoteEntry /\ e.attribute = remote[n].attribute /\ e.pair = local[m]
          BY <1>r, <1>l, <2>0, <3>2 DEF RemoteIndex, RemoteEntry
        <5>3. left(at) = {e} \cup left(to)
          <6>1. Matches(remote, local, fromOurSelf, at) = Matches(remote, local, fromOurSelf, to) \cup {<<n, m>>}
            BY <4>2, <4>6
          <6> DEFINE M == Matches(remote, local, fromOurSelf, to)
          <6>2. EntriesAt(remote, local, M \cup {<<n, m>>}) = {e} \cup EntriesAt(remote, local, M)
            <7>1. RemoteIndex(remote[<<n, m>>[1]].attribute, local[<<n, m>>[2]]) = e
              OBVIOUS
            <7> HIDE DEF M, e
            <7> QED BY <7>1 DEF EntriesAt
          <6> QED BY <6>1, <6>2 DEF left
        <5>4. ASSUME NEW other \in left(to) PROVE Precedes(e, other)
          <6>1. PICK x \in Matches(remote, local, fromOurSelf, to) :
                  other = RemoteIndex(remote[x[1]].attribute, local[x[2]])
            BY <5>4 DEF EntriesAt, left
          <6>2. /\ x[1] \in n .. Len(remote) /\ x[2] \in 1 .. Len(local) /\ (x[1] = n => x[2] >= m + 1)
                /\ remote[x[1]].global = local[x[2]].global
                /\ other.attribute = remote[x[1]].attribute /\ other.pair = local[x[2]]
            <7>1. /\ x[1] \in n .. Len(remote) /\ x[2] \in 1 .. Len(local) /\ (x[1] = n => x[2] >= m + 1)
                  /\ remote[x[1]].global = local[x[2]].global
              BY MatchEntry
            <7> QED BY <6>1, <7>1 DEF RemoteIndex
          <6>3. x[1] \in 1 .. Len(remote) /\ m \in 1 .. Len(local)
            BY <2>0, <3>2, <6>2
          <6> DEFINE k == x[1]
                     i == x[2]
          <6>4. /\ remote[k].global \in Int /\ remote[n].global \in Int /\ local[i].global \in Int /\ local[m].global \in Int
                /\ remote[k].attribute \in Int /\ remote[n].attribute \in Int
            BY <1>r, <1>l, <6>2, <6>3
          <6>5. CASE k = n
            <7>1. m < i /\ local[m].global = local[i].global
              BY <2>0, <3>2, <6>2, <6>5
            <7>2. local[m].attribute < local[i].attribute
              BY <1>l, <6>2, <6>3, <7>1
            <7> QED BY <5>2, <6>2, <6>5, <7>1, <7>2 DEF Precedes
          <6>6. CASE k # n
            <7>1. n < k
              BY <2>0, <6>2, <6>6
            <7>2. /\ remote[n].global <= remote[k].global
                  /\ remote[n].global = remote[k].global => remote[n].attribute < remote[k].attribute
              BY <1>r, <6>3, <7>1
            <7>3. local[m].global = remote[n].global /\ local[i].global = remote[k].global
              BY <3>2, <6>2
            <7> HIDE DEF k, i
            <7>4. e.pair.global = remote[n].global /\ other.pair.global = remote[k].global
              BY <5>2, <6>2, <7>3 DEF i
            <7>5. e.attribute = remote[n].attribute /\ other.attribute = remote[k].attribute
              BY <5>2, <6>2 DEF k
            <7> HIDE DEF e
            <7>6. CASE remote[n].global = remote[k].global
              BY <7>2, <7>4, <7>5, <7>6 DEF Precedes
            <7>7. CASE remote[n].global # remote[k].global
              <8>1. remote[n].global < remote[k].global
                BY <6>4, <7>2, <7>7, LessThan
              <8> QED BY <7>4, <8>1 DEF Precedes
            <7> QED BY <7>6, <7>7
          <6> QED BY <6>5, <6>6
        <5>5. f[at] \in Seq(RemoteEntry) /\ ToSet(f[at]) = left(at)
          <6> HIDE DEF e, P
          <6>1. PICK list \in Seq(RemoteEntry) : list = f[to]
            BY <4>3
          <6>2. <<e>> \o list \in Seq(RemoteEntry) /\ ToSet(<<e>> \o list) = {e} \cup ToSet(list)
            BY <5>2, InFront
          <6> QED BY <4>3, <5>1, <5>3, <6>1, <6>2
        <5>6. InOrder(f[at])
          <6> HIDE DEF e, P
          <6> QED BY <4>3, <5>1, <5>2, <5>4, InFrontInOrder
        <5> QED BY <5>5, <5>6
      <4> QED BY <4>5, <4>6
    <3>3. CASE m <= Len(local) /\ local[m].global < remote[n].global
      <4> DEFINE to == <<n, m + 1, m + 1>>
      <4>1. to \in P /\ Ahead(remote, local, to) < Ahead(remote, local, at)
        <5>1. m + 1 \in 1 .. Len(local) + 1
          BY <1>l, <2>0, <3>3
        <5> QED BY <1>r, <1>l, <2>0, <3>3, <5>1, PlacesDecrease
      <4>2. Ready(remote, local, to) /\ Matches(remote, local, fromOurSelf, at) = Matches(remote, local, fromOurSelf, to)
        <5>1. GoesOn(remote, local, fromOurSelf, <<n, l, m>>, {}, <<n, m + 1, m + 1>>)
          BY <3>a, <3>3, MatchesStep
        <5> QED BY <2>0, <5>1 DEF GoesOn
      <4>3. f[to] \in Seq(RemoteEntry) /\ InOrder(f[to]) /\ ToSet(f[to]) = left(to)
        BY <2>1, <4>1, <4>2
      <4>4. f[at] = f[to]
        <5>1. local[m].global # remote[n].global
          BY <1>r, <1>l, <2>0, <3>3
        <5> QED BY <2>2, <3>3, <5>1, <1>r
      <4> QED BY <4>2, <4>3, <4>4 DEF left
    <3>4. CASE ~(m <= Len(local)) \/ remote[n].global < local[m].global
      <4> DEFINE to == <<n + 1, next, next>>
      <4>1. to \in P /\ Ahead(remote, local, to) < Ahead(remote, local, at)
        <5> HIDE DEF next
        <5> QED BY <1>r, <1>l, <2>0, PlacesDecrease
      <4>2. Ready(remote, local, to) /\ Matches(remote, local, fromOurSelf, at) = Matches(remote, local, fromOurSelf, to)
        <5>1. GoesOn(remote, local, fromOurSelf, <<n, l, m>>, {}, <<n + 1, next, next>>)
          BY <3>a, <3>4, MatchesStep
        <5> QED BY <2>0, <5>1 DEF GoesOn
      <4>3. f[to] \in Seq(RemoteEntry) /\ InOrder(f[to]) /\ ToSet(f[to]) = left(to)
        BY <2>1, <4>1, <4>2
      <4>4. f[at] = f[to]
        <5>1. ASSUME m <= Len(local) PROVE local[m].global # remote[n].global /\ ~(local[m].global < remote[n].global)
          <6>1. local[m].global \in Int /\ remote[n].global \in Int /\ remote[n].global < local[m].global
            BY <1>r, <1>l, <3>4, <5>1
          <6> QED BY <6>1
        <5> QED BY <2>2, <3>4, <5>1, <1>r
      <4> QED BY <4>2, <4>3, <4>4 DEF left
    <3>5. m <= Len(local) => \/ local[m].global = remote[n].global
                             \/ local[m].global < remote[n].global
                             \/ remote[n].global < local[m].global
      BY <1>r, <1>l, <2>0
    <3> QED BY <3>2, <3>3, <3>4, <3>5
  <2> QED BY <2>3
<1>4. Q = P
  <2>1. Q \in SUBSET P
    OBVIOUS
  <2> HIDE DEF P, size, Q
  <2> QED BY <1>2, <1>3, <2>1, InductionOverMeasure
<1>5. <<1, 1, 1>> \in P
  BY <1>r, <1>l DEF Places
<1>6. Ready(remote, local, <<1, 1, 1>>)
  BY DEF Ready
<1>7. Good(<<1, 1, 1>>)
  <2>1. <<1, 1, 1>> \in Q
    BY <1>4, <1>5
  <2> QED BY <2>1
<1> QED BY <1>1, <1>6, <1>7

\* Every entry of a list in order is there once.
LEMMA InOrderOnce ==
  ASSUME NEW list \in Seq(RemoteEntry), InOrder(list)
  PROVE  /\ \A i, j \in DOMAIN list : list[i] = list[j] => i = j
         /\ Len(list) = Cardinality(ToSet(list))
         /\ \A i, j \in DOMAIN list : i < j => list[i].pair.global <= list[j].pair.global
<1>1. Len(list) \in Nat /\ DOMAIN list = 1 .. Len(list)
  OBVIOUS
<1>2. \A i \in DOMAIN list : /\ list[i] \in RemoteEntry /\ list[i].attribute \in Int
                             /\ list[i].pair.global \in Int /\ list[i].pair.attribute \in Int
  <2>1. ASSUME NEW i \in DOMAIN list PROVE list[i] \in RemoteEntry
    BY <1>1
  <2>2. \A e \in RemoteEntry : e.attribute \in Int /\ e.pair.global \in Int /\ e.pair.attribute \in Int
    BY DEF RemoteEntry, Pair
  <2> QED BY <2>1, <2>2
<1>3. ASSUME NEW i \in DOMAIN list, NEW j \in DOMAIN list, i < j
      PROVE  list[i] # list[j] /\ list[i].pair.global <= list[j].pair.global
  BY <1>2, <1>3 DEF InOrder, Precedes
<1>4. \A i, j \in DOMAIN list : list[i] = list[j] => i = j
  <2> SUFFICES ASSUME NEW i \in DOMAIN list, NEW j \in DOMAIN list, i # j PROVE list[i] # list[j]
    OBVIOUS
  <2>1. i < j \/ j < i
    BY <1>1
  <2> QED BY <1>3, <2>1
<1>5. ExistsBijection(1 .. Len(list), ToSet(list))
  <2> DEFINE h == [i \in 1 .. Len(list) |-> list[i]]
  <2>1. h \in [1 .. Len(list) -> ToSet(list)] /\ \A e \in ToSet(list) : \E i \in 1 .. Len(list) : h[i] = e
    BY <1>1 DEF ToSet
  <2>2. \A i, j \in 1 .. Len(list) : h[i] = h[j] => i = j
    BY <1>1, <1>4
  <2> HIDE DEF h
  <2>3. h \in Bijection(1 .. Len(list), ToSet(list))
    BY <2>1, <2>2, Fun_IsBij
  <2> QED BY <2>3 DEF ExistsBijection
<1>6. Cardinality(ToSet(list)) = Len(list)
  BY <1>1, <1>5, FS_CountingElements
<1> QED BY <1>3, <1>4, <1>6

\* unpackIndices makes the list of all pairs of a received entry and a local pair of the
\* same global index, each once and in order: for any ascending sets.
LEMMA UnpackIsProduct ==
  ASSUME NEW remote, NEW local, Ascending(remote), Ascending(local), NEW fromOurSelf \in BOOLEAN
  PROVE  LET list == UnpackIndices(remote, local, fromOurSelf)
         IN  /\ list \in Seq(RemoteEntry) /\ InOrder(list)
             /\ ToSet(list) = Product(remote, local, fromOurSelf)
             /\ Lists(list, Product(remote, local, fromOurSelf))
<1> DEFINE list == UnpackIndices(remote, local, fromOurSelf)
           M == Matches(remote, local, fromOurSelf, <<1, 1, 1>>)
           T == {other \in ToSet(remote) \X ToSet(local) :
                 /\ other[1].global = other[2].global
                 /\ fromOurSelf => other[1].attribute # other[2].attribute}
<1>1. list \in Seq(RemoteEntry) /\ InOrder(list) /\ ToSet(list) = EntriesAt(remote, local, M)
  BY MergeIsRight
<1>2. DOMAIN remote = 1 .. Len(remote) /\ DOMAIN local = 1 .. Len(local)
  BY AscendingFacts
<1>3. Product(remote, local, fromOurSelf) = {RemoteIndex(p[1].attribute, p[2]) : p \in T}
  BY DEF Product
<1>4. ASSUME NEW to \in M PROVE <<remote[to[1]], local[to[2]]>> \in T
  BY <1>2 DEF Matches, ToSet
<1>5. ASSUME NEW p \in T
      PROVE  \E to \in M : remote[to[1]] = p[1] /\ local[to[2]] = p[2]
  <2>1. PICK k \in 1 .. Len(remote), i \in 1 .. Len(local) : remote[k] = p[1] /\ local[i] = p[2]
    BY <1>2 DEF ToSet
  <2>2. <<k, i>> \in M
    BY <2>1 DEF Matches
  <2> QED BY <2>1, <2>2
<1>6. EntriesAt(remote, local, M) = {RemoteIndex(p[1].attribute, p[2]) : p \in T}
  <2> HIDE DEF M, T
  <2>1. ASSUME NEW e \in EntriesAt(remote, local, M) PROVE e \in {RemoteIndex(p[1].attribute, p[2]) : p \in T}
    <3>1. PICK to \in M : e = RemoteIndex(remote[to[1]].attribute, local[to[2]])
      BY DEF EntriesAt
    <3> DEFINE p == <<remote[to[1]], local[to[2]]>>
    <3>2. p \in T /\ p[1] = remote[to[1]] /\ p[2] = local[to[2]]
      BY <1>4
    <3> QED BY <3>1, <3>2
  <2>2. ASSUME NEW p \in T PROVE RemoteIndex(p[1].attribute, p[2]) \in EntriesAt(remote, local, M)
    <3>1. PICK to \in M : remote[to[1]] = p[1] /\ local[to[2]] = p[2]
      BY <1>5
    <3> QED BY <3>1 DEF EntriesAt
  <2> QED BY <2>1, <2>2
<1>7. ToSet(list) = Product(remote, local, fromOurSelf)
  BY <1>1, <1>3, <1>6
<1>8. Lists(list, Product(remote, local, fromOurSelf))
  <2> HIDE DEF list
  <2> QED BY <1>1, <1>7, InOrderOnce DEF Lists
<1> QED BY <1>1, <1>7, <1>8

-----------------------------------------------------------------------------
(* The course of a rank through the program.                               *)

\* A rebuild of the scenario communicates.
Meets(s) == procs > 1 \/ s.two # {} \/ s.includeSelf

\* After i calls, with these values of the members, the next call has to rebuild.
Outdated(s, members, i) ==
  members.synced # ContentAfter(s, i) \/ members.ignored # s.program[i + 1].ignorePublic

\* The members, and how often the ranks have met, after i calls of the program.
Members == [synced : Int, ignored : BOOLEAN, entered : Nat]

AtFirst == [synced |-> -1, ignored |-> FALSE, entered |-> 0]

AfterCall(s, members, i) ==
  IF s.program[i].op = "rebuild" /\ Outdated(s, members, i - 1)
  THEN [synced |-> ContentAfter(s, i - 1), ignored |-> s.program[i].ignorePublic,
        entered |-> IF Meets(s) THEN members.entered + 1 ELSE members.entered]
  ELSE members

After(s, i) ==
  LET after[k \in 0 .. Len(s.program)] ==
        IF k = 0 THEN AtFirst ELSE AfterCall(s, after[k - 1], k)
  IN after[i]

Recurs(f, n, base, next) == f[0] = base /\ \A i \in 1 .. n : f[i] = next[<<i, f[i - 1]>>]

\* Induction up to a number.
LEMMA InductionUpTo ==
  ASSUME NEW n \in Nat, NEW T \in SUBSET (0 .. n), 0 \in T, \A i \in 1 .. n : i - 1 \in T => i \in T
  PROVE  T = 0 .. n
<1> DEFINE U == {i \in Nat : i <= n => i \in T}
<1>1. 0 \in U
  OBVIOUS
<1>2. ASSUME NEW i \in U PROVE i + 1 \in U
  <2> SUFFICES ASSUME i + 1 <= n PROVE i + 1 \in T
    OBVIOUS
  <2>1. i \in T /\ i + 1 \in 1 .. n /\ (i + 1) - 1 = i
    OBVIOUS
  <2> QED BY <2>1
<1>3. U = Nat
  <2> HIDE DEF U
  <2> QED BY <1>1, <1>2, InductionOverNat DEF U
<1>4. ASSUME NEW i \in 0 .. n PROVE i \in T
  <2>1. i \in U /\ i <= n
    BY <1>3
  <2> QED BY <2>1
<1> QED BY <1>4

\* A function on 0 .. n is determined by its first value and by how each value is
\* computed from the one before.
LEMMA Recursion ==
  ASSUME NEW n \in Nat, NEW V, NEW base \in V, NEW next, \A i \in 1 .. n, v \in V : next[<<i, v>>] \in V
  PROVE  \E f \in [0 .. n -> V] : Recurs(f, n, base, next)
<1> DEFINE Upto(f, m) == f[0] = base /\ \A i \in 1 .. m : f[i] = next[<<i, f[i - 1]>>]
           T == {m \in 0 .. n : \E f \in [0 .. m -> V] : Upto(f, m)}
<1>1. 0 \in T
  <2>1. [i \in 0 .. 0 |-> base] \in [0 .. 0 -> V] /\ Upto([i \in 0 .. 0 |-> base], 0)
    OBVIOUS
  <2>2. 0 \in 0 .. n
    OBVIOUS
  <2> HIDE DEF Upto
  <2> QED BY <2>1, <2>2
<1>2. ASSUME NEW m \in 1 .. n, m - 1 \in T PROVE m \in T
  <2>1. PICK f \in [0 .. m - 1 -> V] : Upto(f, m - 1)
    BY <1>2
  <2> DEFINE g == [i \in 0 .. m |-> IF i = m THEN next[<<m, f[m - 1]>>] ELSE f[i]]
  <2>2. g \in [0 .. m -> V] /\ \A i \in 0 .. m - 1 : g[i] = f[i]
    OBVIOUS
  <2>3. g[m] = next[<<m, g[m - 1]>>]
    <3>1. g[m] = next[<<m, f[m - 1]>>] /\ m - 1 \in 0 .. m - 1
      OBVIOUS
    <3> QED BY <2>2, <3>1
  <2>a. next[<<m, f[m - 1]>>] \in V
    OBVIOUS
  <2> HIDE DEF g
  <2>4. ASSUME NEW i \in 1 .. m PROVE g[i] = next[<<i, g[i - 1]>>]
    <3>1. CASE i = m
      BY <3>1, <2>3
    <3>2. CASE i # m
      <4>1. i \in 1 .. m - 1 /\ i \in 0 .. m - 1 /\ i - 1 \in 0 .. m - 1
        BY <3>2
      <4> QED BY <4>1, <2>1, <2>2
    <3> QED BY <3>1, <3>2
  <2>5. g[0] = base
    BY <2>1, <2>2
  <2> QED BY <2>2, <2>4, <2>5
<1>3. T = 0 .. n
  <2>1. T \subseteq 0 .. n
    OBVIOUS
  <2> HIDE DEF T
  <2> QED BY <1>1, <1>2, <2>1, InductionUpTo
<1>4. n \in T
  BY <1>3
<1> QED BY <1>4 DEF Recurs

\* The program of a scenario.
LEMMA ProgramFacts ==
  ASSUME NEW s, Scenario(s)
  PROVE  /\ Len(s.program) \in Nat /\ DOMAIN s.program = 1 .. Len(s.program)
         /\ \A k \in 1 .. Len(s.program) :
              s.program[k].op \in {"resize", "rebuild"} /\ s.program[k].ignorePublic \in BOOLEAN
<1> DEFINE Calls == [op : {"resize", "rebuild"}, ignorePublic : BOOLEAN]
<1>1. s.program \in Seq(Calls)
  BY DEF Scenario
<1>2. \A c \in Calls : c.op \in {"resize", "rebuild"} /\ c.ignorePublic \in BOOLEAN
  OBVIOUS
<1> HIDE DEF Calls
<1> QED BY <1>1, <1>2

\* The content that is current after a number of calls.
LEMMA ContentFacts ==
  ASSUME NEW s, Scenario(s), Regular(s), NEW i \in 0 .. Len(s.program)
  PROVE  /\ ContentAfter(s, i) \in 1 .. ContentAfter(s, Len(s.program))
         /\ ContentAfter(s, i) \in Nat \ {0}
         /\ ContentAfter(s, 0) = 1
         /\ i < Len(s.program) => ContentAfter(s, i + 1) =
              IF s.program[i + 1].op = "resize" /\ s.resizers # {} THEN ContentAfter(s, i) + 1
              ELSE ContentAfter(s, i)
<1> DEFINE R(k) == {j \in 1 .. k : s.program[j].op = "resize"}
<1>0. Len(s.program) \in Nat
  BY ProgramFacts
<1>1. \A k \in Nat : IsFiniteSet(R(k)) /\ Cardinality(R(k)) \in Nat
  <2> SUFFICES ASSUME NEW k \in Nat PROVE IsFiniteSet(R(k)) /\ Cardinality(R(k)) \in Nat
    OBVIOUS
  <2>1. IsFiniteSet(1 .. k)
    BY FS_Interval
  <2>2. IsFiniteSet(R(k))
    BY <2>1, FS_Subset
  <2> QED BY <2>2, FS_CardinalityType
<1>2. R(0) = {} /\ Cardinality(R(0)) = 0
  <2>1. R(0) = {}
    OBVIOUS
  <2> QED BY <2>1, FS_EmptySet
<1>3. Cardinality(R(i)) <= Cardinality(R(Len(s.program)))
  <2>1. R(i) \subseteq R(Len(s.program))
    BY <1>0
  <2> HIDE DEF R
  <2> QED BY <1>0, <1>1, <2>1, FS_Subset
<1>4. Cardinality(R(i + 1)) = IF s.program[i + 1].op = "resize" THEN Cardinality(R(i)) + 1 ELSE Cardinality(R(i))
  <2>1. CASE s.program[i + 1].op = "resize"
    <3>1. R(i + 1) = R(i) \cup {i + 1} /\ i + 1 \notin R(i)
      BY <2>1
    <3>2. IsFiniteSet(R(i)) /\ i \in Nat
      BY <1>0, <1>1
    <3> HIDE DEF R
    <3>3. \A S, x : IsFiniteSet(S) /\ x \notin S => Cardinality(S \cup {x}) = Cardinality(S) + 1
      BY FS_AddElement
    <3>4. Cardinality(R(i) \cup {i + 1}) = Cardinality(R(i)) + 1
      BY <3>1, <3>2, <3>3
    <3> QED BY <2>1, <3>1, <3>4
  <2>2. CASE s.program[i + 1].op # "resize"
    <3>1. R(i + 1) = R(i)
      BY <2>2
    <3> QED BY <2>2, <3>1
  <2> QED BY <2>1, <2>2
<1>5. ASSUME NEW k \in Nat PROVE ContentAfter(s, k) = IF s.resizers = {} THEN 1 ELSE 1 + Cardinality(R(k))
  BY DEF ContentAfter
<1>6. i + 1 \in Nat /\ i \in Nat /\ 0 \in Nat
  BY <1>0
<1> HIDE DEF R
<1> DEFINE n == Len(s.program)
<1>7. ContentAfter(s, i) \in 1 .. ContentAfter(s, n) /\ ContentAfter(s, i) \in Nat \ {0}
  <2>1. PICK a : a = Cardinality(R(i))
    OBVIOUS
  <2>2. PICK b : b = Cardinality(R(n))
    OBVIOUS
  <2>3. a \in Nat /\ b \in Nat /\ a <= b
    BY <1>0, <1>1, <1>3, <1>6, <2>1, <2>2
  <2>4. ContentAfter(s, i) = IF s.resizers = {} THEN 1 ELSE 1 + a
    BY <1>5, <1>6, <2>1
  <2>5. ContentAfter(s, n) = IF s.resizers = {} THEN 1 ELSE 1 + b
    BY <1>0, <1>5, <2>2
  <2> HIDE DEF n
  <2>6. CASE s.resizers = {}
    BY <2>4, <2>5, <2>6
  <2>7. CASE s.resizers # {}
    BY <2>3, <2>4, <2>5, <2>7
  <2> QED BY <2>6, <2>7
<1>8. ContentAfter(s, 0) = 1
  BY <1>2, <1>5, <1>6
<1>9. ContentAfter(s, i + 1) = IF s.program[i + 1].op = "resize" /\ s.resizers # {}
                               THEN ContentAfter(s, i) + 1 ELSE ContentAfter(s, i)
  <2>1. PICK a : a = Cardinality(R(i))
    OBVIOUS
  <2>2. PICK b : b = Cardinality(R(i + 1))
    OBVIOUS
  <2>3. a \in Nat /\ b = IF s.program[i + 1].op = "resize" THEN a + 1 ELSE a
    BY <1>1, <1>4, <1>6, <2>1, <2>2
  <2>4. ContentAfter(s, i) = IF s.resizers = {} THEN 1 ELSE 1 + a
    BY <1>5, <1>6, <2>1
  <2>5. ContentAfter(s, i + 1) = IF s.resizers = {} THEN 1 ELSE 1 + b
    BY <1>5, <1>6, <2>2
  <2> QED BY <2>3, <2>4, <2>5
<1> QED BY <1>7, <1>8, <1>9

\* The members after a call are computed from those before.
LEMMA AfterIs ==
  ASSUME NEW s, Scenario(s), Regular(s)
  PROVE  /\ After(s, 0) = AtFirst
         /\ \A i \in 0 .. Len(s.program) : After(s, i) \in Members
         /\ \A i \in 1 .. Len(s.program) : After(s, i) = AfterCall(s, After(s, i - 1), i)
<1> DEFINE n == Len(s.program)
           next == [at \in (1 .. n) \X Members |-> AfterCall(s, at[2], at[1])]
<1>1. n \in Nat /\ AtFirst \in Members
  BY ProgramFacts DEF AtFirst, Members
<1>2. ASSUME NEW i \in 1 .. n, NEW v \in Members
      PROVE  next[<<i, v>>] = AfterCall(s, v, i) /\ next[<<i, v>>] \in Members
  <2>1. next[<<i, v>>] = AfterCall(s, v, i)
    OBVIOUS
  <2>2. i - 1 \in 0 .. Len(s.program) /\ s.program[i].ignorePublic \in BOOLEAN
    BY <1>1, ProgramFacts
  <2>3. ContentAfter(s, i - 1) \in Int
    BY <2>2, ContentFacts
  <2>4. v.entered \in Nat /\ v.entered + 1 \in Nat
    BY DEF Members
  <2> QED BY <2>1, <2>2, <2>3, <2>4 DEF AfterCall, Members
<1> HIDE DEF next
<1>3. PICK f \in [0 .. n -> Members] : Recurs(f, n, AtFirst, next)
  <2>1. \A i \in 1 .. n, v \in Members : next[<<i, v>>] \in Members
    BY <1>2
  <2> HIDE DEF n
  <2> QED BY ONLY <1>1, <2>1, Recursion, Zenon
<1>4. ASSUME NEW i \in 1 .. n PROVE f[i] = AfterCall(s, f[i - 1], i)
  <2>1. i - 1 \in 0 .. n
    BY <1>1
  <2> QED BY <1>2, <1>3, <2>1 DEF Recurs
<1> DEFINE body(g) == [k \in 0 .. Len(s.program) |-> IF k = 0 THEN AtFirst ELSE AfterCall(s, g[k - 1], k)]
           after == CHOOSE g : g = body(g)
<1>5. f = body(f)
  <2>1. ASSUME NEW i \in 0 .. n PROVE f[i] = body(f)[i]
    <3>1. i = 0 \/ i \in 1 .. n
      BY <1>1
    <3> QED BY <3>1, <1>3, <1>4 DEF Recurs
  <2> QED BY <2>1
<1>6. after = body(after)
  <2> HIDE DEF body
  <2> QED BY <1>5
<1>7. \A i : After(s, i) = after[i]
  BY Zenon DEF After
<1> HIDE DEF after
<1>8. \A i \in 0 .. n : after[i] = f[i]
  <2> DEFINE T == {i \in 0 .. n : after[i] = f[i]}
  <2>1. 0 \in T
    BY <1>1, <1>3, <1>6 DEF Recurs
  <2>2. ASSUME NEW i \in 1 .. n, i - 1 \in T PROVE i \in T
    <3>1. i \in 0 .. n /\ i # 0
      BY <1>1
    <3>2. after[i] = AfterCall(s, after[i - 1], i)
      BY <1>6, <3>1
    <3>3. after[i - 1] = f[i - 1]
      BY <2>2
    <3> QED BY <1>4, <3>1, <3>2, <3>3
  <2>3. T = 0 .. n
    <3>1. T \in SUBSET (0 .. n)
      OBVIOUS
    <3> HIDE DEF T, n
    <3> QED BY <1>1, <2>1, <2>2, <3>1, InductionUpTo
  <2> QED BY <2>3
<1>9. \A i \in 0 .. n : After(s, i) = f[i]
  BY <1>7, <1>8
<1>10. ASSUME NEW i \in 1 .. n PROVE After(s, i) = AfterCall(s, After(s, i - 1), i)
  <2>1. i \in 0 .. n /\ i - 1 \in 0 .. n
    BY <1>1
  <2> QED BY <1>4, <1>9, <2>1
<1>11. After(s, 0) = AtFirst /\ \A i \in 0 .. n : After(s, i) \in Members
  <2>1. 0 \in 0 .. n
    BY <1>1
  <2> QED BY <1>3, <1>9, <2>1 DEF Recurs
<1> QED BY <1>10, <1>11

\* What a call makes of the members.
LEMMA AfterNext ==
  ASSUME NEW s, Scenario(s), Regular(s), NEW k \in 1 .. Len(s.program)
  PROVE  LET old == After(s, k - 1)
         IN  /\ s.program[k].op = "rebuild" /\ Outdated(s, old, k - 1) =>
                  After(s, k) = [synced |-> ContentAfter(s, k - 1), ignored |-> s.program[k].ignorePublic,
                                 entered |-> IF Meets(s) THEN old.entered + 1 ELSE old.entered]
             /\ ~(s.program[k].op = "rebuild" /\ Outdated(s, old, k - 1)) => After(s, k) = old
BY AfterIs DEF AfterCall

\* Ranks meet more and more often.
LEMMA EnteredGrows ==
  ASSUME NEW s, Scenario(s), Regular(s), NEW k \in 0 .. Len(s.program), NEW i \in 0 .. k
  PROVE  After(s, i).entered <= After(s, k).entered
<1> DEFINE T == {j \in 0 .. Len(s.program) : j < i \/ After(s, i).entered <= After(s, j).entered}
<1>0. Len(s.program) \in Nat
  BY ProgramFacts
<1>a. \A j \in 0 .. Len(s.program) : After(s, j).entered \in Nat
  BY AfterIs DEF Members
<1>1. 0 \in T
  <2>1. 0 < i \/ i = 0
    OBVIOUS
  <2> QED BY <1>0, <1>a, <2>1
<1>2. ASSUME NEW j \in 1 .. Len(s.program), j - 1 \in T PROVE j \in T
  <2>1. j \in 0 .. Len(s.program) /\ j - 1 \in 0 .. Len(s.program)
    BY <1>0
  <2>2. After(s, j - 1).entered <= After(s, j).entered
    <3>1. After(s, j).entered \in {After(s, j - 1).entered, After(s, j - 1).entered + 1}
      BY AfterNext
    <3> QED BY <1>a, <2>1, <3>1
  <2>3. CASE j = i
    BY <1>a, <2>1, <2>3
  <2>4. CASE j - 1 < i /\ j # i
    BY <2>1, <2>4
  <2>5. CASE ~(j - 1 < i)
    <3>1. After(s, i).entered <= After(s, j - 1).entered
      BY <1>2, <2>5
    <3>2. \A a, b, c \in Nat : a <= b /\ b <= c => a <= c
      OBVIOUS
    <3>3. /\ After(s, i).entered \in Nat /\ After(s, j - 1).entered \in Nat /\ After(s, j).entered \in Nat
      BY <1>a, <2>1
    <3>4. After(s, i).entered <= After(s, j).entered
      BY <2>2, <3>1, <3>2, <3>3
    <3> QED BY <2>1, <3>4
  <2> QED BY <2>3, <2>4, <2>5
<1>3. T = 0 .. Len(s.program)
  <2>1. T \in SUBSET (0 .. Len(s.program))
    OBVIOUS
  <2> HIDE DEF T
  <2> QED BY <1>0, <1>1, <1>2, <2>1, InductionUpTo
<1>4. k \in T /\ ~(k < i)
  BY <1>3
<1> QED BY <1>4

-----------------------------------------------------------------------------
(* Where the ranks are in the program.                                     *)

\* A rank has made as many calls as its step says, and its members are what these
\* calls make of them; inside a rebuild, it has met the others once more.
CourseOf(r) ==
  LET i == step[r] - 1
      members == After(scenario, i)
      content == ContentAfter(scenario, i)
  IN  /\ seqNo[r] = [source |-> content, target |-> content]
      /\ synced[r] = [source |-> members.synced, dest |-> members.synced]
      /\ publicIgnored[r] = members.ignored
      /\ firstBuild[r] <=> pc[r] # "user" \/ members.synced = -1
      /\ pc[r] # "user" => Program[step[r]].op = "rebuild" /\ Outdated(scenario, members, i)
      /\ entered[r] = IF pc[r] # "user" /\ Meets(scenario) THEN members.entered + 1 ELSE members.entered
      /\ pc[r] \in {"reduce", "ssend", "recv", "probe"} => Meets(scenario)

CourseInv == DOMAIN seqNo = Rank /\ DOMAIN synced = Rank /\ \A r \in Rank : CourseOf(r)

\* The facts about a rank's place in the program.
LEMMA AtPlace ==
  ASSUME TypeInv, RegularScenarios, NEW r \in Rank, NEW i, i = step[r] - 1
  PROVE  /\ Scenario(scenario) /\ Regular(scenario) /\ Program = scenario.program
         /\ Len(Program) \in Nat /\ DOMAIN Program = 1 .. Len(Program)
         /\ i \in 0 .. Len(Program) /\ step[r] = i + 1
         /\ ContentAfter(scenario, i) \in 1 .. ContentAfter(scenario, Len(Program))
         /\ ContentAfter(scenario, i) \in Nat /\ ContentAfter(scenario, i) # -1
         /\ After(scenario, i) \in Members
         /\ After(scenario, i).synced \in Int /\ After(scenario, i).ignored \in BOOLEAN
         /\ After(scenario, i).entered \in Nat
         /\ step[r] \in DOMAIN Program => i + 1 \in 1 .. Len(Program) /\ (i + 1) - 1 = i /\ i < Len(Program)
                                          /\ IgnorePublic(r) \in BOOLEAN
<1>1. /\ Scenario(scenario) /\ Regular(scenario) /\ Program = scenario.program
      /\ Len(Program) \in Nat /\ DOMAIN Program = 1 .. Len(Program)
  BY ProgramType DEF TypeInv, ControlInv, RegularScenarios, Program
<1>2. i \in 0 .. Len(Program) /\ step[r] = i + 1
  BY <1>1 DEF TypeInv, ControlInv
<1>3. /\ ContentAfter(scenario, i) \in 1 .. ContentAfter(scenario, Len(Program))
  BY <1>1, <1>2, ContentFacts
<1>4. ContentAfter(scenario, i) \in Nat /\ ContentAfter(scenario, i) # -1
  <2>1. ContentAfter(scenario, i) \in Nat \ {0}
    BY <1>1, <1>2, ContentFacts
  <2> QED BY <2>1
<1>5. After(scenario, i) \in Members
  BY <1>1, <1>2, AfterIs
<1>6. step[r] \in DOMAIN Program => IgnorePublic(r) \in BOOLEAN
  BY <1>1, ProgramFacts DEF IgnorePublic
<1> QED BY <1>1, <1>2, <1>3, <1>4, <1>5, <1>6 DEF Members

LEMMA CourseInit == RegularScenarios /\ Init => CourseInv
<1> SUFFICES ASSUME RegularScenarios, Init PROVE CourseInv
  OBVIOUS
<1>1. TypeInv
  BY TypeInit
<1>2. ASSUME NEW r \in Rank PROVE CourseOf(r)
  <2>1. step[r] - 1 = 0 /\ pc[r] = "user"
    BY DEF Init
  <2>2. After(scenario, 0) = AtFirst /\ ContentAfter(scenario, 0) = 1
    <3>1. Scenario(scenario) /\ Regular(scenario) /\ 0 \in 0 .. Len(scenario.program)
      BY <1>1, <2>1, AtPlace
    <3> QED BY <3>1, AfterIs, ContentFacts
  <2>3. /\ seqNo[r] = [source |-> 1, target |-> 1] /\ synced[r] = [source |-> -1, dest |-> -1]
        /\ firstBuild[r] = TRUE /\ publicIgnored[r] = FALSE /\ entered[r] = 0
    BY DEF Init
  <2>4. AtFirst.synced = -1 /\ AtFirst.ignored = FALSE /\ AtFirst.entered = 0
    BY DEF AtFirst
  <2> QED BY <2>1, <2>2, <2>3, <2>4 DEF CourseOf
<1> QED BY <1>2 DEF Init, CourseInv

\* A rank whose own part does not change stays on its course.
LEMMA CourseSame ==
  ASSUME NEW q \in Rank, CourseOf(q), scenario' = scenario, step'[q] = step[q], seqNo'[q] = seqNo[q],
         synced'[q] = synced[q], publicIgnored'[q] = publicIgnored[q], firstBuild'[q] = firstBuild[q],
         entered'[q] = entered[q],
         \/ pc'[q] = pc[q]
         \/ pc[q] # "user" /\ pc'[q] # "user" /\ (Meets(scenario) \/ pc'[q] = "return")
  PROVE  CourseOf(q)'
<1> DEFINE i == step[q] - 1
           members == After(scenario, i)
           content == ContentAfter(scenario, i)
<1>1. /\ seqNo[q] = [source |-> content, target |-> content]
      /\ synced[q] = [source |-> members.synced, dest |-> members.synced]
      /\ publicIgnored[q] = members.ignored
      /\ firstBuild[q] <=> pc[q] # "user" \/ members.synced = -1
      /\ pc[q] # "user" => Program[step[q]].op = "rebuild" /\ Outdated(scenario, members, i)
      /\ entered[q] = IF pc[q] # "user" /\ Meets(scenario) THEN members.entered + 1 ELSE members.entered
      /\ pc[q] \in {"reduce", "ssend", "recv", "probe"} => Meets(scenario)
  BY DEF CourseOf
<1>2. i' = i /\ members' = members /\ content' = content /\ Program' = Program /\ Meets(scenario)' = Meets(scenario)
      /\ Outdated(scenario, members, i)' = Outdated(scenario, members, i)
  BY DEF Program
<1>3. pc'[q] # "user" <=> pc[q] # "user"
  OBVIOUS
<1>4. pc'[q] \in {"reduce", "ssend", "recv", "probe"} => Meets(scenario)
  BY <1>1
<1> HIDE DEF i, members, content
<1>5. /\ seqNo'[q] = [source |-> content, target |-> content]
      /\ synced'[q] = [source |-> members.synced, dest |-> members.synced]
      /\ publicIgnored'[q] = members.ignored
      /\ firstBuild'[q] <=> pc'[q] # "user" \/ members.synced = -1
      /\ pc'[q] # "user" => Program[step[q]].op = "rebuild" /\ Outdated(scenario, members, i)
      /\ entered'[q] = IF pc'[q] # "user" /\ Meets(scenario) THEN members.entered + 1 ELSE members.entered
  BY <1>1, <1>3
<1> QED BY <1>2, <1>4, <1>5 DEF CourseOf, i, members, content

\* rebuild() finds the lists out of date when the course says so.
LEMMA NeedsRebuildWhenOutdated ==
  ASSUME TypeInv, RegularScenarios, CourseInv, NEW r \in Rank, AtCall(r, "rebuild")
  PROVE  NeedsRebuild(r) <=> Outdated(scenario, After(scenario, step[r] - 1), step[r] - 1)
<1> DEFINE i == step[r] - 1
           m == After(scenario, i)
           c == ContentAfter(scenario, i)
<1>1. /\ seqNo[r] = [source |-> c, target |-> c] /\ synced[r] = [source |-> m.synced, dest |-> m.synced]
      /\ publicIgnored[r] = m.ignored /\ (firstBuild[r] <=> pc[r] # "user" \/ m.synced = -1)
  BY DEF CourseInv, CourseOf
<1>2. pc[r] = "user" /\ step[r] \in DOMAIN Program
  BY DEF AtCall
<1>3. c # -1 /\ Program = scenario.program /\ step[r] = i + 1
  BY AtPlace
<1>4. IgnorePublic(r) = scenario.program[i + 1].ignorePublic
  BY <1>3 DEF IgnorePublic
<1>5. SeqNos(r) = [source |-> c, dest |-> c]
  BY <1>1 DEF SeqNos
<1> HIDE DEF i, m, c
<1>6. IsSynced(r) <=> m.synced = c
  BY <1>1, <1>5 DEF IsSynced
<1>7. Outdated(scenario, m, i) <=> m.synced # c \/ m.ignored # scenario.program[i + 1].ignorePublic
  BY DEF Outdated, c
<1>8. NeedsRebuild(r) <=> m.synced = -1 \/ scenario.program[i + 1].ignorePublic # m.ignored \/ m.synced # c
  BY <1>1, <1>2, <1>4, <1>6 DEF NeedsRebuild
<1>9. NeedsRebuild(r) <=> Outdated(scenario, m, i)
  BY <1>3, <1>7, <1>8
<1> QED BY <1>9 DEF i, m

\* The class has something to communicate when the course says so.
LEMMA CommunicatesWhenMeets ==
  ASSUME TypeInv, RegularScenarios, NEW r \in Rank
  PROVE  Communicates(r) <=> Meets(scenario)
<1>1. Regular(scenario)
  BY AtPlace
<1>2. scenario.two = {} \/ scenario.two = Rank
  BY <1>1 DEF Regular
<1> QED BY <1>2 DEF Communicates, Meets, SendTwo, IncludeSelf

\* The three steps in which a rank goes on to its next call.
LEMMA CourseAdvances ==
  ASSUME TypeInv, RegularScenarios, CourseInv, NEW r \in Rank, Resize(r) \/ RebuildSkips(r) \/ Return(r)
  PROVE  CourseOf(r)'
<1> DEFINE i == step[r] - 1
           m == After(scenario, i)
           c == ContentAfter(scenario, i)
           k == i + 1
<1>t. /\ scenario' = scenario /\ Program' = Program /\ Program = scenario.program
      /\ step[r] = k /\ step'[r] = k + 1 /\ step'[r] - 1 = k /\ step[r] \in DOMAIN Program
      /\ k \in 1 .. Len(Program) /\ i \in 0 .. Len(Program) /\ i < Len(Program) /\ k - 1 = i
      /\ Scenario(scenario) /\ Regular(scenario)
  <2>1. step[r] \in DOMAIN Program
    BY DEF Resize, RebuildSkips, Return, AtCall, TypeInv, ControlInv
  <2>2. step' = [step EXCEPT ![r] = @ + 1] /\ scenario' = scenario
    BY DEF Resize, RebuildSkips, Return
  <2>3. step'[r] = step[r] + 1
    BY <2>2 DEF TypeInv, ControlInv
  <2> QED BY <2>1, <2>2, <2>3, AtPlace DEF Program
<1>m. m \in Members /\ m.entered \in Nat /\ c \in Nat /\ c # -1 /\ IgnorePublic(r) \in BOOLEAN
  BY <1>t, AtPlace
<1>o. /\ seqNo[r] = [source |-> c, target |-> c] /\ synced[r] = [source |-> m.synced, dest |-> m.synced]
      /\ publicIgnored[r] = m.ignored /\ (firstBuild[r] <=> pc[r] # "user" \/ m.synced = -1)
      /\ pc[r] # "user" => Program[step[r]].op = "rebuild" /\ Outdated(scenario, m, i)
      /\ entered[r] = IF pc[r] # "user" /\ Meets(scenario) THEN m.entered + 1 ELSE m.entered
  BY DEF CourseInv, CourseOf
<1>n. After(scenario, k) =
        IF scenario.program[k].op = "rebuild" /\ Outdated(scenario, m, i)
        THEN [synced |-> c, ignored |-> scenario.program[k].ignorePublic,
              entered |-> IF Meets(scenario) THEN m.entered + 1 ELSE m.entered]
        ELSE m
  <2> HIDE DEF k
  <2> QED BY <1>t, AfterIs DEF AfterCall
<1>c. ContentAfter(scenario, k) =
        IF scenario.program[k].op = "resize" /\ scenario.resizers # {} THEN c + 1 ELSE c
  BY <1>t, ContentFacts
<1>d. CourseOf(r)' <=>
        LET new == After(scenario, k)
            content == ContentAfter(scenario, k)
        IN  /\ seqNo'[r] = [source |-> content, target |-> content]
            /\ synced'[r] = [source |-> new.synced, dest |-> new.synced]
            /\ publicIgnored'[r] = new.ignored
            /\ firstBuild'[r] <=> pc'[r] # "user" \/ new.synced = -1
            /\ pc'[r] # "user" => Program[k + 1].op = "rebuild" /\ Outdated(scenario, new, k)
            /\ entered'[r] = IF pc'[r] # "user" /\ Meets(scenario) THEN new.entered + 1 ELSE new.entered
            /\ pc'[r] \in {"reduce", "ssend", "recv", "probe"} => Meets(scenario)
  <2> HIDE DEF i, k
  <2> QED BY <1>t DEF CourseOf
<1> USE DEF object
<1>1. CASE Resize(r)
  <2>1. pc[r] = "user" /\ pc'[r] = "user" /\ Program[k].op = "resize"
    BY <1>1, <1>t DEF Resize, AtCall
  <2>2. synced' = synced /\ publicIgnored' = publicIgnored /\ firstBuild' = firstBuild /\ entered' = entered
    BY <1>1 DEF Resize
  <2>3. After(scenario, k) = m
    BY <1>n, <1>t, <2>1
  <2>4. seqNo'[r] = IF scenario.resizers # {} THEN [source |-> c + 1, target |-> c + 1] ELSE seqNo[r]
    <3>1. scenario.resizers = {} \/ scenario.resizers = Rank
      BY <1>t DEF Regular
    <3>2. DOMAIN seqNo = Rank
      BY DEF CourseInv
    <3>3. CASE scenario.resizers = {}
      BY <1>1, <3>3 DEF Resize
    <3>4. CASE scenario.resizers # {}
      <4>1. seqNo' = [seqNo EXCEPT ![r] = [source |-> @.source + 1, target |-> @.target + 1]]
        BY <1>1, <3>1, <3>4 DEF Resize
      <4>2. seqNo'[r] = [source |-> seqNo[r].source + 1, target |-> seqNo[r].target + 1]
        BY <3>2, <4>1
      <4>3. seqNo[r].source = c /\ seqNo[r].target = c
        BY <1>o
      <4> QED BY <3>4, <4>2, <4>3
    <3> QED BY <3>3, <3>4
  <2>5. seqNo'[r] = [source |-> ContentAfter(scenario, k), target |-> ContentAfter(scenario, k)]
    BY <1>c, <1>o, <1>t, <2>1, <2>4
  <2> HIDE DEF i, k, m, c
  <2> QED BY <1>d, <1>o, <2>1, <2>2, <2>3, <2>5
<1>2. CASE RebuildSkips(r)
  <2>1. pc[r] = "user" /\ pc'[r] = "user" /\ Program[k].op = "rebuild"
    BY <1>2, <1>t DEF RebuildSkips, AtCall
  <2>2. /\ synced' = synced /\ publicIgnored' = publicIgnored /\ firstBuild' = firstBuild /\ entered' = entered
        /\ seqNo' = seqNo
    BY <1>2 DEF RebuildSkips
  <2>3. ~Outdated(scenario, m, i)
    BY <1>2, NeedsRebuildWhenOutdated DEF RebuildSkips
  <2>4. After(scenario, k) = m /\ ContentAfter(scenario, k) = c
    BY <1>c, <1>n, <1>t, <2>1, <2>3
  <2> HIDE DEF i, k, m, c
  <2> QED BY <1>d, <1>o, <2>1, <2>2, <2>4
<1>3. CASE Return(r)
  <2>1. pc[r] = "return" /\ pc'[r] = "user"
    BY <1>3 DEF Return, TypeInv, ControlInv
  <2>2. /\ seqNo' = seqNo /\ entered' = entered /\ firstBuild'[r] = FALSE
        /\ publicIgnored'[r] = IgnorePublic(r) /\ synced'[r] = SeqNos(r)
    BY <1>3 DEF Return, TypeInv, MemberInv, CourseInv
  <2>3. IgnorePublic(r) = scenario.program[k].ignorePublic
    BY <1>t DEF IgnorePublic
  <2>4. SeqNos(r) = [source |-> c, dest |-> c]
    BY <1>o DEF SeqNos
  <2>5. After(scenario, k) = [synced |-> c, ignored |-> scenario.program[k].ignorePublic,
              entered |-> IF Meets(scenario) THEN m.entered + 1 ELSE m.entered] /\ ContentAfter(scenario, k) = c
    BY <1>c, <1>n, <1>o, <1>t, <2>1
  <2> HIDE DEF i, k, m, c
  <2> QED BY <1>d, <1>m, <1>o, <2>1, <2>2, <2>3, <2>4, <2>5
<1> QED BY <1>1, <1>2, <1>3

\* Who meets the others is inside a rebuild from then on.
LEMMA CourseEnters ==
  ASSUME TypeInv, RegularScenarios, CourseInv, NEW r \in Rank, RebuildStarts(r)
  PROVE  CourseOf(r)'
<1> DEFINE i == step[r] - 1
           m == After(scenario, i)
           c == ContentAfter(scenario, i)
<1>t. scenario' = scenario /\ Program' = Program /\ step' = step
  BY DEF RebuildStarts, Program
<1>m. m.entered \in Nat
  BY AtPlace
<1>o. /\ seqNo[r] = [source |-> c, target |-> c] /\ synced[r] = [source |-> m.synced, dest |-> m.synced]
      /\ publicIgnored[r] = m.ignored
      /\ entered[r] = IF pc[r] # "user" /\ Meets(scenario) THEN m.entered + 1 ELSE m.entered
  BY DEF CourseInv, CourseOf
<1>1. pc[r] = "user" /\ Program[step[r]].op = "rebuild" /\ Outdated(scenario, m, i)
  BY NeedsRebuildWhenOutdated DEF RebuildStarts, AtCall
<1>2. /\ seqNo' = seqNo /\ synced' = synced /\ publicIgnored' = publicIgnored
      /\ firstBuild'[r] = TRUE
      /\ pc'[r] = IF Meets(scenario) THEN "reduce" ELSE "return"
      /\ entered'[r] = IF Meets(scenario) THEN entered[r] + 1 ELSE entered[r]
  BY CommunicatesWhenMeets DEF RebuildStarts, TypeInv, ControlInv, MemberInv
<1>d. CourseOf(r)' <=>
        /\ seqNo'[r] = [source |-> c, target |-> c]
        /\ synced'[r] = [source |-> m.synced, dest |-> m.synced]
        /\ publicIgnored'[r] = m.ignored
        /\ firstBuild'[r] <=> pc'[r] # "user" \/ m.synced = -1
        /\ pc'[r] # "user" => Program[step[r]].op = "rebuild" /\ Outdated(scenario, m, i)
        /\ entered'[r] = IF pc'[r] # "user" /\ Meets(scenario) THEN m.entered + 1 ELSE m.entered
        /\ pc'[r] \in {"reduce", "ssend", "recv", "probe"} => Meets(scenario)
  BY <1>t DEF CourseOf
<1> HIDE DEF i, m, c
<1> QED BY <1>1, <1>2, <1>d, <1>m, <1>o

LEMMA CourseStep == TypeInv /\ RegularScenarios /\ CourseInv /\ [Next]_vars => CourseInv'
<1> SUFFICES ASSUME TypeInv, RegularScenarios, CourseInv, [Next]_vars PROVE CourseInv'
  OBVIOUS
<1>d. DOMAIN seqNo' = Rank /\ DOMAIN synced' = Rank
  <2> USE DEF object, CourseInv
  <2>1. ASSUME NEW r \in Rank, Step(r) PROVE DOMAIN seqNo' = Rank /\ DOMAIN synced' = Rank
    BY <2>1 DEF Step, Resize, RebuildSkips, RebuildStarts, StartRing, StartNeighbours, EvenSendReturns,
         OddSendReturns, EvenReceives, OddReceives, ProbeAndReceive, WaitAll, Return
  <2>2. CASE UNCHANGED vars
    BY <2>2 DEF vars
  <2> QED BY <2>1, <2>2 DEF Next
<1>1. CASE UNCHANGED vars
  BY <1>1, CourseSame DEF vars, object, CourseInv
<1>2. ASSUME NEW r \in Rank, Step(r), NEW q \in Rank PROVE CourseOf(q)'
  <2>0. CourseOf(q)
    BY DEF CourseInv
  <2>t. /\ DOMAIN pc = Rank /\ DOMAIN step = Rank /\ DOMAIN entered = Rank /\ DOMAIN firstBuild = Rank
        /\ DOMAIN publicIgnored = Rank /\ DOMAIN seqNo = Rank /\ DOMAIN synced = Rank
    BY DEF TypeInv, ControlInv, MemberInv, CourseInv
  <2> USE DEF object
  <2>1. CASE Resize(r) \/ RebuildSkips(r) \/ Return(r)
    <3>1. CASE q = r
      BY <2>1, <3>1, CourseAdvances
    <3>2. CASE q # r
      <4>1. /\ scenario' = scenario /\ step'[q] = step[q] /\ seqNo'[q] = seqNo[q] /\ synced'[q] = synced[q]
            /\ publicIgnored'[q] = publicIgnored[q] /\ firstBuild'[q] = firstBuild[q]
            /\ entered'[q] = entered[q] /\ pc'[q] = pc[q]
        BY <2>1, <2>t, <3>2 DEF Resize, RebuildSkips, Return
      <4> QED BY <2>0, <4>1, CourseSame
    <3> QED BY <3>1, <3>2
  <2>2. CASE RebuildStarts(r)
    <3>1. CASE q = r
      BY <2>2, <3>1, CourseEnters
    <3>2. CASE q # r
      <4>1. /\ scenario' = scenario /\ step'[q] = step[q] /\ seqNo'[q] = seqNo[q] /\ synced'[q] = synced[q]
            /\ publicIgnored'[q] = publicIgnored[q] /\ firstBuild'[q] = firstBuild[q]
            /\ entered'[q] = entered[q] /\ pc'[q] = pc[q]
        BY <2>2, <2>t, <3>2 DEF RebuildStarts
      <4> QED BY <2>0, <4>1, CourseSame
    <3> QED BY <3>1, <3>2
  <2>3. CASE \/ StartRing(r) \/ StartNeighbours(r) \/ EvenSendReturns(r) \/ OddSendReturns(r)
             \/ EvenReceives(r) \/ OddReceives(r) \/ WaitAll(r) \/ \E s \in Rank : ProbeAndReceive(r, s)
    <3>1. /\ scenario' = scenario /\ step'[q] = step[q] /\ seqNo'[q] = seqNo[q] /\ synced'[q] = synced[q]
          /\ publicIgnored'[q] = publicIgnored[q] /\ firstBuild'[q] = firstBuild[q]
          /\ entered'[q] = entered[q]
      BY <2>3 DEF StartRing, StartNeighbours, EvenSendReturns, OddSendReturns, EvenReceives, OddReceives,
                  WaitAll, ProbeAndReceive
    <3>2. pc[r] \in {"reduce", "ssend", "recv", "probe"}
      BY <2>3 DEF StartRing, StartNeighbours, ReduceReturns, EvenSendReturns, OddSendReturns, EvenReceives,
                  OddReceives, ReceiveFromPred, WaitAll, ProbeAndReceive
    <3>3. Meets(scenario)
      BY <3>2 DEF CourseInv, CourseOf
    <3>4. pc'[r] # "user"
      BY <2>3, <2>t DEF StartRing, StartNeighbours, EvenSendReturns, OddSendReturns, EvenReceives,
                  OddReceives, WaitAll, ProbeAndReceive, AfterIteration
    <3>5. q # r => pc'[q] = pc[q]
      BY <2>3, <2>t DEF StartRing, StartNeighbours, EvenSendReturns, OddSendReturns, EvenReceives,
                  OddReceives, WaitAll, ProbeAndReceive
    <3> QED BY <2>0, <3>1, <3>2, <3>3, <3>4, <3>5, CourseSame
  <2> QED BY <1>2, <2>1, <2>2, <2>3 DEF Step
<1> QED BY <1>1, <1>2, <1>d DEF Next, CourseInv

\* The neighbours a rank was given, itself left out.
Named(r) == scenario.neighbours[r] \ {r}

\* A rank keeps its neighbours, and has left itself out once it has been in the exchange.
NamesInv ==
  \A r \in Rank :
    /\ neighbourIds[r] \ {r} = Named(r)
    /\ Meets(scenario) /\ ~firstBuild[r] => neighbourIds[r] = Named(r)
    /\ Meets(scenario) /\ pc[r] \in {"ssend", "recv", "probe", "return"} => neighbourIds[r] = Named(r)

LEMMA NamesInit == Init => NamesInv
BY DEF Init, NamesInv, Named

LEMMA NamesStep == TypeInv /\ NamesInv /\ [Next]_vars => NamesInv'
<1> SUFFICES ASSUME TypeInv, NamesInv, [Next]_vars PROVE NamesInv'
  OBVIOUS
<1>t. DOMAIN pc = Rank /\ DOMAIN firstBuild = Rank /\ DOMAIN neighbourIds = Rank
  BY DEF TypeInv, ControlInv, MemberInv
<1>n. \A q \in Rank :
        /\ neighbourIds[q] \ {q} = Named(q)
        /\ Meets(scenario) /\ ~firstBuild[q] => neighbourIds[q] = Named(q)
        /\ Meets(scenario) /\ pc[q] \in {"ssend", "recv", "probe", "return"} => neighbourIds[q] = Named(q)
  BY DEF NamesInv
<1>s. ASSUME scenario' = scenario, NEW q \in Rank, neighbourIds'[q] = neighbourIds[q],
             ~firstBuild'[q] => ~firstBuild[q] \/ pc[q] = "return",
             Meets(scenario) /\ pc'[q] \in {"ssend", "recv", "probe", "return"} =>
               pc[q] \in {"ssend", "recv", "probe", "return"}
      PROVE  /\ neighbourIds'[q] \ {q} = Named(q)'
             /\ Meets(scenario)' /\ ~firstBuild'[q] => neighbourIds'[q] = Named(q)'
             /\ Meets(scenario)' /\ pc'[q] \in {"ssend", "recv", "probe", "return"} => neighbourIds'[q] = Named(q)'
  <2>1. Named(q)' = Named(q) /\ Meets(scenario)' = Meets(scenario)
    BY <1>s DEF Named
  <2> QED BY <1>n, <1>s, <2>1
<1> USE DEF object
<1>1. CASE UNCHANGED vars
  BY <1>1, <1>s DEF vars, NamesInv
<1>2. ASSUME NEW r \in Rank, Step(r), NEW q \in Rank
      PROVE  /\ neighbourIds'[q] \ {q} = Named(q)'
             /\ Meets(scenario)' /\ ~firstBuild'[q] => neighbourIds'[q] = Named(q)'
             /\ Meets(scenario)' /\ pc'[q] \in {"ssend", "recv", "probe", "return"} => neighbourIds'[q] = Named(q)'
  <2>1. CASE StartRing(r) \/ StartNeighbours(r)
    <3>1. scenario' = scenario /\ firstBuild' = firstBuild /\ neighbourIds' = [neighbourIds EXCEPT ![r] = @ \ {r}]
      BY <2>1 DEF StartRing, StartNeighbours, ReduceReturns
    <3>2. Named(q)' = Named(q) /\ Meets(scenario)' = Meets(scenario)
      BY <3>1 DEF Named
    <3>3. CASE q = r
      <4>1. neighbourIds'[q] = neighbourIds[q] \ {q}
        BY <1>t, <3>1, <3>3
      <4> QED BY <1>n, <3>2, <4>1
    <3>4. CASE q # r
      <4>1. neighbourIds'[q] = neighbourIds[q] /\ pc'[q] = pc[q]
        BY <1>t, <2>1, <3>1, <3>4 DEF StartRing, StartNeighbours
      <4> QED BY <1>s, <3>1, <4>1
    <3> QED BY <3>3, <3>4
  <2>2. CASE Resize(r) \/ RebuildSkips(r)
    BY <1>s, <1>t, <2>2 DEF Resize, RebuildSkips
  <2>3. CASE RebuildStarts(r)
    <3>1. scenario' = scenario /\ neighbourIds' = neighbourIds /\ (~firstBuild'[q] => ~firstBuild[q])
      BY <1>t, <2>3 DEF RebuildStarts
    <3>2. Communicates(r) \/ ~Meets(scenario) \/ SendTwo(r) # (scenario.two # {})
      BY DEF Communicates, Meets, IncludeSelf
    <3>3. CASE Communicates(r)
      BY <1>s, <1>t, <2>3, <3>1, <3>3 DEF RebuildStarts
    <3>4. CASE ~Communicates(r)
      <4>1. Rank = {r}
        BY <3>4, RemoteIndicesAssumption DEF Communicates, Rank
      <4>2. scenario.two \subseteq Rank
        BY ProgramType DEF TypeInv, ControlInv, Scenario
      <4>3. ~Meets(scenario)
        BY <3>4, <4>1, <4>2 DEF Communicates, Meets, SendTwo, IncludeSelf
      <4> QED BY <1>s, <3>1, <4>3
    <3> QED BY <3>3, <3>4
  <2>4. CASE Return(r)
    BY <1>s, <1>t, <2>4 DEF Return
  <2>5. CASE \/ EvenSendReturns(r) \/ OddSendReturns(r) \/ EvenReceives(r) \/ OddReceives(r)
             \/ WaitAll(r) \/ \E s \in Rank : ProbeAndReceive(r, s)
    <3>1. scenario' = scenario /\ neighbourIds' = neighbourIds /\ firstBuild' = firstBuild
      BY <2>5 DEF EvenSendReturns, OddSendReturns, EvenReceives, OddReceives, WaitAll, ProbeAndReceive
    <3>2. pc'[q] # pc[q] => pc[q] \in {"ssend", "recv", "probe"}
      BY <1>t, <2>5 DEF EvenSendReturns, OddSendReturns, EvenReceives, OddReceives, ReceiveFromPred, WaitAll, ProbeAndReceive
    <3> QED BY <1>s, <3>1, <3>2
  <2> QED BY <1>2, <2>1, <2>2, <2>3, <2>4, <2>5 DEF Step
<1> QED BY <1>1, <1>2 DEF Next, NamesInv

-----------------------------------------------------------------------------

\* Nobody is further ahead than the MPI_Allreduce allows.
BarrierInv ==
  \A r, q \in Rank : entered[q] >= IF pc[r] = "reduce" THEN entered[r] - 1 ELSE entered[r]

LEMMA BarrierInit == Init => BarrierInv
BY DEF Init, BarrierInv

LEMMA BarrierStep == TypeInv /\ BarrierInv /\ [Next]_vars => BarrierInv'
<1> SUFFICES ASSUME TypeInv, BarrierInv, [Next]_vars PROVE BarrierInv'
  OBVIOUS
<1>t. DOMAIN pc = Rank /\ DOMAIN entered = Rank /\ \A r \in Rank : entered[r] \in Nat
  BY ProgramType DEF TypeInv, ControlInv
<1>1. CASE UNCHANGED vars
  BY <1>1 DEF vars, BarrierInv
<1>2. ASSUME NEW x \in Rank, Step(x) PROVE BarrierInv'
  <2>1. CASE RebuildStarts(x)
    <3>1. pc[x] = "user"
      BY <2>1 DEF RebuildStarts, AtCall
    <3>2. /\ \A r \in Rank \ {x} : pc'[r] = pc[r] /\ entered'[r] = entered[r]
          /\ \/ pc'[x] = "reduce" /\ entered'[x] = entered[x] + 1
             \/ pc'[x] = "return" /\ entered'[x] = entered[x]
      BY <1>t, <2>1 DEF RebuildStarts
    <3>3. ASSUME NEW r \in Rank, NEW q \in Rank
          PROVE  entered'[q] >= IF pc'[r] = "reduce" THEN entered'[r] - 1 ELSE entered'[r]
      <4>1. entered[q] >= IF pc[r] = "reduce" THEN entered[r] - 1 ELSE entered[r]
        BY DEF BarrierInv
      <4> QED BY <1>t, <3>1, <3>2, <4>1
    <3> QED BY <3>3 DEF BarrierInv
  <2>2. CASE StartRing(x) \/ StartNeighbours(x)
    <3>1. entered' = entered /\ \A q \in Rank : entered[q] >= entered[x]
      BY <2>2 DEF StartRing, StartNeighbours, ReduceReturns, ReduceComplete
    <3>2. \A r \in Rank \ {x} : pc'[r] = pc[r]
      BY <1>t, <2>2 DEF StartRing, StartNeighbours
    <3>3. ASSUME NEW r \in Rank, NEW q \in Rank
          PROVE  entered'[q] >= IF pc'[r] = "reduce" THEN entered'[r] - 1 ELSE entered'[r]
      <4>1. entered[q] >= IF pc[r] = "reduce" THEN entered[r] - 1 ELSE entered[r]
        BY DEF BarrierInv
      <4> QED BY <1>t, <3>1, <3>2, <4>1
    <3> QED BY <3>3 DEF BarrierInv
  <2>3. CASE \/ Resize(x) \/ RebuildSkips(x) \/ Return(x) \/ EvenSendReturns(x) \/ OddSendReturns(x)
             \/ EvenReceives(x) \/ OddReceives(x) \/ WaitAll(x) \/ \E s \in Rank : ProbeAndReceive(x, s)
    <3>1. entered' = entered /\ \A r \in Rank : (pc'[r] = "reduce" <=> pc[r] = "reduce")
      BY <1>t, <2>3 DEF Resize, RebuildSkips, Return, EvenSendReturns, OddSendReturns, EvenReceives, OddReceives,
                        ReceiveFromPred, WaitAll, ProbeAndReceive, AfterIteration
    <3> QED BY <3>1 DEF BarrierInv
  <2> QED BY <1>2, <2>1, <2>2, <2>3 DEF Step
<1> QED BY <1>1, <1>2 DEF Next

\* Ranks that are in the exchange are in the same one.
LEMMA SameExchangeRound ==
  ASSUME TypeInv, BarrierInv, NEW r \in Rank, NEW q \in Rank, pc[r] # "reduce", pc[q] # "reduce"
  PROVE  entered[r] = entered[q]
<1>1. entered[r] \in Nat /\ entered[q] \in Nat
  BY ProgramType DEF TypeInv, ControlInv
<1>2. entered[r] >= entered[q] /\ entered[q] >= entered[r]
  BY DEF BarrierInv
<1> QED BY <1>1, <1>2

\* Ranks that have met as often, and are inside a rebuild, are in the same call of the program.
LEMMA SameCall ==
  ASSUME TypeInv, RegularScenarios, CourseInv, Meets(scenario), NEW r \in Rank, NEW q \in Rank,
         pc[r] # "user", pc[q] # "user", entered[r] = entered[q]
  PROVE  step[r] = step[q]
<1>1. ASSUME NEW a \in Rank, NEW b \in Rank, pc[a] # "user", pc[b] # "user", step[a] < step[b]
      PROVE  entered[a] < entered[b]
  <2> DEFINE i == step[a] - 1
             j == step[b] - 1
             k == i + 1
  <2>1. /\ Scenario(scenario) /\ Regular(scenario) /\ Program = scenario.program
        /\ i \in 0 .. Len(Program) /\ j \in 0 .. Len(Program) /\ Len(Program) \in Nat
        /\ step[a] = i + 1 /\ step[b] = j + 1
        /\ After(scenario, i).entered \in Nat /\ After(scenario, j).entered \in Nat
    BY AtPlace
  <2>2. /\ Program[step[a]].op = "rebuild" /\ Outdated(scenario, After(scenario, i), i)
        /\ entered[a] = After(scenario, i).entered + 1 /\ entered[b] = After(scenario, j).entered + 1
    BY <1>1 DEF CourseInv, CourseOf
  <2>3. k \in 1 .. Len(Program) /\ k - 1 = i /\ k \in 0 .. j
    BY <1>1, <2>1
  <2>4. After(scenario, k).entered = After(scenario, i).entered + 1
    <3>1. After(scenario, k) = AfterCall(scenario, After(scenario, k - 1), k)
      BY <2>1, <2>3, AfterIs
    <3> HIDE DEF k
    <3>2. scenario.program[k].op = "rebuild"
      BY <2>1, <2>2 DEF k
    <3> QED BY <2>2, <2>3, <3>1, <3>2 DEF AfterCall
  <2>5. After(scenario, k).entered <= After(scenario, j).entered
    BY <2>1, <2>3, EnteredGrows
  <2> HIDE DEF i, j, k
  <2> QED BY <2>1, <2>2, <2>4, <2>5
<1>2. step[r] \in Nat /\ step[q] \in Nat
  BY ProgramType DEF TypeInv, ControlInv
<1>3. entered[r] \in Nat /\ entered[q] \in Nat
  BY ProgramType DEF TypeInv, ControlInv
<1> QED BY <1>1, <1>2, <1>3

-----------------------------------------------------------------------------
(* The lists of a rank.                                                    *)

\* What q packs of content n of its sets, all of it or what is public.
MessageAt(s, q, n, all) ==
  [from |-> q, two |-> q \in s.two, source |-> PackEntries(s.sets[q].source[n], all),
   dest |-> IF q \in s.two THEN PackEntries(s.sets[q].target[n], all) ELSE <<>>]

\* What r makes of it.
ListsOf(s, r, q, n, all) ==
  UnpackCreateRemote(MessageAt(s, q, n, all), MessageAt(s, r, n, all).source, MessageAt(s, r, n, all).dest,
                     r \in s.two, r = q /\ s.includeSelf)

NoEntries == [send |-> <<>>, receive |-> <<>>]

\* The lists r has when it has unpacked what the others have sent: none are kept
\* for a rank that shares nothing with r.
Listed(s, r, n, all, others) ==
  [q \in {other \in others : ListsOf(s, r, other, n, all) # NoEntries} |-> ListsOf(s, r, q, n, all)]

\* A rank unpacks its own message if it has two sets, or is asked to.
Itself(s, r) == IF r \in s.two \/ s.includeSelf THEN {r} ELSE {}
Known(s, r, n, all, others) == Listed(s, r, n, all, others \cup Itself(s, r))

\* Of the call a rank is in.
Content(r) == ContentAfter(scenario, step[r] - 1)
MessageOf(r, q) == MessageAt(scenario, q, Content(r), IgnorePublic(r))
ListedNow(r, others) == Listed(scenario, r, Content(r), IgnorePublic(r), others)
KnownNow(r, others) == ListedNow(r, others \cup Itself(scenario, r))
Others(s, r) == IF s.neighbours[r] \ {r} = {} THEN Rank \ {r} ELSE s.neighbours[r] \ {r}

\* What a rank packs is its message of the call it is in.
LEMMA MessageIs ==
  ASSUME CourseInv, NEW r \in Rank
  PROVE  /\ Message(r) = MessageOf(r, r)
         /\ PackEntries(Source(r), IgnorePublic(r)) = MessageOf(r, r).source
         /\ (IF SendTwo(r) THEN PackEntries(Target(r), IgnorePublic(r)) ELSE <<>>) = MessageOf(r, r).dest
<1>1. seqNo[r].source = Content(r) /\ seqNo[r].target = Content(r)
  BY DEF CourseInv, CourseOf, Content
<1>2. /\ PackEntries(Source(r), IgnorePublic(r)) = MessageOf(r, r).source
      /\ (IF SendTwo(r) THEN PackEntries(Target(r), IgnorePublic(r)) ELSE <<>>) = MessageOf(r, r).dest
  BY <1>1 DEF MessageOf, MessageAt, Source, Target, SendTwo
<1>3. Message(r) = [from |-> r, two |-> SendTwo(r), source |-> PackEntries(Source(r), IgnorePublic(r)),
                    dest |-> IF SendTwo(r) THEN PackEntries(Target(r), IgnorePublic(r)) ELSE <<>>]
  BY DEF Message
<1>4. MessageOf(r, r) = [from |-> r, two |-> r \in scenario.two, source |-> MessageOf(r, r).source,
                         dest |-> MessageOf(r, r).dest]
  BY DEF MessageOf, MessageAt
<1> QED BY <1>2, <1>3, <1>4 DEF SendTwo

\* Unpacking a message adds its origin to those whose lists a rank has.
LEMMA UnpackListed ==
  ASSUME CourseInv, NEW r \in Rank, NEW q, NEW others,
         NEW self \in BOOLEAN, self <=> r = q /\ scenario.includeSelf
  PROVE  Unpack(r, ListedNow(r, others), MessageOf(r, q), q, self) = ListedNow(r, others \cup {q})
<1> DEFINE lists(o) == ListsOf(scenario, r, o, Content(r), IgnorePublic(r))
           map == ListedNow(r, others)
           L == lists(q)
           D == {o \in others : lists(o) # NoEntries}
<1>1. map = [o \in D |-> lists(o)]
  BY DEF ListedNow, Listed
<1>2. ListedNow(r, others \cup {q}) = [o \in {o \in others \cup {q} : lists(o) # NoEntries} |-> lists(o)]
  BY DEF ListedNow, Listed
<1>3. UnpackCreateRemote(MessageOf(r, q), PackEntries(Source(r), IgnorePublic(r)),
         IF SendTwo(r) THEN PackEntries(Target(r), IgnorePublic(r)) ELSE <<>>, SendTwo(r), self) = L
  <2>1. self = (r = q /\ scenario.includeSelf)
    BY Zenon
  <2>2. L = UnpackCreateRemote(MessageOf(r, q), MessageOf(r, r).source, MessageOf(r, r).dest, r \in scenario.two,
                               r = q /\ scenario.includeSelf)
    BY Zenon DEF ListsOf, MessageOf
  <2>3. SendTwo(r) = (r \in scenario.two)
    BY DEF SendTwo
  <2> HIDE DEF lists, L
  <2> QED BY <2>1, <2>2, <2>3, MessageIs, Zenon
<1>4. Unpack(r, map, MessageOf(r, q), q, self) =
        IF L.send = <<>> /\ L.receive = <<>> THEN map
        ELSE [o \in DOMAIN map \cup {q} |-> IF o \in DOMAIN map THEN map[o] ELSE L]
  <2> HIDE DEF map, L
  <2> QED BY <1>3, Zenon DEF Unpack
<1>5. L.send = <<>> /\ L.receive = <<>> <=> L = NoEntries
  <2>1. \E a, b : L = [send |-> a, receive |-> b]
    <3>1. \E a, b : UnpackCreateRemote(MessageOf(r, q), MessageOf(r, r).source, MessageOf(r, r).dest, r \in scenario.two,
                                       r = q /\ scenario.includeSelf) = [send |-> a, receive |-> b]
      <4> DEFINE m == MessageOf(r, q)
                 src == MessageOf(r, r).source
                 dst == MessageOf(r, r).dest
                 two == r \in scenario.two
                 own == r = q /\ scenario.includeSelf
      <4>1. CASE ~m.two
        <5>1. CASE two
          <6>1. UnpackCreateRemote(m, src, dst, two, own) = UnpackIndicesTwo(m.source, src, dst)
            BY <4>1, <5>1 DEF UnpackCreateRemote
          <6>2. \E a, b : UnpackIndicesTwo(m.source, src, dst) = [send |-> a, receive |-> b]
            BY Zenon DEF UnpackIndicesTwo
          <6> HIDE DEF m, src, dst, two, own
          <6>3. \E a, b : UnpackCreateRemote(m, src, dst, two, own) = [send |-> a, receive |-> b]
            BY <6>1, <6>2
          <6> QED BY <6>3 DEF m, src, dst, two, own
        <5>2. CASE ~two
          <6>1. UnpackCreateRemote(m, src, dst, two, own) =
                  [send |-> UnpackIndices(m.source, src, own), receive |-> UnpackIndices(m.source, src, own)]
            BY <4>1, <5>2, Zenon DEF UnpackCreateRemote
          <6> QED BY <6>1
        <5> QED BY <5>1, <5>2
      <4>2. CASE m.two
        <5>1. \E a, b : UnpackCreateRemote(m, src, dst, two, own) = [receive |-> b, send |-> a]
          BY <4>2 DEF UnpackCreateRemote
        <5>2. \A a, b : [receive |-> b, send |-> a] = [send |-> a, receive |-> b]
          OBVIOUS
        <5> QED BY <5>1, <5>2
      <4> QED BY <4>1, <4>2
    <3> QED BY <3>1, Zenon DEF ListsOf, MessageOf
  <2>2. PICK a, b : L = [send |-> a, receive |-> b]
    BY <2>1
  <2> HIDE DEF L
  <2> QED BY <2>2 DEF NoEntries
<1> HIDE DEF lists
<1>6. CASE L = NoEntries
  <2>1. {o \in others \cup {q} : lists(o) # NoEntries} = D
    BY <1>6
  <2> QED BY <1>1, <1>2, <1>4, <1>5, <1>6, <2>1
<1>7. CASE L # NoEntries
  <2>1. {o \in others \cup {q} : lists(o) # NoEntries} = D \cup {q}
    BY <1>7
  <2>2. DOMAIN map = D /\ \A o \in D : map[o] = lists(o)
    <3> HIDE DEF map, D
    <3> QED BY <1>1
  <2>3. [o \in DOMAIN map \cup {q} |-> IF o \in DOMAIN map THEN map[o] ELSE L] = [o \in D \cup {q} |-> lists(o)]
    <3> HIDE DEF map, D
    <3> QED BY <2>2
  <2>4. Unpack(r, map, MessageOf(r, q), q, self) = [o \in DOMAIN map \cup {q} |-> IF o \in DOMAIN map THEN map[o] ELSE L]
    <3> HIDE DEF map, L
    <3> QED BY <1>4, <1>5, <1>7
  <2>5. ListedNow(r, others \cup {q}) = [o \in D \cup {q} |-> lists(o)]
    BY <1>2, <2>1
  <2> QED BY <2>3, <2>4, <2>5
<1> QED BY <1>6, <1>7

\* Before anything is unpacked there are no lists.
LEMMA NothingListed == ASSUME NEW r PROVE NoLists = ListedNow(r, {})
BY DEF ListedNow, Listed, NoLists

\* What a rank holds outside the exchange: what its members say it has built, nothing
\* when a rebuild begins, and everything when it ends.  Nothing it has sent is left.
ListsOK(r) ==
  LET members == After(scenario, step[r] - 1)
      built == Known(scenario, r, members.synced, members.ignored, Others(scenario, r))
  IN  /\ pc[r] = "user" => remoteIndices[r] = IF members.synced = -1 THEN NoLists ELSE built
      /\ pc[r] = "reduce" => remoteIndices[r] = NoLists
      /\ pc[r] = "return" => remoteIndices[r] = KnownNow(r, Others(scenario, r))
      /\ pc[r] \notin {"ssend", "probe"} => pending[r] = {}

ListsInv == \A r \in Rank : ListsOK(r)

LEMMA ListsInit == RegularScenarios /\ Init => ListsInv
<1> SUFFICES ASSUME RegularScenarios, Init, NEW r \in Rank PROVE ListsOK(r)
  BY DEF ListsInv
<1>1. step[r] - 1 = 0 /\ pc[r] = "user" /\ remoteIndices[r] = NoLists /\ pending[r] = {}
  BY DEF Init
<1>2. After(scenario, 0) = AtFirst
  <2>1. TypeInv
    BY TypeInit
  <2>2. Scenario(scenario) /\ Regular(scenario)
    BY <1>1, <2>1, AtPlace
  <2> QED BY <2>2, AfterIs
<1>3. AtFirst.synced = -1
  BY DEF AtFirst
<1> QED BY <1>1, <1>2, <1>3 DEF ListsOK

LEMMA ListsSame ==
  ASSUME NEW q \in Rank, ListsOK(q), scenario' = scenario, step'[q] = step[q], pc'[q] = pc[q],
         remoteIndices'[q] = remoteIndices[q] \/ pc[q] \notin {"user", "reduce", "return"}, pending'[q] \subseteq pending[q]
  PROVE  ListsOK(q)'
<1> DEFINE m == After(scenario, step[q] - 1)
           built == Known(scenario, q, m.synced, m.ignored, Others(scenario, q))
           now == KnownNow(q, Others(scenario, q))
<1>1. /\ pc[q] = "user" => remoteIndices[q] = IF m.synced = -1 THEN NoLists ELSE built
      /\ pc[q] = "reduce" => remoteIndices[q] = NoLists
      /\ pc[q] = "return" => remoteIndices[q] = now
      /\ pc[q] \notin {"ssend", "probe"} => pending[q] = {}
  BY DEF ListsOK
<1>2. now' = now
  BY DEF KnownNow, ListedNow, Content, IgnorePublic, Program
<1>3. ListsOK(q)' <=>
        /\ pc'[q] = "user" => remoteIndices'[q] = IF m.synced = -1 THEN NoLists ELSE built
        /\ pc'[q] = "reduce" => remoteIndices'[q] = NoLists
        /\ pc'[q] = "return" => remoteIndices'[q] = now'
        /\ pc'[q] \notin {"ssend", "probe"} => pending'[q] = {}
  BY DEF ListsOK
<1> HIDE DEF m, built, now
<1> QED BY <1>1, <1>2, <1>3

\* The steps outside the exchange.
LEMMA ListsOutside ==
  ASSUME TypeInv, RegularScenarios, CourseInv, CourseInv', ListsInv, NEW r \in Rank,
         Resize(r) \/ RebuildSkips(r) \/ Return(r) \/ RebuildStarts(r)
  PROVE  ListsOK(r)'
<1> DEFINE m == After(scenario, step[r] - 1)
           new == After(scenario, step'[r] - 1)
           now == KnownNow(r, Others(scenario, r))
<1>1. /\ pc[r] = "user" => remoteIndices[r] = IF m.synced = -1 THEN NoLists
                                              ELSE Known(scenario, r, m.synced, m.ignored, Others(scenario, r))
      /\ pc[r] = "return" => remoteIndices[r] = now
      /\ pc[r] \notin {"ssend", "probe"} => pending[r] = {}
  BY DEF ListsInv, ListsOK
<1>2. scenario' = scenario /\ pending' = pending
  BY DEF Resize, RebuildSkips, Return, RebuildStarts
<1>3. ListsOK(r)' <=>
        /\ pc'[r] = "user" => remoteIndices'[r] = IF new.synced = -1 THEN NoLists
                                                ELSE Known(scenario, r, new.synced, new.ignored, Others(scenario, r))
        /\ pc'[r] = "reduce" => remoteIndices'[r] = NoLists
        /\ pc'[r] = "return" => remoteIndices'[r] = now'
        /\ pc'[r] \notin {"ssend", "probe"} => pending'[r] = {}
  BY <1>2 DEF ListsOK
<1>4. /\ synced[r] = [source |-> m.synced, dest |-> m.synced] /\ publicIgnored[r] = m.ignored
      /\ synced'[r] = [source |-> new.synced, dest |-> new.synced] /\ publicIgnored'[r] = new.ignored
  BY <1>2 DEF CourseInv, CourseOf
<1>5. now = Known(scenario, r, Content(r), IgnorePublic(r), Others(scenario, r))
  BY DEF KnownNow, ListedNow, Known
<1>6. Content(r) # -1 /\ seqNo[r] = [source |-> Content(r), target |-> Content(r)]
  BY AtPlace DEF Content, CourseInv, CourseOf
<1>7. DOMAIN pc = Rank /\ DOMAIN remoteIndices = Rank /\ DOMAIN publicIgnored = Rank
  BY DEF TypeInv, ControlInv, MemberInv, BufferInv
<1> USE DEF object
<1>8. CASE Resize(r) \/ RebuildSkips(r)
  <2>1. pc[r] = "user" /\ pc' = pc /\ remoteIndices' = remoteIndices /\ synced' = synced /\ publicIgnored' = publicIgnored
    BY <1>8 DEF Resize, RebuildSkips, AtCall
  <2> HIDE DEF m, new, now
  <2>2. new.synced = m.synced /\ new.ignored = m.ignored
    BY <1>4, <2>1
  <2> QED BY <1>1, <1>2, <1>3, <2>1, <2>2
<1>9. CASE Return(r)
  <2>1. /\ pc[r] = "return" /\ pc'[r] = "user" /\ remoteIndices' = remoteIndices
        /\ synced'[r] = SeqNos(r) /\ publicIgnored'[r] = IgnorePublic(r)
    BY <1>7, <1>9 DEF Return, CourseInv
  <2>2. SeqNos(r) = [source |-> Content(r), dest |-> Content(r)]
    BY <1>6 DEF SeqNos
  <2> HIDE DEF m, new, now
  <2>3. new.synced = Content(r) /\ new.ignored = IgnorePublic(r)
    BY <1>4, <2>1, <2>2
  <2> QED BY <1>1, <1>2, <1>3, <1>5, <1>6, <2>1, <2>3
<1>10. CASE RebuildStarts(r)
  <2>1. /\ pc[r] = "user" /\ pc'[r] = IF Meets(scenario) THEN "reduce" ELSE "return"
        /\ remoteIndices'[r] = NoLists /\ step' = step
    BY <1>7, <1>10, CommunicatesWhenMeets DEF RebuildStarts, AtCall
  <2>2. now' = now
    BY <1>2, <2>1 DEF KnownNow, ListedNow, Content, IgnorePublic, Program
  <2>3. ~Meets(scenario) => now = NoLists
    <3> SUFFICES ASSUME ~Meets(scenario) PROVE now = NoLists
      OBVIOUS
    <3>1. scenario.two = {} /\ ~scenario.includeSelf /\ Rank = {r}
      BY RemoteIndicesAssumption DEF Meets, IncludeSelf, Rank
    <3>2. scenario.neighbours[r] \ {r} = {}
      BY <3>1, ProgramType DEF TypeInv, ControlInv, Scenario
    <3>3. Others(scenario, r) \cup Itself(scenario, r) = {}
      BY <3>1, <3>2 DEF Others, Itself
    <3> QED BY <3>3, NothingListed DEF KnownNow
  <2> HIDE DEF m, new, now
  <2> QED BY <1>1, <1>2, <1>3, <2>1, <2>2, <2>3
<1> QED BY <1>8, <1>9, <1>10

-----------------------------------------------------------------------------
(* The exchange with neighbours.                                           *)

ByNeighbours == \A r \in Rank : Named(r) # {}

\* q has sent in the exchange r is in, and r has received it.
Passed(q, e) == entered[q] > e \/ (entered[q] = e /\ pc[q] # "reduce")
Heard(r) == {q \in Named(r) : Passed(q, entered[r]) /\ r \notin pending[q]}

NeighboursOf(r) ==
  /\ pc[r] \notin {"ssend", "recv"} /\ pending[r] \subseteq Named(r)
  /\ pc[r] = "reduce" => Heard(r) = {}
  /\ pc[r] = "probe" => /\ buffer[r][0] = MessageOf(r, r)
                        /\ received[r] = Cardinality(Heard(r))
                        /\ remoteIndices[r] = KnownNow(r, Heard(r))

NeighboursInv == ByNeighbours => \A r \in Rank : NeighboursOf(r)

LEMMA NeighboursInit == Init => NeighboursInv
BY DEF Init, NeighboursInv, NeighboursOf

\* Nothing changes for a rank that itself does nothing, if it has heard of as many.
LEMMA NeighboursSame ==
  ASSUME NEW q \in Rank, NeighboursOf(q), scenario' = scenario, step'[q] = step[q], pc'[q] = pc[q],
         pending'[q] \subseteq pending[q], buffer'[q] = buffer[q], received'[q] = received[q],
         remoteIndices'[q] = remoteIndices[q], Heard(q)' = Heard(q)
  PROVE  NeighboursOf(q)'
<1>1. MessageOf(q, q)' = MessageOf(q, q) /\ Named(q)' = Named(q)
  BY DEF MessageOf, Content, IgnorePublic, Program, Named
<1>2. KnownNow(q, Heard(q))' = KnownNow(q, Heard(q))
  BY DEF KnownNow, ListedNow, Content, IgnorePublic, Program
<1> QED BY <1>1, <1>2 DEF NeighboursOf

\* A rank's neighbours have it for a neighbour.
LEMMA NamedFacts ==
  ASSUME TypeInv, RegularScenarios, NEW r \in Rank
  PROVE  /\ Named(r) \subseteq Rank \ {r} /\ IsFiniteSet(Named(r))
         /\ \A q \in Named(r) : r \in Named(q)
         /\ ByNeighbours \/ \A q \in Rank : Named(q) = {}
         /\ Named(r) # {} => Meets(scenario)
<1>1. Regular(scenario) /\ Scenario(scenario)
  BY AtPlace
<1>2. Named(r) \subseteq Rank \ {r}
  BY <1>1 DEF Scenario, Named
<1>3. IsFiniteSet(Named(r))
  <2>1. IsFiniteSet(Rank)
    BY RemoteIndicesAssumption, FS_Interval DEF Rank
  <2> QED BY <1>2, <2>1, FS_Subset
<1>4. \A q \in Named(r) : r \in Named(q)
  BY <1>1, <1>2 DEF Regular, Named
<1>5. ByNeighbours \/ \A q \in Rank : Named(q) = {}
  BY <1>1 DEF Regular, Named, ByNeighbours
<1>6. Named(r) # {} => Meets(scenario)
  BY <1>2, RemoteIndicesAssumption DEF Rank, Meets
<1> QED BY <1>2, <1>3, <1>4, <1>5, <1>6

LEMMA HeardSame ==
  ASSUME NEW q \in Rank, scenario' = scenario, entered'[q] = entered[q],
         \A s \in Named(q) : /\ Passed(s, entered[q])' <=> Passed(s, entered[q])
                             /\ q \in pending'[s] <=> q \in pending[s]
  PROVE  Heard(q)' = Heard(q)
<1>1. Named(q)' = Named(q)
  BY DEF Named
<1>2. Heard(q)' = {s \in Named(q)' : Passed(s, entered[q])' /\ q \notin pending'[s]}
  BY DEF Heard
<1> QED BY <1>1, <1>2 DEF Heard

\* The steps outside the exchange do not change who has been heard of.
LEMMA NeighboursOutside ==
  ASSUME TypeInv, RegularScenarios, BarrierInv, ListsInv, ByNeighbours, \A r \in Rank : NeighboursOf(r),
         NEW x \in Rank, Resize(x) \/ RebuildSkips(x) \/ Return(x) \/ RebuildStarts(x), NEW q \in Rank
  PROVE  NeighboursOf(q)'
<1>t. /\ DOMAIN pc = Rank /\ DOMAIN entered = Rank /\ DOMAIN step = Rank /\ DOMAIN remoteIndices = Rank
      /\ \A r \in Rank : entered[r] \in Nat
  BY ProgramType DEF TypeInv, ControlInv, BufferInv
<1>u. /\ scenario' = scenario /\ pending' = pending /\ buffer' = buffer /\ received' = received
  BY DEF Resize, RebuildSkips, Return, RebuildStarts
<1>n. /\ Named(q) \subseteq Rank \ {q} /\ Meets(scenario) /\ Named(q)' = Named(q)
      /\ \A r, s \in Rank : entered[s] >= IF pc[r] = "reduce" THEN entered[r] - 1 ELSE entered[r]
  BY <1>u, NamedFacts DEF ByNeighbours, BarrierInv, Named
<1>o. NeighboursOf(q) /\ pc[x] \in {"user", "return"} /\ pending[x] = {}
  BY DEF Resize, RebuildSkips, Return, RebuildStarts, AtCall, ListsInv, ListsOK
<1>1. CASE Resize(x) \/ RebuildSkips(x) \/ Return(x)
  <2>1. /\ entered' = entered /\ \A s \in Rank : pc'[s] = "reduce" <=> pc[s] = "reduce"
        /\ pc'[x] = "user" /\ \A s \in Rank \ {x} : pc'[s] = pc[s] /\ step'[s] = step[s] /\ remoteIndices'[s] = remoteIndices[s]
    BY <1>1, <1>t DEF Resize, RebuildSkips, Return, AtCall
  <2>2. \A s \in Rank : Passed(s, entered[q])' <=> Passed(s, entered[q])
    BY <2>1 DEF Passed
  <2>3. Heard(q)' = Heard(q)
    BY <1>n, <1>u, <2>1, <2>2, HeardSame
  <2>4. CASE q = x
    <3>1. pending'[q] = {}
      BY <1>o, <1>u, <2>4
    <3> QED BY <2>1, <2>4, <3>1 DEF NeighboursOf
  <2>5. CASE q # x
    BY <1>o, <1>u, <2>1, <2>3, <2>5, NeighboursSame
  <2> QED BY <2>4, <2>5
<1>2. CASE RebuildStarts(x)
  <2>1. /\ pc[x] = "user" /\ pc'[x] = "reduce" /\ entered'[x] = entered[x] + 1
        /\ \A s \in Rank \ {x} : /\ pc'[s] = pc[s] /\ step'[s] = step[s] /\ remoteIndices'[s] = remoteIndices[s]
                                 /\ entered'[s] = entered[s]
    BY <1>2, <1>n, <1>t, CommunicatesWhenMeets DEF RebuildStarts, AtCall
  <2>2. CASE q = x
    <3>1. ASSUME NEW s \in Named(q) PROVE ~(Passed(s, entered[q])')
      <4>1. Passed(s, entered[q])' <=> entered'[s] > entered'[q] \/ (entered'[s] = entered'[q] /\ pc'[s] # "reduce")
        BY DEF Passed
      <4>2. entered[x] >= IF pc[s] = "reduce" THEN entered[s] - 1 ELSE entered[s]
        BY <1>n
      <4>3. entered[s] \in Nat /\ entered[x] \in Nat /\ s \in Rank \ {x}
        BY <1>n, <1>t, <2>2
      <4> QED BY <2>1, <2>2, <4>1, <4>2, <4>3
    <3>2. Heard(q)' = {s \in Named(q)' : Passed(s, entered[q])' /\ q \notin pending'[s]}
      BY DEF Heard
    <3>3. Heard(q)' = {}
      BY <1>n, <3>1, <3>2
    <3>4. pending'[q] = {}
      BY <1>o, <1>u, <2>2
    <3> QED BY <2>1, <2>2, <3>3, <3>4 DEF NeighboursOf
  <2>3. CASE q # x
    <3>1. ASSUME NEW s \in Named(q) PROVE Passed(s, entered[q])' <=> Passed(s, entered[q])
      <4>1. Passed(s, entered[q])' <=> entered'[s] > entered'[q] \/ (entered'[s] = entered'[q] /\ pc'[s] # "reduce")
        BY DEF Passed
      <4>2. Passed(s, entered[q]) <=> entered[s] > entered[q] \/ (entered[s] = entered[q] /\ pc[s] # "reduce")
        BY DEF Passed
      <4>3. entered[s] \in Nat /\ entered[q] \in Nat /\ entered'[q] = entered[q] /\ s \in Rank
        BY <1>n, <1>t, <2>1, <2>3
      <4>4. CASE s = x
        BY <2>1, <4>1, <4>2, <4>3, <4>4
      <4>5. CASE s # x
        BY <2>1, <4>1, <4>2, <4>3, <4>5
      <4> QED BY <4>4, <4>5
    <3>2. Heard(q)' = Heard(q)
      BY <1>u, <2>1, <2>3, <3>1, HeardSame
    <3> QED BY <1>o, <1>u, <2>1, <2>3, <3>2, NeighboursSame
  <2> QED BY <2>2, <2>3
<1> QED BY <1>1, <1>2

\* The exchange begins: a rank has sent, and nobody has heard of it yet.
LEMMA NeighboursBegin ==
  ASSUME TypeInv, RegularScenarios, CourseInv, NamesInv, BarrierInv, ListsInv, ByNeighbours,
         \A r \in Rank : NeighboursOf(r), NEW x \in Rank, StartNeighbours(x), NEW q \in Rank
  PROVE  NeighboursOf(q)' /\ ListsOK(q)'
<1>t. /\ DOMAIN pc = Rank /\ DOMAIN entered = Rank /\ DOMAIN step = Rank /\ DOMAIN remoteIndices = Rank
      /\ DOMAIN pending = Rank /\ DOMAIN received = Rank /\ DOMAIN buffer = Rank /\ DOMAIN neighbourIds = Rank
      /\ \A r \in Rank : entered[r] \in Nat
  BY ProgramType DEF TypeInv, ControlInv, MemberInv, BufferInv
<1>u. /\ scenario' = scenario /\ step' = step /\ entered' = entered
      /\ pc[x] = "reduce" /\ pc'[x] = "probe" /\ neighbourIds'[x] = neighbourIds[x] \ {x}
      /\ pending'[x] = neighbourIds'[x] /\ received'[x] = 0
      /\ \A s \in Rank : entered[s] >= entered[x]
      /\ \A s \in Rank \ {x} : /\ pc'[s] = pc[s] /\ remoteIndices'[s] = remoteIndices[s] /\ pending'[s] = pending[s]
                               /\ received'[s] = received[s] /\ buffer'[s] = buffer[s]
  BY <1>t DEF StartNeighbours, ReduceReturns, ReduceComplete
<1>n. /\ Named(q) \subseteq Rank \ {q} /\ Named(q)' = Named(q) /\ pending'[x] = Named(x)
      /\ \A r \in Rank : \A s \in Named(r) : r \in Named(s)
  BY <1>u, NamedFacts DEF NamesInv, Named
<1>o. NeighboursOf(q) /\ ListsOK(q) /\ NeighboursOf(x) /\ ListsOK(x)
  BY DEF ListsInv
<1>1. ASSUME NEW s \in Named(q), s # x
      PROVE  (Passed(s, entered[q])' <=> Passed(s, entered[q])) /\ (q \in pending'[s] <=> q \in pending[s])
  BY <1>1, <1>n, <1>u DEF Passed
<1>2. CASE q = x
  <2>1. Heard(q)' = Heard(q)
    BY <1>1, <1>2, <1>n, <1>u, HeardSame
  <2>2. Heard(q) = {}
    BY <1>2, <1>o, <1>u DEF NeighboursOf
  <2>3. received'[q] = Cardinality(Heard(q)')
    BY <1>2, <1>u, <2>1, <2>2, FS_EmptySet
  <2>4. MessageOf(q, q)' = MessageOf(q, q)
    BY <1>u DEF MessageOf, Content, IgnorePublic, Program
  <2>5. buffer'[q][0] = MessageOf(q, q)
    <3>1. buffer'[q] = [i \in {0, 1} |-> IF i = 0 THEN Message(q) ELSE NoData]
      BY <1>2, <1>t DEF StartNeighbours, ReduceReturns
    <3> QED BY <3>1, MessageIs
  <2>6. remoteIndices'[q] = KnownNow(q, {})
    <3>1. remoteIndices[q] = ListedNow(q, {})
      BY <1>2, <1>o, <1>u, NothingListed DEF ListsOK
    <3>2. IncludeSelf \in BOOLEAN /\ (IncludeSelf <=> q = q /\ scenario.includeSelf)
      BY ProgramType DEF TypeInv, ControlInv, Scenario, IncludeSelf
    <3>3. CASE SendTwo(q) \/ IncludeSelf
      <4>1. remoteIndices'[q] = Unpack(q, remoteIndices[q], Message(q), q, IncludeSelf)
        BY <1>2, <1>t, <3>3 DEF StartNeighbours, ReduceReturns
      <4>2. Unpack(q, ListedNow(q, {}), MessageOf(q, q), q, IncludeSelf) = ListedNow(q, {} \cup {q})
        BY <3>2, UnpackListed
      <4>3. Itself(scenario, q) = {q}
        BY <3>3 DEF Itself, SendTwo, IncludeSelf
      <4> QED BY <3>1, <4>1, <4>2, <4>3, MessageIs DEF KnownNow
    <3>4. CASE ~(SendTwo(q) \/ IncludeSelf)
      <4>1. remoteIndices'[q] = remoteIndices[q]
        BY <1>2, <1>t, <3>4 DEF StartNeighbours, ReduceReturns
      <4>2. Itself(scenario, q) = {}
        BY <3>4 DEF Itself, SendTwo, IncludeSelf
      <4> QED BY <3>1, <4>1, <4>2 DEF KnownNow
    <3> QED BY <3>3, <3>4
  <2>7. KnownNow(q, Heard(q))' = KnownNow(q, {})
    <3>1. KnownNow(q, Heard(q))' = KnownNow(q, Heard(q)')
      BY <1>u DEF KnownNow, ListedNow, Content, IgnorePublic, Program
    <3> QED BY <2>1, <2>2, <3>1
  <2>8. NeighboursOf(q)'
    BY <1>2, <1>n, <1>u, <2>3, <2>4, <2>5, <2>6, <2>7 DEF NeighboursOf
  <2>9. ListsOK(q)'
    BY <1>2, <1>u DEF ListsOK
  <2> QED BY <2>8, <2>9
<1>3. CASE q # x
  <2>1. x \in Named(q) => x \notin Heard(q) /\ q \in pending'[x]
    <3> SUFFICES ASSUME x \in Named(q) PROVE x \notin Heard(q) /\ q \in pending'[x]
      OBVIOUS
    <3>1. q \in pending'[x]
      BY <1>n
    <3>2. ~Passed(x, entered[q])
      BY <1>t, <1>u DEF Passed
    <3> QED BY <3>1, <3>2 DEF Heard
  <2>2. Heard(q)' = {s \in Named(q) : Passed(s, entered[q])' /\ q \notin pending'[s]}
    BY <1>n DEF Heard
  <2>3. Heard(q)' = Heard(q)
    BY <1>1, <2>1, <2>2 DEF Heard
  <2>4. NeighboursOf(q)'
    BY <1>3, <1>o, <1>u, <2>3, NeighboursSame
  <2>5. ListsOK(q)'
    BY <1>3, <1>o, <1>u, ListsSame
  <2> QED BY <2>4, <2>5
<1> QED BY <1>2, <1>3

\* A message is received in the exchange it was sent in.
LEMMA NeighboursProbe ==
  ASSUME TypeInv, RegularScenarios, CourseInv, NamesInv, BarrierInv, ListsInv, ByNeighbours,
         \A r \in Rank : NeighboursOf(r), NEW x \in Rank, NEW s \in Rank, ProbeAndReceive(x, s), NEW q \in Rank
  PROVE  NeighboursOf(q)' /\ ListsOK(q)'
<1>t. /\ DOMAIN pc = Rank /\ DOMAIN entered = Rank /\ DOMAIN step = Rank /\ DOMAIN remoteIndices = Rank
      /\ DOMAIN pending = Rank /\ DOMAIN received = Rank /\ DOMAIN buffer = Rank /\ DOMAIN buffer[x] = {0, 1}
      /\ \A r \in Rank : entered[r] \in Nat
  BY ProgramType DEF TypeInv, ControlInv, MemberInv, BufferInv
<1>u. /\ scenario' = scenario /\ step' = step /\ entered' = entered /\ pc' = pc
      /\ pc[x] = "probe" /\ x \in pending[s] /\ pending'[s] = pending[s] \ {x}
      /\ \A r \in Rank \ {s} : pending'[r] = pending[r]
      /\ received'[x] = received[x] + 1 /\ buffer'[x][0] = buffer[x][0]
      /\ remoteIndices'[x] = Unpack(x, remoteIndices[x], Payload(s), s, FALSE)
      /\ \A r \in Rank \ {x} : remoteIndices'[r] = remoteIndices[r] /\ received'[r] = received[r] /\ buffer'[r] = buffer[r]
  BY <1>t DEF ProbeAndReceive, Posted
<1>o. NeighboursOf(q) /\ ListsOK(q) /\ NeighboursOf(s) /\ ListsOK(s)
  BY DEF ListsInv
<1>s. pc[s] = "probe" /\ s \in Named(x) /\ x # s
  <2>1. pc[s] = "probe"
    BY <1>o, <1>u DEF ListsOK, NeighboursOf
  <2>2. x \in Named(s)
    BY <1>o, <1>u DEF NeighboursOf
  <2> QED BY <2>1, <2>2, NamedFacts
<1>e. entered[s] = entered[x] /\ step[s] = step[x]
  <2>1. entered[s] = entered[x]
    BY <1>s, <1>u, SameExchangeRound
  <2>2. Meets(scenario)
    BY <1>s, NamedFacts
  <2> QED BY <1>s, <1>u, <2>1, <2>2, SameCall
<1>n. Named(q)' = Named(q) /\ Named(q) \subseteq Rank \ {q}
  BY <1>u, NamedFacts DEF Named
<1>p. \A a \in Rank : Passed(a, entered[q])' <=> Passed(a, entered[q])
  BY <1>u DEF Passed
<1>h. Heard(q)' = {a \in Named(q) : Passed(a, entered[q]) /\ q \notin pending'[a]}
  BY <1>n, <1>p DEF Heard
<1>1. CASE q = x
  <2>1. Heard(q)' = Heard(q) \cup {s} /\ s \notin Heard(q)
    <3>1. Passed(s, entered[q])
      BY <1>1, <1>e, <1>s DEF Passed
    <3>2. \A a \in Named(q) \ {s} : pending'[a] = pending[a]
      BY <1>n, <1>u
    <3>3. s \in Named(q) /\ q \in pending[s] /\ q \notin pending'[s]
      BY <1>1, <1>s, <1>u
    <3> QED BY <1>h, <3>1, <3>2, <3>3 DEF Heard
  <2>2. received'[q] = Cardinality(Heard(q)')
    <3>1. IsFiniteSet(Heard(q))
      <4>1. Heard(q) \subseteq Named(q)
        BY DEF Heard
      <4> QED BY <4>1, NamedFacts, FS_Subset
    <3>2. Cardinality(Heard(q) \cup {s}) = Cardinality(Heard(q)) + 1
      BY <2>1, <3>1, FS_AddElement
    <3>3. received[q] = Cardinality(Heard(q))
      BY <1>1, <1>o, <1>u DEF NeighboursOf
    <3> QED BY <1>1, <1>u, <2>1, <3>2, <3>3
  <2>3. Payload(s) = MessageOf(q, s)
    <3>1. neighbourIds[s] # {}
      BY DEF NamesInv, ByNeighbours
    <3>2. Payload(s) = buffer[s][0]
      BY <3>1 DEF Payload
    <3>3. buffer[s][0] = MessageOf(s, s)
      BY <1>o, <1>s DEF NeighboursOf
    <3>4. MessageOf(s, s) = MessageOf(q, s)
      BY <1>1, <1>e DEF MessageOf, Content, IgnorePublic
    <3> QED BY <3>2, <3>3, <3>4
  <2>4. remoteIndices'[q] = KnownNow(q, Heard(q) \cup {s})
    <3>1. remoteIndices[q] = ListedNow(q, Heard(q) \cup Itself(scenario, q))
      BY <1>1, <1>o, <1>u DEF NeighboursOf, KnownNow
    <3>2. FALSE \in BOOLEAN /\ (FALSE <=> q = s /\ scenario.includeSelf)
      BY <1>1, <1>s
    <3>3. Unpack(q, ListedNow(q, Heard(q) \cup Itself(scenario, q)), MessageOf(q, s), s, FALSE)
            = ListedNow(q, (Heard(q) \cup Itself(scenario, q)) \cup {s})
      BY <3>2, UnpackListed
    <3>4. (Heard(q) \cup Itself(scenario, q)) \cup {s} = (Heard(q) \cup {s}) \cup Itself(scenario, q)
      BY Zenon
    <3> QED BY <1>1, <1>u, <2>3, <3>1, <3>3, <3>4 DEF KnownNow
  <2>5. MessageOf(q, q)' = MessageOf(q, q) /\ KnownNow(q, Heard(q))' = KnownNow(q, Heard(q) \cup {s})
    <3>1. KnownNow(q, Heard(q))' = KnownNow(q, Heard(q)')
      BY <1>u DEF KnownNow, ListedNow, Content, IgnorePublic, Program
    <3> QED BY <1>u, <2>1, <3>1 DEF MessageOf, Content, IgnorePublic, Program
  <2>6. pending'[q] = pending[q]
    BY <1>1, <1>s, <1>u
  <2>7. NeighboursOf(q)'
    BY <1>1, <1>n, <1>o, <1>u, <2>2, <2>4, <2>5, <2>6 DEF NeighboursOf
  <2>8. ListsOK(q)'
    BY <1>1, <1>o, <1>u, <2>6, ListsSame
  <2> QED BY <2>7, <2>8
<1>2. CASE q # x
  <2>1. pending'[q] \subseteq pending[q]
    BY <1>u
  <2>2. \A a \in Rank : q \in pending'[a] <=> q \in pending[a]
    BY <1>2, <1>u
  <2>3. Heard(q)' = Heard(q)
    BY <1>h, <1>n, <2>2 DEF Heard
  <2> QED BY <1>2, <1>o, <1>u, <2>1, <2>3, NeighboursSame, ListsSame
<1> QED BY <1>1, <1>2

\* Who leaves the exchange has heard of all neighbours.
LEMMA NeighboursEnd ==
  ASSUME TypeInv, RegularScenarios, CourseInv, NamesInv, BarrierInv, ListsInv, ByNeighbours,
         \A r \in Rank : NeighboursOf(r), NEW x \in Rank, WaitAll(x), NEW q \in Rank
  PROVE  NeighboursOf(q)' /\ ListsOK(q)'
<1>u. /\ scenario' = scenario /\ step' = step /\ entered' = entered /\ pending' = pending
      /\ remoteIndices' = remoteIndices /\ received' = received /\ buffer' = buffer
      /\ pc[x] = "probe" /\ pc'[x] = "return" /\ pending[x] = {} /\ received[x] = NoNeighbours(x)
      /\ \A r \in Rank \ {x} : pc'[r] = pc[r]
  BY DEF WaitAll, TypeInv, ControlInv
<1>o. NeighboursOf(q) /\ ListsOK(q)
  BY DEF ListsInv
<1>n. Named(q)' = Named(q) /\ Named(q) \subseteq Rank \ {q}
  BY <1>u, NamedFacts DEF Named
<1>h. Heard(q)' = Heard(q)
  <2>1. \A a \in Named(q) : Passed(a, entered[q])' <=> Passed(a, entered[q])
    BY <1>n, <1>u DEF Passed
  <2> QED BY <1>u, <2>1, HeardSame
<1>1. CASE q = x
  <2>1. Heard(q) = Named(q)
    <3>1. Heard(q) \subseteq Named(q) /\ IsFiniteSet(Named(q))
      BY NamedFacts DEF Heard
    <3>2. Cardinality(Heard(q)) = Cardinality(Named(q))
      <4>1. neighbourIds[q] = Named(q)
        <5>1. Meets(scenario)
          BY NamedFacts DEF ByNeighbours
        <5> QED BY <1>1, <1>u, <5>1 DEF NamesInv
      <4> QED BY <1>1, <1>o, <1>u, <4>1 DEF NeighboursOf, NoNeighbours
    <3> QED BY <3>1, <3>2, FS_Subset
  <2>2. remoteIndices[q] = KnownNow(q, Others(scenario, q))
    BY <1>1, <1>o, <1>u, <2>1 DEF NeighboursOf, Others, Named, ByNeighbours
  <2>3. KnownNow(q, Others(scenario, q))' = KnownNow(q, Others(scenario, q))
    BY <1>u DEF KnownNow, ListedNow, Content, IgnorePublic, Program
  <2>4. ListsOK(q)'
    BY <1>1, <1>u, <2>2, <2>3 DEF ListsOK
  <2>5. NeighboursOf(q)'
    BY <1>1, <1>u DEF NeighboursOf
  <2> QED BY <2>4, <2>5
<1>2. CASE q # x
  BY <1>2, <1>h, <1>o, <1>u, NeighboursSame, ListsSame
<1> QED BY <1>1, <1>2

\* In an exchange with neighbours, every step keeps the invariants.
LEMMA NeighboursStep ==
  ASSUME TypeInv, RegularScenarios, CourseInv, CourseInv', NamesInv, BarrierInv, ListsInv, NeighboursInv,
         ByNeighbours, [Next]_vars
  PROVE  NeighboursInv' /\ ListsInv'
<1>o. \A r \in Rank : NeighboursOf(r)
  BY DEF NeighboursInv
<1>1. CASE UNCHANGED vars
  <2>1. ASSUME NEW q \in Rank PROVE NeighboursOf(q)' /\ ListsOK(q)'
    <3>1. Heard(q)' = Heard(q)
      BY <1>1, HeardSame DEF vars, Passed
    <3> QED BY <1>1, <1>o, <3>1, NeighboursSame, ListsSame DEF vars, ListsInv
  <2> QED BY <2>1 DEF NeighboursInv, ListsInv
<1>2. ASSUME NEW x \in Rank, Step(x), NEW q \in Rank PROVE NeighboursOf(q)' /\ ListsOK(q)'
  <2>1. CASE Resize(x) \/ RebuildSkips(x) \/ Return(x) \/ RebuildStarts(x)
    <3>1. NeighboursOf(q)'
      BY <1>o, <2>1, NeighboursOutside
    <3>2. CASE q = x
      BY <2>1, <3>1, <3>2, ListsOutside
    <3>3. CASE q # x
      <4>1. /\ scenario' = scenario /\ step'[q] = step[q] /\ pc'[q] = pc[q] /\ remoteIndices'[q] = remoteIndices[q]
            /\ pending'[q] = pending[q]
        BY <2>1, <3>3 DEF Resize, RebuildSkips, Return, RebuildStarts, TypeInv, ControlInv, BufferInv
      <4> QED BY <3>1, <4>1, ListsSame DEF ListsInv
    <3> QED BY <3>2, <3>3
  <2>2. CASE StartNeighbours(x)
    BY <1>o, <2>2, NeighboursBegin
  <2>3. CASE \E s \in Rank : ProbeAndReceive(x, s)
    BY <1>o, <2>3, NeighboursProbe
  <2>4. CASE WaitAll(x)
    BY <1>o, <2>4, NeighboursEnd
  <2>5. ~StartRing(x)
    <3>1. SUFFICES ASSUME StartRing(x) PROVE FALSE
      OBVIOUS
    <3>2. neighbourIds'[x] = neighbourIds[x] \ {x} /\ neighbourIds'[x] = {}
      BY <3>1 DEF StartRing, ReduceReturns, TypeInv, MemberInv
    <3> QED BY <3>2 DEF NamesInv, ByNeighbours
  <2>6. ~(EvenSendReturns(x) \/ OddSendReturns(x) \/ EvenReceives(x) \/ OddReceives(x))
    BY <1>o DEF NeighboursOf, EvenSendReturns, OddSendReturns, EvenReceives, OddReceives, ReceiveFromPred
  <2> QED BY <1>2, <2>1, <2>2, <2>3, <2>4, <2>5, <2>6 DEF Step
<1> QED BY <1>1, <1>2 DEF Next, NeighboursInv, ListsInv

-----------------------------------------------------------------------------
(* The exchange in the ring.                                               *)

\* The rank k steps behind r.
Behind(r, k) == IF k <= r THEN r - k ELSE r + procs - k
BehindUpTo(r, n) == {Behind(r, k) : k \in 1 .. n}

\* The sends of r that were matched, and what it has received, in its exchange.
SentOf(r) ==
  IF pc[r] = "reduce" THEN 0
  ELSE IF pc[r] \in {"user", "return"} THEN procs - 1
  ELSE IF (pc[r] = "ssend" /\ pending[r] = {}) \/ (pc[r] = "recv" /\ Even(r)) THEN proc[r]
  ELSE proc[r] - 1

ReceivedOf(r) ==
  IF pc[r] = "reduce" THEN 0
  ELSE IF pc[r] \in {"user", "return"} THEN procs - 1
  ELSE IF pc[r] = "ssend" /\ ~Even(r) THEN proc[r] ELSE proc[r] - 1

\* In the same exchange, q has received what r has sent; who is ahead is through with
\* the exchange before.
Link(r, q) ==
  /\ entered[r] = entered[q] => SentOf(r) = ReceivedOf(q)
  /\ entered[r] > entered[q] => ReceivedOf(q) = procs - 1
  /\ entered[r] < entered[q] => SentOf(r) = procs - 1

\* In an iteration, a rank sends what comes from as far behind as it has iterations
\* behind it, and has unpacked what comes from nearer.
RingOf(r) ==
  /\ pc[r] # "probe" /\ pending[r] \subseteq {Succ(r)}
  /\ pc[r] \in {"ssend", "recv"} =>
       /\ proc[r] < procs
       /\ buffer[r][Out(r)] = MessageOf(r, Behind(r, proc[r] - 1))
       /\ remoteIndices[r] = KnownNow(r, BehindUpTo(r, proc[r] - 1))
  /\ pc[r] = "ssend" /\ ~Even(r) => buffer[r][In(r)] = MessageOf(r, Behind(r, proc[r]))

ByRing == \A r \in Rank : Named(r) = {}
RingInv == ByRing => \A r \in Rank : RingOf(r) /\ Link(r, Succ(r))

\* Successors and predecessors without remainders.
LEMMA RingNeighbours ==
  ASSUME NEW r \in Rank
  PROVE  /\ Succ(r) \in Rank /\ Pred(r) \in Rank
         /\ Pred(r) = IF r = 0 THEN procs - 1 ELSE r - 1
         /\ Succ(r) = IF r = procs - 1 THEN 0 ELSE r + 1
         /\ Succ(Pred(r)) = r /\ Pred(Succ(r)) = r
         /\ procs > 1 => Pred(r) # r /\ Succ(r) # r
<1> USE RemoteIndicesAssumption DEF Rank
<1>1. ASSUME NEW a \in Rank PROVE Succ(a) = IF a = procs - 1 THEN 0 ELSE a + 1
  <2>1. PICK x \in 0 .. 2 * procs - 1 : x = a + 1
    OBVIOUS
  <2>2. x % procs = IF x < procs THEN x ELSE x - procs
    BY ModBelow
  <2> QED BY <2>1, <2>2 DEF Succ
<1>2. ASSUME NEW a \in Rank PROVE Pred(a) = IF a = 0 THEN procs - 1 ELSE a - 1
  <2>1. PICK x \in 0 .. 2 * procs - 1 : x = a + procs - 1
    OBVIOUS
  <2>2. x % procs = IF x < procs THEN x ELSE x - procs
    BY ModBelow
  <2> QED BY <2>1, <2>2 DEF Pred
<1>3. Succ(r) \in Rank /\ Pred(r) \in Rank
  BY <1>1, <1>2
<1>4. Succ(Pred(r)) = IF Pred(r) = procs - 1 THEN 0 ELSE Pred(r) + 1
  BY <1>1, <1>3
<1>5. Pred(Succ(r)) = IF Succ(r) = 0 THEN procs - 1 ELSE Succ(r) - 1
  BY <1>2, <1>3
<1> QED BY <1>1, <1>2, <1>3, <1>4, <1>5

\* One step further back than one's predecessor; all ranks are behind somewhere.
LEMMA BehindFacts ==
  ASSUME NEW r \in Rank
  PROVE  /\ \A k \in 1 .. procs : Behind(Pred(r), k - 1) = Behind(r, k)
         /\ \A k \in 1 .. procs - 1 : Behind(r, k) \in Rank \ {r}
         /\ Behind(r, 0) = r
         /\ BehindUpTo(r, procs - 1) = Rank \ {r} /\ BehindUpTo(r, 0) = {}
<1> USE RemoteIndicesAssumption DEF Rank
<1>1. \A k \in 1 .. procs : Behind(Pred(r), k - 1) = Behind(r, k)
  BY RingNeighbours DEF Behind
<1>2. \A k \in 1 .. procs - 1 : Behind(r, k) \in Rank \ {r}
  BY DEF Behind
<1>3. Behind(r, 0) = r
  BY DEF Behind
<1>4. ASSUME NEW q \in Rank \ {r} PROVE \E k \in 1 .. procs - 1 : Behind(r, k) = q
  <2>1. CASE q < r
    <3>1. r - q \in 1 .. procs - 1 /\ Behind(r, r - q) = q
      BY <2>1 DEF Behind
    <3> QED BY <3>1
  <2>2. CASE q > r
    <3>1. r + procs - q \in 1 .. procs - 1 /\ Behind(r, r + procs - q) = q
      BY <2>2 DEF Behind
    <3> QED BY <3>1
  <2> QED BY <2>1, <2>2
<1>5. BehindUpTo(r, procs - 1) = Rank \ {r}
  BY <1>2, <1>4 DEF BehindUpTo
<1>6. BehindUpTo(r, 0) = {}
  BY DEF BehindUpTo
<1> QED BY <1>1, <1>2, <1>3, <1>5, <1>6

\* One more iteration.
LEMMA OneMoreBehind ==
  ASSUME NEW r, NEW n \in Nat \ {0}
  PROVE  BehindUpTo(r, n) = BehindUpTo(r, n - 1) \cup {Behind(r, n)}
<1>1. 1 .. n = (1 .. n - 1) \cup {n}
  OBVIOUS
<1> QED BY <1>1, Zenon DEF BehindUpTo

\* The rank the code computes, and the two buffers.
LEMMA IterationFacts ==
  ASSUME NEW r \in Rank, proc[r] \in 1 .. procs
  PROVE  /\ RemoteProc(r) = Behind(r, proc[r])
         /\ In(r) \in {0, 1} /\ Out(r) \in {0, 1} /\ In(r) # Out(r)
         /\ proc'[r] = proc[r] + 1 => Out(r)' = In(r)
<1>1. procs \in Nat \ {0} /\ proc[r] \in Nat /\ r + procs - proc[r] \in 0 .. 2 * procs - 1 /\ r \in Nat
  BY RemoteIndicesAssumption DEF Rank
<1>2. RemoteProc(r) = Behind(r, proc[r])
  <2>1. PICK x \in 0 .. 2 * procs - 1 : x = r + procs - proc[r]
    BY <1>1
  <2>2. x % procs = IF x < procs THEN x ELSE x - procs
    BY <1>1, ModBelow
  <2> QED BY <1>1, <2>1, <2>2 DEF RemoteProc, Behind
<1>3. ASSUME NEW k \in Nat PROVE k % 2 \in {0, 1} /\ (k + 1) % 2 = 1 - (k % 2)
  OBVIOUS
<1> QED BY <1>1, <1>2, <1>3 DEF In, Out

LEMMA RingInit == Init => RingInv
<1> SUFFICES ASSUME Init, NEW r \in Rank PROVE RingOf(r) /\ Link(r, Succ(r))
  BY DEF RingInv
<1>1. Succ(r) \in Rank
  BY RingNeighbours
<1>2. \A q \in Rank : pc[q] = "user" /\ entered[q] = 0 /\ pending[q] = {}
  BY DEF Init
<1>3. \A q \in Rank : SentOf(q) = procs - 1 /\ ReceivedOf(q) = procs - 1
  BY <1>2 DEF SentOf, ReceivedOf
<1> QED BY <1>1, <1>2, <1>3 DEF RingOf, Link

\* Nothing changes for a rank that itself does nothing.
LEMMA RingSameOf ==
  ASSUME NEW q \in Rank, RingOf(q), scenario' = scenario, step'[q] = step[q], pc'[q] = pc[q], proc'[q] = proc[q],
         pending'[q] \subseteq pending[q], buffer'[q] = buffer[q], remoteIndices'[q] = remoteIndices[q]
  PROVE  /\ RingOf(q)' /\ ReceivedOf(q)' = ReceivedOf(q)
         /\ pending'[q] = pending[q] => SentOf(q)' = SentOf(q)
<1>1. /\ \A o : MessageOf(q, o)' = MessageOf(q, o)
      /\ In(q)' = In(q) /\ Out(q)' = Out(q) /\ Even(q)' = Even(q) /\ Succ(q)' = Succ(q)
  BY DEF MessageOf, Content, IgnorePublic, Program, In, Out, Even, Succ
<1>2. Behind(q, proc[q] - 1)' = Behind(q, proc[q] - 1) /\ Behind(q, proc[q])' = Behind(q, proc[q])
  BY DEF Behind
<1>3. KnownNow(q, BehindUpTo(q, proc[q] - 1))' = KnownNow(q, BehindUpTo(q, proc[q] - 1))
  BY DEF KnownNow, ListedNow, Content, IgnorePublic, Program, BehindUpTo, Behind
<1>4. ReceivedOf(q)' = ReceivedOf(q) /\ (pending'[q] = pending[q] => SentOf(q)' = SentOf(q))
  BY DEF ReceivedOf, SentOf, Even
<1>5. MessageOf(q, Behind(q, proc[q] - 1))' = MessageOf(q, Behind(q, proc[q] - 1))
      /\ MessageOf(q, Behind(q, proc[q]))' = MessageOf(q, Behind(q, proc[q]))
  BY <1>2 DEF MessageOf, Content, IgnorePublic, Program
<1> QED BY <1>1, <1>3, <1>4, <1>5 DEF RingOf

LEMMA LinksSame ==
  ASSUME \A r \in Rank : Link(r, Succ(r)),
         \A q \in Rank : entered'[q] = entered[q] /\ SentOf(q)' = SentOf(q) /\ ReceivedOf(q)' = ReceivedOf(q),
         NEW r \in Rank
  PROVE  Link(r, Succ(r))'
<1>1. PICK s \in Rank : s = Succ(r)
  BY RingNeighbours
<1>2. Link(r, Succ(r))' <=> Link(r, s)'
  BY <1>1 DEF Succ, Link, ReceivedOf, Even
<1>3. Link(r, s)
  BY <1>1
<1> QED BY <1>2, <1>3 DEF Link

\* A message is counted on either side.
LEMMA LinksReceive ==
  ASSUME \A r \in Rank : Link(r, Succ(r)), procs > 1, NEW x \in Rank, NEW p, p = Pred(x), entered[p] = entered[x],
         \A q \in Rank : entered'[q] = entered[q],
         \A q \in Rank \ {p} : SentOf(q)' = SentOf(q),
         \A q \in Rank \ {x} : ReceivedOf(q)' = ReceivedOf(q),
         \A q \in Rank : entered[q] \in Nat,
         SentOf(p)' = ReceivedOf(x)',
         NEW r \in Rank
  PROVE  Link(r, Succ(r))'
<1>1. PICK s \in Rank : s = Succ(r)
  BY RingNeighbours
<1>2. Link(r, Succ(r))' <=> Link(r, s)'
  BY <1>1 DEF Succ, Link, ReceivedOf, Even
<1>3. Link(r, s)
  BY <1>1
<1>4. Link(r, s)' <=> /\ entered[r] = entered[s] => SentOf(r)' = ReceivedOf(s)'
                      /\ entered[r] > entered[s] => ReceivedOf(s)' = procs - 1
                      /\ entered[r] < entered[s] => SentOf(r)' = procs - 1
  BY DEF Link
<1>5. CASE r = p
  <2>1. s = x
    BY <1>1, <1>5, RingNeighbours
  <2> QED BY <1>2, <1>4, <1>5, <2>1
<1>6. CASE r # p
  <2>1. s # x
    BY <1>1, <1>6, RingNeighbours
  <2> QED BY <1>2, <1>3, <1>4, <1>6, <2>1 DEF Link
<1> QED BY <1>5, <1>6

\* A rank that enters the next exchange is through with the one before.
LEMMA LinksEnter ==
  ASSUME TypeInv, BarrierInv, \A r \in Rank : Link(r, Succ(r)), NEW x \in Rank, pc[x] = "user", pc'[x] = "reduce",
         entered'[x] = entered[x] + 1,
         \A q \in Rank \ {x} : entered'[q] = entered[q] /\ SentOf(q)' = SentOf(q) /\ ReceivedOf(q)' = ReceivedOf(q),
         NEW r \in Rank
  PROVE  Link(r, Succ(r))'
<1>1. PICK s \in Rank : s = Succ(r)
  BY RingNeighbours
<1>2. Link(r, Succ(r))' <=> Link(r, s)'
  BY <1>1 DEF Succ, Link, ReceivedOf, Even
<1>3. Link(r, s) /\ \A q \in Rank : entered[q] \in Nat
  BY <1>1, ProgramType DEF TypeInv, ControlInv
<1>4. Link(r, s)' <=> /\ entered'[r] = entered'[s] => SentOf(r)' = ReceivedOf(s)'
                      /\ entered'[r] > entered'[s] => ReceivedOf(s)' = procs - 1
                      /\ entered'[r] < entered'[s] => SentOf(r)' = procs - 1
  BY DEF Link
<1>5. /\ SentOf(x) = procs - 1 /\ ReceivedOf(x) = procs - 1 /\ SentOf(x)' = 0 /\ ReceivedOf(x)' = 0
      /\ \A q \in Rank : pc[q] = "reduce" => SentOf(q) = 0 /\ ReceivedOf(q) = 0
  BY DEF SentOf, ReceivedOf
<1>6. ASSUME NEW q \in Rank \ {x}
      PROVE  entered[q] = entered[x] \/ (pc[q] = "reduce" /\ entered[q] = entered[x] + 1)
  <2>1. entered[q] >= entered[x] /\ entered[x] >= IF pc[q] = "reduce" THEN entered[q] - 1 ELSE entered[q]
    BY DEF BarrierInv
  <2> QED BY <1>3, <2>1
<1>l. /\ entered[r] = entered[s] => SentOf(r) = ReceivedOf(s)
      /\ entered[r] > entered[s] => ReceivedOf(s) = procs - 1
      /\ entered[r] < entered[s] => SentOf(r) = procs - 1
  BY <1>3 DEF Link
<1>7. CASE r = x /\ s = x
  BY <1>2, <1>3, <1>4, <1>5, <1>7
<1>8. CASE r = x /\ s # x
  <2>1. entered[s] = entered[x] \/ (pc[s] = "reduce" /\ entered[s] = entered[x] + 1)
    BY <1>6, <1>8
  <2> QED BY <1>2, <1>3, <1>4, <1>5, <1>8, <1>l, <2>1
<1>9. CASE r # x /\ s = x
  <2>1. entered[r] = entered[x] \/ (pc[r] = "reduce" /\ entered[r] = entered[x] + 1)
    BY <1>6, <1>9
  <2> QED BY <1>2, <1>3, <1>4, <1>5, <1>9, <1>l, <2>1
<1>10. CASE r # x /\ s # x
  BY <1>2, <1>4, <1>10, <1>l
<1> QED BY <1>7, <1>8, <1>9, <1>10

\* The end of an iteration.
LEMMA IterationEnds ==
  ASSUME TypeInv, RegularScenarios, CourseInv, NEW x \in Rank, Named(x) = {}, RingOf(x), pc[x] \in {"ssend", "recv"},
         EndIteration(x, MessageOf(x, Behind(x, proc[x]))),
         scenario' = scenario, step' = step,
         pc'[x] = AfterIteration(x, IF Even(x) THEN "ssend" ELSE "recv"),
         pending'[x] = IF proc[x] + 1 < procs /\ Even(x) THEN {Succ(x)} ELSE {},
         buffer'[x][In(x)] = MessageOf(x, Behind(x, proc[x]))
  PROVE  /\ RingOf(x)' /\ ListsOK(x)' /\ SentOf(x)' = proc[x] /\ ReceivedOf(x)' = proc[x]
         /\ \A q \in Rank \ {x} : remoteIndices'[q] = remoteIndices[q] /\ proc'[q] = proc[q]
<1>t. /\ procs \in Nat \ {0} /\ proc[x] \in 1 .. procs /\ proc[x] < procs /\ proc[x] \in Nat \ {0}
      /\ DOMAIN proc = Rank /\ DOMAIN remoteIndices = Rank
  BY RemoteIndicesAssumption DEF TypeInv, ControlInv, BufferInv, RingOf
<1>1. proc'[x] = proc[x] + 1 /\ \A q \in Rank \ {x} : remoteIndices'[q] = remoteIndices[q] /\ proc'[q] = proc[q]
  BY <1>t DEF EndIteration
<1>2. Out(x)' = In(x) /\ RemoteProc(x) = Behind(x, proc[x]) /\ proc'[x] - 1 = proc[x]
      /\ (~(proc[x] + 1 < procs) => proc[x] = procs - 1)
  BY <1>1, <1>t, IterationFacts
<1>3. remoteIndices'[x] = KnownNow(x, BehindUpTo(x, proc[x]))
  <2> DEFINE near == BehindUpTo(x, proc[x] - 1)
             q == Behind(x, proc[x])
             own == Itself(scenario, x)
  <2>1. remoteIndices[x] = ListedNow(x, near \cup own)
    BY DEF RingOf, KnownNow
  <2>2. remoteIndices'[x] = Unpack(x, remoteIndices[x], MessageOf(x, q), q, FALSE)
    BY <1>2, <1>t DEF EndIteration
  <2>3. FALSE \in BOOLEAN /\ (FALSE <=> x = q /\ scenario.includeSelf)
    <3>1. q # x
      BY <1>t, BehindFacts
    <3> QED BY <3>1
  <2>4. Unpack(x, ListedNow(x, near \cup own), MessageOf(x, q), q, FALSE) = ListedNow(x, (near \cup own) \cup {q})
    <3> HIDE DEF near, q, own
    <3> QED BY <2>3, UnpackListed
  <2>5. BehindUpTo(x, proc[x]) = near \cup {q}
    BY <1>t, OneMoreBehind
  <2>6. (near \cup own) \cup {q} = (near \cup {q}) \cup own
    BY Zenon
  <2> QED BY <2>1, <2>2, <2>4, <2>5, <2>6 DEF KnownNow
<1>5. KnownNow(x, BehindUpTo(x, proc[x] - 1))' = KnownNow(x, BehindUpTo(x, proc[x]))
  BY <1>2 DEF KnownNow, ListedNow, Content, IgnorePublic, Program, BehindUpTo, Behind
<1>6. buffer'[x][Out(x)'] = MessageOf(x, Behind(x, proc[x] - 1))'
  <2>1. MessageOf(x, Behind(x, proc[x] - 1))' = MessageOf(x, Behind(x, proc[x]))
    BY <1>2 DEF MessageOf, Content, IgnorePublic, Program, Behind
  <2> QED BY <1>2, <2>1
<1>7. Even(x)' <=> Even(x)
  BY DEF Even
<1>8. Succ(x)' = Succ(x)
  BY DEF Succ
<1>9. CASE proc[x] + 1 < procs
  <2>1. pc'[x] = IF Even(x) THEN "ssend" ELSE "recv"
    BY <1>9 DEF AfterIteration
  <2>2. RingOf(x)'
    BY <1>1, <1>3, <1>5, <1>6, <1>7, <1>8, <1>9, <2>1 DEF RingOf
  <2>3. ListsOK(x)'
    BY <1>9, <2>1 DEF ListsOK
  <2>4. SentOf(x)' = proc[x] /\ ReceivedOf(x)' = proc[x]
    BY <1>2, <1>7, <1>9, <2>1 DEF SentOf, ReceivedOf
  <2> QED BY <1>1, <2>2, <2>3, <2>4
<1>10. CASE ~(proc[x] + 1 < procs)
  <2>1. pc'[x] = "return" /\ pending'[x] = {} /\ proc[x] = procs - 1
    BY <1>2, <1>10 DEF AfterIteration
  <2>2. RingOf(x)'
    BY <2>1 DEF RingOf
  <2>3. remoteIndices'[x] = KnownNow(x, Others(scenario, x))
    BY <1>3, <2>1, BehindFacts DEF Others, Named
  <2>4. KnownNow(x, Others(scenario, x))' = KnownNow(x, Others(scenario, x))
    BY DEF KnownNow, ListedNow, Content, IgnorePublic, Program
  <2>5. ListsOK(x)'
    BY <2>1, <2>3, <2>4 DEF ListsOK
  <2>6. SentOf(x)' = proc[x] /\ ReceivedOf(x)' = proc[x]
    BY <2>1 DEF SentOf, ReceivedOf
  <2> QED BY <1>1, <2>2, <2>5, <2>6
<1> QED BY <1>9, <1>10

\* A receive meets a send of the same exchange and the same iteration.
LEMMA RingMeeting ==
  ASSUME TypeInv, RegularScenarios, CourseInv, NamesInv, BarrierInv, ListsInv, ByRing,
         \A r \in Rank : RingOf(r) /\ Link(r, Succ(r)), NEW x \in Rank, pc[x] = "recv", Posted(Pred(x), x)
  PROVE  /\ Pred(x) \in Rank /\ Pred(x) # x /\ procs > 1 /\ pc[Pred(x)] = "ssend"
         /\ pending[Pred(x)] = {x} /\ entered[Pred(x)] = entered[x] /\ proc[Pred(x)] = proc[x]
         /\ Payload(Pred(x)) = MessageOf(x, Behind(x, proc[x]))
<1>1. PICK p \in Rank : p = Pred(x) /\ Succ(p) = x
  BY RingNeighbours
<1>2. x \in pending[p] /\ pending[p] = {x}
  BY <1>1 DEF Posted, RingOf
<1>3. pc[p] = "ssend"
  BY <1>2 DEF ListsInv, ListsOK, RingOf
<1>4. /\ proc[x] \in 1 .. procs /\ proc[p] \in 1 .. procs /\ proc[x] < procs /\ procs \in Nat
      /\ proc[x] \in Nat /\ proc[p] \in Nat
  BY RemoteIndicesAssumption DEF TypeInv, ControlInv, RingOf
<1>5. procs > 1 /\ p # x
  BY <1>3, <1>4
<1>6. entered[p] = entered[x]
  BY <1>3, SameExchangeRound
<1>7. Meets(scenario)
  BY DEF CourseInv, CourseOf
<1>8. step[p] = step[x]
  BY <1>3, <1>6, <1>7, SameCall
<1>9. proc[p] = proc[x]
  <2>1. SentOf(p) = ReceivedOf(x)
    BY <1>1, <1>6 DEF Link
  <2>2. SentOf(p) = proc[p] - 1 /\ ReceivedOf(x) = proc[x] - 1
    BY <1>2, <1>3 DEF SentOf, ReceivedOf
  <2>3. proc[p] - 1 = proc[x] - 1
    BY <2>1, <2>2
  <2>4. \A a, b \in Nat : a - 1 = b - 1 => a = b
    OBVIOUS
  <2> QED BY <1>4, <2>3, <2>4
<1>10. Payload(p) = MessageOf(x, Behind(x, proc[x]))
  <2>1. neighbourIds[p] = {}
    BY <1>3, <1>7 DEF NamesInv, ByRing
  <2>2. Payload(p) = MessageOf(p, Behind(p, proc[p] - 1))
    BY <1>3, <2>1 DEF Payload, RingOf
  <2>3. Behind(p, proc[p] - 1) = Behind(x, proc[x])
    BY <1>1, <1>4, <1>9, BehindFacts
  <2>4. MessageOf(p, Behind(p, proc[p] - 1)) = MessageOf(x, Behind(x, proc[x]))
    BY <1>8, <2>3 DEF MessageOf, Content, IgnorePublic
  <2> QED BY <2>2, <2>4
<1> QED BY <1>1, <1>2, <1>3, <1>5, <1>6, <1>9, <1>10

\* The steps outside the exchange.
LEMMA RingOutside ==
  ASSUME TypeInv, RegularScenarios, CourseInv, CourseInv', BarrierInv, ListsInv, ByRing,
         \A r \in Rank : RingOf(r) /\ Link(r, Succ(r)), NEW x \in Rank,
         Resize(x) \/ RebuildSkips(x) \/ Return(x) \/ RebuildStarts(x), NEW q \in Rank
  PROVE  RingOf(q)' /\ Link(q, Succ(q))' /\ ListsOK(q)'
<1>u. /\ scenario' = scenario /\ pending' = pending /\ buffer' = buffer /\ proc' = proc
      /\ \A r \in Rank \ {x} : /\ pc'[r] = pc[r] /\ step'[r] = step[r] /\ remoteIndices'[r] = remoteIndices[r]
                               /\ entered'[r] = entered[r]
  BY DEF Resize, RebuildSkips, Return, RebuildStarts, TypeInv, ControlInv, BufferInv
<1>o. \A r \in Rank \ {x} : RingOf(r)' /\ ListsOK(r)' /\ SentOf(r)' = SentOf(r) /\ ReceivedOf(r)' = ReceivedOf(r)
  BY <1>u, RingSameOf, ListsSame DEF ListsInv
<1>x. ListsOK(x)'
  BY ListsOutside
<1>p. pending[x] \subseteq {Succ(x)} /\ Succ(x)' = Succ(x)
  BY DEF RingOf, Succ
<1>1. CASE Resize(x) \/ RebuildSkips(x) \/ Return(x)
  <2>1. entered' = entered /\ pc[x] \in {"user", "return"} /\ pc'[x] = "user"
    BY <1>1 DEF Resize, RebuildSkips, Return, AtCall, TypeInv, ControlInv
  <2>2. RingOf(x)'
    BY <1>p, <1>u, <2>1 DEF RingOf
  <2>3. SentOf(x)' = SentOf(x) /\ ReceivedOf(x)' = ReceivedOf(x)
    BY <2>1 DEF SentOf, ReceivedOf
  <2>4. Link(q, Succ(q))'
    BY <1>o, <2>1, <2>3, LinksSame
  <2> QED BY <1>o, <1>x, <2>2, <2>4
<1>2. CASE RebuildStarts(x)
  <2>1. /\ pc[x] = "user" /\ pc'[x] = IF Meets(scenario) THEN "reduce" ELSE "return"
        /\ entered'[x] = IF Meets(scenario) THEN entered[x] + 1 ELSE entered[x]
    BY <1>2, CommunicatesWhenMeets DEF RebuildStarts, AtCall, TypeInv, ControlInv
  <2>2. RingOf(x)'
    BY <1>p, <1>u, <2>1 DEF RingOf
  <2>3. CASE Meets(scenario)
    <3>1. Link(q, Succ(q))'
      BY <1>o, <1>u, <2>1, <2>3, LinksEnter
    <3> QED BY <1>o, <1>x, <2>2, <3>1
  <2>4. CASE ~Meets(scenario)
    <3>1. SentOf(x)' = SentOf(x) /\ ReceivedOf(x)' = ReceivedOf(x)
      BY <2>1, <2>4 DEF SentOf, ReceivedOf
    <3>2. Link(q, Succ(q))'
      BY <1>o, <1>u, <2>1, <2>4, <3>1, LinksSame
    <3> QED BY <1>o, <1>x, <2>2, <3>2
  <2> QED BY <2>3, <2>4
<1> QED BY <1>1, <1>2

\* The first iteration begins with one's own message.
LEMMA RingBegin ==
  ASSUME TypeInv, RegularScenarios, CourseInv, ListsInv, ByRing, \A r \in Rank : RingOf(r) /\ Link(r, Succ(r)),
         NEW x \in Rank, StartRing(x), NEW q \in Rank
  PROVE  RingOf(q)' /\ Link(q, Succ(q))' /\ ListsOK(q)'
<1>t. /\ DOMAIN pc = Rank /\ DOMAIN remoteIndices = Rank /\ DOMAIN pending = Rank /\ DOMAIN proc = Rank
      /\ DOMAIN buffer = Rank /\ procs \in Nat \ {0}
  BY RemoteIndicesAssumption DEF TypeInv, ControlInv, MemberInv, BufferInv
<1>u. /\ scenario' = scenario /\ step' = step /\ entered' = entered /\ pc[x] = "reduce" /\ proc'[x] = 1
      /\ pc'[x] = IF procs = 1 THEN "return" ELSE IF Even(x) THEN "ssend" ELSE "recv"
      /\ pending'[x] = IF procs > 1 /\ Even(x) THEN {Succ(x)} ELSE {}
      /\ \A r \in Rank \ {x} : /\ pc'[r] = pc[r] /\ remoteIndices'[r] = remoteIndices[r] /\ pending'[r] = pending[r]
                               /\ proc'[r] = proc[r] /\ buffer'[r] = buffer[r]
  BY <1>t DEF StartRing, ReduceReturns
<1>o. \A r \in Rank \ {x} : RingOf(r)' /\ ListsOK(r)' /\ SentOf(r)' = SentOf(r) /\ ReceivedOf(r)' = ReceivedOf(r)
  BY <1>u, RingSameOf, ListsSame DEF ListsInv
<1>1. buffer'[x][0] = MessageOf(x, x)
  <2>1. buffer'[x] = [i \in {0, 1} |-> IF i = 0 THEN Message(x) ELSE NoData]
    BY <1>t DEF StartRing, ReduceReturns
  <2> QED BY <2>1, MessageIs
<1>2. remoteIndices'[x] = KnownNow(x, {})
  <2>1. remoteIndices[x] = ListedNow(x, {})
    BY <1>u, NothingListed DEF ListsInv, ListsOK
  <2>2. IncludeSelf \in BOOLEAN /\ (IncludeSelf <=> x = x /\ scenario.includeSelf)
    BY ProgramType DEF TypeInv, ControlInv, Scenario, IncludeSelf
  <2>3. CASE SendTwo(x) \/ IncludeSelf
    <3>1. remoteIndices'[x] = Unpack(x, remoteIndices[x], Message(x), x, IncludeSelf)
      BY <1>t, <2>3 DEF StartRing, ReduceReturns
    <3>2. Unpack(x, ListedNow(x, {}), MessageOf(x, x), x, IncludeSelf) = ListedNow(x, {} \cup {x})
      BY <2>2, UnpackListed
    <3>3. Itself(scenario, x) = {x}
      BY <2>3 DEF Itself, SendTwo, IncludeSelf
    <3> QED BY <2>1, <3>1, <3>2, <3>3, MessageIs DEF KnownNow
  <2>4. CASE ~(SendTwo(x) \/ IncludeSelf)
    <3>1. remoteIndices'[x] = remoteIndices[x]
      BY <1>t, <2>4 DEF StartRing, ReduceReturns
    <3>2. Itself(scenario, x) = {}
      BY <2>4 DEF Itself, SendTwo, IncludeSelf
    <3> QED BY <2>1, <3>1, <3>2 DEF KnownNow
  <2> QED BY <2>3, <2>4
<1>3. /\ Even(x)' = Even(x) /\ Succ(x)' = Succ(x) /\ Out(x)' = 0 /\ proc'[x] - 1 = 0
      /\ Behind(x, 0) = x /\ BehindUpTo(x, 0) = {}
  <2>1. 1 - (1 % 2) = 0
    OBVIOUS
  <2>2. Out(x)' = 1 - (proc'[x] % 2)
    BY DEF Out
  <2> QED BY <1>u, <2>1, <2>2, BehindFacts DEF Even, Succ
<1>4. /\ MessageOf(x, Behind(x, proc[x] - 1))' = MessageOf(x, x)
      /\ KnownNow(x, BehindUpTo(x, proc[x] - 1))' = KnownNow(x, {})
  <2>1. Behind(x, proc[x] - 1)' = x
    BY <1>3 DEF Behind
  <2>2. BehindUpTo(x, proc[x] - 1)' = {}
    BY <1>3 DEF BehindUpTo, Behind
  <2>3. MessageOf(x, Behind(x, proc[x] - 1))' = MessageOf(x, Behind(x, proc[x] - 1)')
    BY <1>u DEF MessageOf, Content, IgnorePublic, Program
  <2>4. KnownNow(x, BehindUpTo(x, proc[x] - 1))' = KnownNow(x, BehindUpTo(x, proc[x] - 1)')
    BY <1>u DEF KnownNow, ListedNow, Content, IgnorePublic, Program
  <2> QED BY <2>1, <2>2, <2>3, <2>4
<1>5. RingOf(x)'
  BY <1>1, <1>2, <1>3, <1>4, <1>t, <1>u DEF RingOf
<1>6. SentOf(x)' = SentOf(x) /\ ReceivedOf(x)' = ReceivedOf(x)
  BY <1>3, <1>t, <1>u DEF SentOf, ReceivedOf
<1>7. ListsOK(x)'
  <2>1. procs = 1 => Others(scenario, x) = {}
    BY BehindFacts DEF Others, ByRing, Named
  <2>2. KnownNow(x, Others(scenario, x))' = KnownNow(x, Others(scenario, x))
    BY <1>u DEF KnownNow, ListedNow, Content, IgnorePublic, Program
  <2> QED BY <1>2, <1>t, <1>u, <2>1, <2>2 DEF ListsOK
<1>8. Link(q, Succ(q))'
  BY <1>6, <1>o, <1>u, LinksSame
<1> QED BY <1>5, <1>7, <1>8, <1>o

\* A send that returns was received.
LEMMA RingSendReturns ==
  ASSUME TypeInv, RegularScenarios, CourseInv, ListsInv, ByRing, \A r \in Rank : RingOf(r) /\ Link(r, Succ(r)),
         NEW x \in Rank, EvenSendReturns(x) \/ OddSendReturns(x), NEW q \in Rank
  PROVE  RingOf(q)' /\ Link(q, Succ(q))' /\ ListsOK(q)'
<1>t. DOMAIN pc = Rank /\ DOMAIN remoteIndices = Rank /\ DOMAIN proc = Rank /\ proc[x] \in 1 .. procs
      /\ procs \in Nat \ {0} /\ proc[x] \in Nat
  BY RemoteIndicesAssumption DEF TypeInv, ControlInv, BufferInv
<1>u. /\ scenario' = scenario /\ step' = step /\ entered' = entered /\ pending' = pending /\ buffer' = buffer
      /\ pc[x] = "ssend" /\ Succ(x) \notin pending[x] /\ pending[x] = {}
      /\ \A r \in Rank \ {x} : pc'[r] = pc[r]
  <2>1. pending[x] \subseteq {Succ(x)}
    BY DEF RingOf
  <2> QED BY <1>t, <2>1 DEF EvenSendReturns, OddSendReturns, Posted
<1>1. CASE EvenSendReturns(x)
  <2>1. Even(x) /\ pc'[x] = "recv" /\ proc' = proc /\ remoteIndices' = remoteIndices
    BY <1>1, <1>t DEF EvenSendReturns
  <2>2. /\ \A o : MessageOf(x, o)' = MessageOf(x, o)
        /\ Out(x)' = Out(x) /\ Even(x)' = Even(x) /\ Succ(x)' = Succ(x)
    BY <1>u, <2>1 DEF MessageOf, Content, IgnorePublic, Program, Out, Even, Succ
  <2>3. MessageOf(x, Behind(x, proc[x] - 1))' = MessageOf(x, Behind(x, proc[x] - 1))
        /\ KnownNow(x, BehindUpTo(x, proc[x] - 1))' = KnownNow(x, BehindUpTo(x, proc[x] - 1))
    BY <1>u, <2>1 DEF MessageOf, KnownNow, ListedNow, Content, IgnorePublic, Program, BehindUpTo, Behind
  <2>4. RingOf(x)'
    BY <1>u, <2>1, <2>2, <2>3 DEF RingOf
  <2>5. ListsOK(x)'
    BY <1>u, <2>1 DEF ListsOK
  <2>6. SentOf(x)' = SentOf(x) /\ ReceivedOf(x)' = ReceivedOf(x)
    BY <1>u, <2>1, <2>2 DEF SentOf, ReceivedOf
  <2>7. \A r \in Rank \ {x} : RingOf(r)' /\ ListsOK(r)' /\ SentOf(r)' = SentOf(r) /\ ReceivedOf(r)' = ReceivedOf(r)
    BY <1>u, <2>1, RingSameOf, ListsSame DEF ListsInv
  <2>8. Link(q, Succ(q))'
    BY <1>u, <2>6, <2>7, LinksSame
  <2> QED BY <2>4, <2>5, <2>7, <2>8
<1>2. CASE OddSendReturns(x)
  <2>1. ~Even(x) /\ EndIteration(x, buffer[x][In(x)]) /\ pc'[x] = AfterIteration(x, "recv")
    BY <1>2, <1>t DEF OddSendReturns
  <2>2. buffer[x][In(x)] = MessageOf(x, Behind(x, proc[x]))
    BY <1>u, <2>1 DEF RingOf
  <2>3. /\ RingOf(x)' /\ ListsOK(x)' /\ SentOf(x)' = proc[x] /\ ReceivedOf(x)' = proc[x]
        /\ \A r \in Rank \ {x} : remoteIndices'[r] = remoteIndices[r] /\ proc'[r] = proc[r]
    <3>1. pc'[x] = AfterIteration(x, IF Even(x) THEN "ssend" ELSE "recv")
          /\ pending'[x] = IF proc[x] + 1 < procs /\ Even(x) THEN {Succ(x)} ELSE {}
      BY <1>u, <2>1
    <3>2. EndIteration(x, MessageOf(x, Behind(x, proc[x]))) /\ buffer'[x][In(x)] = MessageOf(x, Behind(x, proc[x]))
      BY <1>u, <2>1, <2>2
    <3>3. Named(x) = {} /\ RingOf(x) /\ pc[x] \in {"ssend", "recv"}
      BY <1>u DEF ByRing
    <3> QED BY <1>u, <3>1, <3>2, <3>3, IterationEnds
  <2>4. SentOf(x) = proc[x] /\ ReceivedOf(x) = proc[x]
    BY <1>u, <2>1 DEF SentOf, ReceivedOf
  <2>5. \A r \in Rank \ {x} : RingOf(r)' /\ ListsOK(r)' /\ SentOf(r)' = SentOf(r) /\ ReceivedOf(r)' = ReceivedOf(r)
    BY <1>u, <2>3, RingSameOf, ListsSame DEF ListsInv
  <2>6. Link(q, Succ(q))'
    BY <1>u, <2>3, <2>4, <2>5, LinksSame
  <2> QED BY <2>3, <2>5, <2>6
<1> QED BY <1>1, <1>2

\* A receive ends the send of the predecessor.
LEMMA RingReceives ==
  ASSUME TypeInv, RegularScenarios, CourseInv, NamesInv, BarrierInv, ListsInv, ByRing,
         \A r \in Rank : RingOf(r) /\ Link(r, Succ(r)),
         NEW x \in Rank, EvenReceives(x) \/ OddReceives(x), NEW q \in Rank
  PROVE  RingOf(q)' /\ Link(q, Succ(q))' /\ ListsOK(q)'
<1>t. /\ DOMAIN pc = Rank /\ DOMAIN remoteIndices = Rank /\ DOMAIN proc = Rank /\ DOMAIN pending = Rank
      /\ DOMAIN buffer = Rank /\ DOMAIN buffer[x] = {0, 1}
      /\ proc[x] \in 1 .. procs /\ procs \in Nat \ {0} /\ proc[x] \in Nat
      /\ In(x) \in {0, 1} /\ Out(x) \in {0, 1} /\ In(x) # Out(x)
      /\ \A r \in Rank : entered[r] \in Nat
  BY RemoteIndicesAssumption, IterationFacts, ProgramType DEF TypeInv, ControlInv, MemberInv, BufferInv
<1>p. PICK p \in Rank : p = Pred(x)
  BY RingNeighbours
<1>a. pc[x] = "recv" /\ Posted(p, x) /\ buffer' = [buffer EXCEPT ![x][In(x)] = Payload(p)]
  BY <1>p DEF EvenReceives, OddReceives, ReceiveFromPred
<1>m. /\ p # x /\ procs > 1 /\ pc[p] = "ssend" /\ pending[p] = {x} /\ entered[p] = entered[x] /\ proc[p] = proc[x]
      /\ Payload(p) = MessageOf(x, Behind(x, proc[x]))
  BY <1>a, <1>p, RingMeeting
<1>u. /\ scenario' = scenario /\ step' = step /\ entered' = entered
      /\ buffer'[x][In(x)] = MessageOf(x, Behind(x, proc[x])) /\ buffer'[x][Out(x)] = buffer[x][Out(x)]
      /\ pending'[p] = {}
      /\ \A r \in Rank \ {x} : pc'[r] = pc[r] /\ buffer'[r] = buffer[r]
      /\ \A r \in Rank \ {x, p} : pending'[r] = pending[r]
  <2>1. /\ scenario' = scenario /\ step' = step /\ entered' = entered
        /\ \A r \in Rank \ {x} : pc'[r] = pc[r]
        /\ pending'[p] = pending[p] \ {x} /\ \A r \in Rank \ {x, p} : pending'[r] = pending[r]
    BY <1>m, <1>p, <1>t DEF EvenReceives, OddReceives
  <2>2. /\ buffer'[x][In(x)] = Payload(p) /\ buffer'[x][Out(x)] = buffer[x][Out(x)]
        /\ \A r \in Rank \ {x} : buffer'[r] = buffer[r]
    BY <1>a, <1>t
  <2> QED BY <1>m, <2>1, <2>2
<1>x. RingOf(x) /\ ReceivedOf(x) = proc[x] - 1
  BY <1>a DEF ReceivedOf
<1>1. /\ RingOf(x)' /\ ListsOK(x)' /\ SentOf(x)' = SentOf(x) /\ ReceivedOf(x)' = proc[x]
      /\ \A r \in Rank \ {x} : remoteIndices'[r] = remoteIndices[r] /\ proc'[r] = proc[r]
  <2>1. CASE EvenReceives(x)
    <3>1. /\ Even(x) /\ EndIteration(x, MessageOf(x, Behind(x, proc[x]))) /\ pc'[x] = AfterIteration(x, "ssend")
          /\ pending'[x] = IF proc[x] + 1 < procs THEN {Succ(x)} ELSE {}
      BY <1>m, <1>p, <1>t, <2>1 DEF EvenReceives
    <3>2. pc'[x] = AfterIteration(x, IF Even(x) THEN "ssend" ELSE "recv")
          /\ pending'[x] = IF proc[x] + 1 < procs /\ Even(x) THEN {Succ(x)} ELSE {}
      BY <3>1
    <3>3. Named(x) = {} /\ pc[x] \in {"ssend", "recv"}
      BY <1>a DEF ByRing
    <3>4. /\ RingOf(x)' /\ ListsOK(x)' /\ SentOf(x)' = proc[x] /\ ReceivedOf(x)' = proc[x]
          /\ \A r \in Rank \ {x} : remoteIndices'[r] = remoteIndices[r] /\ proc'[r] = proc[r]
      BY <1>u, <1>x, <3>1, <3>2, <3>3, IterationEnds
    <3>5. SentOf(x) = proc[x]
      BY <1>a, <3>1 DEF SentOf
    <3> QED BY <3>4, <3>5
  <2>2. CASE OddReceives(x)
    <3>1. /\ ~Even(x) /\ pc'[x] = "ssend" /\ pending'[x] = {Succ(x)} /\ proc' = proc /\ remoteIndices' = remoteIndices
      BY <1>m, <1>p, <1>t, <2>2 DEF OddReceives
    <3>2. In(x)' = In(x) /\ Out(x)' = Out(x) /\ Even(x)' = Even(x) /\ Succ(x)' = Succ(x)
      BY <3>1 DEF In, Out, Even, Succ
    <3>3. /\ MessageOf(x, Behind(x, proc[x] - 1))' = MessageOf(x, Behind(x, proc[x] - 1))
          /\ MessageOf(x, Behind(x, proc[x]))' = MessageOf(x, Behind(x, proc[x]))
          /\ KnownNow(x, BehindUpTo(x, proc[x] - 1))' = KnownNow(x, BehindUpTo(x, proc[x] - 1))
      BY <1>u, <3>1 DEF MessageOf, KnownNow, ListedNow, Content, IgnorePublic, Program, BehindUpTo, Behind
    <3>4. RingOf(x)'
      BY <1>a, <1>u, <1>x, <3>1, <3>2, <3>3 DEF RingOf
    <3>5. ListsOK(x)'
      BY <3>1 DEF ListsOK
    <3>6. SentOf(x)' = SentOf(x) /\ ReceivedOf(x)' = proc[x]
      BY <1>a, <3>1, <3>2 DEF SentOf, ReceivedOf
    <3> QED BY <3>1, <3>4, <3>5, <3>6
  <2> QED BY <2>1, <2>2
<1>2. \A r \in Rank \ {x} : /\ RingOf(r)' /\ ListsOK(r)' /\ ReceivedOf(r)' = ReceivedOf(r)
                            /\ r # p => SentOf(r)' = SentOf(r)
  <2>1. \A r \in Rank \ {x} : pending'[r] \subseteq pending[r]
    BY <1>u
  <2> QED BY <1>1, <1>u, <2>1, RingSameOf, ListsSame DEF ListsInv
<1>3. SentOf(p)' = proc[x]
  BY <1>1, <1>m, <1>u DEF SentOf
<1>4. Link(q, Succ(q))'
  <2>1. \A r \in Rank \ {p} : SentOf(r)' = SentOf(r)
    BY <1>1, <1>2
  <2>2. \A r \in Rank \ {x} : ReceivedOf(r)' = ReceivedOf(r)
    BY <1>2
  <2> QED BY <1>1, <1>3, <1>m, <1>p, <1>t, <1>u, <2>1, <2>2, LinksReceive
<1> QED BY <1>1, <1>2, <1>4

\* In the ring, every step keeps the invariants.
LEMMA RingStep ==
  ASSUME TypeInv, RegularScenarios, CourseInv, CourseInv', NamesInv, BarrierInv, ListsInv, RingInv, ByRing, [Next]_vars
  PROVE  RingInv' /\ ListsInv'
<1>o. \A r \in Rank : RingOf(r) /\ Link(r, Succ(r))
  BY DEF RingInv
<1>1. CASE UNCHANGED vars
  <2>1. \A q \in Rank : RingOf(q)' /\ ListsOK(q)' /\ SentOf(q)' = SentOf(q) /\ ReceivedOf(q)' = ReceivedOf(q)
    BY <1>1, <1>o, RingSameOf, ListsSame DEF vars, ListsInv
  <2>2. \A q \in Rank : Link(q, Succ(q))'
    BY <1>1, <1>o, <2>1, LinksSame DEF vars
  <2> QED BY <2>1, <2>2 DEF RingInv, ListsInv
<1>2. ASSUME NEW x \in Rank, Step(x), NEW q \in Rank PROVE RingOf(q)' /\ Link(q, Succ(q))' /\ ListsOK(q)'
  <2>1. CASE Resize(x) \/ RebuildSkips(x) \/ Return(x) \/ RebuildStarts(x)
    BY <1>o, <2>1, RingOutside
  <2>2. CASE StartRing(x)
    BY <1>o, <2>2, RingBegin
  <2>3. CASE EvenSendReturns(x) \/ OddSendReturns(x)
    BY <1>o, <2>3, RingSendReturns
  <2>4. CASE EvenReceives(x) \/ OddReceives(x)
    BY <1>o, <2>4, RingReceives
  <2>5. ~StartNeighbours(x)
    <3>1. SUFFICES ASSUME StartNeighbours(x) PROVE FALSE
      OBVIOUS
    <3>2. neighbourIds'[x] = neighbourIds[x] \ {x} /\ neighbourIds'[x] # {}
      BY <3>1 DEF StartNeighbours, ReduceReturns, TypeInv, MemberInv
    <3> QED BY <3>2 DEF NamesInv, ByRing
  <2>6. ~WaitAll(x) /\ ~(\E s \in Rank : ProbeAndReceive(x, s))
    BY <1>o DEF RingOf, WaitAll, ProbeAndReceive
  <2> QED BY <1>2, <2>1, <2>2, <2>3, <2>4, <2>5, <2>6 DEF Step
<1> QED BY <1>1, <1>2 DEF Next, RingInv, ListsInv

-----------------------------------------------------------------------------
(* The lists are exact.                                                    *)

RebuildInv == CourseInv /\ NamesInv /\ BarrierInv /\ ListsInv /\ NeighboursInv /\ RingInv

LEMMA RebuildStep == TypeInv /\ TypeInv' /\ RegularScenarios /\ RebuildInv /\ [Next]_vars => RebuildInv'
<1> SUFFICES ASSUME TypeInv, TypeInv', RegularScenarios, RebuildInv, [Next]_vars PROVE RebuildInv'
  OBVIOUS
<1>i. CourseInv /\ NamesInv /\ BarrierInv /\ ListsInv /\ NeighboursInv /\ RingInv
  BY DEF RebuildInv
<1>1. CourseInv' /\ NamesInv' /\ BarrierInv'
  BY <1>i, CourseStep, NamesStep, BarrierStep
<1>2. PICK r : r \in Rank
  BY RemoteIndicesAssumption DEF Rank
<1>3. \A q \in Rank : Named(q)' = Named(q)
  <2>1. scenario' = scenario
    BY ScenarioStays
  <2> QED BY <2>1 DEF Named
<1>4. CASE ByNeighbours
  <2>1. NeighboursInv' /\ ListsInv'
    BY <1>1, <1>4, <1>i, NeighboursStep
  <2>2. RingInv'
    BY <1>2, <1>3, <1>4 DEF RingInv, ByRing, ByNeighbours
  <2> QED BY <1>1, <2>1, <2>2 DEF RebuildInv
<1>5. CASE ByRing
  <2>1. RingInv' /\ ListsInv'
    BY <1>1, <1>5, <1>i, RingStep
  <2>2. NeighboursInv'
    BY <1>2, <1>3, <1>5 DEF NeighboursInv, ByRing, ByNeighbours
  <2> QED BY <1>1, <2>1, <2>2 DEF RebuildInv
<1> QED BY <1>2, <1>4, <1>5, NamedFacts DEF ByRing

\* The invariants of the rebuild, in both kinds of exchange and any number of rounds.
LEMMA RebuildInvariant == ASSUME RegularScenarios PROVE Spec => []RebuildInv
<1>1. RegularScenarios
  OBVIOUS
<1>2. Init => RebuildInv
  BY CourseInit, NamesInit, BarrierInit, ListsInit, NeighboursInit, RingInit DEF RebuildInv
<1>3. TypeInv /\ TypeInv' /\ RebuildInv /\ [Next]_vars => RebuildInv'
  BY RebuildStep
<1> QED BY <1>2, <1>3, TypeInvariant, PTL DEF Spec

\* What q publishes of content n of its sets.
SourceAt(s, q, n, all) == PackEntries(s.sets[q].source[n], all)
DestAt(s, q, n, all) == IF q \in s.two THEN PackEntries(s.sets[q].target[n], all) ELSE SourceAt(s, q, n, all)

Exact(list, set) == list \in Seq(RemoteEntry) /\ InOrder(list) /\ ToSet(list) = set /\ Lists(list, set)

\* The lists of a message have what both ranks know.
LEMMA ListsOfAre ==
  ASSUME NEW s, Scenario(s), Regular(s), NEW r \in Rank, NEW q \in Rank,
         NEW n \in 1 .. ContentAfter(s, Len(s.program)), NEW all \in BOOLEAN,
         NEW self \in BOOLEAN, self <=> r = q /\ s.includeSelf
  PROVE  /\ Exact(ListsOf(s, r, q, n, all).receive, Product(SourceAt(s, q, n, all), DestAt(s, r, n, all), self))
         /\ Exact(ListsOf(s, r, q, n, all).send, Product(DestAt(s, q, n, all), SourceAt(s, r, n, all), self))
<1> DEFINE message == MessageAt(s, q, n, all)
           own == MessageAt(s, r, n, all)
           L == ListsOf(s, r, q, n, all)
<1>1. \A o \in Rank : /\ Ascending(SourceAt(s, o, n, all)) /\ Ascending(DestAt(s, o, n, all))
                      /\ (o \in s.two <=> s.two = Rank)
  BY DEF Regular, SourceAt, DestAt
<1>2. L = UnpackCreateRemote(message, own.source, own.dest, r \in s.two, self)
  <2>1. self = (r = q /\ s.includeSelf)
    BY Zenon
  <2> QED BY <2>1, Zenon DEF ListsOf
<1>3. /\ message.two = (q \in s.two) /\ message.source = SourceAt(s, q, n, all) /\ own.source = SourceAt(s, r, n, all)
      /\ message.dest = IF q \in s.two THEN DestAt(s, q, n, all) ELSE <<>>
      /\ own.dest = IF r \in s.two THEN DestAt(s, r, n, all) ELSE <<>>
  BY DEF MessageAt, SourceAt, DestAt
<1> HIDE DEF message, own, L
<1>4. CASE s.two = Rank
  <2>1. message.two /\ r \in s.two /\ message.dest = DestAt(s, q, n, all) /\ own.dest = DestAt(s, r, n, all)
    BY <1>1, <1>3, <1>4
  <2>2. L = [receive |-> UnpackIndices(message.source, own.dest, self),
             send |-> UnpackIndices(message.dest, own.source, self)]
    BY <1>2, <2>1 DEF UnpackCreateRemote
  <2>3. /\ L.receive = UnpackIndices(SourceAt(s, q, n, all), DestAt(s, r, n, all), self)
        /\ L.send = UnpackIndices(DestAt(s, q, n, all), SourceAt(s, r, n, all), self)
    BY <1>3, <2>1, <2>2
  <2> QED BY <1>1, <2>3, UnpackIsProduct DEF Exact, L
<1>5. CASE s.two # Rank
  <2>1. ~message.two /\ ~(r \in s.two) /\ DestAt(s, q, n, all) = SourceAt(s, q, n, all)
        /\ DestAt(s, r, n, all) = SourceAt(s, r, n, all)
    BY <1>1, <1>3, <1>5 DEF DestAt
  <2>2. L = [send |-> UnpackIndices(message.source, own.source, self),
             receive |-> UnpackIndices(message.source, own.source, self)]
    BY <1>2, <2>1 DEF UnpackCreateRemote
  <2>3. /\ L.receive = UnpackIndices(SourceAt(s, q, n, all), SourceAt(s, r, n, all), self)
        /\ L.send = UnpackIndices(SourceAt(s, q, n, all), SourceAt(s, r, n, all), self)
    BY <1>3, <2>2
  <2>4. Ascending(SourceAt(s, q, n, all)) /\ Ascending(SourceAt(s, r, n, all))
    BY <1>1
  <2> QED BY <2>1, <2>3, <2>4, UnpackIsProduct DEF Exact, L
<1> QED BY <1>4, <1>5

\* What a rank has recorded is a content of the sets.
LEMMA AfterSynced ==
  ASSUME NEW s, Scenario(s), Regular(s), NEW i \in 0 .. Len(s.program)
  PROVE  After(s, i).synced \in {-1} \cup (1 .. ContentAfter(s, Len(s.program)))
<1> DEFINE n == Len(s.program)
           T == {j \in 0 .. n : After(s, j).synced \in {-1} \cup (1 .. ContentAfter(s, n))}
<1>0. n \in Nat
  BY ProgramFacts
<1>1. 0 \in T
  BY <1>0, AfterIs DEF AtFirst
<1>2. ASSUME NEW j \in 1 .. n, j - 1 \in T PROVE j \in T
  <2>1. j \in 0 .. n /\ j - 1 \in 0 .. n
    BY <1>0
  <2>2. After(s, j).synced \in {After(s, j - 1).synced, ContentAfter(s, j - 1)}
    BY AfterIs DEF AfterCall
  <2>3. ContentAfter(s, j - 1) \in 1 .. ContentAfter(s, n)
    BY <2>1, ContentFacts
  <2>4. After(s, j - 1).synced \in {-1} \cup (1 .. ContentAfter(s, n))
    BY <1>2
  <2> HIDE DEF n
  <2> QED BY <2>1, <2>2, <2>3, <2>4
<1>3. T = 0 .. n
  <2>1. T \in SUBSET (0 .. n)
    OBVIOUS
  <2> HIDE DEF T, n
  <2> QED BY <1>0, <1>1, <1>2, <2>1, InductionUpTo
<1> QED BY <1>3

\* What a rank that has built its lists holds.
LEMMA BuiltLists ==
  ASSUME TypeInv, RegularScenarios, RebuildInv, NEW p \in Rank, Built(p)
  PROVE  /\ synced[p].source \in 1 .. ContentAfter(scenario, Len(Program)) /\ synced[p].dest = synced[p].source
         /\ publicIgnored[p] \in BOOLEAN /\ Informed(p) \subseteq Rank
         /\ remoteIndices[p] = Listed(scenario, p, synced[p].source, publicIgnored[p], Informed(p))
         /\ Informed(p) = Others(scenario, p) \cup Itself(scenario, p)
<1> DEFINE m == After(scenario, step[p] - 1)
<1>1. /\ Scenario(scenario) /\ Regular(scenario) /\ Program = scenario.program /\ m.ignored \in BOOLEAN
      /\ step[p] - 1 \in 0 .. Len(Program)
  BY AtPlace
<1>2. /\ pc[p] = "user" /\ ~firstBuild[p] /\ m.synced # -1
      /\ synced[p] = [source |-> m.synced, dest |-> m.synced] /\ publicIgnored[p] = m.ignored
  BY DEF Built, RebuildInv, CourseInv, CourseOf
<1>3. m.synced \in 1 .. ContentAfter(scenario, Len(Program))
  BY <1>1, <1>2, AfterSynced
<1>4. remoteIndices[p] = Known(scenario, p, m.synced, m.ignored, Others(scenario, p))
  BY <1>2 DEF RebuildInv, ListsInv, ListsOK
<1>5. Informed(p) = Others(scenario, p) \cup Itself(scenario, p) /\ Informed(p) \subseteq Rank
  <2>1. Informed(p) = ((IF neighbourIds[p] = {} THEN Rank ELSE neighbourIds[p]) \ {p}) \cup Itself(scenario, p)
    BY DEF Informed, Itself, SendTwo, IncludeSelf
  <2>2. Named(p) \subseteq Rank \ {p} /\ neighbourIds[p] \ {p} = Named(p) /\ neighbourIds[p] \subseteq Rank
    BY NamedFacts DEF RebuildInv, NamesInv, TypeInv, MemberInv
  <2>3. CASE Meets(scenario)
    <3>1. neighbourIds[p] = Named(p)
      BY <1>2, <2>3 DEF RebuildInv, NamesInv
    <3> QED BY <2>1, <2>2, <3>1 DEF Others, Named, Itself
  <2>4. CASE ~Meets(scenario)
    <3>1. Rank = {p}
      BY <2>4, RemoteIndicesAssumption DEF Meets, Rank
    <3> QED BY <2>1, <2>2, <3>1 DEF Others, Named, Itself
  <2> QED BY <2>3, <2>4
<1> HIDE DEF m
<1> QED BY <1>1, <1>2, <1>3, <1>4, <1>5 DEF Known

\* After rebuild() the lists of every rank are exact.
LEMMA ExactWhenBuilt == TypeInv /\ RegularScenarios /\ RebuildInv => ListsExact
<1> SUFFICES ASSUME TypeInv, RegularScenarios, RebuildInv, NEW p \in Rank, Built(p)
             PROVE  /\ DOMAIN remoteIndices[p] \subseteq Informed(p)
                    /\ \A q \in Informed(p) :
                         LET self == p = q /\ IncludeSelf
                             receive == Product(PublishedSource(p, q), PublishedDest(p, p), self)
                             send == Product(PublishedDest(p, q), PublishedSource(p, p), self)
                         IN IF q \in DOMAIN remoteIndices[p]
                            THEN /\ Lists(remoteIndices[p][q].receive, receive)
                                 /\ Lists(remoteIndices[p][q].send, send)
                            ELSE receive = {} /\ send = {}
  BY DEF ListsExact
<1> DEFINE n == synced[p].source
           all == publicIgnored[p]
           L(q) == ListsOf(scenario, p, q, n, all)
<1>1. /\ n \in 1 .. ContentAfter(scenario, Len(Program)) /\ synced[p].dest = n
      /\ all \in BOOLEAN /\ Informed(p) \subseteq Rank
      /\ remoteIndices[p] = Listed(scenario, p, n, all, Informed(p))
  BY BuiltLists
<1>2. /\ DOMAIN remoteIndices[p] = {q \in Informed(p) : L(q) # NoEntries}
      /\ \A q \in DOMAIN remoteIndices[p] : remoteIndices[p][q] = L(q)
  <2> HIDE DEF n, all
  <2> QED BY <1>1 DEF Listed
<1>3. ASSUME NEW q \in Rank
      PROVE  PublishedSource(p, q) = SourceAt(scenario, q, n, all) /\ PublishedDest(p, q) = DestAt(scenario, q, n, all)
  BY <1>1 DEF PublishedSource, PublishedDest, SourceAt, DestAt, SendTwo
<1>4. ASSUME NEW q \in Informed(p), NEW self \in BOOLEAN, self <=> p = q /\ IncludeSelf
      PROVE  LET receive == Product(PublishedSource(p, q), PublishedDest(p, p), self)
                 send == Product(PublishedDest(p, q), PublishedSource(p, p), self)
             IN IF q \in DOMAIN remoteIndices[p]
                THEN /\ Lists(remoteIndices[p][q].receive, receive)
                     /\ Lists(remoteIndices[p][q].send, send)
                ELSE receive = {} /\ send = {}
  <2> DEFINE receive == Product(PublishedSource(p, q), PublishedDest(p, p), self)
             send == Product(PublishedDest(p, q), PublishedSource(p, p), self)
  <2>1. Exact(L(q).receive, receive) /\ Exact(L(q).send, send)
    <3>1. Scenario(scenario) /\ Regular(scenario) /\ Program = scenario.program
      BY AtPlace
    <3>2. q \in Rank
      BY <1>1
    <3> HIDE DEF n, all
    <3>3. self <=> p = q /\ scenario.includeSelf
      BY <1>4 DEF IncludeSelf
    <3>4. /\ Exact(ListsOf(scenario, p, q, n, all).receive,
                   Product(SourceAt(scenario, q, n, all), DestAt(scenario, p, n, all), self))
          /\ Exact(ListsOf(scenario, p, q, n, all).send,
                   Product(DestAt(scenario, q, n, all), SourceAt(scenario, p, n, all), self))
      BY <1>1, <3>1, <3>2, <3>3, ListsOfAre
    <3> QED BY <1>3, <3>2, <3>4
  <2>2. q \notin DOMAIN remoteIndices[p] => L(q).receive = <<>> /\ L(q).send = <<>>
    BY <1>2 DEF NoEntries
  <2>3. ToSet(<<>>) = {}
    BY DEF ToSet
  <2> HIDE DEF receive, send, L
  <2>4. IF q \in DOMAIN remoteIndices[p]
        THEN Lists(remoteIndices[p][q].receive, receive) /\ Lists(remoteIndices[p][q].send, send)
        ELSE receive = {} /\ send = {}
    BY <1>2, <2>1, <2>2, <2>3 DEF Exact
  <2> QED BY <2>4 DEF receive, send
<1>5. ASSUME NEW q \in Informed(p)
      PROVE  LET self == p = q /\ IncludeSelf
                 receive == Product(PublishedSource(p, q), PublishedDest(p, p), self)
                 send == Product(PublishedDest(p, q), PublishedSource(p, p), self)
             IN IF q \in DOMAIN remoteIndices[p]
                THEN /\ Lists(remoteIndices[p][q].receive, receive)
                     /\ Lists(remoteIndices[p][q].send, send)
                ELSE receive = {} /\ send = {}
  <2>1. (p = q /\ IncludeSelf) \in BOOLEAN
    OBVIOUS
  <2> QED BY <1>4, <2>1, Zenon
<1> QED BY <1>2, <1>5

\* After rebuild() a process knows of every process it asked about exactly the indices
\* both know, at their current version, whatever the processes hold, in whichever order
\* messages are received, and however far ahead another process may be.
THEOREM ExactLists == ASSUME RegularScenarios PROVE Spec => []ListsExact
<1>1. RegularScenarios
  OBVIOUS
<1>2. TypeInv /\ RebuildInv => ListsExact
  BY ExactWhenBuilt
<1> QED BY <1>2, RebuildInvariant, TypeInvariant, PTL

-----------------------------------------------------------------------------
(* The interfaces fit together.                                            *)

\* Subsequence consists of the members at the chosen positions.
LEMMA SubsequenceStep ==
  ASSUME NEW S, NEW s \in Seq(S), NEW positions
  PROVE  \E f \in [0 .. Len(s) -> Seq(S)] :
           /\ f[0] = <<>> /\ Subsequence(s, positions) = f[Len(s)]
           /\ \A i \in 1 .. Len(s) :
                f[i] = IF i \in positions THEN Append(f[i - 1], s[i]) ELSE f[i - 1]
<1> DEFINE next == [at \in (1 .. Len(s)) \X Seq(S) |->
                      IF at[1] \in positions THEN Append(at[2], s[at[1]]) ELSE at[2]]
<1>1. ASSUME NEW i \in 1 .. Len(s), NEW v \in Seq(S)
      PROVE  /\ next[<<i, v>>] = IF i \in positions THEN Append(v, s[i]) ELSE v
             /\ next[<<i, v>>] \in Seq(S)
  <2>1. s[i] \in S
    OBVIOUS
  <2>2. Append(v, s[i]) \in Seq(S)
    BY <2>1
  <2>3. <<i, v>> \in (1 .. Len(s)) \X Seq(S)
    OBVIOUS
  <2> QED BY <2>2, <2>3
<1>3. Len(s) \in Nat /\ <<>> \in Seq(S)
  OBVIOUS
<1> HIDE DEF next
<1>4. PICK f \in [0 .. Len(s) -> Seq(S)] : Recurs(f, Len(s), <<>>, next)
  <2>1. \A i \in 1 .. Len(s), v \in Seq(S) : next[<<i, v>>] \in Seq(S)
    BY <1>1
  <2> QED BY ONLY <1>3, <2>1, Recursion, Zenon
<1>5. ASSUME NEW i \in 1 .. Len(s)
      PROVE  f[i] = IF i \in positions THEN Append(f[i - 1], s[i]) ELSE f[i - 1]
  <2>1. i - 1 \in 0 .. Len(s)
    BY <1>3
  <2> QED BY <1>1, <1>4, <2>1 DEF Recurs
<1> DEFINE body(g) == [i \in 0 .. Len(s) |->
                         IF i = 0 THEN <<>>
                         ELSE IF i \in positions THEN Append(g[i - 1], s[i]) ELSE g[i - 1]]
           upto == CHOOSE g : g = body(g)
<1>6. f = body(f)
  <2>1. ASSUME NEW i \in 0 .. Len(s) PROVE f[i] = body(f)[i]
    <3>1. i = 0 \/ i \in 1 .. Len(s)
      BY <1>3
    <3> QED BY <3>1, <1>4, <1>5 DEF Recurs
  <2> QED BY <2>1
<1>7. upto = body(upto)
  <2> HIDE DEF body
  <2> QED BY <1>6
<1>8. Subsequence(s, positions) = upto[Len(s)]
  BY Zenon DEF Subsequence
<1> HIDE DEF upto
<1>9. \A i \in 0 .. Len(s) : upto[i] = f[i]
  <2> DEFINE T == {i \in 0 .. Len(s) : upto[i] = f[i]}
  <2>1. 0 \in T
    BY <1>3, <1>4, <1>7 DEF Recurs
  <2>2. ASSUME NEW i \in 1 .. Len(s), i - 1 \in T PROVE i \in T
    <3>1. upto[i] = IF i \in positions THEN Append(upto[i - 1], s[i]) ELSE upto[i - 1]
      <4>1. i \in 0 .. Len(s) /\ i # 0
        BY <1>3
      <4> QED BY <4>1, <1>7
    <3>2. i \in 0 .. Len(s)
      BY <1>3
    <3> QED BY <2>2, <3>1, <3>2, <1>5
  <2>3. T = 0 .. Len(s)
    <3> HIDE DEF T
    <3> QED BY <1>3, <2>1, <2>2, InductionUpTo DEF T
  <2> QED BY <2>3
<1> QED BY <1>3, <1>4, <1>5, <1>8, <1>9 DEF Recurs


\* h names the positions of s whose members make up sub, in order.
Selects(h, sub, s, positions) ==
  /\ h \in [1 .. Len(sub) -> positions]
  /\ \A j, k \in 1 .. Len(sub) : j < k => h[j] < h[k]
  /\ \A i \in positions : \E k \in 1 .. Len(sub) : h[k] = i
  /\ \A k \in 1 .. Len(sub) : sub[k] = s[h[k]]

\* A subsequence has the members at the chosen positions, in order.
LEMMA SubsequenceSelects ==
  ASSUME NEW S, NEW s \in Seq(S), NEW positions \in SUBSET DOMAIN s
  PROVE  /\ Subsequence(s, positions) \in Seq(S)
         /\ \E h : Selects(h, Subsequence(s, positions), s, positions)
<1>0. Len(s) \in Nat /\ DOMAIN s = 1 .. Len(s)
  OBVIOUS
<1>1. PICK f \in [0 .. Len(s) -> Seq(S)] :
        /\ f[0] = <<>> /\ Subsequence(s, positions) = f[Len(s)]
        /\ \A i \in 1 .. Len(s) : f[i] = IF i \in positions THEN Append(f[i - 1], s[i]) ELSE f[i - 1]
  BY SubsequenceStep
<1> DEFINE Done(i) == \E h : Selects(h, f[i], s, positions \cap (1 .. i))
           T == {i \in 0 .. Len(s) : Done(i)}
<1>2. Done(0)
  <2> DEFINE h == [k \in {} |-> 0]
  <2>0. Len(<<>>) = 0 /\ 1 .. 0 = {}
    OBVIOUS
  <2>1. Selects(h, <<>>, s, positions \cap (1 .. 0))
    BY <2>0 DEF Selects
  <2> QED BY <2>1, <1>1
<1>3. ASSUME NEW i \in 1 .. Len(s), Done(i - 1) PROVE Done(i)
  <2>0. i - 1 \in 0 .. Len(s) /\ f[i - 1] \in Seq(S) /\ i \in 0 .. Len(s)
    BY <1>0
  <2>1. PICK h : Selects(h, f[i - 1], s, positions \cap (1 .. i - 1))
    BY <1>3
  <2>2. CASE i \notin positions
    <3>1. f[i] = f[i - 1]
      BY <1>1, <2>2
    <3>2. positions \cap (1 .. i) = positions \cap (1 .. i - 1)
      BY <2>2, <1>0
    <3> QED BY <2>1, <3>1, <3>2
  <2>3. CASE i \in positions
    <3> DEFINE m == Len(f[i - 1])
               g == [k \in 1 .. m + 1 |-> IF k = m + 1 THEN i ELSE h[k]]
    <3>1. f[i] = Append(f[i - 1], s[i])
      BY <1>1, <2>3
    <3>2. /\ m \in Nat /\ Len(f[i]) = m + 1 /\ f[i][m + 1] = s[i]
          /\ \A k \in 1 .. m : f[i][k] = f[i - 1][k]
      BY <2>0, <3>1, <1>0
    <3>3. /\ h \in [1 .. m -> positions \cap (1 .. i - 1)]
          /\ \A j, k \in 1 .. m : j < k => h[j] < h[k]
          /\ \A p \in positions \cap (1 .. i - 1) : \E k \in 1 .. m : h[k] = p
          /\ \A k \in 1 .. m : f[i - 1][k] = s[h[k]]
      BY <2>1 DEF Selects
    <3> HIDE DEF m
    <3>4. \A k \in 1 .. m : g[k] = h[k] /\ g[k] \in positions /\ g[k] \in 1 .. i - 1
      BY <3>2, <3>3
    <3>5. g[m + 1] = i
      BY <3>2
    <3>6. \A k \in 1 .. m + 1 : k \in 1 .. m \/ k = m + 1
      BY <3>2
    <3>7. g \in [1 .. m + 1 -> positions \cap (1 .. i)]
      <4>1. \A k \in 1 .. m + 1 : g[k] \in positions \cap (1 .. i)
        <5> HIDE DEF g
        <5> QED BY <3>4, <3>5, <3>6, <2>3
      <4>2. g = [k \in 1 .. m + 1 |-> g[k]]
        OBVIOUS
      <4> HIDE DEF g
      <4> QED BY <4>1, <4>2
    <3> HIDE DEF g
    <3>8. \A j, k \in 1 .. m + 1 : j < k => g[j] < g[k]
      <4> SUFFICES ASSUME NEW j \in 1 .. m + 1, NEW k \in 1 .. m + 1, j < k PROVE g[j] < g[k]
        OBVIOUS
      <4>1. j \in 1 .. m
        BY <3>2
      <4>2. CASE k = m + 1
        BY <4>1, <4>2, <3>4, <3>5
      <4>3. CASE k \in 1 .. m
        BY <4>1, <4>3, <3>3, <3>4
      <4> QED BY <4>2, <4>3, <3>6
    <3>9. \A p \in positions \cap (1 .. i) : \E k \in 1 .. m + 1 : g[k] = p
      <4> SUFFICES ASSUME NEW p \in positions \cap (1 .. i) PROVE \E k \in 1 .. m + 1 : g[k] = p
        OBVIOUS
      <4>1. CASE p = i
        <5>1. m + 1 \in 1 .. m + 1
          BY <3>2
        <5> QED BY <4>1, <3>5, <5>1
      <4>2. CASE p # i
        <5>1. p \in positions \cap (1 .. i - 1)
          BY <4>2
        <5>2. PICK k \in 1 .. m : h[k] = p
          BY <5>1, <3>3
        <5>3. k \in 1 .. m + 1
          BY <3>2
        <5> QED BY <5>2, <5>3, <3>4
      <4> QED BY <4>1, <4>2
    <3>10. \A k \in 1 .. m + 1 : f[i][k] = s[g[k]]
      BY <3>2, <3>3, <3>4, <3>5, <3>6
    <3>11. Selects(g, f[i], s, positions \cap (1 .. i))
      BY <3>2, <3>7, <3>8, <3>9, <3>10 DEF Selects
    <3> QED BY <3>11
  <2> QED BY <2>2, <2>3
<1>4. T = 0 .. Len(s)
  <2>1. 0 \in T /\ \A i \in 1 .. Len(s) : i - 1 \in T => i \in T
    <3> HIDE DEF Done
    <3> QED BY <1>0, <1>2, <1>3
  <2>2. T \subseteq 0 .. Len(s)
    OBVIOUS
  <2> HIDE DEF T
  <2> QED BY <1>0, <2>1, <2>2, InductionUpTo
<1>5. Done(Len(s)) /\ positions \cap (1 .. Len(s)) = positions
  <2>1. Len(s) \in T
    <3> HIDE DEF T
    <3> QED BY <1>4, <1>0
  <2> HIDE DEF Done
  <2> QED BY <2>1, <1>0
<1>6. f[Len(s)] \in Seq(S)
  BY <1>0
<1> QED BY <1>1, <1>5, <1>6

\* Selected has the entries with the attributes asked for, in the order of the list.
LEMMA SelectedIs ==
  ASSUME NEW list \in Seq(RemoteEntry), InOrder(list), NEW localFlags, NEW remoteFlags
  PROVE  LET sub == Selected(list, localFlags, remoteFlags)
         IN  /\ sub \in Seq(RemoteEntry) /\ InOrder(sub)
             /\ ToSet(sub) = {e \in ToSet(list) : e.pair.attribute \in localFlags /\ e.attribute \in remoteFlags}
<1> DEFINE positions == {i \in DOMAIN list : /\ list[i].pair.attribute \in localFlags
                                             /\ list[i].attribute \in remoteFlags}
           sub == Selected(list, localFlags, remoteFlags)
<1>1. sub = Subsequence(list, positions) /\ positions \in SUBSET DOMAIN list
  BY DEF Selected
<1> HIDE DEF sub
<1>2. sub \in Seq(RemoteEntry) /\ \E h : Selects(h, sub, list, positions)
  <2> HIDE DEF positions
  <2> QED BY <1>1, SubsequenceSelects
<1>3. PICK h : Selects(h, sub, list, positions)
  BY <1>2
<1>4. DOMAIN sub = 1 .. Len(sub)
  BY <1>2
<1>5. /\ \A k \in DOMAIN sub : h[k] \in positions /\ sub[k] = list[h[k]]
      /\ \A j, k \in DOMAIN sub : j < k => h[j] < h[k]
      /\ \A i \in positions : \E k \in DOMAIN sub : h[k] = i
  <2> HIDE DEF positions
  <2> QED BY <1>3, <1>4 DEF Selects
<1>6. InOrder(sub)
  <2>1. ASSUME NEW j \in DOMAIN sub, NEW k \in DOMAIN sub, j < k PROVE Precedes(sub[j], sub[k])
    <3>1. h[j] \in DOMAIN list /\ h[k] \in DOMAIN list /\ h[j] < h[k] /\ sub[j] = list[h[j]] /\ sub[k] = list[h[k]]
      BY <1>5, <2>1
    <3> QED BY <3>1 DEF InOrder
  <2> QED BY <2>1 DEF InOrder
<1>7. ToSet(sub) = {list[i] : i \in positions}
  <2> HIDE DEF positions
  <2> QED BY <1>5 DEF ToSet
<1>8. {list[i] : i \in positions} = {e \in ToSet(list) : e.pair.attribute \in localFlags /\ e.attribute \in remoteFlags}
  BY DEF ToSet
<1> QED BY <1>2, <1>6, <1>7, <1>8 DEF sub

-----------------------------------------------------------------------------
(* Two lists of the same things in the same order.                         *)

Lex(a, b) == a[1] < b[1] \/ (a[1] = b[1] /\ a[2] < b[2])

\* The order of keys.
LEMMA LexOrder ==
  ASSUME NEW p \in Int \X Int, NEW q \in Int \X Int, NEW r \in Int \X Int
  PROVE  ~Lex(p, p) /\ ~(Lex(p, q) /\ ~Lex(p, r) /\ ~Lex(r, q))
<1>1. p[1] \in Int /\ p[2] \in Int /\ q[1] \in Int /\ q[2] \in Int /\ r[1] \in Int /\ r[2] \in Int
  OBVIOUS
<1>2. ASSUME NEW a \in Int, NEW b \in Int, NEW c \in Int, NEW d \in Int, NEW e \in Int, NEW f \in Int
      PROVE  /\ ~(a < a \/ (a = a /\ b < b))
             /\ ~(/\ a < c \/ (a = c /\ b < d)
                  /\ ~(a < e \/ (a = e /\ b < f))
                  /\ ~(e < c \/ (e = c /\ f < d)))
  OBVIOUS
<1> QED BY <1>1, <1>2 DEF Lex

\* The order of two keys, part by part.
LEMMA LexPairs ==
  \A a, b, c, d \in Int : a <= c /\ (a = c => b <= d) => ~Lex(<<c, d>>, <<a, b>>)
BY DEF Lex

\* The keys of n entries in order.
Keys(x, n) == x \in [1 .. n -> Int \X Int] /\ \A i, j \in 1 .. n : i < j => ~Lex(x[j], x[i])

\* If all of x is in y, the k-th of x is not before the k-th of y.
LEMMA NotBefore ==
  ASSUME NEW n \in Nat, NEW x, Keys(x, n), NEW y, Keys(y, n),
         NEW a \in [1 .. n -> 1 .. n], \A i, j \in 1 .. n : a[i] = a[j] => i = j,
         \A i \in 1 .. n : y[a[i]] = x[i],
         NEW k \in 1 .. n
  PROVE  ~Lex(x[k], y[k])
<1> SUFFICES ASSUME Lex(x[k], y[k]) PROVE FALSE
  OBVIOUS
<1>0. /\ x \in [1 .. n -> Int \X Int] /\ \A i, j \in 1 .. n : i < j => ~Lex(x[j], x[i])
      /\ y \in [1 .. n -> Int \X Int] /\ \A i, j \in 1 .. n : i < j => ~Lex(y[j], y[i])
  BY DEF Keys
<1>1. ASSUME NEW i \in 1 .. k PROVE a[i] \in 1 .. k - 1
  <2>1. /\ i \in 1 .. n /\ a[i] \in 1 .. n /\ y[a[i]] = x[i]
        /\ x[k] \in Int \X Int /\ x[i] \in Int \X Int /\ y[k] \in Int \X Int
    <3>1. i \in 1 .. n
      OBVIOUS
    <3>2. a[i] \in 1 .. n /\ y[a[i]] = x[i]
      BY <3>1
    <3>3. x[k] \in Int \X Int /\ x[i] \in Int \X Int
      BY <1>0, <3>1
    <3>4. y[k] \in Int \X Int
      BY <1>0
    <3> QED BY <3>1, <3>2, <3>3, <3>4
  <2> HIDE DEF Lex
  <2>2. ~Lex(x[k], x[i])
    <3>1. CASE i = k
      BY <2>1, <3>1, LexOrder
    <3>2. CASE i # k
      <4>1. i < k
        BY <3>2
      <4> QED BY <1>0, <2>1, <4>1
    <3> QED BY <3>1, <3>2
  <2>3. ~(a[i] >= k)
    <3> SUFFICES ASSUME a[i] >= k PROVE FALSE
      OBVIOUS
    <3>1. ~Lex(x[i], y[k])
      <4>1. CASE a[i] = k
        BY <2>1, <4>1, LexOrder
      <4>2. CASE a[i] # k
        <5>1. k < a[i] /\ k \in 1 .. n
          BY <2>1, <4>2
        <5> QED BY <1>0, <2>1, <5>1
      <4> QED BY <4>1, <4>2
    <3> QED BY <2>1, <2>2, <3>1, LexOrder
  <2> QED BY <2>1, <2>3
<1> DEFINE f == [i \in 1 .. k |-> a[i]]
<1>2. f \in [1 .. k -> 1 .. k - 1] /\ \A i, j \in 1 .. k : f[i] = f[j] => i = j
  <2>1. \A i \in 1 .. k : f[i] = a[i] /\ i \in 1 .. n
    OBVIOUS
  <2>2. \A i \in 1 .. k : f[i] \in 1 .. k - 1
    BY <1>1, <2>1
  <2>3. f = [i \in 1 .. k |-> f[i]]
    OBVIOUS
  <2> HIDE DEF f
  <2> QED BY <2>1, <2>2, <2>3
<1> HIDE DEF f
<1>3. f \in Injection(1 .. k, 1 .. k - 1)
  BY <1>2 DEF Injection, IsInjective
<1>4. Cardinality(1 .. k) <= Cardinality(1 .. k - 1) /\ Cardinality(1 .. k) = k /\ Cardinality(1 .. k - 1) = k - 1
  <2>1. IsFiniteSet(1 .. k - 1) /\ Cardinality(1 .. k) = k /\ Cardinality(1 .. k - 1) = k - 1
    <3>1. 1 \in Int /\ k \in Int /\ k - 1 \in Int /\ ~(1 > k) /\ k - 1 + 1 = k
      OBVIOUS
    <3>2. IsFiniteSet(1 .. k - 1) /\ Cardinality(1 .. k) = k
      BY <3>1, FS_Interval
    <3>3. Cardinality(1 .. k - 1) = IF 1 > k - 1 THEN 0 ELSE k - 1 - 1 + 1
      BY <3>1, FS_Interval
    <3> QED BY <3>1, <3>2, <3>3
  <2> QED BY <1>3, <2>1, FS_Injection
<1> QED BY <1>4

\* An entry on one process and one on the other that are about the same pair on either side.
Mirrored(e, f) ==
  f.pair.global = e.pair.global /\ f.attribute = e.pair.attribute /\ f.pair.attribute = e.attribute

\* Entries with the same like have the same place in the order.
LEMMA OneLike ==
  ASSUME NEW a \in RemoteEntry, NEW b \in RemoteEntry, NEW f, Mirrored(a, f), Mirrored(b, f)
  PROVE  ~Precedes(a, b)
<1>1. a.pair.global = b.pair.global /\ a.attribute = b.attribute /\ a.pair.attribute = b.pair.attribute
  BY DEF Mirrored
<1>2. b.attribute \in Int /\ b.pair.global \in Int /\ b.pair.attribute \in Int
  BY DEF RemoteEntry, Pair
<1> QED BY <1>1, <1>2 DEF Precedes

\* Every entry of set has its like in other.
Mirrors(set, other) == \A e \in set : \E f \in other : Mirrored(e, f)

\* The positions of the likes.
LEMMA Likes ==
  ASSUME NEW u \in Seq(RemoteEntry), InOrder(u), NEW v \in Seq(RemoteEntry), Mirrors(ToSet(u), ToSet(v))
  PROVE  \E a \in [1 .. Len(u) -> 1 .. Len(v)] :
           /\ \A i, j \in 1 .. Len(u) : a[i] = a[j] => i = j
           /\ \A i \in 1 .. Len(u) : Mirrored(u[i], v[a[i]])
<1> DEFINE a == [i \in 1 .. Len(u) |-> CHOOSE j \in 1 .. Len(v) : Mirrored(u[i], v[j])]
<1>1. Len(u) \in Nat /\ Len(v) \in Nat /\ DOMAIN u = 1 .. Len(u) /\ DOMAIN v = 1 .. Len(v)
  OBVIOUS
<1>2. ASSUME NEW i \in 1 .. Len(u) PROVE \E j \in 1 .. Len(v) : Mirrored(u[i], v[j])
  BY <1>1 DEF Mirrors, ToSet
<1>3. \A i \in 1 .. Len(u) : a[i] \in 1 .. Len(v) /\ Mirrored(u[i], v[a[i]])
  BY <1>2
<1>4. a \in [1 .. Len(u) -> 1 .. Len(v)]
  BY <1>3
<1> HIDE DEF a
<1>5. ASSUME NEW i \in 1 .. Len(u), NEW j \in 1 .. Len(u), a[i] = a[j] PROVE i = j
  <2>1. Mirrored(u[i], v[a[i]]) /\ Mirrored(u[j], v[a[i]])
    BY <1>3, <1>5
  <2>2. u[i] \in RemoteEntry /\ u[j] \in RemoteEntry
    BY <1>1
  <2>3. ~Precedes(u[i], u[j]) /\ ~Precedes(u[j], u[i])
    BY <2>1, <2>2, OneLike
  <2>4. ~(i < j) /\ ~(j < i)
    BY <1>1, <2>3 DEF InOrder
  <2> QED BY <2>4
<1> QED BY <1>3, <1>4, <1>5

\* The keys of entries are those of their likes.
Alike(u, v, x, y, n) == \A i, j \in 1 .. n : Mirrored(u[i], v[j]) => x[i] = y[j]

\* A key of the entries of a list in order is nowhere before that of the list on the
\* other side.
LEMMA KeysNotBefore ==
  ASSUME NEW u \in Seq(RemoteEntry), InOrder(u), NEW v \in Seq(RemoteEntry), Mirrors(ToSet(u), ToSet(v)),
         NEW n \in Nat, Len(u) = n, Len(v) = n,
         NEW x, Keys(x, n), NEW y, Keys(y, n), Alike(u, v, x, y, n),
         NEW k \in 1 .. n
  PROVE  ~Lex(x[k], y[k])
<1>1. \E a \in [1 .. Len(u) -> 1 .. Len(v)] :
        /\ \A i, j \in 1 .. Len(u) : a[i] = a[j] => i = j
        /\ \A i \in 1 .. Len(u) : Mirrored(u[i], v[a[i]])
  BY Likes
<1>0. PICK a \in [1 .. n -> 1 .. n] :
        /\ \A i, j \in 1 .. n : a[i] = a[j] => i = j
        /\ \A i \in 1 .. n : Mirrored(u[i], v[a[i]])
  BY <1>1, Zenon
<1>2. \A i \in 1 .. n : y[a[i]] = x[i]
  BY <1>0 DEF Alike
<1> QED BY <1>0, <1>2, NotBefore

\* The lengths of lists that mirror each other.
LEMMA NoLonger ==
  ASSUME NEW u \in Seq(RemoteEntry), InOrder(u), NEW v \in Seq(RemoteEntry), Mirrors(ToSet(u), ToSet(v))
  PROVE  Len(u) <= Len(v)
<1>1. PICK a \in [1 .. Len(u) -> 1 .. Len(v)] : \A i, j \in 1 .. Len(u) : a[i] = a[j] => i = j
  BY Likes
<1>2. Len(u) \in Nat /\ Len(v) \in Nat
  OBVIOUS
<1>3. a \in Injection(1 .. Len(u), 1 .. Len(v))
  BY <1>1 DEF Injection, IsInjective
<1>4. IsFiniteSet(1 .. Len(v)) /\ Cardinality(1 .. Len(v)) = Len(v) /\ Cardinality(1 .. Len(u)) = Len(u)
  <2>1. \A n \in Nat : IsFiniteSet(1 .. n) /\ Cardinality(1 .. n) = n
    <3> SUFFICES ASSUME NEW n \in Nat PROVE IsFiniteSet(1 .. n) /\ Cardinality(1 .. n) = n
      OBVIOUS
    <3>1. IsFiniteSet(1 .. n) /\ Cardinality(1 .. n) = IF 1 > n THEN 0 ELSE n - 1 + 1
      BY FS_Interval
    <3> QED BY <3>1
  <2> QED BY <1>2, <2>1
<1>5. Cardinality(1 .. Len(u)) <= Cardinality(1 .. Len(v))
  BY <1>3, <1>4, FS_Injection
<1> QED BY <1>4, <1>5

\* So the keys agree at every position.
LEMMA SameKeys ==
  ASSUME NEW u \in Seq(RemoteEntry), InOrder(u), NEW v \in Seq(RemoteEntry), InOrder(v),
         Mirrors(ToSet(u), ToSet(v)), Mirrors(ToSet(v), ToSet(u)),
         NEW n \in Nat, Len(u) = n, Len(v) = n,
         NEW x, Keys(x, n), NEW y, Keys(y, n), Alike(u, v, x, y, n),
         NEW k \in 1 .. n
  PROVE  x[k][1] = y[k][1] /\ x[k][2] = y[k][2]
<1>1. ~Lex(x[k], y[k])
  <2> HIDE DEF Lex
  <2> QED BY KeysNotBefore
<1>2. ~Lex(y[k], x[k])
  <2>1. Alike(v, u, y, x, n)
    BY DEF Mirrored, Alike
  <2> HIDE DEF Lex
  <2> QED BY <2>1, KeysNotBefore
<1>3. x[k] \in Int \X Int /\ y[k] \in Int \X Int
  BY DEF Keys
<1> QED BY <1>1, <1>2, <1>3 DEF Lex

\* What comes in order, key by key.
InTurn(a, b) ==
  /\ a.pair.global <= b.pair.global
  /\ a.pair.global = b.pair.global /\ a.pair.attribute = b.pair.attribute => a.attribute <= b.attribute
  /\ a.pair.global = b.pair.global /\ a.attribute = b.attribute => a.pair.attribute <= b.pair.attribute

LEMMA PrecedesInTurn ==
  ASSUME NEW a \in RemoteEntry, NEW b \in RemoteEntry, Precedes(a, b)
  PROVE  InTurn(a, b)
<1>1. /\ a.attribute \in Int /\ a.pair.global \in Int /\ a.pair.attribute \in Int
      /\ b.attribute \in Int /\ b.pair.global \in Int /\ b.pair.attribute \in Int
  BY DEF RemoteEntry, Pair
<1> QED BY <1>1 DEF Precedes, InTurn

\* Two lists that mirror each other fit together.
LEMMA FitTogether ==
  ASSUME NEW u \in Seq(RemoteEntry), InOrder(u), NEW v \in Seq(RemoteEntry), InOrder(v),
         Mirrors(ToSet(u), ToSet(v)), Mirrors(ToSet(v), ToSet(u))
  PROVE  /\ Len(u) = Len(v)
         /\ \A k \in DOMAIN u : u[k].pair.global = v[k].pair.global
         /\ (\E c : \A e \in ToSet(u) : e.pair.attribute = c) => \A k \in DOMAIN u : SamePairs(u[k], v[k])
         /\ (\E c : \A e \in ToSet(u) : e.attribute = c) => \A k \in DOMAIN u : SamePairs(u[k], v[k])
<1> DEFINE n == Len(u)
<1>1. n \in Nat /\ DOMAIN u = 1 .. n /\ DOMAIN v = 1 .. n /\ Len(v) = n /\ Len(u) = n
  <2>1. Len(u) <= Len(v) /\ Len(v) <= Len(u)
    BY NoLonger
  <2> QED BY <2>1
<1>2. \A i \in 1 .. n : /\ u[i] \in RemoteEntry /\ u[i].attribute \in Int
                        /\ u[i].pair.global \in Int /\ u[i].pair.attribute \in Int
                        /\ v[i] \in RemoteEntry /\ v[i].attribute \in Int
                        /\ v[i].pair.global \in Int /\ v[i].pair.attribute \in Int
  <2>1. \A e \in RemoteEntry : e.attribute \in Int /\ e.pair.global \in Int /\ e.pair.attribute \in Int
    BY DEF RemoteEntry, Pair
  <2>2. \A i \in 1 .. n : u[i] \in RemoteEntry /\ v[i] \in RemoteEntry
    BY <1>1
  <2> HIDE DEF n
  <2> QED BY <2>1, <2>2
<1>3. \A i, j \in 1 .. n : i < j => Precedes(u[i], u[j]) /\ Precedes(v[i], v[j])
  BY <1>1 DEF InOrder
<1>4. \A i \in 1 .. n : u[i] \in ToSet(u) /\ \E j \in 1 .. n : Mirrored(u[j], v[i])
  <2> HIDE DEF n
  <2>1. \A i \in 1 .. n : u[i] \in ToSet(u) /\ v[i] \in ToSet(v)
    BY <1>1 DEF ToSet
  <2>2. \A i \in 1 .. n : \E f \in ToSet(u) : Mirrored(v[i], f)
    BY <2>1 DEF Mirrors
  <2>3. \A i \in 1 .. n : \E j \in 1 .. n : Mirrored(v[i], u[j])
    BY <1>1, <2>2 DEF ToSet
  <2> QED BY <2>1, <2>3 DEF Mirrored
<1>5. \A i, j \in 1 .. n : i < j => InTurn(u[i], u[j]) /\ InTurn(v[i], v[j])
  <2> HIDE DEF n
  <2> QED BY <1>2, <1>3, PrecedesInTurn
<1> HIDE DEF n
<1>10. ASSUME NEW f \in [1 .. n -> Int], NEW g \in [1 .. n -> Int],
             \A i, j \in 1 .. n : i < j /\ u[i].pair.global = u[j].pair.global => f[i] <= f[j],
             \A i, j \in 1 .. n : i < j /\ v[i].pair.global = v[j].pair.global => g[i] <= g[j],
             \A i, j \in 1 .. n : Mirrored(u[i], v[j]) => f[i] = g[j],
             NEW k \in 1 .. n
      PROVE  u[k].pair.global = v[k].pair.global /\ f[k] = g[k]
  <2> DEFINE X == [i \in 1 .. n |-> <<u[i].pair.global, f[i]>>]
             Y == [i \in 1 .. n |-> <<v[i].pair.global, g[i]>>]
  <2>1. X \in [1 .. n -> Int \X Int] /\ Y \in [1 .. n -> Int \X Int]
    BY <1>2
  <2>2. ASSUME NEW i \in 1 .. n, NEW j \in 1 .. n, i < j PROVE ~Lex(X[j], X[i]) /\ ~Lex(Y[j], Y[i])
    <3>1. /\ u[i].pair.global <= u[j].pair.global /\ v[i].pair.global <= v[j].pair.global
          /\ u[i].pair.global = u[j].pair.global => f[i] <= f[j]
          /\ v[i].pair.global = v[j].pair.global => g[i] <= g[j]
      BY <1>5, <1>10, <2>2 DEF InTurn
    <3>2. f[i] \in Int /\ f[j] \in Int /\ g[i] \in Int /\ g[j] \in Int
      OBVIOUS
    <3>t. /\ u[i].pair.global \in Int /\ u[j].pair.global \in Int
          /\ v[i].pair.global \in Int /\ v[j].pair.global \in Int
      BY <1>2
    <3> HIDE DEF Lex
    <3>3. ~Lex(<<u[j].pair.global, f[j]>>, <<u[i].pair.global, f[i]>>)
      BY <3>1, <3>2, <3>t, LexPairs
    <3>4. ~Lex(<<v[j].pair.global, g[j]>>, <<v[i].pair.global, g[i]>>)
      BY <3>1, <3>2, <3>t, LexPairs
    <3> HIDE DEF Lex
    <3> QED BY <3>3, <3>4
  <2>3. \A i, j \in 1 .. n : Mirrored(u[i], v[j]) => X[i] = Y[j]
    BY <1>10 DEF Mirrored
  <2>4. /\ X[k][1] = u[k].pair.global /\ X[k][2] = f[k]
        /\ Y[k][1] = v[k].pair.global /\ Y[k][2] = g[k]
    OBVIOUS
  <2> HIDE DEF X, Y, Lex
  <2>5. X[k][1] = Y[k][1] /\ X[k][2] = Y[k][2]
    <3>1. Keys(X, n) /\ Keys(Y, n) /\ Alike(u, v, X, Y, n)
      BY <2>1, <2>2, <2>3 DEF Keys, Alike
    <3> QED BY <1>1, <3>1, SameKeys
  <2> QED BY <2>4, <2>5
<1>6. \A k \in 1 .. n : u[k].pair.global = v[k].pair.global
  <2> DEFINE f == [i \in 1 .. n |-> 0]
  <2>1. f \in [1 .. n -> Int] /\ \A i, j \in 1 .. n : f[i] <= f[j] /\ f[i] = f[j]
    OBVIOUS
  <2> HIDE DEF f
  <2> QED BY <1>10, <2>1
<1>7. ASSUME NEW c, \A e \in ToSet(u) : e.pair.attribute = c, NEW k \in 1 .. n PROVE SamePairs(u[k], v[k])
  <2> DEFINE f == [i \in 1 .. n |-> u[i].attribute]
             g == [i \in 1 .. n |-> v[i].pair.attribute]
  <2>1. \A i \in 1 .. n : u[i].pair.attribute = c /\ v[i].attribute = c
    BY <1>4, <1>7 DEF Mirrored
  <2>2. f \in [1 .. n -> Int] /\ g \in [1 .. n -> Int]
    BY <1>2
  <2>3. \A i \in 1 .. n : f[i] = u[i].attribute /\ g[i] = v[i].pair.attribute
    OBVIOUS
  <2> HIDE DEF f, g
  <2>4. ASSUME NEW i \in 1 .. n, NEW j \in 1 .. n, i < j
        PROVE  /\ u[i].pair.global = u[j].pair.global => f[i] <= f[j]
               /\ v[i].pair.global = v[j].pair.global => g[i] <= g[j]
    <3>1. InTurn(u[i], u[j]) /\ InTurn(v[i], v[j])
      BY <1>5, <2>4
    <3>2. u[i].pair.global = u[j].pair.global => f[i] <= f[j]
      BY <2>1, <2>3, <3>1 DEF InTurn
    <3>3. v[i].pair.global = v[j].pair.global => g[i] <= g[j]
      BY <2>1, <2>3, <3>1 DEF InTurn
    <3> QED BY <3>2, <3>3
  <2>5. \A i, j \in 1 .. n : Mirrored(u[i], v[j]) => f[i] = g[j]
    BY <2>3 DEF Mirrored
  <2>6. f[k] = g[k]
    BY <1>10, <2>2, <2>4, <2>5
  <2> QED BY <2>1, <2>3, <2>6 DEF SamePairs
<1>8. ASSUME NEW c, \A e \in ToSet(u) : e.attribute = c, NEW k \in 1 .. n PROVE SamePairs(u[k], v[k])
  <2> DEFINE f == [i \in 1 .. n |-> u[i].pair.attribute]
             g == [i \in 1 .. n |-> v[i].attribute]
  <2>1. \A i \in 1 .. n : u[i].attribute = c /\ v[i].pair.attribute = c
    BY <1>4, <1>8 DEF Mirrored
  <2>2. f \in [1 .. n -> Int] /\ g \in [1 .. n -> Int]
    BY <1>2
  <2>3. \A i \in 1 .. n : f[i] = u[i].pair.attribute /\ g[i] = v[i].attribute
    OBVIOUS
  <2> HIDE DEF f, g
  <2>4. ASSUME NEW i \in 1 .. n, NEW j \in 1 .. n, i < j
        PROVE  /\ u[i].pair.global = u[j].pair.global => f[i] <= f[j]
               /\ v[i].pair.global = v[j].pair.global => g[i] <= g[j]
    <3>1. InTurn(u[i], u[j]) /\ InTurn(v[i], v[j])
      BY <1>5, <2>4
    <3>2. u[i].pair.global = u[j].pair.global => f[i] <= f[j]
      BY <2>1, <2>3, <3>1 DEF InTurn
    <3>3. v[i].pair.global = v[j].pair.global => g[i] <= g[j]
      BY <2>1, <2>3, <3>1 DEF InTurn
    <3> QED BY <3>2, <3>3
  <2>5. \A i, j \in 1 .. n : Mirrored(u[i], v[j]) => f[i] = g[j]
    BY <2>3 DEF Mirrored
  <2>6. f[k] = g[k]
    BY <1>10, <2>2, <2>4, <2>5
  <2> QED BY <2>1, <2>3, <2>6 DEF SamePairs
<1>9. DOMAIN u = 1 .. n /\ Len(u) = Len(v)
  BY <1>1 DEF n
<1> QED BY <1>6, <1>7, <1>8, <1>9

\* The products of two sets, each taken on either side, mirror each other.
LEMMA ProductMirrors ==
  ASSUME NEW S, NEW T, NEW self \in BOOLEAN
  PROVE  Mirrors(Product(S, T, self), Product(T, S, self))
<1> SUFFICES ASSUME NEW e \in Product(S, T, self) PROVE \E f \in Product(T, S, self) : Mirrored(e, f)
  BY DEF Mirrors
<1>1. PICK a \in ToSet(S), b \in ToSet(T) :
        /\ a.global = b.global /\ (self => a.attribute # b.attribute)
        /\ e = RemoteIndex(a.attribute, b)
  BY DEF Product
<1>2. RemoteIndex(b.attribute, a) \in Product(T, S, self)
  <2>1. <<b, a>> \in {other \in ToSet(T) \X ToSet(S) :
                        /\ other[1].global = other[2].global
                        /\ self => other[1].attribute # other[2].attribute}
    BY <1>1
  <2> QED BY <2>1 DEF Product
<1>3. Mirrored(e, RemoteIndex(b.attribute, a))
  BY <1>1 DEF Mirrored, RemoteIndex
<1> QED BY <1>2, <1>3

\* What is selected of lists that mirror each other does so too.
LEMMA SelectedMirrors ==
  ASSUME NEW u \in Seq(RemoteEntry), InOrder(u), NEW v \in Seq(RemoteEntry), InOrder(v),
         Mirrors(ToSet(u), ToSet(v)), NEW F, NEW G
  PROVE  Mirrors(ToSet(Selected(u, F, G)), ToSet(Selected(v, G, F)))
<1>1. ToSet(Selected(u, F, G)) = {e \in ToSet(u) : e.pair.attribute \in F /\ e.attribute \in G}
  BY SelectedIs
<1>2. ToSet(Selected(v, G, F)) = {e \in ToSet(v) : e.pair.attribute \in G /\ e.attribute \in F}
  BY SelectedIs
<1> QED BY <1>1, <1>2 DEF Mirrors, Mirrored

\* What is sent and what is expected, of lists that mirror each other.
LEMMA InterfacesOfMirrors ==
  ASSUME NEW u \in Seq(RemoteEntry), InOrder(u), NEW v \in Seq(RemoteEntry), InOrder(v),
         Mirrors(ToSet(u), ToSet(v)), Mirrors(ToSet(v), ToSet(u)), NEW sourceFlags, NEW destFlags
  PROVE  LET sent == SendInterface(u, sourceFlags, destFlags)
             expected == ReceiveInterface(v, sourceFlags, destFlags)
         IN /\ Len(sent) = Len(expected)
            /\ \A k \in DOMAIN sent :
                 /\ sent[k].pair.global = expected[k].pair.global
                 /\ Single(sourceFlags) \/ Single(destFlags) => SamePairs(sent[k], expected[k])
<1> DEFINE sent == Selected(u, sourceFlags, destFlags)
           expected == Selected(v, destFlags, sourceFlags)
<1>1. sent = SendInterface(u, sourceFlags, destFlags) /\ expected = ReceiveInterface(v, sourceFlags, destFlags)
  BY DEF SendInterface, ReceiveInterface
<1>2. /\ sent \in Seq(RemoteEntry) /\ InOrder(sent) /\ expected \in Seq(RemoteEntry) /\ InOrder(expected)
      /\ ToSet(sent) = {e \in ToSet(u) : e.pair.attribute \in sourceFlags /\ e.attribute \in destFlags}
  BY SelectedIs
<1>3. Mirrors(ToSet(sent), ToSet(expected)) /\ Mirrors(ToSet(expected), ToSet(sent))
  BY SelectedMirrors
<1>4. Single(sourceFlags) => \E c : \A e \in ToSet(sent) : e.pair.attribute = c
  BY <1>2 DEF Single
<1>5. Single(destFlags) => \E c : \A e \in ToSet(sent) : e.attribute = c
  BY <1>2 DEF Single
<1> HIDE DEF sent, expected
<1>6. /\ Len(sent) = Len(expected)
      /\ \A k \in DOMAIN sent : sent[k].pair.global = expected[k].pair.global
      /\ (\E c : \A e \in ToSet(sent) : e.pair.attribute = c) => \A k \in DOMAIN sent : SamePairs(sent[k], expected[k])
      /\ (\E c : \A e \in ToSet(sent) : e.attribute = c) => \A k \in DOMAIN sent : SamePairs(sent[k], expected[k])
  BY <1>2, <1>3, FitTogether
<1>7. Single(sourceFlags) \/ Single(destFlags) => \A k \in DOMAIN sent : SamePairs(sent[k], expected[k])
  BY <1>4, <1>5, <1>6
<1> QED BY <1>1, <1>6, <1>7

\* A rank learns of those that learn of it.
LEMMA InformedOfEachOther ==
  ASSUME TypeInv, RegularScenarios, RebuildInv, NEW p \in Rank, NEW q \in Rank, Built(p), Built(q)
  PROVE  q \in Informed(p) => p \in Informed(q)
<1>1. Informed(p) = Others(scenario, p) \cup Itself(scenario, p) /\ Informed(q) = Others(scenario, q) \cup Itself(scenario, q)
  BY BuiltLists
<1>2. CASE p = q
  BY <1>2
<1>3. CASE p # q
  <2>1. q \in Named(p) => p \in Named(q)
    BY NamedFacts
  <2>2. Named(p) = {} => Named(q) = {}
    BY NamedFacts DEF ByNeighbours
  <2>3. q \notin Itself(scenario, p)
    BY <1>3 DEF Itself
  <2> QED BY <1>1, <1>3, <2>1, <2>2, <2>3 DEF Others, Named
<1> QED BY <1>2, <1>3

\* What p sends to q and what q expects of p are about the same pairs.
LEMMA ListsMirror ==
  ASSUME TypeInv, RegularScenarios, RebuildInv, NEW p \in Rank, NEW q \in Rank, BuiltTogether(p, q)
  PROVE  LET u == ListsFor(p, q).send
             v == ListsFor(q, p).receive
         IN  /\ u \in Seq(RemoteEntry) /\ InOrder(u) /\ v \in Seq(RemoteEntry) /\ InOrder(v)
             /\ Mirrors(ToSet(u), ToSet(v)) /\ Mirrors(ToSet(v), ToSet(u))
<1> DEFINE n == synced[p].source
           all == publicIgnored[p]
           self == p = q /\ scenario.includeSelf
           D == DestAt(scenario, q, n, all)
           S == SourceAt(scenario, p, n, all)
<1>0. Built(p) /\ Built(q) /\ synced[q].source = n /\ publicIgnored[q] = all
  BY DEF BuiltTogether
<1>1. /\ Scenario(scenario) /\ Regular(scenario) /\ Program = scenario.program
      /\ n \in 1 .. ContentAfter(scenario, Len(scenario.program)) /\ all \in BOOLEAN
      /\ remoteIndices[p] = Listed(scenario, p, n, all, Informed(p))
      /\ remoteIndices[q] = Listed(scenario, q, n, all, Informed(q))
  BY <1>0, BuiltLists, AtPlace
<1>2. q \in Informed(p) <=> p \in Informed(q)
  BY <1>0, InformedOfEachOther
<1> HIDE DEF n, all
<1>3. ListsFor(p, q) = IF q \in Informed(p) THEN ListsOf(scenario, p, q, n, all) ELSE NoEntries
  BY <1>1 DEF ListsFor, Listed, NoEntries
<1>4. ListsFor(q, p) = IF p \in Informed(q) THEN ListsOf(scenario, q, p, n, all) ELSE NoEntries
  BY <1>1 DEF ListsFor, Listed, NoEntries
<1>5. CASE q \in Informed(p)
  <2>1. self \in BOOLEAN /\ (self <=> p = q /\ scenario.includeSelf) /\ (self <=> q = p /\ scenario.includeSelf)
    <3>1. Scenario(scenario)
      BY <1>1
    <3> QED BY <3>1 DEF Scenario
  <2> HIDE DEF self
  <2>2. Exact(ListsFor(p, q).send, Product(D, S, self))
    BY <1>1, <1>3, <1>5, <2>1, ListsOfAre
  <2>3. Exact(ListsFor(q, p).receive, Product(S, D, self))
    BY <1>1, <1>2, <1>4, <1>5, <2>1, ListsOfAre
  <2>4. Mirrors(Product(D, S, self), Product(S, D, self)) /\ Mirrors(Product(S, D, self), Product(D, S, self))
    BY <2>1, ProductMirrors
  <2> HIDE DEF D, S
  <2> QED BY <2>2, <2>3, <2>4 DEF Exact
<1>6. CASE q \notin Informed(p)
  <2>1. ListsFor(p, q).send = <<>> /\ ListsFor(q, p).receive = <<>>
    BY <1>2, <1>3, <1>4, <1>6 DEF NoEntries
  <2>2. <<>> \in Seq(RemoteEntry) /\ InOrder(<<>>) /\ ToSet(<<>>) = {}
    BY DEF InOrder, ToSet
  <2> QED BY <2>1, <2>2 DEF Mirrors
<1> QED BY <1>5, <1>6

\* The interfaces of any two processes that have built their lists in the same rebuild.
LEMMA MatchWhenBuilt == TypeInv /\ RegularScenarios /\ RebuildInv => InterfacesMatch
<1> SUFFICES ASSUME TypeInv, RegularScenarios, RebuildInv, NEW p \in Rank, NEW q \in Rank, BuiltTogether(p, q),
                    NEW sourceFlags, NEW destFlags
             PROVE  LET sent == Sent(p, q, sourceFlags, destFlags)
                        expected == Expected(p, q, sourceFlags, destFlags)
                    IN /\ Len(sent) = Len(expected)
                       /\ \A k \in DOMAIN sent :
                            /\ sent[k].pair.global = expected[k].pair.global
                            /\ Single(sourceFlags) \/ Single(destFlags) => SamePairs(sent[k], expected[k])
  BY DEF InterfacesMatch
<1> DEFINE u == ListsFor(p, q).send
           v == ListsFor(q, p).receive
<1>1. /\ u \in Seq(RemoteEntry) /\ InOrder(u) /\ v \in Seq(RemoteEntry) /\ InOrder(v)
      /\ Mirrors(ToSet(u), ToSet(v)) /\ Mirrors(ToSet(v), ToSet(u))
  BY ListsMirror
<1>2. /\ Sent(p, q, sourceFlags, destFlags) = SendInterface(u, sourceFlags, destFlags)
      /\ Expected(p, q, sourceFlags, destFlags) = ReceiveInterface(v, sourceFlags, destFlags)
  BY DEF Sent, Expected
<1> HIDE DEF u, v
<1> QED BY <1>1, <1>2, InterfacesOfMirrors

\* The interfaces built on two processes from the same rebuild fit together: as many
\* entries are sent as are expected, the k-th of the same global index, and with a single
\* attribute in one of the flag sets of the same pair on either side.
THEOREM InterfacesFit == ASSUME RegularScenarios PROVE Spec => []InterfacesMatch
<1>1. RegularScenarios
  OBVIOUS
<1>2. TypeInv /\ RebuildInv => InterfacesMatch
  BY MatchWhenBuilt
<1> QED BY <1>2, RebuildInvariant, TypeInvariant, PTL

=============================================================================
