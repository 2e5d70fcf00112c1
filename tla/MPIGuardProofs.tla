--------------------------- MODULE MPIGuardProofs ---------------------------
(***************************************************************************)
(* For every set of processes and every guarded program: the collectives   *)
(* of the guard pair up section by section, and an announced error stops   *)
(* every process in its section.                                           *)
(***************************************************************************)
EXTENDS MPIGuard, TLAPS

\* TypeOK is inductive once a process in a sum is known to be at a call.
SumAtCall == \A p \in Proc : pc[p] = "sum" => step[p] <= Len(Program)
TypeInv == TypeOK /\ SumAtCall

\* Every way a process can move keeps the types.
LEMMA TypeStep == TypeInv /\ [Next]_vars => TypeInv'
<1> SUFFICES ASSUME TypeInv, [Next]_vars PROVE TypeInv'
  OBVIOUS
<1> USE ProgramAssumption, ActiveAssumption DEF TypeInv, TypeOK, SumAtCall, Steps
<1>0. ASSUME NEW p \in Proc, NEW e \in {0, 1}, EnterSum(p, e)
      PROVE contrib' \in [Proc -> Seq(Call)]
  <2>1. [step |-> step[p], error |-> e] \in Call
    BY DEF Call
  <2> QED BY <2>1, <1>0 DEF EnterSum
<1>1. ASSUME NEW p \in Proc, UserThrow(p) PROVE TypeInv'
  BY <1>1 DEF UserThrow
<1>2. ASSUME NEW p \in Proc, NEW success \in BOOLEAN, Finalize(p, success)
      PROVE TypeInv'
  BY <1>2, <1>0 DEF Finalize, AtCall
<1>3. ASSUME NEW p \in Proc, ReactivateActive(p) PROVE TypeInv'
  BY <1>3, <1>0 DEF ReactivateActive, AtCall
<1>4. ASSUME NEW p \in Proc, ReactivateInactive(p) PROVE TypeInv'
  BY <1>4 DEF ReactivateInactive, AtCall
<1>5. ASSUME NEW p \in Proc, SumThrows(p) PROVE TypeInv'
  BY <1>5 DEF SumThrows
<1>6. ASSUME NEW p \in Proc, SumReturns(p) PROVE TypeInv'
  BY <1>6 DEF SumReturns
<1>7. ASSUME NEW p \in Proc, DestroyActive(p) PROVE TypeInv'
  BY <1>7, <1>0 DEF DestroyActive
<1>8. ASSUME NEW p \in Proc, DestructorSumReturns(p) PROVE TypeInv'
  BY <1>8 DEF DestructorSumReturns
<1>9. ASSUME NEW p \in Proc, DestroyInactive(p) PROVE TypeInv'
  BY <1>9 DEF DestroyInactive
<1>10. CASE UNCHANGED vars
  BY <1>10 DEF vars
<1> QED
  BY <1>1, <1>2, <1>3, <1>4, <1>5, <1>6, <1>7, <1>8, <1>9, <1>10 DEF Next, Progress

\* The constructor establishes the types.
LEMMA TypeInit == Init => TypeInv
BY ProgramAssumption, ActiveAssumption
   DEF Init, TypeInv, TypeOK, SumAtCall, Steps, Call

\* The members and locals of the guard keep their types.
THEOREM TypeCorrect == Spec => []TypeOK
<1>1. TypeInv => TypeOK
  BY DEF TypeInv
<1> QED BY TypeInit, TypeStep, <1>1, PTL DEF Spec

-----------------------------------------------------------------------------

\* What EnterSum does to one process's history, seen through its accessors.
LEMMA Entered ==
  ASSUME TypeOK, NEW p \in Proc, NEW e \in {0, 1}, EnterSum(p, e)
  PROVE  /\ \A q \in Proc \ {p} : contrib'[q] = contrib[q]
         /\ Len(contrib'[p]) = Len(contrib[p]) + 1
         /\ \A k \in 1 .. Len(contrib[p]) : contrib'[p][k] = contrib[p][k]
         /\ contrib'[p][Len(contrib[p]) + 1] = [step |-> step[p], error |-> e]
BY DEF EnterSum, TypeOK

\* Entering the next collective of one's own keeps the histories matching: two
\* processes whose last common collective was the same have the same next one.
LEMMA EnteringKeepsLockStep ==
  ASSUME TypeOK, LockStep, Consecutive,
         NEW p \in Proc, NEW e \in {0, 1}, EnterSum(p, e),
         CollectiveAt(step[p]),
         PrevStep(p, Len(contrib[p]) + 1) < step[p],
         NoCollectiveBetween(PrevStep(p, Len(contrib[p]) + 1), step[p])
  PROVE  LockStep' /\ Consecutive'
<1>a. \A q \in Proc : Len(contrib[q]) \in Nat
  BY DEF TypeOK
<1>b. PICK n \in Nat : n = Len(contrib[p]) + 1
  BY <1>a
<1>0. n \in Nat \ {0} /\ n = Len(contrib[p]) + 1 /\ \A q \in Proc : Len(contrib[q]) \in Nat
  BY <1>a, <1>b
<1>1. /\ \A q \in Proc \ {p} : contrib'[q] = contrib[q]
      /\ Len(contrib'[p]) = n
      /\ \A k \in 1 .. Len(contrib[p]) : contrib'[p][k] = contrib[p][k]
      /\ contrib'[p][n] = [step |-> step[p], error |-> e]
  BY Entered, <1>b
<1>2. \A q \in Proc, k \in Nat :
        k \in 1 .. Len(contrib[q]) => contrib'[q][k] = contrib[q][k]
  BY <1>1
<1>3. \A q \in Proc, k \in Nat \ {0} :
        k <= Len(contrib[q]) + 1 => PrevStep(q, k)' = PrevStep(q, k)
  BY <1>0, <1>2 DEF PrevStep
<1>4. \A s : CollectiveAt(s)' = CollectiveAt(s)
  BY DEF CollectiveAt, ActiveAt
<1>5. step[p] \in Nat /\ \A q \in Proc : \A k \in 1 .. Len(contrib[q]) : contrib[q][k].step \in Nat
  <2>1. \A q \in Proc : contrib[q] \in Seq(Call)
    BY DEF TypeOK
  <2>2. \A q \in Proc : \A k \in 1 .. Len(contrib[q]) : contrib[q][k] \in Call
    BY <2>1
  <2>3. Steps \subseteq Nat
    BY ProgramAssumption DEF Steps
  <2> QED BY <2>2, <2>3 DEF Call, TypeOK
<1>6. \A q \in Proc : n <= Len(contrib[q]) => contrib[q][n].step = step[p]
  <2> SUFFICES ASSUME NEW q \in Proc, n <= Len(contrib[q])
               PROVE contrib[q][n].step = step[p]
    OBVIOUS
  <2>1. PrevStep(p, n) = PrevStep(q, n)
    BY <1>0 DEF PrevStep, LockStep
  <2>2. /\ PrevStep(q, n) < contrib[q][n].step
        /\ CollectiveAt(contrib[q][n].step)
        /\ NoCollectiveBetween(PrevStep(q, n), contrib[q][n].step)
    BY <1>0 DEF Consecutive, ConsecutiveAt
  <2>3. PrevStep(p, n) \in Nat
    BY <1>0, <1>5 DEF PrevStep
  <2>4. contrib[q][n].step \in Nat /\ step[p] \in Nat
    BY <1>0, <1>5
  <2>5. ~(contrib[q][n].step < step[p])
    BY <1>b, <2>1, <2>2, <2>3, <2>4 DEF NoCollectiveBetween
  <2>6. ~(step[p] < contrib[q][n].step)
    <3> SUFFICES ASSUME step[p] < contrib[q][n].step PROVE FALSE
      OBVIOUS
    <3>1. PrevStep(p, n) < step[p]
      BY <1>b
    <3>2. step[p] \in PrevStep(q, n) + 1 .. contrib[q][n].step - 1
      BY <2>1, <2>3, <2>4, <3>1
    <3> QED BY <2>2, <3>2 DEF NoCollectiveBetween
  <2> QED BY <2>4, <2>5, <2>6
<1>7. LockStep'
  <2> SUFFICES ASSUME NEW q \in Proc, NEW r \in Proc,
                      NEW k \in 1 .. Len(contrib'[q]), k <= Len(contrib'[r])
               PROVE contrib'[q][k].step = contrib'[r][k].step
    BY DEF LockStep
  <2>1. CASE k <= Len(contrib[q]) /\ k <= Len(contrib[r])
    <3>1. k \in 1 .. Len(contrib[q]) /\ k \in 1 .. Len(contrib[r])
      BY <2>1, <1>0
    <3>2. k \in Nat /\ contrib'[q][k] = contrib[q][k] /\ contrib'[r][k] = contrib[r][k]
      BY <3>1, <1>2, <1>0
    <3> QED BY <3>1, <3>2, <2>1 DEF LockStep
  <2>2. CASE k > Len(contrib[q])
    <3>1. q = p /\ k = n
      BY <2>2, <1>0, <1>1
    <3>2. contrib'[p][n].step = step[p]
      BY <1>1
    <3>3. \A t \in Proc \ {p} : n <= Len(contrib'[t]) => contrib'[t][n].step = step[p]
      BY <1>1, <1>6
    <3> QED BY <3>1, <3>2, <3>3
  <2>3. CASE k > Len(contrib[r])
    <3>1. r = p /\ k = n
      BY <2>3, <1>0, <1>1
    <3>2. contrib'[p][n].step = step[p]
      BY <1>1
    <3>3. \A t \in Proc \ {p} : n <= Len(contrib'[t]) => contrib'[t][n].step = step[p]
      BY <1>1, <1>6
    <3> QED BY <3>1, <3>2, <3>3
  <2> QED BY <2>1, <2>2, <2>3, <1>0
<1>8. Consecutive'
  <2> SUFFICES ASSUME NEW q \in Proc, NEW k \in 1 .. Len(contrib'[q])
               PROVE ConsecutiveAt(q, k)'
    BY DEF Consecutive
  <2>1. ConsecutiveAt(q, k)' <=>
          /\ PrevStep(q, k)' < contrib'[q][k].step
          /\ CollectiveAt(contrib'[q][k].step)
          /\ NoCollectiveBetween(PrevStep(q, k)', contrib'[q][k].step)
    BY DEF ConsecutiveAt, NoCollectiveBetween, CollectiveAt, ActiveAt
  <2>2. CASE k \in 1 .. Len(contrib[q])
    <3>1. PrevStep(q, k)' = PrevStep(q, k) /\ contrib'[q][k] = contrib[q][k]
      BY <2>2, <1>0, <1>2, <1>3
    <3> QED BY <2>1, <2>2, <3>1 DEF Consecutive, ConsecutiveAt
  <2>3. CASE k \notin 1 .. Len(contrib[q])
    <3>1. q = p /\ k = n
      BY <2>3, <1>0, <1>1
    <3>2. PrevStep(p, n)' = PrevStep(p, n) /\ contrib'[p][n].step = step[p]
      BY <1>0, <1>1, <1>3
    <3> QED BY <2>1, <3>1, <3>2, <1>b
  <2> QED BY <2>2, <2>3
<1> QED BY <1>7, <1>8

\* Entering a collective as one who has seen the earlier ones succeed leaves
\* the first n collectives of everybody as they were.
LEMMA EnteringKeepsClear ==
  ASSUME TypeOK, NEW p \in Proc, NEW e \in {0, 1}, EnterSum(p, e),
         NEW n \in Int, Clear(n)
  PROVE  Clear(n)'
<1>1. \A q \in Proc : Len(contrib[q]) \in Nat
  BY DEF TypeOK
<1>2. /\ \A q \in Proc \ {p} : contrib'[q] = contrib[q]
      /\ Len(contrib'[p]) = Len(contrib[p]) + 1
      /\ \A k \in 1 .. Len(contrib[p]) : contrib'[p][k] = contrib[p][k]
  BY Entered
<1>3. \A q \in Proc : /\ Len(contrib'[q]) >= Len(contrib[q])
                      /\ \A k \in 1 .. Len(contrib[q]) : contrib'[q][k] = contrib[q][k]
  BY <1>1, <1>2
<1> QED
  <2> SUFFICES ASSUME NEW k \in 1 .. n, NEW q \in Proc
               PROVE k <= Len(contrib'[q]) /\ contrib'[q][k].error = 0
    BY DEF Clear
  <2>1. k <= Len(contrib[q]) /\ contrib[q][k].error = 0
    BY DEF Clear
  <2>2. k \in 1 .. Len(contrib[q]) /\ Len(contrib'[q]) \in Nat
    BY <2>1, <1>1, <1>2
  <2> QED BY <2>1, <2>2, <1>1, <1>3

\* The two parts of GuardInv about one process only look at its own variables
\* and at histories, which a step of another process leaves alone.
Inv == TypeInv /\ GuardInv

\* Entering a collective, from finalize(), reactivate() or the destructor.
LEMMA EnterStep ==
  ASSUME Inv, NEW p \in Proc, NEW e \in {0, 1}, EnterSum(p, e),
         pc[p] = "user" \/ active[p], CollectiveAt(step[p]),
         NEW x \in {"sum", "dtorsum"}, pc' = [pc EXCEPT ![p] = x],
         active' = [active EXCEPT ![p] = FALSE],
         NEW w \in BOOLEAN, wasActive' = [wasActive EXCEPT ![p] = w],
         x = "sum" => w = ActiveAt(step[p]),
         step' = step
  PROVE  GuardInv'
<1>0. TypeOK /\ LockStep /\ Consecutive /\ Position /\ Cleared
  BY DEF Inv, TypeInv, GuardInv
<1>1. /\ PrevStep(p, Len(contrib[p]) + 1) < step[p]
      /\ NoCollectiveBetween(PrevStep(p, Len(contrib[p]) + 1), step[p])
  BY <1>0 DEF Position, PositionAt
<1>2. LockStep' /\ Consecutive'
  BY <1>0, <1>1, EnteringKeepsLockStep
<1>3. /\ \A q \in Proc \ {p} : contrib'[q] = contrib[q]
      /\ Len(contrib'[p]) = Len(contrib[p]) + 1
      /\ contrib'[p][Len(contrib[p]) + 1] = [step |-> step[p], error |-> e]
  BY <1>0, Entered
<1>4. Position'
  <2>1. \A q \in Proc \ {p} : /\ pc'[q] = pc[q] /\ active'[q] = active[q]
                              /\ wasActive'[q] = wasActive[q] /\ step'[q] = step[q]
    BY <1>0 DEF TypeOK
  <2>2. ASSUME NEW q \in Proc \ {p} PROVE PositionAt(q)'
    <3>1. PrevStep(q, Len(contrib[q]) + 1)' = PrevStep(q, Len(contrib[q]) + 1)
      BY <1>3 DEF PrevStep
    <3> QED
      BY <1>0, <1>3, <2>1, <3>1
      DEF Position, PositionAt, NoCollectiveBetween, CollectiveAt, ActiveAt
  <2>3. PositionAt(p)'
    <3>1. /\ pc'[p] = x /\ active'[p] = FALSE /\ wasActive'[p] = w /\ step'[p] = step[p]
      BY <1>0 DEF TypeOK
    <3>2. contrib'[p] # <<>> /\ contrib'[p][Len(contrib'[p])].step = step[p]
      BY <1>0, <1>3 DEF TypeOK
    <3> QED BY <3>1, <3>2 DEF PositionAt, ActiveAt
  <2> QED BY <2>2, <2>3 DEF Position
<1>5. ASSUME WellFormed PROVE \A q \in Proc : ClearedAt(q)'
  <2>1. \A q \in Proc : ClearedAt(q) /\ Len(contrib[q]) \in Nat
    BY <1>0, <1>5 DEF Cleared, TypeOK
  <2>2. ASSUME NEW n \in Int, Clear(n) PROVE Clear(n)'
    BY <1>0, <2>2, EnteringKeepsClear
  <2>3. ASSUME NEW q \in Proc \ {p} PROVE ClearedAt(q)'
    <3>1. /\ pc'[q] = pc[q] /\ active'[q] = active[q]
      BY <1>0 DEF TypeOK
    <3>2. PICK n \in Nat : n = Len(contrib[q])
      BY <2>1
    <3>3. Clear(n - 1)' /\ (pc[q] = "user" \/ active[q] => Clear(n)')
      BY <2>1, <2>2, <3>2 DEF ClearedAt
    <3> QED BY <1>3, <3>1, <3>2, <3>3 DEF ClearedAt, Clear
  <2>4. ClearedAt(p)'
    <3>1. PICK n \in Nat : n = Len(contrib[p])
      BY <2>1
    <3>2. Clear(n)'
      BY <2>1, <2>2, <3>1 DEF ClearedAt
    <3>3. pc'[p] = x /\ active'[p] = FALSE
      BY <1>0 DEF TypeOK
    <3> QED BY <1>3, <3>1, <3>2, <3>3 DEF ClearedAt, Clear
  <2> QED BY <2>3, <2>4
<1>6. Cleared'
  BY <1>5 DEF Cleared, WellFormed, ActiveAt
<1> QED BY <1>2, <1>4, <1>6 DEF GuardInv

\* A step that enters no collective leaves what is said about histories, and
\* the processes other than the one that moves.
LEMMA LocalStep ==
  ASSUME Inv, contrib' = contrib, NEW p \in Proc,
         \A q \in Proc \ {p} : /\ pc'[q] = pc[q] /\ active'[q] = active[q]
                               /\ wasActive'[q] = wasActive[q] /\ step'[q] = step[q],
         PositionAt(p)',
         WellFormed => ClearedAt(p)'
  PROVE  GuardInv'
<1>0. LockStep /\ Consecutive /\ Position /\ Cleared
  BY DEF Inv, GuardInv
<1>1. LockStep'
  BY <1>0 DEF LockStep
<1>2. Consecutive'
  BY <1>0 DEF Consecutive, ConsecutiveAt, PrevStep, NoCollectiveBetween, CollectiveAt, ActiveAt
<1>3. ASSUME NEW q \in Proc \ {p} PROVE PositionAt(q)'
  BY <1>0 DEF Position, PositionAt, PrevStep, NoCollectiveBetween, CollectiveAt, ActiveAt
<1>4. ASSUME NEW q \in Proc \ {p}, WellFormed PROVE ClearedAt(q)'
  BY <1>0, <1>4 DEF Cleared, ClearedAt, Clear
<1>5. Position'
  BY <1>3 DEF Position
<1>6. Cleared'
  BY <1>4 DEF Cleared, WellFormed, ActiveAt
<1> QED BY <1>1, <1>2, <1>5, <1>6 DEF GuardInv

\* The sum a process leaves without an exception was clear for everybody.
LEMMA SumWasClear ==
  ASSUME Inv, NEW p \in Proc, SumReturns(p), WellFormed
  PROVE  Clear(Len(contrib[p]))
<1>0. TypeOK /\ SumAtCall /\ Consecutive /\ PositionAt(p) /\ ClearedAt(p)
  BY DEF Inv, TypeInv, GuardInv, Position, Cleared
<1>1. PICK n \in Nat : n = Len(contrib[p])
  BY <1>0 DEF TypeOK
<1>2. n \in 1 .. Len(contrib[p]) /\ contrib[p][n].step = step[p]
  BY <1>0, <1>1 DEF PositionAt, SumReturns, TypeOK
<1>3. CollectiveAt(step[p]) /\ step[p] \in 1 .. Len(Program)
  <2>1. CollectiveAt(step[p])
    BY <1>0, <1>2 DEF Consecutive, ConsecutiveAt
  <2> QED BY <2>1, <1>0, ProgramAssumption DEF SumAtCall, TypeOK, Steps, SumReturns
<1>4. ActiveAt(step[p])
  BY <1>3 DEF CollectiveAt, WellFormed
<1>5. wasActive[p]
  BY <1>0, <1>4 DEF PositionAt, SumReturns
<1>6. \A q \in Proc : Len(contrib[q]) >= n /\ contrib[q][n].error # 1
  BY <1>1, <1>5 DEF SumReturns, SumComplete, ErrorSeen
<1>7. \A q \in Proc : contrib[q][n].error = 0 /\ Len(contrib[q]) \in Nat
  <2> SUFFICES ASSUME NEW q \in Proc
               PROVE contrib[q][n].error = 0 /\ Len(contrib[q]) \in Nat
    OBVIOUS
  <2>1. contrib[q] \in Seq(Call) /\ Len(contrib[q]) \in Nat
    BY <1>0 DEF TypeOK
  <2>2. n \in 1 .. Len(contrib[q])
    BY <1>2, <1>6, <2>1
  <2>3. contrib[q][n] \in Call
    BY <2>1, <2>2
  <2> QED BY <2>1, <2>3, <1>6 DEF Call
<1>8. Clear(n - 1)
  BY <1>0, <1>1 DEF ClearedAt
<1>9. ASSUME NEW k \in 1 .. n, NEW q \in Proc
      PROVE k <= Len(contrib[q]) /\ contrib[q][k].error = 0
  <2>1. CASE k \in 1 .. n - 1
    BY <2>1, <1>8 DEF Clear
  <2>2. CASE k = n
    BY <2>2, <1>6, <1>7
  <2> QED BY <2>1, <2>2
<1> QED BY <1>1, <1>9 DEF Clear

\* The steps of a history are natural numbers.
LEMMA HistorySteps ==
  ASSUME TypeOK, NEW p \in Proc
  PROVE  PrevStep(p, Len(contrib[p]) + 1) \in Int
<1>1. contrib[p] \in Seq(Call) /\ Len(contrib[p]) \in Nat
  BY DEF TypeOK
<1>2. CASE Len(contrib[p]) = 0
  BY <1>2 DEF PrevStep
<1>3. CASE Len(contrib[p]) > 0
  <2>1. contrib[p][Len(contrib[p])] \in Call
    BY <1>1, <1>3
  <2> QED BY <1>1, <1>3, <2>1, ProgramAssumption DEF PrevStep, Call, Steps
<1> QED BY <1>1, <1>2, <1>3

\* The next call is in the program, and follows the one just done.
LEMMA NextCall ==
  ASSUME TypeOK, NEW p \in Proc, step[p] <= Len(Program)
  PROVE  /\ step[p] \in 1 .. Len(Program) /\ step[p] + 1 \in Steps
         /\ ActiveAt(step[p] + 1) = (Program[step[p]] = "reactivate")
BY ProgramAssumption DEF TypeOK, Steps, ActiveAt

\* Every way a process can move keeps the histories in step.
LEMMA GuardStep == Inv /\ [Next]_vars => GuardInv'
<1> SUFFICES ASSUME Inv, [Next]_vars PROVE GuardInv'
  OBVIOUS
<1>0. /\ TypeOK /\ SumAtCall /\ GuardInv
      /\ \A p \in Proc : PositionAt(p)
      /\ WellFormed => \A p \in Proc : ClearedAt(p)
  BY DEF Inv, TypeInv, GuardInv, Position, Cleared
<1>1. ASSUME NEW p \in Proc, UserThrow(p) PROVE GuardInv'
  <2>1. pc[p] = "user" /\ pc'[p] = "unwind"
    BY <1>0, <1>1 DEF UserThrow, TypeOK
  <2>2. PositionAt(p)'
    BY <1>0, <1>1, <2>1
    DEF UserThrow, PositionAt, PrevStep, NoCollectiveBetween, CollectiveAt, ActiveAt
  <2>3. WellFormed => ClearedAt(p)'
    BY <1>0, <1>1, <2>1 DEF UserThrow, ClearedAt, Clear
  <2> QED BY <1>0, <1>1, <2>2, <2>3, LocalStep DEF UserThrow, TypeOK
<1>2. ASSUME NEW p \in Proc, NEW success \in BOOLEAN, Finalize(p, success)
      PROVE GuardInv'
  <2>1. CollectiveAt(step[p]) /\ active[p] = ActiveAt(step[p]) /\ pc[p] = "user"
    BY <1>0, <1>2 DEF Finalize, AtCall, CollectiveAt, PositionAt
  <2>2. active[p] \in BOOLEAN
    BY <1>0 DEF TypeOK
  <2>3. PICK e \in {0, 1} : EnterSum(p, e)
    BY <1>2 DEF Finalize
  <2> QED BY <1>2, <2>1, <2>2, <2>3, EnterStep DEF Finalize
<1>3. ASSUME NEW p \in Proc, ReactivateActive(p) PROVE GuardInv'
  <2>1. CollectiveAt(step[p]) /\ TRUE = ActiveAt(step[p]) /\ pc[p] = "user"
    BY <1>0, <1>3, ActiveAssumption
    DEF ReactivateActive, AtCall, CollectiveAt, PositionAt, ActiveAt
  <2> QED BY <1>3, <2>1, EnterStep DEF ReactivateActive
<1>4. ASSUME NEW p \in Proc, ReactivateInactive(p) PROVE GuardInv'
  <2>1. /\ pc[p] = "user" /\ pc'[p] = "user" /\ ~active[p] /\ active'[p] = TRUE
        /\ step[p] \in 1 .. Len(Program) /\ step'[p] = step[p] + 1
        /\ Program[step[p]] = "reactivate" /\ contrib' = contrib
    BY <1>0, <1>4 DEF ReactivateInactive, AtCall, TypeOK
  <2>2. ActiveAt(step[p] + 1) /\ ~CollectiveAt(step[p])
    <3>1. step[p] <= Len(Program)
      BY <2>1
    <3>2. ActiveAt(step[p] + 1) = (Program[step[p]] = "reactivate")
      BY <1>0, <3>1, NextCall
    <3>3. ~ActiveAt(step[p])
      BY <1>0, <2>1 DEF PositionAt
    <3> QED BY <2>1, <3>2, <3>3 DEF CollectiveAt
  <2>3. PositionAt(p)'
    <3>1. PICK last \in Int : last = PrevStep(p, Len(contrib[p]) + 1)
      BY <1>0, HistorySteps
    <3>2. last < step[p] /\ NoCollectiveBetween(last, step[p])
      BY <1>0, <2>1, <3>1 DEF PositionAt
    <3>3. last < step[p] + 1 /\ NoCollectiveBetween(last, step[p] + 1)
      BY <2>1, <2>2, <3>2 DEF NoCollectiveBetween
    <3>4. PrevStep(p, Len(contrib[p]) + 1)' = last
      BY <2>1, <3>1 DEF PrevStep
    <3>5. ActiveAt(step[p])' /\ NoCollectiveBetween(last, step[p])'
      BY <2>1, <2>2, <3>3 DEF NoCollectiveBetween, CollectiveAt, ActiveAt
    <3> QED BY <2>1, <2>2, <3>3, <3>4, <3>5 DEF PositionAt, NoCollectiveBetween, CollectiveAt, ActiveAt
  <2>4. WellFormed => ClearedAt(p)'
    BY <1>0, <2>1 DEF ClearedAt, Clear
  <2> QED BY <1>0, <1>4, <2>3, <2>4, LocalStep DEF ReactivateInactive, TypeOK
<1>5. ASSUME NEW p \in Proc, SumThrows(p) PROVE GuardInv'
  <2>1. pc[p] = "sum" /\ pc'[p] = "unwind" /\ ~active[p] /\ active'[p] = active[p]
    BY <1>0, <1>5 DEF SumThrows, TypeOK, PositionAt
  <2>2. PositionAt(p)'
    BY <2>1 DEF PositionAt
  <2>3. WellFormed => ClearedAt(p)'
    BY <1>0, <1>5, <2>1 DEF SumThrows, ClearedAt, Clear
  <2> QED BY <1>0, <1>5, <2>2, <2>3, LocalStep DEF SumThrows, TypeOK
<1>6. ASSUME NEW p \in Proc, SumReturns(p) PROVE GuardInv'
  <2>1. /\ pc[p] = "sum" /\ pc'[p] = "user" /\ step[p] <= Len(Program)
        /\ step'[p] = step[p] + 1 /\ contrib' = contrib
        /\ active'[p] = (Program[step[p]] = "reactivate")
    BY <1>0, <1>6 DEF SumReturns, TypeOK, SumAtCall
  <2>2. PositionAt(p)'
    <3>1. step[p] \in Nat /\ active'[p] = ActiveAt(step[p] + 1)
      BY <1>0, <2>1, NextCall
    <3>2. PrevStep(p, Len(contrib[p]) + 1) = step[p]
      BY <1>0, <2>1 DEF PositionAt, PrevStep, TypeOK
    <3>3. PrevStep(p, Len(contrib[p]) + 1)' = step[p]
      BY <2>1, <3>2 DEF PrevStep
    <3>4. NoCollectiveBetween(step[p], step[p] + 1)
      BY <3>1 DEF NoCollectiveBetween
    <3>5. ActiveAt(step[p])' = ActiveAt(step[p] + 1)
      BY <2>1 DEF ActiveAt
    <3>6. NoCollectiveBetween(PrevStep(p, Len(contrib[p]) + 1), step[p])'
      BY <2>1, <3>3, <3>4 DEF NoCollectiveBetween, CollectiveAt, ActiveAt
    <3>7. /\ active'[p] = ActiveAt(step[p])'
          /\ PrevStep(p, Len(contrib[p]) + 1)' < step'[p]
      BY <2>1, <3>1, <3>3, <3>5
    <3> QED BY <2>1, <3>6, <3>7 DEF PositionAt
  <2>3. WellFormed => ClearedAt(p)'
    <3>1. ASSUME WellFormed PROVE Clear(Len(contrib[p])) /\ Clear(Len(contrib[p]) - 1)
      BY <1>0, <1>6, <3>1, SumWasClear DEF ClearedAt
    <3> QED BY <2>1, <3>1 DEF ClearedAt, Clear
  <2> QED BY <1>0, <1>6, <2>2, <2>3, LocalStep DEF SumReturns, TypeOK
<1>7. ASSUME NEW p \in Proc, DestroyActive(p) PROVE GuardInv'
  <2>1. CollectiveAt(step[p])
    BY <1>0, <1>7 DEF DestroyActive, CollectiveAt, PositionAt
  <2> QED BY <1>7, <2>1, EnterStep DEF DestroyActive
<1>8. ASSUME NEW p \in Proc, DestructorSumReturns(p) PROVE GuardInv'
  <2>1. pc[p] = "dtorsum" /\ pc'[p] = "gone" /\ ~active[p] /\ active'[p] = active[p]
    BY <1>0, <1>8 DEF DestructorSumReturns, TypeOK, PositionAt
  <2>2. PositionAt(p)'
    BY <2>1 DEF PositionAt
  <2>3. WellFormed => ClearedAt(p)'
    BY <1>0, <1>8, <2>1 DEF DestructorSumReturns, ClearedAt, Clear
  <2> QED BY <1>0, <1>8, <2>2, <2>3, LocalStep DEF DestructorSumReturns, TypeOK
<1>9. ASSUME NEW p \in Proc, DestroyInactive(p) PROVE GuardInv'
  <2>1. pc'[p] = "gone" /\ ~active[p] /\ active'[p] = active[p]
    BY <1>0, <1>9 DEF DestroyInactive, TypeOK
  <2>2. PositionAt(p)'
    BY <2>1 DEF PositionAt
  <2>3. WellFormed => ClearedAt(p)'
    BY <1>0, <1>9, <2>1 DEF DestroyInactive, ClearedAt, Clear
  <2> QED BY <1>0, <1>9, <2>2, <2>3, LocalStep DEF DestroyInactive, TypeOK
<1>10. CASE UNCHANGED vars
  BY <1>0, <1>10 DEF vars, GuardInv, LockStep, Consecutive, ConsecutiveAt, Position,
     PositionAt, Cleared, ClearedAt, Clear, PrevStep, NoCollectiveBetween,
     CollectiveAt, ActiveAt, WellFormed
<1> QED
  BY <1>1, <1>2, <1>3, <1>4, <1>5, <1>6, <1>7, <1>8, <1>9, <1>10 DEF Next, Progress

\* Before the first collective there is nothing to compare.
LEMMA GuardInit == Init => GuardInv
BY DEF Init, GuardInv, LockStep, Consecutive, Position, PositionAt, Cleared,
   ClearedAt, Clear, PrevStep, NoCollectiveBetween, ActiveAt

\* GuardInv is an invariant of the guard.
THEOREM GuardInvariant == Spec => []GuardInv
<1>1. Init => Inv
  BY TypeInit, GuardInit DEF Inv
<1>2. Inv /\ [Next]_vars => Inv'
  BY TypeStep, GuardStep DEF Inv
<1>3. Inv => GuardInv
  BY DEF Inv
<1> QED BY <1>1, <1>2, <1>3, PTL DEF Spec

\* The collectives of all processes pair up section by section.
THEOREM CollectivesMatch == Spec => []LockStep
<1>1. GuardInv => LockStep
  BY DEF GuardInv
<1> QED BY <1>1, GuardInvariant, PTL

\* An error announced in a collective is the end of the program for everybody.
THEOREM ErrorStopsEverybody == Spec => []NoneSurvivesError
<1>1. Inv => NoneSurvivesError
  <2> SUFFICES ASSUME Inv, WellFormed, NEW p \in Proc, NEW q \in Proc,
                      NEW k \in 1 .. Len(contrib[p]), contrib[p][k].error = 1
               PROVE Len(contrib[q]) <= k
    BY DEF NoneSurvivesError
  <2>1. Clear(Len(contrib[q]) - 1)
    BY DEF Inv, GuardInv, Cleared, ClearedAt
  <2>2. Len(contrib[q]) \in Nat /\ Len(contrib[p]) \in Nat
    BY DEF Inv, TypeInv, TypeOK
  <2> QED BY <2>1, <2>2 DEF Clear
<1>2. Init => Inv
  BY TypeInit, GuardInit DEF Inv
<1>3. Inv /\ [Next]_vars => Inv'
  BY TypeStep, GuardStep DEF Inv
<1> QED BY <1>1, <1>2, <1>3, PTL DEF Spec
=============================================================================
