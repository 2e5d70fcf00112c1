------------------------------ MODULE MPIGuard ------------------------------
(***************************************************************************)
(* Dune::MPIGuard (dune/common/parallel/mpiguard.hh): every process of a   *)
(* communicator runs the same program between construction and destruction *)
(* of its guard, a sequence of calls of reactivate() and finalize().  User *)
(* code between two calls may throw on some processes and not on others;   *)
(* the guard's only means of telling the others is the collective sum.     *)
(*                                                                         *)
(* A collective is two half steps: a process enters it with its summand    *)
(* and is blocked until every process has entered its own k-th collective. *)
(***************************************************************************)
EXTENDS Integers, Sequences

CONSTANTS
  Proc,             \* the ranks of the communicator
  Program,          \* the calls of the guarded code, the same on every rank
  InitiallyActive   \* the constructor's argument `active'

ASSUME ProgramAssumption == Program \in Seq({"reactivate", "finalize"})
ASSUME ActiveAssumption == InitiallyActive \in BOOLEAN

VARIABLES
  pc,        \* where a process is: user code, in the sum, unwinding, ...
  step,      \* the next call of Program; Len(Program)+1 is the end of the scope
  active,    \* active_
  wasActive, \* finalize()'s local was_active
  contrib    \* the collectives a process has entered, with step and summand

vars == <<pc, step, active, wasActive, contrib>>

-----------------------------------------------------------------------------

Steps == 1 .. Len(Program) + 1
Call == [step : Steps, error : {0, 1}]

Init ==
  /\ pc = [p \in Proc |-> "user"]
  /\ step = [p \in Proc |-> 1]
  /\ active = [p \in Proc |-> InitiallyActive]
  /\ wasActive = [p \in Proc |-> FALSE]
  /\ contrib = [p \in Proc |-> <<>>]

AtCall(p, call) ==
  /\ pc[p] = "user"
  /\ step[p] \in 1 .. Len(Program)
  /\ Program[step[p]] = call

\* Mutant: a failure is announced by a negative number.
EnterSumNegated(p, error) ==
  contrib' = [contrib EXCEPT ![p] = Append(@, [step |-> step[p], error |-> 0 - error])]

\* comm_->sum(error), first half: the process enters its next collective.
EnterSum(p, error) ==
  contrib' = [contrib EXCEPT ![p] = Append(@, [step |-> step[p], error |-> error])]

\* The k-th collective of p returns only when everybody has entered a k-th.
SumComplete(p) == \A q \in Proc : Len(contrib[q]) >= Len(contrib[p])

\* The result of p's last collective is positive.
ErrorSeen(p) == \E q \in Proc : contrib[q][Len(contrib[p])].error = 1

-----------------------------------------------------------------------------

\* User code throws: the stack unwinds towards the guard's destructor.
UserThrow(p) ==
  /\ pc[p] = "user"
  /\ pc' = [pc EXCEPT ![p] = "unwind"]
  /\ UNCHANGED <<step, active, wasActive, contrib>>

\* Mutant: was_active is read after active_ was reset.
FinalizeReadsLate(p, success) ==
  /\ AtCall(p, "finalize")
  /\ active' = [active EXCEPT ![p] = FALSE]
  /\ wasActive' = [wasActive EXCEPT ![p] = FALSE]
  /\ EnterSum(p, IF success THEN 0 ELSE 1)
  /\ pc' = [pc EXCEPT ![p] = "sum"]
  /\ UNCHANGED step

\* guard.finalize(success), up to the blocking sum.
Finalize(p, success) ==
  /\ AtCall(p, "finalize")
  /\ wasActive' = [wasActive EXCEPT ![p] = active[p]]
  /\ active' = [active EXCEPT ![p] = FALSE]
  /\ EnterSum(p, IF success THEN 0 ELSE 1)
  /\ pc' = [pc EXCEPT ![p] = "sum"]
  /\ UNCHANGED step

\* Mutant: the section before is not finalized.
ReactivateLocally(p) ==
  /\ AtCall(p, "reactivate")
  /\ active[p]
  /\ step' = [step EXCEPT ![p] = @ + 1]
  /\ UNCHANGED <<pc, active, wasActive, contrib>>

\* guard.reactivate() of a guard that is active: finalize(true) comes first.
ReactivateActive(p) ==
  /\ AtCall(p, "reactivate")
  /\ active[p]
  /\ wasActive' = [wasActive EXCEPT ![p] = TRUE]
  /\ active' = [active EXCEPT ![p] = FALSE]
  /\ EnterSum(p, 0)
  /\ pc' = [pc EXCEPT ![p] = "sum"]
  /\ UNCHANGED step

\* guard.reactivate() of an inactive guard is local.
ReactivateInactive(p) ==
  /\ AtCall(p, "reactivate")
  /\ ~active[p]
  /\ active' = [active EXCEPT ![p] = TRUE]
  /\ step' = [step EXCEPT ![p] = @ + 1]
  /\ UNCHANGED <<pc, wasActive, contrib>>

\* The sum returns inside finalize(), and MPIGuardError is thrown.
SumThrows(p) ==
  /\ pc[p] = "sum"
  /\ SumComplete(p)
  /\ ErrorSeen(p) /\ wasActive[p]
  /\ pc' = [pc EXCEPT ![p] = "unwind"]
  /\ UNCHANGED <<step, active, wasActive, contrib>>

\* Mutant: reactivate() does not set active_ after finalize(true).
SumReturnsInactive(p) ==
  /\ pc[p] = "sum"
  /\ SumComplete(p)
  /\ ~(ErrorSeen(p) /\ wasActive[p])
  /\ step' = [step EXCEPT ![p] = @ + 1]
  /\ pc' = [pc EXCEPT ![p] = "user"]
  /\ UNCHANGED <<active, wasActive, contrib>>

\* The sum returns inside finalize() or reactivate(), which then return.
SumReturns(p) ==
  /\ pc[p] = "sum"
  /\ SumComplete(p)
  /\ ~(ErrorSeen(p) /\ wasActive[p])
  /\ active' = [active EXCEPT ![p] = Program[step[p]] = "reactivate"]
  /\ step' = [step EXCEPT ![p] = @ + 1]
  /\ pc' = [pc EXCEPT ![p] = "user"]
  /\ UNCHANGED <<wasActive, contrib>>

\* The destructor starts when the scope ends or an exception leaves it.
InDestructor(p) ==
  \/ pc[p] = "unwind"
  \/ pc[p] = "user" /\ step[p] = Len(Program) + 1

\* Mutant: active_ is not reset before finalize(false), which wants to throw.
DestroyStillActive(p) ==
  /\ InDestructor(p)
  /\ active[p]
  /\ active' = [active EXCEPT ![p] = FALSE]
  /\ wasActive' = [wasActive EXCEPT ![p] = TRUE]
  /\ EnterSum(p, 1)
  /\ pc' = [pc EXCEPT ![p] = "dtorsum"]
  /\ UNCHANGED step

\* ~MPIGuard of an active guard: finalize(false) with active_ already reset.
DestroyActive(p) ==
  /\ InDestructor(p)
  /\ active[p]
  /\ active' = [active EXCEPT ![p] = FALSE]
  /\ wasActive' = [wasActive EXCEPT ![p] = FALSE]
  /\ EnterSum(p, 1)
  /\ pc' = [pc EXCEPT ![p] = "dtorsum"]
  /\ UNCHANGED step

\* finalize(false) returns in the destructor: it never throws there.
DestructorSumReturns(p) ==
  /\ pc[p] = "dtorsum"
  /\ SumComplete(p)
  /\ ~(ErrorSeen(p) /\ wasActive[p])
  /\ pc' = [pc EXCEPT ![p] = "gone"]
  /\ UNCHANGED <<step, active, wasActive, contrib>>

\* ~MPIGuard of an inactive guard is local.
DestroyInactive(p) ==
  /\ InDestructor(p)
  /\ ~active[p]
  /\ pc' = [pc EXCEPT ![p] = "gone"]
  /\ UNCHANGED <<step, active, wasActive, contrib>>

-----------------------------------------------------------------------------

\* Everything a process does except throwing in user code.
Progress(p) ==
  \/ \E success \in BOOLEAN : Finalize(p, success)
  \/ ReactivateActive(p)
  \/ ReactivateInactive(p)
  \/ SumThrows(p)
  \/ SumReturns(p)
  \/ DestroyActive(p)
  \/ DestructorSumReturns(p)
  \/ DestroyInactive(p)

Next == \E p \in Proc : UserThrow(p) \/ Progress(p)

Spec == Init /\ [][Next]_vars

\* A process that can go on does; the sum returns once everybody entered it.
FairSpec == Spec /\ \A p \in Proc : WF_vars(Progress(p))

-----------------------------------------------------------------------------

\* The guard is active when control reaches call s, on the error-free path.
ActiveAt(s) == IF s = 1 THEN InitiallyActive ELSE Program[s - 1] = "reactivate"

\* Call s enters a collective (the end of the scope is the destructor's).
CollectiveAt(s) == ActiveAt(s) \/ (s <= Len(Program) /\ Program[s] = "finalize")

\* No finalize() of a guard that is not active.
WellFormed == \A s \in 1 .. Len(Program) : Program[s] = "finalize" => ActiveAt(s)

\* Types of the variables: mpiguard.hh's members and locals, and the history
\* of the communicator.
TypeOK ==
  /\ pc \in [Proc -> {"user", "sum", "unwind", "dtorsum", "gone"}]
  /\ step \in [Proc -> Steps]
  /\ active \in [Proc -> BOOLEAN]
  /\ wasActive \in [Proc -> BOOLEAN]
  /\ contrib \in [Proc -> Seq(Call)]

\* The k-th collective of all processes is the one of the same section of the
\* program, whether it was entered by finalize(), by reactivate() or by the
\* destructor of a process that failed: a failure never makes a process pair
\* its sum with a different section of somebody else.
LockStep ==
  \A p, q \in Proc : \A k \in 1 .. Len(contrib[p]) :
    k <= Len(contrib[q]) => contrib[p][k].step = contrib[q][k].step

\* Once a process has announced an error in its k-th collective, no process
\* ever enters another one: finalize() and reactivate() let nobody on to the
\* next section.
NoneSurvivesError ==
  WellFormed =>
    \A p, q \in Proc : \A k \in 1 .. Len(contrib[p]) :
      contrib[p][k].error = 1 => Len(contrib[q]) <= k

\* The call of p's collective before the k-th.
PrevStep(p, k) == IF k = 1 THEN 0 ELSE contrib[p][k - 1].step

\* p left the guarded scope with its guard inactive, by an exception of user
\* code before the last collective: it owes the others a sum it will not enter.
LeftSilently(p) ==
  /\ pc[p] \in {"unwind", "gone"} /\ ~active[p]
  /\ PrevStep(p, Len(contrib[p]) + 1) < step[p]
  /\ \E s \in step[p] .. Len(Program) + 1 : CollectiveAt(s)

\* Nobody hangs: unless user code throws where the guard is inactive, every
\* process gets out of every sum, and its destructor returns (it would not if
\* finalize(false) could throw during unwinding), whoever fails and wherever.
EveryoneLeaves ==
  <>((\A p \in Proc : pc[p] = "gone") \/ (\E p \in Proc : LeftSilently(p)))

-----------------------------------------------------------------------------
\* The strengthening of LockStep and NoneSurvivesError that is inductive.

NoCollectiveBetween(s, t) == \A i \in s + 1 .. t - 1 : ~CollectiveAt(i)

\* The k-th entry of p's history is the next collective after the one before.
ConsecutiveAt(p, k) ==
  /\ PrevStep(p, k) < contrib[p][k].step
  /\ CollectiveAt(contrib[p][k].step)
  /\ NoCollectiveBetween(PrevStep(p, k), contrib[p][k].step)

Consecutive == \A p \in Proc : \A k \in 1 .. Len(contrib[p]) : ConsecutiveAt(p, k)

\* A process that may still enter a collective has reached the next one after
\* its last, and active_ is what the program says.
PositionAt(p) ==
  /\ pc[p] = "user" => active[p] = ActiveAt(step[p])
  /\ active[p] => ActiveAt(step[p]) /\ pc[p] \in {"user", "unwind"}
  /\ pc[p] = "user" \/ active[p] =>
       /\ PrevStep(p, Len(contrib[p]) + 1) < step[p]
       /\ NoCollectiveBetween(PrevStep(p, Len(contrib[p]) + 1), step[p])
  /\ pc[p] = "sum" =>
       /\ contrib[p] # <<>>
       /\ contrib[p][Len(contrib[p])].step = step[p]
       /\ wasActive[p] = ActiveAt(step[p])

Position == \A p \in Proc : PositionAt(p)

\* The first n collectives have been entered by everybody, without an error.
Clear(n) ==
  \A k \in 1 .. n, q \in Proc : k <= Len(contrib[q]) /\ contrib[q][k].error = 0

\* Whoever goes on after a collective has seen no error in it.
ClearedAt(p) ==
  /\ Clear(Len(contrib[p]) - 1)
  /\ pc[p] = "user" \/ active[p] => Clear(Len(contrib[p]))

Cleared == WellFormed => \A p \in Proc : ClearedAt(p)

\* Inductive: each process has reached its own place in the program's order of
\* collectives (active_ tells which), and has seen the earlier ones succeed.
GuardInv == LockStep /\ Consecutive /\ Position /\ Cleared

=============================================================================
