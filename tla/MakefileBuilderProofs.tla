------------------------ MODULE MakefileBuilderProofs ------------------------
(***************************************************************************)
(* For any number of jobs and modules, killed wherever they are: the tag   *)
(* file vouches for the build script, builds are not disturbed, and nobody *)
(* waits for a lock that is not given up.                                  *)
(***************************************************************************)
EXTENDS MakefileBuilder, TLAPS

\* What a job does under the exclusive lock, under the shared lock, and under the lock
\* of its module as well.
Creating == {"template", "script", "tag"}
Cleaning == {"clean", "remove", "remove source", "remove directory"}
Building == {"configure", "write source", "make", "compile", "list", "assemble", "link",
             "linking", "release"}
Place == Creating \cup Cleaning \cup Building
           \cup {"start", "load", "lock module", "import", "done", "raised", "killed"}

TypeInv ==
  /\ files \in [Modules -> FilesOfModule]
  /\ asks \in [Jobs -> Modules]
  /\ pc \in [Jobs -> Place]

\* Where a job is decides what locks it holds.
Exclusively(place) == place \in Creating \cup Cleaning
WithModule(place) == place \in Building
Sharing(place) == place \in Building \cup {"lock module"}

HoldsLocks ==
  /\ exclusive \subseteq Jobs /\ shared \subseteq Jobs /\ holders \subseteq Jobs
  /\ \A p \in Jobs : /\ p \in exclusive <=> Exclusively(pc[p])
                     /\ p \in shared <=> Sharing(pc[p])
                     /\ p \in holders <=> WithModule(pc[p])

\* The locks exclude what flock promises.
Exclusion ==
  /\ \A p \in exclusive, q \in exclusive \cup shared : p = q
  /\ \A p, q \in holders : asks[p] = asks[q] => p = q

\* While dune-py is created there is no tag file, and its script is complete when the
\* file is about to be made.
TagIsLast ==
  /\ tag => script = "whole"
  /\ \A p \in Jobs : /\ pc[p] \in Creating => ~tag
                     /\ pc[p] = "tag" => script = "whole"

BuilderInv == TypeInv /\ HoldsLocks /\ Exclusion /\ TagIsLast

-----------------------------------------------------------------------------

LEMMA InitInv == Init => BuilderInv
<1> SUFFICES ASSUME Init PROVE BuilderInv
  OBVIOUS
<1>1. TypeInv /\ TagIsLast
  BY DisksAssumption DEF Init, TypeInv, TagIsLast, Creating, Place
<1>2. HoldsLocks /\ Exclusion
  BY DEF Init, HoldsLocks, Exclusion, Exclusively, Sharing, WithModule, Creating, Cleaning,
     Building
<1> QED BY <1>1, <1>2 DEF BuilderInv

\* A job that moves on without leaving or entering a with statement.
LEMMA SameLocks ==
  ASSUME BuilderInv, NEW p \in Jobs, NEW place \in Place, Goto(p, place),
         UNCHANGED <<locks, asks>>,
         Exclusively(place) <=> Exclusively(pc[p]),
         Sharing(place) <=> Sharing(pc[p]),
         WithModule(place) <=> WithModule(pc[p])
  PROVE  HoldsLocks' /\ Exclusion'
BY DEF BuilderInv, TypeInv, HoldsLocks, Exclusion, Goto, locks, Exclusively, Sharing, WithModule

\* A job that leaves its with statements.
LEMMA NoLocks ==
  ASSUME BuilderInv, NEW p \in Jobs, NEW place \in Place, Goto(p, place), Release(p),
         asks' = asks, ~Exclusively(place), ~Sharing(place), ~WithModule(place)
  PROVE  HoldsLocks' /\ Exclusion'
BY DEF BuilderInv, TypeInv, HoldsLocks, Exclusion, Goto, Release, Exclusively, Sharing,
   WithModule

\* All but the creation of dune-py leaves tag file and script alone.
LEMMA SameTag ==
  ASSUME BuilderInv, NEW p \in Jobs, NEW place \in Place, Goto(p, place),
         UNCHANGED <<tag, script>>, place \notin Creating
  PROVE  TagIsLast'
BY DEF BuilderInv, TypeInv, TagIsLast, Goto, Creating

\* What the source's opening, the compiler and rmtree do to the files of a module.
LEMMA TypedChanges ==
  ASSUME NEW old \in FilesOfModule, NEW c \in BOOLEAN
  PROVE  /\ [old EXCEPT !.source = "torn", !.current = c] \in FilesOfModule
         /\ [old EXCEPT !.object = "torn", !.current = c, !.dependencies = "listed"]
              \in FilesOfModule
         /\ [old EXCEPT !.dependencies = "listed"] \in FilesOfModule
         /\ [old EXCEPT !.object = "none", !.current = c] \in FilesOfModule
         /\ [old EXCEPT !.dependencies = "none"] \in FilesOfModule
         /\ [old EXCEPT !.dependencies = "torn"] \in FilesOfModule
BY DEF FilesOfModule, Content

\* The variables keep their types.
LEMMA TypesKept ==
  ASSUME TypeInv, NEW p \in Jobs, Initialize(p) \/ BuildModule(p)
  PROVE  TypeInv'
<1>1. CASE LockDunePy(p)
  BY <1>1 DEF LockDunePy, Goto, TypeInv, Place, Creating, Cleaning, Building
<1>2. CASE Template(p)
  BY <1>2 DEF Template, Goto, TypeInv, Place, Creating, Cleaning, Building, Raise
<1>3. CASE WriteScript(p)
  BY <1>3 DEF WriteScript, Goto, TypeInv, Place, Creating, Cleaning, Building
<1>4. CASE SetTag(p)
  BY <1>4 DEF SetTag, Goto, TypeInv, Place, Creating, Cleaning, Building
<1>5. CASE Collect(p)
  BY <1>5 DEF Collect, Goto, TypeInv, Place, Creating, Cleaning, Building
<1>6. CASE RemoveLibrary(p)
  BY <1>6 DEF RemoveLibrary, Goto, TypeInv, Place, Creating, Cleaning, Building,
     FilesOfModule, Content
<1>7. CASE RemoveSource(p)
  BY <1>7 DEF RemoveSource, Goto, TypeInv, Place, Creating, Cleaning, Building,
     FilesOfModule, Content
<1>8. CASE RemoveFile(p)
  <2>1. pc' \in [Jobs -> Place] /\ asks' = asks
    BY <1>8 DEF RemoveFile, Goto, TypeInv, Place, Creating, Cleaning, Building
  <2>2. files' \in [Modules -> FilesOfModule]
    <3> DEFINE v == Victim(p)
               f == [files[v] EXCEPT !.object = "none", !.current = FALSE]
               g == [files[v] EXCEPT !.dependencies = "none"]
    <3>1. CASE v \in Modules
      <4>1. files[v] \in FilesOfModule
        BY <3>1 DEF TypeInv
      <4>2. f \in FilesOfModule /\ g \in FilesOfModule
        BY TypedChanges, FALSE \in BOOLEAN, <4>1, Zenon
      <4>3. files' = [files EXCEPT ![v] = f] \/ files' = [files EXCEPT ![v] = g]
        BY <1>8, <3>1 DEF RemoveFile, TypeInv
      <4> QED BY <4>2, <4>3 DEF TypeInv
    <3>2. CASE v \notin Modules
      <4>1. PICK e : files' = [files EXCEPT ![v] = e]
        BY <1>8 DEF RemoveFile
      <4> QED BY <3>2, <4>1 DEF TypeInv
    <3> QED BY <3>1, <3>2
  <2> QED BY <2>1, <2>2 DEF TypeInv
<1>22. CASE RemoveDirectory(p)
  BY <1>22 DEF RemoveDirectory, Goto, TypeInv, Place, Creating, Cleaning, Building
<1>9. CASE LeaveInitialize(p)
  BY <1>9 DEF LeaveInitialize, Goto, TypeInv, Place, Creating, Cleaning, Building
<1>10. CASE LockShared(p)
  BY <1>10 DEF LockShared, Goto, TypeInv, Place, Creating, Cleaning, Building
<1>11. CASE LockModule(p)
  BY <1>11 DEF LockModule, Goto, TypeInv, Place, Creating, Cleaning, Building
<1>12. CASE Configure(p)
  <2>1. pc' \in [Jobs -> Place] /\ asks' = asks
    BY <1>12 DEF Configure, Goto, Raise, TypeInv, Place, Creating, Cleaning, Building
  <2>2. files' \in [Modules -> FilesOfModule]
    <3> DEFINE f == [files[asks[p]] EXCEPT !.source = "torn", !.current = FALSE]
    <3>1. f \in FilesOfModule
      <4>1. files[asks[p]] \in FilesOfModule
        BY DEF TypeInv
      <4> QED BY TypedChanges, FALSE \in BOOLEAN, <4>1, Zenon
    <3>2. files' = files \/ files' = [files EXCEPT ![asks[p]] = f]
      BY <1>12 DEF Configure, TypeInv
    <3> QED BY <3>1, <3>2 DEF TypeInv
  <2> QED BY <2>1, <2>2 DEF TypeInv
<1>13. CASE WriteSource(p)
  BY <1>13 DEF WriteSource, Goto, TypeInv, Place, Creating, Cleaning, Building,
     FilesOfModule, Content
<1>14. CASE RunMake(p)
  BY <1>14 DEF RunMake, Goto, TypeInv, Place, Creating, Cleaning, Building
<1>15. CASE RunEmptyScript(p)
  BY <1>15 DEF RunEmptyScript, Goto, TypeInv, Place, Creating, Cleaning, Building
<1>16. CASE NothingToMake(p)
  BY <1>16 DEF NothingToMake, Goto, TypeInv, Place, Creating, Cleaning, Building
<1>17. CASE Compile(p)
  <2>1. pc' \in [Jobs -> Place] /\ asks' = asks
    BY <1>17 DEF Compile, Goto, Raise, TypeInv, Place, Creating, Cleaning, Building
  <2>2. files' \in [Modules -> FilesOfModule]
    <3> DEFINE f == [files[asks[p]] EXCEPT !.dependencies = "torn"]
    <3>1. f \in FilesOfModule
      <4>1. files[asks[p]] \in FilesOfModule
        BY DEF TypeInv
      <4> QED BY TypedChanges, TRUE \in BOOLEAN, <4>1, Zenon
    <3>2. files' = files \/ files' = [files EXCEPT ![asks[p]] = f]
      BY <1>17 DEF Compile, TypeInv
    <3> QED BY <3>1, <3>2 DEF TypeInv
  <2> QED BY <2>1, <2>2 DEF TypeInv
<1>23. CASE WriteObject(p)
  <2>1. pc' \in [Jobs -> Place] /\ asks' = asks
    BY <1>23 DEF WriteObject, Goto, Raise, TypeInv, Place, Creating, Cleaning, Building
  <2>2. files' \in [Modules -> FilesOfModule]
    <3> DEFINE f == [files[asks[p]] EXCEPT !.object = "torn", !.current = TRUE,
                                           !.dependencies = "listed"]
               g == [files[asks[p]] EXCEPT !.dependencies = "listed"]
    <3>1. f \in FilesOfModule /\ g \in FilesOfModule
      <4>1. files[asks[p]] \in FilesOfModule
        BY DEF TypeInv
      <4> QED BY TypedChanges, TRUE \in BOOLEAN, <4>1, Zenon
    <3>2. files' = [files EXCEPT ![asks[p]] = f] \/ files' = [files EXCEPT ![asks[p]] = g]
      BY <1>23 DEF WriteObject, TypeInv
    <3> QED BY <3>1, <3>2 DEF TypeInv
  <2> QED BY <2>1, <2>2 DEF TypeInv
<1>18. CASE Assemble(p)
  BY <1>18 DEF Assemble, Goto, TypeInv, Place, Creating, Cleaning, Building, FilesOfModule,
     Content
<1>19. CASE Link(p)
  <2>1. pc' \in [Jobs -> Place] /\ asks' = asks
    BY <1>19 DEF Link, Goto, Raise, TypeInv, Place, Creating, Cleaning, Building
  <2>2. files' \in [Modules -> FilesOfModule]
    BY <1>19 DEF Link, TypeInv, FilesOfModule, Content
  <2> QED BY <2>1, <2>2 DEF TypeInv
<1>24. CASE SkipLink(p)
  BY <1>24 DEF SkipLink, Goto, TypeInv, Place, Creating, Cleaning, Building
<1>20. CASE FinishLink(p)
  BY <1>20 DEF FinishLink, Goto, TypeInv, Place, Creating, Cleaning, Building,
     FilesOfModule, Content
<1>21. CASE Unlock(p)
  BY <1>21 DEF Unlock, Goto, TypeInv, Place, Creating, Cleaning, Building
<1> QED
  BY <1>1, <1>2, <1>3, <1>4, <1>5, <1>6, <1>7, <1>8, <1>9, <1>10, <1>11, <1>12, <1>13, <1>14,
     <1>15, <1>16, <1>17, <1>18, <1>19, <1>20, <1>21, <1>22, <1>23, <1>24
     DEF Initialize, BuildModule

\* The locks in initialize().
LEMMA InitializeLocks ==
  ASSUME BuilderInv, NEW p \in Jobs, Initialize(p)
  PROVE  HoldsLocks' /\ Exclusion'
<1>1. CASE LockDunePy(p)
  BY <1>1 DEF LockDunePy, MayInitialize, Goto, BuilderInv, TypeInv, HoldsLocks, Exclusion,
     Exclusively, Sharing, WithModule, Creating, Cleaning,
     Building, Place
<1>2. CASE Template(p)
  <2>1. CASE Raise(p)
    BY <1>2, <2>1, NoLocks DEF Template, Raise, Exclusively, Sharing, WithModule, Creating,
       Cleaning,
     Building, Place
  <2>2. CASE Goto(p, "script") /\ UNCHANGED locks
    BY <1>2, <2>2, SameLocks DEF Template, locks, Exclusively, Sharing, WithModule,
       Creating, Cleaning,
     Building, Place
  <2> QED BY <1>2, <2>1, <2>2 DEF Template
<1>3. CASE WriteScript(p)
  BY <1>3, SameLocks DEF WriteScript, locks, Exclusively, Sharing, WithModule, Creating,
     Cleaning,
     Building, Place
<1>4. CASE SetTag(p)
  BY <1>4, SameLocks DEF SetTag, locks, Exclusively, Sharing, WithModule, Creating, Cleaning,
     Building, Place
<1>5. CASE Collect(p)
  BY <1>5, SameLocks DEF Collect, locks, Exclusively, Sharing, WithModule, Creating, Cleaning,
     Building, Place
<1>6. CASE RemoveLibrary(p)
  BY <1>6, SameLocks DEF RemoveLibrary, locks, Exclusively, Sharing, WithModule, Creating,
     Cleaning,
     Building, Place
<1>7. CASE RemoveSource(p)
  BY <1>7, SameLocks DEF RemoveSource, locks, Exclusively, Sharing, WithModule, Creating,
     Cleaning,
     Building, Place
<1>8. CASE RemoveFile(p)
  BY <1>8, SameLocks DEF RemoveFile, locks, Exclusively, Sharing, WithModule, Creating,
     Cleaning, Building, Place
<1>10. CASE RemoveDirectory(p)
  BY <1>10, SameLocks DEF RemoveDirectory, locks, Exclusively, Sharing, WithModule, Creating,
     Cleaning, Building, Place
<1>9. CASE LeaveInitialize(p)
  BY <1>9, NoLocks DEF LeaveInitialize, Exclusively, Sharing, WithModule, Creating, Cleaning,
     Building, Place
<1> QED
  BY <1>1, <1>2, <1>3, <1>4, <1>5, <1>6, <1>7, <1>8, <1>9, <1>10 DEF Initialize

\* The locks in _buildModule().
LEMMA BuildModuleLocks ==
  ASSUME BuilderInv, NEW p \in Jobs, BuildModule(p)
  PROVE  HoldsLocks' /\ Exclusion'
<1>1. CASE LockShared(p)
  <2>1. exclusive = {} /\ pc[p] = "load" /\ pc' = [pc EXCEPT ![p] = "lock module"]
    BY <1>1 DEF LockShared, MayLoad, Goto
  <2>2. Exclusion'
    BY <1>1, <2>1 DEF LockShared, BuilderInv, Exclusion
  <2>3. HoldsLocks'
    BY <1>1, <2>1 DEF LockShared, BuilderInv, TypeInv, HoldsLocks, Exclusively, Sharing,
       WithModule,
       Creating, Cleaning, Building
  <2> QED BY <2>2, <2>3
<1>2. CASE LockModule(p)
  BY <1>2 DEF LockModule, MayLockModule, Goto, BuilderInv, TypeInv, HoldsLocks, Exclusion,
     Exclusively, Sharing, WithModule, Creating, Cleaning,
     Building, Place
<1>3. CASE Configure(p)
  BY <1>3, SameLocks DEF Configure, locks, Exclusively, Sharing, WithModule, Creating, Cleaning,
     Building, Place
<1>4. CASE WriteSource(p)
  BY <1>4, SameLocks DEF WriteSource, locks, Exclusively, Sharing, WithModule, Creating,
     Cleaning,
     Building, Place
<1>5. CASE RunMake(p)
  BY <1>5, SameLocks DEF RunMake, locks, Exclusively, Sharing, WithModule, Creating, Cleaning,
     Building, Place
<1>6. CASE RunEmptyScript(p)
  BY <1>6, SameLocks DEF RunEmptyScript, locks, Exclusively, Sharing, WithModule, Creating,
     Cleaning,
     Building, Place
<1>7. CASE NothingToMake(p)
  BY <1>7, SameLocks DEF NothingToMake, locks, Exclusively, Sharing, WithModule, Creating,
     Cleaning,
     Building, Place
<1>8. CASE Compile(p)
  <2>1. CASE Raise(p)
    BY <1>8, <2>1, NoLocks DEF Compile, Raise, Exclusively, Sharing, WithModule, Creating,
       Cleaning,
     Building, Place
  <2>2. CASE Goto(p, "list") /\ UNCHANGED locks
    BY <1>8, <2>2, SameLocks DEF Compile, locks, Exclusively, Sharing, WithModule, Creating,
       Cleaning, Building, Place
  <2> QED BY <1>8, <2>1, <2>2 DEF Compile
<1>13. CASE WriteObject(p)
  <2>1. CASE Raise(p)
    BY <1>13, <2>1, NoLocks DEF WriteObject, Raise, Exclusively, Sharing, WithModule,
       Creating, Cleaning, Building, Place
  <2>2. CASE Goto(p, "assemble") /\ UNCHANGED locks
    BY <1>13, <2>2, SameLocks DEF WriteObject, locks, Exclusively, Sharing, WithModule,
       Creating, Cleaning, Building, Place
  <2> QED BY <1>13, <2>1, <2>2 DEF WriteObject
<1>9. CASE Assemble(p)
  BY <1>9, SameLocks DEF Assemble, locks, Exclusively, Sharing, WithModule, Creating, Cleaning,
     Building, Place
<1>10. CASE Link(p)
  <2>1. CASE Raise(p)
    BY <1>10, <2>1, NoLocks DEF Link, Raise, Exclusively, Sharing, WithModule, Creating,
       Cleaning,
     Building, Place
  <2>2. CASE Goto(p, "linking") /\ UNCHANGED locks
    BY <1>10, <2>2, SameLocks DEF Link, locks, Exclusively, Sharing, WithModule, Creating,
       Cleaning,
     Building, Place
  <2> QED BY <1>10, <2>1, <2>2 DEF Link
<1>14. CASE SkipLink(p)
  BY <1>14, SameLocks DEF SkipLink, locks, Exclusively, Sharing, WithModule, Creating,
     Cleaning, Building, Place
<1>11. CASE FinishLink(p)
  BY <1>11, SameLocks DEF FinishLink, locks, Exclusively, Sharing, WithModule, Creating,
     Cleaning,
     Building, Place
<1>12. CASE Unlock(p)
  BY <1>12, NoLocks DEF Unlock, Exclusively, Sharing, WithModule, Creating, Cleaning,
     Building, Place
<1> QED
  BY <1>1, <1>2, <1>3, <1>4, <1>5, <1>6, <1>7, <1>8, <1>9, <1>10, <1>11, <1>12, <1>13, <1>14
     DEF BuildModule

\* The tag file in initialize(): nobody else is there while dune-py is created.
LEMMA InitializeTag ==
  ASSUME BuilderInv, NEW p \in Jobs, Initialize(p)
  PROVE  TagIsLast'
<1>1. \A q \in Jobs : pc[p] \in Creating \cup Cleaning /\ pc[q] \in Creating => q = p
  BY DEF BuilderInv, HoldsLocks, Exclusion, Exclusively
<1> USE DEF BuilderInv, TypeInv, TagIsLast, Goto
<1>2. CASE LockDunePy(p)
  <2>1. \A q \in Jobs : pc[q] \notin Creating
    BY <1>2 DEF LockDunePy, MayInitialize, HoldsLocks, Exclusively
  <2> QED BY <1>2, <2>1 DEF LockDunePy, Creating
<1>3. CASE Template(p)
  BY <1>1, <1>3 DEF Template, Raise, Creating
<1>4. CASE WriteScript(p)
  BY <1>1, <1>4 DEF WriteScript, Creating
<1>5. CASE SetTag(p)
  BY <1>1, <1>5 DEF SetTag, Creating
<1>6. CASE Collect(p) \/ RemoveLibrary(p) \/ RemoveSource(p) \/ RemoveFile(p)
         \/ RemoveDirectory(p) \/ LeaveInitialize(p)
  BY <1>6, SameTag DEF Collect, RemoveLibrary, RemoveSource, RemoveFile, RemoveDirectory,
     LeaveInitialize, Creating, Cleaning, Place
<1> QED
  BY <1>2, <1>3, <1>4, <1>5, <1>6 DEF Initialize

\* Nobody builds with the tag file or the script in his hands.
LEMMA BuildModuleTag ==
  ASSUME BuilderInv, NEW p \in Jobs, BuildModule(p)
  PROVE  TagIsLast'
<1>1. PICK place \in Place \ Creating : Goto(p, place)
  BY DEF BuildModule, LockShared, LockModule, Configure, WriteSource, RunMake, RunEmptyScript,
     NothingToMake, Compile, WriteObject, Assemble, Link, SkipLink, FinishLink, Unlock, Raise,
     Place, Creating, Cleaning, Building
<1>2. tag' = tag /\ script' = script
  BY DEF BuildModule, LockShared, LockModule, Configure, WriteSource, RunMake, RunEmptyScript,
     NothingToMake, Compile, WriteObject, Assemble, Link, SkipLink, FinishLink, Unlock
<1> QED BY <1>1, <1>2, SameTag

LEMMA NextKeepsInv == BuilderInv /\ [Next]_vars => BuilderInv'
<1> SUFFICES ASSUME BuilderInv, [Next]_vars PROVE BuilderInv'
  OBVIOUS
<1>1. ASSUME NEW p \in Jobs, Initialize(p) PROVE BuilderInv'
  BY <1>1, TypesKept, InitializeLocks, InitializeTag DEF BuilderInv
<1>2. ASSUME NEW p \in Jobs, BuildModule(p) PROVE BuilderInv'
  BY <1>2, TypesKept, BuildModuleLocks, BuildModuleTag DEF BuilderInv
<1>3. CASE ForceConfigure
  BY <1>3 DEF ForceConfigure, locks, BuilderInv, TypeInv, HoldsLocks, Exclusion, TagIsLast
<1>4. ASSUME NEW p \in Jobs, Kill(p) PROVE BuilderInv'
  <2>1. TypeInv'
    BY <1>4 DEF Kill, Goto, BuilderInv, TypeInv, Place
  <2>2. HoldsLocks' /\ Exclusion'
    BY <1>4, NoLocks DEF Kill, Exclusively, Sharing, WithModule, Creating, Cleaning,
       Building, Place
  <2>3. TagIsLast'
    BY <1>4, SameTag DEF Kill, Creating, Place
  <2> QED BY <2>1, <2>2, <2>3 DEF BuilderInv
<1>5. ASSUME NEW p \in Jobs, NEW r \in Rank, Import(p, r) PROVE BuilderInv'
  <2>1. PICK place \in {"done", "import"} : Goto(p, place)
    BY <1>5 DEF Import
  <2>2. TypeInv'
    BY <1>5, <2>1 DEF Import, Goto, BuilderInv, TypeInv, Place
  <2>3. HoldsLocks' /\ Exclusion'
    BY <1>5, <2>1, SameLocks DEF Import, Exclusively, Sharing, WithModule, Creating, Cleaning,
       Building, Place
  <2>4. TagIsLast'
    BY <1>5, <2>1, SameTag DEF Import, Creating, Place
  <2> QED BY <2>2, <2>3, <2>4 DEF BuilderInv
<1>6. CASE UNCHANGED vars
  BY <1>6 DEF vars, locks, BuilderInv, TypeInv, HoldsLocks, Exclusion, TagIsLast
<1> QED
  BY <1>1, <1>2, <1>3, <1>4, <1>5, <1>6 DEF Next

\* Every state of any number of jobs has the inductive invariant.
THEOREM BuilderInvariant == Spec => []BuilderInv
BY InitInv, NextKeepsInv, PTL DEF Spec

-----------------------------------------------------------------------------

\* A tag file is a promise that the build script is complete, whichever jobs were
\* killed while they created dune-py.
THEOREM TagIsSafe == Spec => []TagVouches
<1>1. BuilderInv => TagVouches
  BY DEF BuilderInv, TagIsLast, TagVouches
<1> QED BY <1>1, BuilderInvariant, PTL

\* Who waits for a lock waits for a job that goes on.
THEOREM NobodyWaitsInVain == Spec => []NobodyHangs
<1>1. BuilderInv => NobodyHangs
  <2> SUFFICES ASSUME BuilderInv, NEW p \in Jobs,
                      pc[p] \in {"start", "load", "lock module"},
                      ~MayInitialize(p), ~MayLoad(p), ~MayLockModule(p)
               PROVE  \E q \in (exclusive \cup shared \cup holders) \ {p} :
                        ~Ended(q) /\ (pc[q] = "lock module" => MayLockModule(q))
    BY DEF NobodyHangs
  <2> USE DEF BuilderInv, HoldsLocks, Exclusion, Ended, Exclusively, Sharing, WithModule,
     Creating,
          Cleaning, Building
  <2>1. ASSUME NEW q \in holders, q # p
        PROVE  \E o \in (exclusive \cup shared \cup holders) \ {p} :
                 ~Ended(o) /\ (pc[o] = "lock module" => MayLockModule(o))
    BY <2>1
  <2>2. CASE pc[p] = "lock module"
    <3>1. PICK q \in holders : asks[q] = asks[p]
      BY <2>2 DEF MayLockModule
    <3> QED BY <2>1, <2>2, <3>1
  <2>3. CASE pc[p] = "load"
    <3>1. PICK q \in exclusive : TRUE
      BY <2>3 DEF MayLoad
    <3> QED BY <2>3, <3>1
  <2>4. CASE pc[p] = "start"
    <3>1. PICK q \in exclusive \cup shared : TRUE
      BY <2>4 DEF MayInitialize
    <3>2. q # p /\ ~Ended(q)
      BY <2>4, <3>1
    <3>3. CASE pc[q] = "lock module" /\ ~MayLockModule(q)
      <4>1. PICK o \in holders : asks[o] = asks[q]
        BY <3>3 DEF MayLockModule
      <4>2. o # p
        BY <2>4
      <4> QED BY <2>1, <4>2
    <3> QED BY <3>1, <3>2, <3>3
  <2> QED BY <2>2, <2>3, <2>4
<1> QED BY <1>1, BuilderInvariant, PTL

-----------------------------------------------------------------------------

\* What another job does leaves the files of a build and the script alone.
LEMMA StepLeavesBuildAlone ==
  ASSUME BuilderInv, [Next]_vars, NEW p \in holders, pc'[p] = pc[p]
  PROVE  files'[asks[p]] = files[asks[p]] /\ script' = script
<1> USE DEF BuilderInv, TypeInv, HoldsLocks, Exclusion, Goto, Exclusively, Sharing, WithModule,
          Creating, Cleaning, Building, Place
<1>1. p \in Jobs /\ pc[p] \in Building /\ exclusive = {} /\ asks[p] \in Modules
  <2>1. p \in Jobs /\ pc[p] \in Building /\ asks[p] \in Modules
    OBVIOUS
  <2>2. p \in shared /\ p \notin exclusive
    BY <2>1
  <2>3. ASSUME NEW q \in exclusive PROVE FALSE
    BY <2>2, <2>3
  <2> QED BY <2>1, <2>3
<1>2. ASSUME NEW q \in Jobs, Initialize(q)
      PROVE  files' = files /\ script' = script
  BY <1>1, <1>2 DEF Initialize, LockDunePy, Template, WriteScript, SetTag, Collect,
     RemoveLibrary, RemoveSource, RemoveFile, RemoveDirectory, LeaveInitialize, MayInitialize
<1>3. ASSUME NEW q \in Jobs, BuildModule(q)
      PROVE  files'[asks[p]] = files[asks[p]] /\ script' = script
  <2>1. script' = script
    BY <1>3 DEF BuildModule, LockShared, LockModule, Configure, WriteSource, RunMake,
       RunEmptyScript, NothingToMake, Compile, WriteObject, Assemble, Link, SkipLink,
       FinishLink, Unlock
  <2>2. CASE files' = files
    BY <2>1, <2>2
  <2>3. CASE files' # files
    <3>1. Configure(q) \/ WriteSource(q) \/ Compile(q) \/ WriteObject(q) \/ Assemble(q)
            \/ Link(q) \/ FinishLink(q)
      BY <1>3, <2>3 DEF BuildModule, LockShared, LockModule, RunMake, RunEmptyScript,
         NothingToMake, SkipLink, Unlock
    <3>2. q \in holders /\ pc'[q] # pc[q]
      BY <2>3, <3>1 DEF Configure, WriteSource, Compile, WriteObject, Assemble, Link, FinishLink,
         Raise
    <3>3. asks[q] # asks[p]
      BY <3>2
    <3>4. \E f : files' = [files EXCEPT ![asks[q]] = f]
      BY <2>3, <3>1 DEF Configure, WriteSource, Compile, WriteObject, Assemble, Link, FinishLink
    <3> QED BY <1>1, <2>1, <3>3, <3>4
  <2> QED BY <2>2, <2>3
<1>4. CASE ForceConfigure
  BY <1>4 DEF ForceConfigure
<1>5. ASSUME NEW q \in Jobs, Kill(q) PROVE files' = files /\ script' = script
  BY <1>5 DEF Kill
<1>6. ASSUME NEW q \in Jobs, NEW r \in Rank, Import(q, r) PROVE files' = files /\ script' = script
  BY <1>6 DEF Import
<1>7. CASE UNCHANGED vars
  BY <1>7 DEF vars
<1> QED BY <1>2, <1>3, <1>4, <1>5, <1>6, <1>7 DEF Next

\* While a job builds a module, the other jobs change none of its files and not the
\* script, however many of them build, clean up or create dune-py anew.
THEOREM BuildsUndisturbed == Spec => BuildUndisturbed
<1>1. BuilderInv /\ [Next]_vars =>
        [\A p \in holders : pc'[p] = pc[p] =>
           files'[asks[p]] = files[asks[p]] /\ script' = script]_vars
  BY StepLeavesBuildAlone
<1> QED BY <1>1, BuilderInvariant, PTL DEF Spec, BuildUndisturbed

=============================================================================
