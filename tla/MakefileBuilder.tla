--------------------------- MODULE MakefileBuilder ---------------------------
(***************************************************************************)
(* MakefileBuilder (python/dune/generator/cmakebuilder.py): jobs that      *)
(* share one dune-py directory, create it, clean it up, and each build and *)
(* import a generated module under two file locks.  A job has two ranks,   *)
(* of which rank 0 builds; it may be killed at any step, with all its      *)
(* child processes, and then loses its locks but no file.                  *)
(*                                                                         *)
(* All jobs ask for the same source of a module of one name.  The commands *)
(* that remove or make modules without any lock are left out.              *)
(***************************************************************************)
EXTENDS Naturals, FiniteSets

CONSTANTS
  Jobs,
  Modules,
  Disks      \* what may be on the disk before: see Init

Rank == {0, 1}

VARIABLES
  tag,       \* the file .noconfigure is there
  script,    \* buildScript.sh: "none", "torn" (being written, or cut off) or "whole"
  files,     \* the files of a module, see NoFiles
  aged,      \* modules whose library has not been read for 30 days
  exclusive, \* jobs with LOCK_EX of lock-module.lock
  shared,    \* jobs with LOCK_SH of lock-module.lock
  holders,   \* jobs with LOCK_EX of their module's lock file
  asks,      \* the module a job loads
  pc,        \* where rank 0 of a job is
  doomed,    \* modules a job's clean-up is still to remove
  loaded,    \* the code a rank has imported
  spoiled    \* history: modules left so that make misses nothing, see Kill

locks == <<exclusive, shared, holders>>
vars == <<tag, script, files, aged, locks, asks, pc, doomed, loaded, spoiled>>

-----------------------------------------------------------------------------

\* Source, object and library hold "none", "torn", "old" or "new", the code asked for;
\* an object is current if it is newer than all it depends on, and dependencies, the
\* .d file, lists its headers, or one that is gone by now, or is cut off.
NoFiles == [source |-> "none", object |-> "none", library |-> "none",
            current |-> FALSE, dependencies |-> "none"]

Content == {"none", "torn", "old", "new"}
FilesOfModule == [source : Content, object : Content, library : Content,
                  current : BOOLEAN, dependencies : {"none", "listed", "gone", "torn"}]

\* A tag file that is there before has been set by a job that wrote the script.
ASSUME DisksAssumption ==
  \A disk \in Disks : /\ disk.files \in [Modules -> FilesOfModule]
                      /\ disk.tag => disk.script = "whole"

Init ==
  /\ \E disk \in Disks :
       /\ tag = disk.tag /\ script = disk.script /\ aged = disk.aged
       /\ files = disk.files
  /\ exclusive = {} /\ shared = {} /\ holders = {}
  /\ asks \in [Jobs -> Modules]
  /\ pc = [p \in Jobs |-> "start"]
  /\ doomed = [p \in Jobs |-> {}]
  /\ loaded = [p \in Jobs |-> [r \in Rank |-> "not yet"]]
  /\ spoiled = {}

Goto(p, next) == pc' = [pc EXCEPT ![p] = next]

\* What is left to the operating system when a with statement or a job ends.
Release(p) ==
  /\ exclusive' = exclusive \ {p}
  /\ shared' = shared \ {p}
  /\ holders' = holders \ {p}

\* Mutant: the locks are given up explicitly, which an exception skips.
RaiseLocked(p) == Goto(p, "raised") /\ UNCHANGED locks

\* CompileError: the with statements give the locks up, rank 1 stays in the barrier.
Raise(p) == Goto(p, "raised") /\ Release(p)

-----------------------------------------------------------------------------
\* initialize(): dune-py is created if there is no tag file, then cleaned up.

\* Mutant: for the existing files a shared lock seems enough.
MayInitializeShared(p) == pc[p] = "start" /\ exclusive = {}

MayInitialize(p) == pc[p] = "start" /\ exclusive = {} /\ shared = {}

LockDunePy(p) ==
  /\ MayInitialize(p)
  /\ exclusive' = exclusive \cup {p}
  /\ Goto(p, IF tag THEN "clean" ELSE "template")
  /\ UNCHANGED <<tag, script, files, aged, shared, holders, asks, doomed, loaded, spoiled>>

\* The files of the template, cmake, and the rule for one module from which the
\* build script is to be written: its file is opened at the end.
Template(p) ==
  /\ pc[p] = "template"
  /\ \/ script' = "torn" /\ Goto(p, "script") /\ UNCHANGED locks
     \/ script' = script /\ Raise(p)
  /\ UNCHANGED <<tag, files, aged, asks, doomed, loaded, spoiled>>

\* Mutant: the tag is set before the script is complete.
WriteScriptLate(p) ==
  /\ pc[p] = "script"
  /\ IF tag THEN script' = "whole" /\ Goto(p, "tag") ELSE script' = script /\ Goto(p, "script")
  /\ tag' = TRUE
  /\ UNCHANGED <<files, aged, locks, asks, doomed, loaded, spoiled>>

WriteScript(p) ==
  /\ pc[p] = "script"
  /\ script' = "whole"
  /\ Goto(p, "tag")
  /\ UNCHANGED <<tag, files, aged, locks, asks, doomed, loaded, spoiled>>

SetTag(p) ==
  /\ pc[p] = "tag"
  /\ tag' = TRUE
  /\ Goto(p, "clean")
  /\ UNCHANGED <<script, files, aged, locks, asks, doomed, loaded, spoiled>>

\* forceConfigure() of another process, whenever a package is added.
ForceConfigure ==
  /\ tag
  /\ tag' = FALSE
  /\ UNCHANGED <<script, files, aged, locks, asks, pc, doomed, loaded, spoiled>>

\* removeGenerated(['30'], date=True): the libraries found first, then each module's.
Collect(p) ==
  /\ pc[p] = "clean"
  /\ doomed' = [doomed EXCEPT ![p] = {m \in aged : files[m].library # "none"}]
  /\ Goto(p, "remove")
  /\ UNCHANGED <<tag, script, files, aged, locks, asks, loaded, spoiled>>

Victim(p) == CHOOSE m \in doomed[p] : TRUE

RemoveLibrary(p) ==
  /\ pc[p] = "remove" /\ doomed[p] # {}
  /\ files' = [files EXCEPT ![Victim(p)].library = "none"]
  /\ aged' = aged \ {Victim(p)}
  /\ Goto(p, "remove source")
  /\ UNCHANGED <<tag, script, locks, asks, doomed, loaded, spoiled>>

RemoveSource(p) ==
  /\ pc[p] = "remove source"
  /\ files' = [files EXCEPT ![Victim(p)].source = "none"]
  /\ Goto(p, "remove directory")
  /\ UNCHANGED <<tag, script, aged, locks, asks, doomed, loaded, spoiled>>

\* rmtree unlinks the files of CMakeFiles/<module>.dir one by one, in any order.
RemoveFile(p) ==
  /\ pc[p] = "remove directory"
  /\ LET v == Victim(p)
     IN  \/ /\ files[v].object # "none"
            /\ files' = [files EXCEPT ![v] = [@ EXCEPT !.object = "none", !.current = FALSE]]
         \/ /\ files[v].dependencies # "none"
            /\ files' = [files EXCEPT ![v].dependencies = "none"]
  /\ Goto(p, "remove directory")
  /\ UNCHANGED <<tag, script, aged, locks, asks, doomed, loaded, spoiled>>

\* Mutant: an existing source file is never replaced.
OutdatedIfMissing(m) == files[m].source = "none"

\* The source is to be written: there is none, or another, or what a killed job left.
Outdated(m) == files[m].source # "new"

\* An object that make takes for good whether or not there is a library: it is newer
\* than its source, which is not written again, or nothing is known to depend on.
LeftOver(m) ==
  /\ files[m].object # "none"
  /\ files[m].dependencies = "none" \/ (files[m].current /\ ~Outdated(m))

\* All is gone, or an error ended rmtree before, which nobody hears of.
RemoveDirectory(p) ==
  /\ pc[p] = "remove directory"
  /\ spoiled' = spoiled \cup {m \in {Victim(p)} : LeftOver(m)}
  /\ doomed' = [doomed EXCEPT ![p] = @ \ {Victim(p)}]
  /\ Goto(p, "remove")
  /\ UNCHANGED <<tag, script, files, aged, locks, asks, loaded>>

LeaveInitialize(p) ==
  /\ pc[p] = "remove" /\ doomed[p] = {}
  /\ Release(p)
  /\ Goto(p, "load")
  /\ UNCHANGED <<tag, script, files, aged, asks, doomed, loaded, spoiled>>

-----------------------------------------------------------------------------
\* load(): rank 0 runs _buildModule, then all ranks import.

MayLoad(p) == pc[p] = "load" /\ exclusive = {}

LockShared(p) ==
  /\ MayLoad(p)
  /\ shared' = shared \cup {p}
  /\ Goto(p, "lock module")
  /\ UNCHANGED <<tag, script, files, aged, exclusive, holders, asks, doomed, loaded, spoiled>>

MayLockModule(p) == pc[p] = "lock module" /\ \A q \in holders : asks[q] # asks[p]

LockModule(p) ==
  /\ MayLockModule(p)
  /\ holders' = holders \cup {p}
  /\ Goto(p, "configure")
  /\ UNCHANGED <<tag, script, files, aged, exclusive, shared, asks, doomed, loaded, spoiled>>

\* _configureWithMake: opening the file for writing empties it.
Configure(p) ==
  /\ pc[p] = "configure"
  /\ IF Outdated(asks[p])
     THEN /\ files' = [files EXCEPT ![asks[p]].source = "torn", ![asks[p]].current = FALSE]
          /\ Goto(p, "write source")
     ELSE Goto(p, "make") /\ files' = files
  /\ UNCHANGED <<tag, script, aged, locks, asks, doomed, loaded, spoiled>>

WriteSource(p) ==
  /\ pc[p] = "write source"
  /\ files' = [files EXCEPT ![asks[p]].source = "new"]
  /\ Goto(p, "make")
  /\ UNCHANGED <<tag, script, aged, locks, asks, doomed, loaded, spoiled>>

\* The exit code of make -q for the library: 2 for a dependency that does not exist, or
\* a list that is cut off (0 if that is empty and there is an object: all the same to
\* Recipe).  The library depends on the object and has no rule, so it is never missed.
Question(m) ==
  IF files[m].dependencies \in {"gone", "torn"} THEN 2
  ELSE IF files[m].object = "none" \/ (files[m].dependencies = "listed" /\ ~files[m].current)
  THEN 1 ELSE 0

\* make runs the rule of the object; after exit code 2 from a makefile without the
\* dependencies, for which any object is good enough.
Recipe(m) == Question(m) = 1 \/ (Question(m) = 2 /\ files[m].object = "none")

\* What there is of the script has the compiler's line, whole or cut off.
RunMake(p) ==
  /\ pc[p] = "make" /\ Recipe(asks[p]) /\ script # "none"
  /\ Goto(p, "compile")
  /\ UNCHANGED <<tag, script, files, aged, locks, asks, doomed, loaded, spoiled>>

\* A script that was cut off before does nothing, and make does not mind.
RunEmptyScript(p) ==
  /\ pc[p] = "make" /\ Recipe(asks[p]) /\ script = "torn"
  /\ spoiled' = spoiled \cup {asks[p]}
  /\ Goto(p, "release")
  /\ UNCHANGED <<tag, script, files, aged, locks, asks, doomed, loaded>>

NothingToMake(p) ==
  /\ pc[p] = "make" /\ ~Recipe(asks[p])
  /\ spoiled' = IF Question(asks[p]) = 2 THEN spoiled \cup {asks[p]} ELSE spoiled
  /\ Goto(p, "release")
  /\ UNCHANGED <<tag, script, files, aged, locks, asks, doomed, loaded>>

\* The compiler starts to write the list of headers, or finds an error, as it does in
\* a line that is cut off.
Compile(p) ==
  /\ pc[p] = "compile"
  /\ \/ /\ files' = [files EXCEPT ![asks[p]].dependencies = "torn"]
        /\ Goto(p, "list") /\ UNCHANGED locks
     \/ files' = files /\ Raise(p)
  /\ UNCHANGED <<tag, script, aged, asks, doomed, loaded, spoiled>>

\* With the list complete it starts to write the object, or fails and leaves the old one.
WriteObject(p) ==
  /\ pc[p] = "list"
  /\ \/ /\ files' = [files EXCEPT ![asks[p]] =
                       [@ EXCEPT !.object = "torn", !.current = TRUE, !.dependencies = "listed"]]
        /\ Goto(p, "assemble") /\ UNCHANGED locks
     \/ /\ files' = [files EXCEPT ![asks[p]].dependencies = "listed"]
        /\ Raise(p)
  /\ UNCHANGED <<tag, script, aged, asks, doomed, loaded, spoiled>>

Assemble(p) ==
  /\ pc[p] = "assemble"
  /\ files' = [files EXCEPT ![asks[p]].object = files[asks[p]].source]
  /\ Goto(p, "link")
  /\ UNCHANGED <<tag, script, aged, locks, asks, doomed, loaded, spoiled>>

\* The linker starts to write the library, or fails and removes it: the object stays,
\* newer than its source.
Link(p) ==
  /\ pc[p] = "link"
  /\ \/ /\ script = "whole"
        /\ files' = [files EXCEPT ![asks[p]].library = "torn"]
        /\ Goto(p, "linking") /\ UNCHANGED <<locks, spoiled>>
     \/ /\ files' = [files EXCEPT ![asks[p]].library = "none"]
        /\ Raise(p) /\ spoiled' = spoiled \cup {asks[p]}
  /\ aged' = aged \ {asks[p]}
  /\ UNCHANGED <<tag, script, asks, doomed, loaded>>

\* The script was cut off after the compiler's line.
SkipLink(p) ==
  /\ pc[p] = "link" /\ script = "torn"
  /\ spoiled' = spoiled \cup {asks[p]}
  /\ Goto(p, "release")
  /\ UNCHANGED <<tag, script, files, aged, locks, asks, doomed, loaded>>

FinishLink(p) ==
  /\ pc[p] = "linking"
  /\ files' = [files EXCEPT ![asks[p]].library = files[asks[p]].object]
  /\ spoiled' = spoiled \ {asks[p]}
  /\ Goto(p, "release")
  /\ UNCHANGED <<tag, script, aged, locks, asks, doomed, loaded>>

\* The locks are given up and the barrier is passed before anything is imported.
Unlock(p) ==
  /\ pc[p] = "release"
  /\ Release(p)
  /\ Goto(p, "import")
  /\ UNCHANGED <<tag, script, files, aged, asks, doomed, loaded, spoiled>>

Import(p, r) ==
  /\ pc[p] = "import" /\ loaded[p][r] = "not yet"
  /\ loaded' = [loaded EXCEPT ![p][r] = files[asks[p]].library]
  /\ aged' = aged \ {asks[p]}
  /\ Goto(p, IF \A q \in Rank \ {r} : loaded[p][q] # "not yet" THEN "done" ELSE "import")
  /\ UNCHANGED <<tag, script, files, locks, asks, doomed, spoiled>>

-----------------------------------------------------------------------------

Ended(p) == pc[p] \in {"done", "raised", "killed"}

\* A job is killed.  Where it leaves an object newer than its source, or one nothing
\* is known to depend on, the next job misses nothing; of a list that is cut off see
\* NothingToMake; and what is left at any other moment the next job makes good.
Kill(p) ==
  /\ ~Ended(p) /\ pc[p] # "start"
  /\ Goto(p, "killed")
  /\ Release(p)
  /\ spoiled' = spoiled
       \cup (IF pc[p] \in {"assemble", "link", "linking"} THEN {asks[p]} ELSE {})
       \cup (IF pc[p] \in {"remove source", "remove directory"} /\ LeftOver(Victim(p))
             THEN {Victim(p)} ELSE {})
  /\ UNCHANGED <<tag, script, files, aged, asks, doomed, loaded>>

Initialize(p) ==
  \/ LockDunePy(p) \/ Template(p) \/ WriteScript(p) \/ SetTag(p) \/ Collect(p)
  \/ RemoveLibrary(p) \/ RemoveSource(p) \/ RemoveFile(p) \/ RemoveDirectory(p)
  \/ LeaveInitialize(p)
BuildModule(p) ==
  \/ LockShared(p) \/ LockModule(p) \/ Configure(p) \/ WriteSource(p) \/ RunMake(p)
  \/ RunEmptyScript(p) \/ NothingToMake(p) \/ Compile(p) \/ WriteObject(p) \/ Assemble(p)
  \/ Link(p) \/ SkipLink(p) \/ FinishLink(p) \/ Unlock(p)

Next ==
  \/ ForceConfigure
  \/ \E p \in Jobs : \/ Initialize(p) \/ BuildModule(p) \/ Kill(p)
                     \/ \E r \in Rank : Import(p, r)

Spec == Init /\ [][Next]_vars

-----------------------------------------------------------------------------
\* Properties.

\* Whoever finds the tag file may rely on the build script, also after a job was
\* killed anywhere in the creation of dune-py.
TagVouches == tag => script = "whole"

\* While a job builds a module, no other job changes a file of it, removes it as too
\* old, or rewrites the script it is built with.
BuildUndisturbed ==
  [][\A p \in holders : pc'[p] = pc[p] =>
       files'[asks[p]] = files[asks[p]] /\ script' = script]_vars

\* Every rank imports the code it asked for, whoever else builds, cleans up or was
\* killed before: but where make misses nothing, since a build, a removal or the
\* writing of the script was cut off or failed, or a header was moved.
LoadsWhatWasAsked ==
  [][\A p \in Jobs : \A r \in Rank : loaded'[p][r] # loaded[p][r] =>
       loaded'[p][r] = "new" \/ asks[p] \in spoiled]_vars

\* No job waits for ever for a lock, whatever happens to the others.
NobodyHangs ==
  \A p \in Jobs : \/ pc[p] \notin {"start", "load", "lock module"}
                  \/ MayInitialize(p) \/ MayLoad(p) \/ MayLockModule(p)
                  \/ \E q \in (exclusive \cup shared \cup holders) \ {p} :
                       ~Ended(q) /\ (pc[q] = "lock module" => MayLockModule(q))

=============================================================================
