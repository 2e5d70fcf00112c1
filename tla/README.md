# Formal models of dune-common

`dune-common` is the base library of the DUNE framework: header-only C++ for
parallel index sets and communication on top of MPI, containers and allocators,
dense linear algebra, template utilities, and a Python layer that compiles
modules on demand. This directory holds TLA+ models of the parts of it that
have a state worth checking, the TLC runs that check them on small instances,
and proofs that the TLA+ proof system checks for every value of the constants.
All paths below are relative to the repository, `parallel/` is
`dune/common/parallel/`.

    tlc -config MPIGuard.cfg MCMPIGuard.tla      # one of the runs
    tlapm MPIGuardProofs.tla                     # one of the proof modules

`PROJECT.json` lists the components, the runs with what each of them shows, the
mutants that show that each property can fail, the lines each definition
models, the findings, the hazards and the theorems.

## The system

| Component | State | Operations | What is hard | What makes it correct |
|---|---|---|---|---|
| `MPIGuard` (`parallel/mpiguard.hh`) | `active_` on every rank, and the collectives of the communicator | constructor, `reactivate`, `finalize`, destructor | a process fails while others are blocked in a sum; the destructor runs during unwinding | collectives pair up section by section, nobody goes on after an error, nobody hangs |
| `ParallelIndexSet` (`parallel/indexset.hh`, `plocalindex.hh`) | sorted array of (global, local, attribute, deleted), new pairs, `state_`, `seqNo_`, `deletedEntries_` | `beginResize`, `add`, `markAsDeleted`, `endResize` (sort and merge), `renumberLocal`, `at`, `exists`, `operator[]` | equal global indices, deletions and additions at once, boundaries of the binary search | sorted, nothing lost or invented, lookups find what is there |
| `RemoteIndices` (`parallel/remoteindices.hh`) | a send and a receive list per remote rank, sequence numbers seen, `firstBuild`, `publicIgnored`, neighbours | `rebuild` (local decision, `MPI_Allreduce`, ring or neighbour exchange, two kinds of list construction) | blocking sends in a ring, any-source receives across successive rebuilds, the origin of a message computed instead of sent | lists are exactly the indices both sides know, at their current version; no deadlock |
| `Interface` (`parallel/interface.hh`) | local numbers to send and to receive per rank | `build` for two sets of attributes | both sides derive an order on their own | the k-th entry sent is the k-th entry expected |
| `IndicesSyncer` (`parallel/indicessyncer.hh`) | message sizes, remote lists being modified, the index set in resize | `sync` | any-source receives, entries merged into sorted lists while they are walked, reuse | everybody learns who knows what, once |
| `VariableSizeCommunicator` (`parallel/variablesizecommunicator.hh`) | a buffer, a tracker and a request per neighbour | `forward`, `backward` | messages cut where the buffer is full, requests completing in any order | every item arrives once at its place, nobody waits for ever |
| `BufferedCommunicator`, `DatatypeCommunicator` (`parallel/communicator.hh`) | buffers or MPI data types and requests per interface | `build`, `forward`, `backward`, `free` | reuse of buffers and requests between calls | what is received is what was gathered |
| `MPIFuture` (`parallel/mpifuture.hh`) | request, status, buffers | `wait`, `ready`, `get`, move, destruction | buffers must outlive the request | never read before the operation is complete |
| Containers (`arraylist.hh`, `sllist.hh`, `lru.hh`, `reservedvector.hh`, `bigunsignedint.hh`, ...) | chunks and offsets; linked nodes and a tail; a list and an index into it | insertion, removal, purging | boundaries, iterators kept over modifications | each behaves as the sequence or map it stands for |
| `Pool`, `DebugAllocator` | free list, chunks | `allocate`, `free` | order of frees | no block handed out twice |
| `ParameterTree`, `DebugStream`, `MPIHelper` | nested maps; a stack of activation states; initialisation flags | lookups with dotted keys, `push` and `pop`, construction and destruction | ordering of calls | see the source |
| Python module builder (`python/dune/generator/cmakebuilder.py`) | files: lock, tags, generated sources, built libraries | `load` on several processes | crashes between steps, lock changes | nobody loads a module that is half built |
| Linear algebra, SIMD, type traits, type trees, `cmake/`, `dunecontrol` | none at run time, or none but numbers | | | not modelled |

An index set is changed in a resize, its `seqNo` tells `RemoteIndices` that it
is out of date; `rebuild` makes the lists again; `InterfaceBuilder` derives from
them, independently on each rank, which local entries are sent and received; a
communicator moves the data of these entries. `IndicesSyncer` adds the indices
that other processes know of to the set and the lists. `MPIGuard` surrounds
user code that calls any of this, so that a failure on one rank becomes a
failure on all of them instead of a deadlock.

## Modules

| Module | Models |
|---|---|
| `MPIGuard` | the guard on all ranks |
| `MPIGuardProofs` | theorems about it |
| `ParallelIndexSet` | the index set of one process |
| `RingExchange` | the ring of `buildRemote`, payloads abstracted to their origin |
| `RingExchangeProofs` | theorems about it, for any number of processes |
| `RemoteIndexLists` | what is computed from a message: the lists and interfaces, as operators |
| `RemoteIndices` | `rebuild` on all ranks; refines `RingExchange` |
| `RemoteIndicesProofs` | theorems about it: the refinement, step by step, and what it carries over; exact lists and matching interfaces |
| `IndicesSyncer` | `sync` on all ranks |
| `BufferedCommunicator` | `build`, `forward` and `backward` on all ranks |
| `SyncedCommunication` | composes the two through an interface built from the synchronised lists |
| `SyncedCommunicationProofs` | theorems about the syncs, and about data communicated after them, for any processes, sets and lists |
| `VariableSizeCommunicator` | `forward` and `backward` on all ranks; refines `ChunkedExchange` |
| `VariableSizeProofs` | theorems about it for any ranks, calls and sizes, and the refinement, step by step |
| `ChunkedExchange` | what a variable size communicator promises, without buffers and requests |
| `ChunkedExchangeProofs` | theorems about it, for any processes and amounts of data |
| `ArrayList`, `SLList`, `lru` | the containers of the same names, `SLList` with the pool its cells come from |
| `Containers` | one sequential container per execution: the three, or the index set |
| `ContainersProofs` | theorems about the four, for any contents and bounds |
| `MakefileBuilder` | creation, clean-up, build and import in one dune-py directory by several jobs |
| `MakefileBuilderProofs` | theorems about it, for any jobs and modules |
| `MC...` | instances for TLC |

### MPIGuard

The guarded scope is a sequence `Program` of calls of `reactivate()` and
`finalize()`, the same on every rank, between the constructor and the
destructor; between two calls user code may throw on any rank (`UserThrow`), and
`finalize` gets any argument. `comm_->sum` is split in two: a process enters
it by appending its summand to `contrib`, its own history of collectives
(`EnterSum`), and is blocked until everybody's history is as long as its own
(`SumComplete`): this is the only order MPI gives between collectives of one
communicator, and lets us say that a process paired its sum with another
section's. `Finalize` follows `finalize()` up to the sum and keeps `was_active`
in `wasActive`, `SumThrows` and `SumReturns` what comes after it, also when it
was called by `reactivate()` (`ReactivateActive`, which goes on to set
`active_`). `DestroyActive` is `finalize(false)` in the destructor, which resets
`active_` first so that it never throws.

Fairness: a rank that can go on does, and a sum that everybody entered returns.
User code is not forced to throw, and it is assumed to come to its next call.
`EveryoneLeaves` excepts one case the class leaves to its caller: user code that
throws where the guard is inactive, before a collective the others will enter.

### ParallelIndexSet

`localIndices`, `newIndices`, `state`, `seqNo` and `deletedEntries` are the
members of the class. The calls that throw `InvalidIndexSetState` change
nothing and appear as guards (these checks are compiled out with `NDEBUG`; the
models are of correct use). `EndResize` is the whole of `endResize()`: the
sort of the new pairs, whose order among equal pairs `std::sort` leaves open
(`SortedOrders`), the merge with its special cases, the sequence number and
the state. A pair is a record; a local index is a number, an attribute and the
deleted flag (the public flag is in `RemoteIndexLists`, where it is read).
Lookups are operators that follow the binary search of the code with its
positions from 0.

### RingExchange and RemoteIndices

`RemoteIndices` models `rebuild()` on all ranks. What the user code does is
part of the initial state: a `scenario` holds the program (rebuilds and
resizes), the contents of the index sets, neighbours, `includeSelf`, and which
ranks use two index sets. `RebuildStarts` covers the local decision and
`free()`, and blocks in the `MPI_Allreduce`, which returns when everybody has
entered as often (`ReduceComplete`). `ReduceReturns` is everything up to the
exchange: packing, the lists for the own rank, and the removal of the own rank from the
neighbours. A synchronous send is `pending` until its receive takes it; the
`MPI_Ssend` of the ring blocks meanwhile, the `MPI_Issend`s to neighbours are
waited for by `WaitAll`. `ProbeAndReceive` may take any message that
is posted for the rank, whoever sent it and in whichever rebuild, as
`MPI_ANY_SOURCE` with a single tag does.

The lists are computed by `RemoteIndexLists`, which follows the loops of
`unpackIndices` as a recursive function over the two positions and the start of
the local run. `Garbage`
stands for what is read behind the end of an array. `ListsExact` compares them
with a direct definition (`Product`): all combinations of a pair the other
process published and a pair of our own with the same global index.

`RingExchange` is the same ring with messages reduced to the rank that packed
them. `RemoteIndices` implements it (`ImplementsRing`) in an execution that is one
rebuild of all ranks without neighbours (`RingOnce`); any other is mapped to a ring
that never starts. The mapping (`RingPc`, `RingProc`, `RingGot`, `RingPending`,
`RingBuffer`) takes a message to its origin (`from`, which stands for the
envelope; the code never reads it in the ring), everything before the ring to
`idle` and everything behind it to `done`. A single process has no ring: its
buffers are not looked at.

Fairness is weak fairness of each rank's steps: MPI guarantees progress of
operations that can complete, and user code reaches its next collective.

### VariableSizeCommunicator and ChunkedExchange

A `scenario` holds the lengths of the interfaces and what the data handles of
successive calls say: the direction, whether the size is fixed, and the size of
every entry. All ranks make the same calls. A *link* is a pair of a rank and a
neighbour it sends to; its tracker positions, request slots and sizes are
functions on links, since each side has one tracker per neighbour.

`CommunicateFixedSize` and `CommunicateSizes` are a call up to its loop: all
receives and first messages are posted. A loop body that tests requests is cut
into one action per completed request (`SendCompleted`, `ReceiveCompleted`,
`FixedSizeReceived`, all of them `checkAndContinue`): `MPI_Testsome` may report
any subset of them, the requests are of different neighbours, and one body only
touches the state of its neighbour and a counter. `CommunicateData` is the step
from `communicateSizes` to the loop for the data, `Return` the end of the call
with its `MPI_Waitall`. `Match` is MPI: a synchronous send and a receive of the
same tag on the same link meet; each side learns later. A slot holds at most one
request, so the order of messages between two processes needs no queue.

`PackEntries` takes the greatest prefix of the remaining entries that fits in a
buffer (`Pack`), which is what the loop of the code does (for a fixed size it is
the quotient). `HandleSize` is what a loop's handle says of the sizes, and a
message (`Gathered`) holds at each place an item of the entry whose items lie there
(`EntryOf`). Both loops that skip entries of size zero on the sending side have
then nothing to skip. A message of sizes holds sizes, any other message
items that are known by call and entry. Reading behind a message gives
`Unread`. `UnpackVariable` visits a first entry of size zero like the code does,
with no items.

Assumed: both ends of a link list the same number of entries, no entry has more
items than a buffer, and, in the passing run and in the theorems, no interface with
entries has no items at all (`HasItems`; without it there is the finding of
`variable_zero`).

`ChunkedExchange` is the contract: a link's items arrive in pieces while both
ends are in the same call, are scattered in pieces, and a rank returns when all
it sent has arrived and all it expects was scattered. The mapping counts the
items of matched messages. A call with sizes first and one without are the same
there.

Fairness is that the system does not stop while a step is possible: ranks poll,
MPI makes progress, and everything they do is finite.

### IndicesSyncer, BufferedCommunicator and SyncedCommunication

`StartSync` is `sync()` up to its first receive: the counts in `infoSend_`
(`Publish`), one synchronous message to each neighbour (`Message`), and the list
of neighbours to hear from. `RecvAndUnpack` takes one of the messages that
`MPI_Probe` may find, from any source or, with `useFixedOrder`, from the next
neighbour, and adds its entries to the index set in resize and to the lists
(`NewPairs`, `UnpackInto`), in the order of the code: what is found depends
on what was inserted before. `FinishSync` is the `MPI_Waitall`, `endResize`
and `repairLocalIndexPointers`; `Repairable` follows its walk, which reads
beyond the set when it does not find a pair (`pc` is then `undefined`, and
so it is when a header announces more entries than there are).

`SyncExact` says what a round must do directly from the sets and lists that all
ranks had when they came to it, which `before` keeps. The preconditions, all of
them in `Scenario` or in `MCIndicesSyncer`: neighbours list each other, if
only with an empty list; one attribute for an index on one process; what is
listed is true; and nobody is told twice of an index on a process with
another attribute (`NothingToldTwice`), which is the finding of
`syncer_again`. With these `PointersRepaired` holds. Two calls of `sync` are made with `useFixedOrder` and with a new
syncer each. Without the order a message of the second call is
taken for one of the first (`RoundsApart` is violated, then `SyncExact`); with one
syncer the counts add up and the receiver reads beyond the message. Both
were seen with the model; the documentation promises neither.

When the last `sync` has returned, `Build` makes an interface from the lists with
`strip()` and lays out the buffers of a `BufferedCommunicator`, and `forward`
and `backward` are called. An item is known by its rank, index and call, and
`Start` is the running sum of message sizes that `build` stores (`SizeBefore`); the
gatherer fills the buffer without looking at it. `Transfer` is MPI, `Scatter` what
follows an `MPI_Waitany`. `DeliversExactly` thus depends on every insertion
`IndicesSyncer` makes: no message names the entries it is for. It is checked
with one attribute as source; where a list names an index twice, with several
attributes, and several are in both flag sets, the two ends order its entries
differently (see Findings).

All calls consist of finitely many steps, so `AllReturn` (somebody can go on
until everybody is done) stands for termination under weak fairness.

### Containers

`Containers` runs one container at a time. Each of them keeps a history of
what it should hold, and `ArrayListExact`, `SLListExact` and `LruExact` compare:
`ArrayList` by chunks
(`memory`, and `chunks` with zero for a pointer that was reset), with an
iterator that stays while entries are pushed or erased in front of it; `SLList`
by the cells of a pool, whose `next` serves the list and the free list as the
memory of the code does, `-1` for a null pointer and cell zero for
`beforeHead_`; `lru` by nodes and an index into them. What is in an `SLList` or
free is found by following the links (`Follow`, a recursive function), as the
code does; nothing else knows. `MaxPushes`, `MaxCells`
and `MaxNodes` bound the operations that allocate.

Two operations break their containers, and the properties say so: after `purge()`
has moved chunks nothing is claimed of an `ArrayList` until `clear()`
(`moved`), and after `insert` of a key that is there only that the `lru`'s index
leads to nodes of the right key (`twice`).

### MakefileBuilder

A job is an MPI program of two ranks, of which rank 0 creates and builds; all
jobs share the directory. Its steps are those between which another process, or the
next job after a kill, can see the disk: opening and writing a file are two (a file
that is open for writing, or was when its writer was killed, is `torn`). The compiler
takes three, since it writes the `.d` file with the list of headers before the object
(`Compile`, `WriteObject`, `Assemble`); the linker takes two. A clean-up unlinks
library, source and then, in any order, the files of the module's directory
(`RemoveFile`), and leaves the directory when all are gone or at the first error,
which `rmJit` passes over (`RemoveDirectory`).
`exclusive`, `shared` and `holders` are the file locks. `Kill` ends a job with
all its child processes at any step; `flock` is released, files stay.
`Template`, `Compile`, `WriteObject` and `Link` may fail, which raises `CompileError`
through the `with` statements. `ForceConfigure` is another process that registers a
package and takes no lock.

A file holds no code, a part of it, old code or the code asked for. `Question` is
`make -q` on the makefile the builder writes: a prerequisite that is missing and
has no rule is exit code 2, a missing or outdated object 1; the library has no
recipe, so it is never missed. After code 2 the makefile has no
dependencies, and an object that exists is good enough (`Recipe`). A list that was
cut off names files that do not exist, the words of the recipe among them, or, if it
is empty, leaves the object without a rule: again an object that exists is good enough.

A script is `torn` when a job is killed while it writes it and others have passed
`initialize()` before. What there is of it may do nothing (`RunEmptyScript`), compile and
not link (`SkipLink`), or end in a line that fails (the errors of `Compile` and
`Link`); the end of a line missing and the rest doing something useful is not modelled,
nor are an `os.remove` that fails and a file that disappears without `rmJit`.

`LoadsWhatWasAsked` holds but for modules in `spoiled`, those for which make finds
nothing to do although the library is old or missing:

- a build was killed, or failed to link, with an object newer than its source;
- a build was killed with half a list of headers, or a header of the list was moved
  (the comment at `cmakebuilder.py:780` says that these are generated again);
- a removal was killed or failed and left the object with the source it was made
  from, or without the list, so that the next makefile has no prerequisites
  (`LeftOver`); stopped anywhere else, also with the object and the list left, the
  next job must build again;
- the script that was to build it was cut off.

Without any one of these exceptions TLC finds a rank that imports something else.

## Runs and bounds

| Run | Instance | Why it is enough |
|---|---|---|
| `guard` | 3 ranks, three sections ended by `finalize`, by `reactivate` and by the destructor | a failing rank, one that is ahead and one behind; each way to start and end a section |
| `containers` | index sets: 3 globals, 2 attributes, 2 local numbers, at most 3 pairs, 3 resizes; 6 entries in chunks of 2; 4 cells in chunks of 2; 3 keys, 4 nodes | equal pairs, equal globals, all branches of the merge with something before and after; a list that begins and ends in the middle of a chunk; a pool that grows with a list in it; an index with a node moved, dropped from either end and doubled |
| `indexset_at` | the same, smaller | finding |
| `ring` | 7 ranks | odd, so two ranks that send first are adjacent; `remote` has 3 ranks, the proofs any number |
| `remote` | 3 ranks; scenarios with every pair of sets over two globals and two attributes, with one or two index sets on a rank, and with rebuilds and resizes in the ring and among neighbours | both ways to exchange, a resize between rebuilds, a rebuild that is skipped; each relation of two runs of equal globals |
| `remote_mixed`, `remote_isolated` | 2 and 3 ranks | findings |
| `variable_size` | 3 ranks, buffer of 2 items, up to 3 entries, 2 calls | all sizes of the entries of one interface: a size message that does not hold them all, entries of size zero first, last and where a message is cut; a link to itself; ranks in a line, so that the ends may be a call apart; a rank without neighbours |
| `variable_zero` | 2 ranks | finding |
| `syncer` | 3 ranks, two indices: every choice of those that have the first and of who lists whom for it, the second in three typical situations; one sync in any order or two in a fixed one, then `forward` and `backward` | an index that comes with the sender, a third process told of by two neighbours, a new neighbour whose messages follow in the second sync, interfaces with two entries in one message and several neighbours in one buffer |
| `syncer_again` | 2 ranks | finding |
| `builder` | 3 jobs, 2 modules, 33 states of the disk | one job that builds, one that waits for the same module and one that starts or cleans up; everyone killed at every step. Jobs only differ in what they ask for, so they are symmetric |

`MaxSize` bounds the pairs of an index set and `MaxSeqNo` its resizes, the other
containers have the bounds named above; nothing else is cut off: programs end. Deadlock checking is off in the runs because
every program ends, and the liveness properties exclude that it ends too early.

Each property has a mutant, a definition of the model changed the way a bug in
the code might (they stand next to the definition they replace, marked
`Mutant`), with which TLC finds the property violated.

## Proofs

`MPIGuardProofs`, for any set of ranks, any program and either initial state:
`TypeCorrect`, `CollectivesMatch` (`LockStep`) and `ErrorStopsEverybody`
(`NoneSurvivesError`, for programs in which `finalize` is only called on an
active guard). `LockStep` is not inductive: nothing in it says which collective
a process will enter next. `GuardInv` adds that the history of each process is
the sequence of *all* collectives of the program up to its position
(`Consecutive`), that a process that may still enter one is at the next one
(`Position`; this is what `active_` tells the destructor), and that whoever went
on has seen no error (`Cleared`). Then two histories of the same length end at the
same call.

`RingExchangeProofs`, for any number of processes: `TypeCorrect` (proved
only, as for `ChunkedExchange`: no run has this type invariant as a property), `RingInvariant`, `RightOrigin` (`AttributedToOrigin`) and `RingIsComplete`
(`CompleteWhenDone`). `RingInv` counts messages: what a rank has sent is what its
successor has received, which ties the iterations of two neighbours together,
and the buffer to be sent in iteration k holds the data from k-1 places back.
Completeness adds what a rank has unpacked where it is (the data of the ranks
one to k-1 places back), and that all ranks but one lie within `procs - 1` places.

`RemoteIndicesProofs`, for any number of processes, programs, neighbours and
index sets: `TypeCorrect`, `RingImplemented` (`ImplementsRing`) and
`RebuildHearsEverybody`. The types need a little of where control can be
(`ControlInv`), and the simulation needs that a process which has not come to the
ring has sent and unpacked nothing, has out-of-date lists in its first rebuild,
and sends to its successor only (`RingPlaceInv`). Then each action of the
rebuild is one of the ring or leaves the mapped variables alone.
`RebuildHearsEverybody` is completeness and right attribution of the ring, read back
through the mapping: a process that is through has unpacked one message of every
other process, each as that of its origin.

`ExactLists` (`ListsExact`) and `InterfacesFit` (`InterfacesMatch`) in the same module
are about scenarios whose ranks agree on the shape of the exchange (`Regular`): all
or none have two index sets, all or none change them in a resize, neighbours are
neighbours of each other, everybody has some or nobody, and what is published is in
order, as `endResize` leaves it. Without the first the lists are wrong
(`remote_mixed`); where only some ranks change their sets, the others skip the rebuild
that these wait in; where only some have neighbours, the two kinds of exchange meet
(`remote_isolated`). `ProvedKind` checks that the
scenarios of the run are of this kind. Programs may have any length, and any
number of processes may be anywhere in them.

- What `unpackIndices` computes: `UnpackIsProduct`. The recursive function is shown to
  exist (`UnpackDefined`), and by induction over the comparisons that are left
  (`Ahead`) to return the pairs of a received and a local entry from its place on
  (`Matches`), in order, provided that nothing is left behind (`Ready`): the local run starts at the
  first pair that is not smaller than the received entry.
- Where a rank is in the program says what its members are (`CourseInv`, by `After`, a
  recursive function over the calls), so all decide alike whether to rebuild although
  each decides alone, and the `MPI_Allreduce` keeps their calls apart
  (`BarrierInv`, `SameExchangeRound`): whoever exchanges messages is in the same
  call, with the same content of the sets.
- In the exchange with neighbours a rank holds lists of exactly those whose message it
  has taken (`NeighboursInv`: a neighbour has passed the barrier of this call and no
  longer waits for it), each with that neighbour's content. The any-source receive can take no
  message of the next rebuild, since a neighbour is there only when this rank is. In
  the ring, iteration k is about the rank k places back (`RingInv`), in every
  round of the program, where `RingExchange` is a single one.
- `ListsInv` says that outside of an exchange the lists are those of the call that built
  them; `BuiltLists` and `UnpackIsProduct` give the theorem.
- For the interfaces, the two products mirror each other (`ProductMirrors`), selecting
  keeps that (`SelectedMirrors`), and two sequences of the same keys, both in order,
  agree at every position: were the k-th key of one smaller, its first k entries would
  have their likes among the first k - 1 of the other (`NotBefore`). The key is the
  global index, and with a single attribute on one side also the other side's attribute.

`ContainersProofs`, for any indices, attributes, order of equal pairs and
bounds of an index set: `TypeCorrect`, `StaysSorted`, `DeletedAreGone`
(`NoDeletedBetweenResizes`), `NothingLost` (`ResizeIsExact`, an action property)
and `LookupIsRight` (`LookupFindsFirst`). `IndexInv` adds that new pairs are alive
and that a pair is marked as deleted only in a resize whose `deletedEntries` is
set: this is why the shortcut of `merge` for a set without deletions keeps
nothing it should drop. The merge and the binary search are recursive functions.
That a function exists which is what their definitions say (`MergeDefined`,
`SearchDefined`) is proved by building it up, and what it returns (`MergeIsRight`:
sorted, and as a bag the sum of both inputs without the deleted pairs;
`SearchIsRight`: the first pair with the index) by induction over what is left to
do. The induction is over a set of arguments (`InductionOverMeasure`), which needs
no operator as a parameter. `FollowIsRight` below has a proof of the same kind.
`at()` and `exists()` of a set of one pair are excepted, see Findings.

`ContainersProofs`, for any items, keys, chunk sizes and bounds, about the
composition the run checks. A step of another container leaves the variables alone.

- `ListIsExact` (`SLListExact`) and `NoCellLost` (`CellsPartitioned`). Neither is
  inductive, since following links from one end says nothing of the cells that
  lie elsewhere. `ListInv` says that there are two sequences of cells (`Shape`),
  without a cell in common and with all of them together, such that the links lead
  through the one from `beforeHead_` and through the other from the pool's `head_`;
  the first is the list, with the items, `tail_`, `size_` and the iterator where they
  should be. `GrowShape`, `InsertShape`, `DeleteShape` and `ClearShape` say what
  the four ways to change links do to the two sequences, and `FollowIsRight` that
  following links gives the sequence back, so that two chains in a picture are two
  chains in the code's memory. `Pool::free` during `clear` turns the whole list
  over onto the free list.
- `ArrayIsExact` (`ArrayListExact`). `ArrayInv` says that all places below the
  capacity have a chunk, that the chunks from `start_` on are different arrays, and
  that those in front are given up. The proof that `eraseToHere` gives up the
  right chunks is arithmetic: `PlaceUnique` (division with rest) and
  `PlacesBetween` (the chunks between two places, counted from where the first lies
  in its chunk, which is the sum in the code). What is left of it after `purge`,
  that no place lies outside the chunks (`ArrayTypes`), is proved without the
  assumption `~moved`.
- `LruIsExact` (`LruExact`). `LruInv` adds that every node is in the list once;
  with that a removed node takes the key of no other with it (`ForgetKeepsInv`,
  for `pop_front`, `pop_back` and `resize` together).

`ChunkedExchangeProofs`, for any ranks, any number of calls and any amounts:
`StaysInStep` (`InStep`) and `DeliversEverything`. Neither is inductive: they
say nothing of what the end of a link that is behind has been given, so
`LinkInvariant` adds that both ends agree on it within a call, that the end that
is behind has everything the one ahead had to deliver, and that all calls
between them had no data for the link. The last part is needed because ranks
do drift apart where a link has no data, and makes the amounts agree when the
one that is behind catches up.

`VariableSizeProofs`, for any numbers of ranks and calls, any buffer size,
interfaces and sizes of entries, of which in each call one of an interface with
entries has items (`ItemsInEveryCall`): `TypeCorrect`, `CountersRight`
(`CountersExact`), `LoopsApart` (`OnlyTheSameLoopMeets`), `StaysInStep` (`InStep`),
`ScattersRight` (`ScattersExact`) and `ExchangeImplemented` (`ImplementsExchange`),
that is all that the run checks but liveness. They rest on two inductive invariants.

- `RequestInv` (`RequestsRight`). None of the properties says what waits at the end
  of a link that is behind, so `LinkInv` compares the loops the two ends are in by
  a number that grows (`Stage`). In the same loop the message under way is the
  one that starts at the entry the receiver has come to (`Same`). If the sender is
  ahead, everything of the receiver's loop has arrived and only the first message
  of the sender's loop waits (`SenderAhead`); if the receiver is ahead, nothing has
  arrived (`ReceiverAhead`); and in the loops between there was nothing to send
  (`Between`). `FixedInv` says the same for the fixed sizes, which have a tag
  of their own. `SenderInv` and `ReceiverInv` tie each end's requests to its
  tracker, and `CountersInv` the counters to the requests. This is where the
  hypothesis is needed: `ItemsLeft`, that an interface which is not finished has
  items left, is what makes a posted receive and a packed message belong together.
- `DeliveryInv` (`DeliveryRight`) adds that the calls of `scatter` are those for the
  entries up to the receiver's tracker. `MessageFacts` says what a message holds at
  each place, and `UnpackFixedRight`, `UnpackVariableRight` and `UnpackSizesRight`
  that unpacking it takes the tracker to where packing has left the
  sender's, with the items each entry was gathered with.

The sums of sizes and the loop of `UnpackVariable` are recursive functions; that they
exist (`SumsDefined`, `UnpackLoopDefined`) and what they return is proved by
induction over a set of numbers (`InductionOverNat`). The refinement is proved action
by action: a match of the loop for the data or of a fixed size loop is a transfer
(`MatchSimulates`), unpacking it a scatter (`ReceiveCompletedSimulates`), the start
of a call and its end are those of the exchange (`BeginSimulates`,
`ReturnSimulates`), and everything about sizes changes nothing.

`SyncedCommunicationProofs`, for any number of processes and any scenarios in
which messages of different syncs cannot be mixed up (`Orderly`: there is one sync, or
the order is fixed), sets and lists say the truth (`Truthful`; not needed for
`RoundsApart`) and, from `SyncRepairs` on, every sync has a new syncer, sets and lists
are strictly in order at first, and no entry with two attributes is told twice
(`Plain`). Each excludes something that goes wrong in the model: messages of two syncs
mixed up, counts of an earlier sync in the headers, a second insertion of
an entry that is there (`syncer_again`). `ProvedKind` checks that the scenarios of
the run are of this kind.
`SyncedIsSync` says that the composition with interfaces and buffers is an
implementation of the syncs alone, which carries the results over (`SyncedIsExact`).

- `SyncRoundsApart` (`RoundsApart`). The invariant `SyncInv` has the types and says
  when a message is received: in the sync it belongs to, which its receiver has come to
  (`ReceivedInv`) and does not leave before it has all of them (`HeardInv`: as many
  are expected as are waited for, and with a fixed order the same ones). It needs that
  neighbours are neighbours of each other in each sync (`SymmetricInv`), and so that
  whoever is in the lists was there before or was introduced by an old neighbour
  (`KnownInv`). That the relation stays symmetric is the difficult part: when a third
  process introduces two others to each other, each learns of it by a message of its own
  (`IntroducesBoth`, `AfterOneWay`).
- `SyncAddsExactly` (`SyncExact`) and `SyncMutual` (`MutualAfterSync`). `DataInv`
  adds that everything in sets and lists, at any time, is true of the scenario
  (`TruthInv`), and that a process that has heard some of its neighbours knows what
  these can tell and nothing else (`ToldInv`). `ReceiveLists` proves this of
  `recvAndUnpack`: `InsertMembers` says what an insertion into a sorted list adds,
  also when it believes that the entry is there; `MergeIs` does it for the index set.
  `MirroredEntries` is the heart of `SyncMutual`: what one process is told of
  another has a mirror image in what the other is told.
- `SyncRepairs` (`PointersRepaired`). `PlainInv` says that the lists stay strictly in
  order (`OrderInv`), and so name no pair twice, and that a header counts what is in
  the message (`PublishInv`). An entry of one attribute is recognised when it comes
  again (`InsertOnce`); one of two attributes is not, so `ToldOnce` shows, from what has
  been heard so far, that it does not come again. A walk through a set in order then finds every
  pair of a list in order, provided that it is there (`WalkFinds`), which `SyncInv`
  and `DataInv` know.
- `SyncedReturns` (`AllReturn`). In the syncs the process that has come least far waits for
  nobody who has not sent (`SyncGoesOn`). In the calls a message is taken in the
  call it was given in (`MatchInv`, by `SameCall`), so a process in the earliest call that is
  not over can go on (`CallsGoOn`). Both need the two ends of an interface to agree
  (`KeysAgree`): by `MutualAfterSync` they have the same entries, and strictly
  increasing sequences of the same elements are equal (`SameIncreasing`).
- `SyncedDelivers` (`DeliversExactly`). `DeliverInv` says what lies at each place of
  a buffer: what was gathered for this call, and what has arrived and is not
  scattered. The messages lie apart (`SizesApart`, from the running sum), gathering
  lays each item where its message is (`GatherIs`, induction over the neighbours), and a
  message that arrives overwrites nobody else's (`TransferWrites`).

`MakefileBuilderProofs`, for any jobs and modules and any disk on which a tag file
stands by a whole script: `TagIsSafe` (`TagVouches`), `NobodyWaitsInVain`
(`NobodyHangs`) and `BuildsUndisturbed` (`BuildUndisturbed`). `BuilderInv` adds
which locks a job holds where it is (`HoldsLocks`), that they exclude each other
(`Exclusion`), and that there is no tag file while a job creates dune-py
(`TagIsLast`). Two lemmas about moving on with the same locks and about giving
all of them up cover most steps.

Assumed are only the assumptions on constants that the modules state by name:
there is a process, chunks hold at least one entry (`chunkSize_` of an `ArrayList`
is at least one, and a `Pool` asserts it), programs and scenarios are
well-formed, and bounds are numbers; and `ItemsInEveryCall` in `VariableSizeProofs`,
which the module of the run states of its scenarios (`ItemsInEveryScenario`), and
the hypotheses of `SyncedCommunicationProofs` and of the last two theorems of
`RemoteIndicesProofs`. TLC evaluates them in the runs, and has checked the
inductive invariants on the runs' instances.

Only model-checked: liveness (`EveryoneLeaves`, `EveryoneDone`, `EveryoneReturns`,
the `NobodyHangs` of `RemoteIndices`), which is beyond the proof system (the
`NobodyHangs` of `MakefileBuilder` says that a waiting job waits for one that can
go on, which is an invariant and proved, and so is `AllReturn`); `LoadsWhatWasAsked`,
for which an invariant would have to follow each file through every way a build can
be cut off.

## Findings

- `at()` and `exists()` reject the only global index of a set of one pair
  (`indexset_at`).
- Lists between a process with two index sets and one with a single set are
  wrong (`remote_mixed`).
- A process with an empty set of neighbours enters the ring (`remote_isolated`).
- If all entries a process is to receive from a neighbour have size zero, it
  waits for a message that is never sent (`variable_zero`). With a second call
  the sizes of the sender's next call, which have the same tag, are taken for the
  data of this one: with the scenarios of this run `EveryoneReturns` and
  `OnlyTheSameLoopMeets` fail, too.
- A sync enters a remote index that is there already once more if the attributes
  of the two processes differ, and the repair of the pointers then reads behind
  the index set (`syncer_again`).

Seen while modelling, without a run of their own: `endResize` does not order
the local indices, though its documentation says so (`parallel/indexset.hh:352`);
`finalize` of an inactive guard communicates but never throws, though its
documentation says it throws on any error (`parallel/mpiguard.hh:215`); with
several attributes in both flag sets of an interface, the two sides order the
entries of one global index differently, though
`parallel/variablesizecommunicator.hh:308` asks for the same order
(`InterfacesMatch` claims the same pairs only when one flag set has a single
attribute).

Also seen: an index that two neighbours tell of is added twice, and the numberer is
called for it twice and in the order of the messages, not in ascending order
(`parallel/indicessyncer.hh:95`); the loop over the pairs of one index at `:1105`
runs beyond the end of the set; `purge` of an `ArrayList` loses a last chunk that
is not full; `lru::insert` of a present key does not replace the data
(`lru.hh:153`), and an `lru` that was copied has iterators into the other's list;
assigning an `SLList` to itself empties it; the copy constructor of the iterator
of `CollectiveIterator` leaves two members uninitialised
(`parallel/remoteindices.hh:816`); an error on rank 0 leaves the other ranks of a
job in the barrier of `load` (`cmakebuilder.py:447`); a job can import a library
that one with another source has put there after the locks were given up; a
cmake that was killed is not taken for an error (`cmakebuilder.py:313`); a clean-up
that is cut off, or in which `rmtree` fails unheard (`remove.py:38`), and a compiler
that is killed with half a `.d` file leave an object that is good enough for make,
so that a module is not built again although its library is missing or old.

## Plan

1. `ParallelIndexSet`, `MPIGuard` with proofs, `RingExchange` with proofs,
   `RemoteIndexLists` and `RemoteIndices`: done.
2. `VariableSizeCommunicator`, implementing `ChunkedExchange`, both with proofs: done.
3. `IndicesSyncer`, and communication over what it has made: done.
4. `ArrayList`, `SLList` with `Pool`, `lru`, `BufferedCommunicator`: done.
   Left: `GlobalLookupIndexSet`, `RemoteIndexListModifier` and
   `CollectiveIterator` on their own, `DatatypeCommunicator`, items of
   variable size in `BufferedCommunicator`, `MPIFuture`, `DebugStream`.
5. The Python module builder: done for `MakefileBuilder`. Left: the other ranks
   after an error, different sources of one name, the commands without locks.
6. Proofs: done for the guard, the ring and its refinement, the index set, the
   containers, the variable size communicator and its refinement, the chunked
   exchange, the lists and interfaces, the syncs, the communication after them
   and the module builder. Left: `LoadsWhatWasAsked`.

Not modelled: linear algebra, SIMD, type traits and type trees (no control
state), string handling (`Path`, the text of parameter files), the wrappers of
MPI calls, the bindings, `cmake/` and the packaging scripts.
