------------------------- MODULE SyncedCommunication -------------------------
(***************************************************************************)
(* Index sets are synchronised, an Interface is built from the lists, and  *)
(* data is communicated over it: nothing but IndicesSyncer's insertions    *)
(* keeps both ends of an interface in one order.                           *)
(***************************************************************************)
EXTENDS IndicesSyncer

CONSTANTS sourceFlags, destFlags

VARIABLES interfaces, information, buffers, call, receiving, arrived, sending, scattered

communicatorVars ==
  <<interfaces, information, buffers, call, receiving, arrived, sending, scattered>>

\* forward() and then backward().
C == INSTANCE BufferedCommunicator WITH calls <- 2

\* InterfaceBuilder::buildInterface: the entries of a list that go from an attribute in
\* sourceFlags to one in destFlags (first), and those that come that way (second).
Entries(list, mine, theirs) ==
  LET chosen == Subsequence(list, {i \in DOMAIN list : list[i].mine \in mine /\ list[i].theirs \in theirs})
  IN [i \in DOMAIN chosen |-> chosen[i].global]

Interface(r) ==
  [q \in DOMAIN lists[r] |-> [first |-> Entries(lists[r][q], sourceFlags, destFlags),
                             second |-> Entries(lists[r][q], destFlags, sourceFlags)]]

\* Interface::strip() drops the neighbours without an entry.
Strip(interface) ==
  [q \in {p \in DOMAIN interface : interface[p].first # <<>> \/ interface[p].second # <<>>} |->
     interface[q]]

InitSynced == Init /\ C!Init

MayBuild(r) == pc[r] = "user" /\ round[r] = scenario.rounds /\ call[r] = -1

Build(r) == MayBuild(r) /\ C!Build(r, Strip(Interface(r))) /\ UNCHANGED vars
Communicate(r) == C!Step(r) /\ UNCHANGED vars

NextSynced ==
  \E r \in Rank : \/ Step(r) /\ UNCHANGED communicatorVars
                  \/ Build(r) \/ Communicate(r)

SpecSynced == InitSynced /\ [][NextSynced]_<<vars, communicatorVars>>

-----------------------------------------------------------------------------

\* Data communicated over an interface built from synchronised lists arrives at the
\* entries of the indices it was sent for, in forward() as well as in backward().
DeliversExactly == C!DeliversExactly

\* All calls return on every process: sync(), forward() and backward().  As every call
\* consists of finitely many steps, it is enough that somebody can always move on.
AllReturn ==
  \/ \A r \in Rank : round[r] = scenario.rounds /\ C!Finished(r)
  \/ \E r \in Rank : \/ MayStart(r) \/ MayFinish(r) \/ MayBuild(r) \/ C!MayStep(r)
                     \/ \E source \in Rank : MayReceive(r, source)

=============================================================================
