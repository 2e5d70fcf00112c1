--------------------------- MODULE MCIndicesSyncer ---------------------------
EXTENDS SyncedCommunication

Globals == {1, 2}
Others == {pair \in Rank \X Rank : pair[1] # pair[2]}

\* An execution from the ranks that have a global index, who lists whom for it, and
\* the attributes.  Whoever lists another process for an index has it.
World(has, knows, attribute, rounds, fixedOrder) ==
  LET near == {pair \in Others : \E g \in Globals : pair \in knows[g]
                                    \/ <<pair[2], pair[1]>> \in knows[g]}
      sorted(set) == SetToSortSeq(set, <)
      set(r) == LET globals == sorted({g \in Globals : r \in has[g]})
                IN [i \in DOMAIN globals |->
                      [global |-> globals[i], attribute |-> attribute[r]]]
      list(r, q) == LET globals == sorted({g \in Globals : <<r, q>> \in knows[g]})
                    IN [i \in DOMAIN globals |->
                          [global |-> globals[i], mine |-> attribute[r], theirs |-> attribute[q]]]
  IN [rounds |-> rounds, fixedOrder |-> fixedOrder, sameSyncer |-> FALSE,
      indexSet |-> [r \in Rank |-> set(r)],
      lists |-> [r \in Rank |-> [q \in {p \in Rank : <<r, p>> \in near} |-> list(r, q)]]]

\* How often r comes to know of q for global g: by its own list and by messages.
Tellings(knows, g, r, q) ==
  Cardinality({<<r, q>>} \cap knows[g])
    + Cardinality({p \in Rank : <<p, r>> \in knows[g] /\ (p = q \/ <<p, q>> \in knows[g])})

\* A process with an index is told but once of a process with another attribute.
NothingToldTwice(has, knows, attribute) ==
  \A g \in Globals : \A pair \in Others :
    pair[1] \in has[g] /\ attribute[pair[1]] # attribute[pair[2]]
      => Tellings(knows, g, pair[1], pair[2]) <= 1

\* Who may list whom: those who have the index list others, and some set of them.
Knowledge(has) == SUBSET {pair \in Others : pair[1] \in has}

\* The second index: nowhere, shared by two that know it, or told of by the middle one.
Nowhere == <<{}, {}>>
Shared == <<{0, 1}, {<<0, 1>>, <<1, 0>>}>>
Introduced == <<{1}, {<<1, 0>>, <<1, 2>>}>>

Worlds(seconds, attributes, rounds, fixedOrder) ==
  {World([g \in Globals |-> IF g = 1 THEN has ELSE two[1]],
         [g \in Globals |-> IF g = 1 THEN knows ELSE two[2]], attribute, rounds, fixedOrder) :
     <<has, knows, two, attribute>> \in
       {choice \in (SUBSET Rank) \X (SUBSET Others) \X seconds \X attributes :
          /\ choice[2] \in Knowledge(choice[1])
          /\ NothingToldTwice([g \in Globals |-> IF g = 1 THEN choice[1] ELSE choice[3][1]],
                              [g \in Globals |-> IF g = 1 THEN choice[2] ELSE choice[3][2]],
                              choice[4])}}

Same == {[r \in Rank |-> 0]}
Owner == {[r \in Rank |-> IF r = 1 THEN 0 ELSE 1]}

\* One sync with messages in any order, or two in a fixed order.
SyncScenarios ==
  Worlds({Nowhere, Introduced}, Owner, 1, FALSE) \cup Worlds({Shared}, Same, 1, FALSE)
    \cup Worlds({Nowhere}, Same, 2, TRUE)

\* The kind of executions that are proved about.
ASSUME ProvedKind == \A s \in SyncScenarios : Orderly(s) /\ Truthful(s) /\ Plain(s)

\* Two processes that share index 1 with different attributes, and nothing to add.
NothingToAdd ==
  {World([g \in Globals |-> IF g = 1 THEN {0, 1} ELSE {}],
         [g \in Globals |-> IF g = 1 THEN {<<0, 1>>, <<1, 0>>} ELSE {}],
         [r \in Rank |-> r], 1, FALSE)}

=============================================================================
