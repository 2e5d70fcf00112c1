--------------------------- MODULE MCRemoteIndices ---------------------------
EXTENDS RemoteIndices

CONSTANTS Globals, Attrs

Rebuild == [op |-> "rebuild", ignorePublic |-> FALSE]
RebuildAll == [op |-> "rebuild", ignorePublic |-> TRUE]
ResizeSets == [op |-> "resize", ignorePublic |-> FALSE]

\* The array of an index set: its pairs in order, numbered consecutively.
Less(a, b) == a.global < b.global \/ (a.global = b.global /\ a.attribute < b.attribute)
IndexSet(keys) ==
  LET sorted == SetToSortSeq(keys, Less)
  IN [i \in DOMAIN sorted |-> [global |-> sorted[i].global, attribute |-> sorted[i].attribute,
                               local |-> i - 1, public |-> sorted[i].public]]

Key(g, a) == [global |-> g, attribute |-> a, public |-> TRUE]
AllKeys == [global : Globals, attribute : Attrs, public : {TRUE}]

\* Every set of keys, of which those with the largest attribute may be private.
PublicOrNot ==
  {IndexSet({[key EXCEPT !.public = key \notin private] : key \in keys}) :
     <<keys, private>> \in {choice \in (SUBSET AllKeys) \X (SUBSET AllKeys) :
       choice[2] \subseteq {key \in choice[1] : \A a \in Attrs : a <= key.attribute}}}

\* A few typical sets: empty, one pair, a shared global with two attributes.
Few == {<<>>, IndexSet({Key(1, 0)}), IndexSet({Key(1, 0), Key(1, 1)}),
        IndexSet({Key(1, 1), Key(2, 0)}), IndexSet(AllKeys)}

\* Every set of globals with one attribute.
OneAttribute == {IndexSet({Key(g, 0) : g \in globals}) : globals \in SUBSET Globals}

\* One content of the sets for every rank: source and target are the same, or not.
Fixed(set) == [r \in Rank |-> [source |-> <<set[r]>>, target |-> <<set[r]>>]]
Pairs(source, target) == [r \in Rank |-> [source |-> <<source[r]>>, target |-> <<target[r]>>]]

\* Two contents of each rank's set: global 1 goes, globals 2 and 3 come.
Versions ==
  LET two(r) == <<IndexSet({Key(1, r)}), IndexSet({Key(2, r), Key(3, r)})>>
  IN [r \in Rank |-> [source |-> two(r), target |-> two(r)]]

NobodyNamed == [r \in Rank |-> {}]
Path == [r \in Rank |-> {r - 1, r, r + 1} \cap Rank]

Plain(sets) ==
  [program |-> <<Rebuild>>, sets |-> sets, neighbours |-> NobodyNamed,
   includeSelf |-> FALSE, two |-> {}, resizers |-> {}]

\* One rebuild in the ring.
InTheRing == {Plain(Fixed(choice)) : choice \in [Rank -> Few]}

\* Neighbours in a path; two rebuilds are needed, the last one is not.
OnThePath ==
  {[Plain(Versions) EXCEPT !.program = <<Rebuild, ResizeSets, Rebuild, Rebuild>>,
                           !.neighbours = Path, !.resizers = Rank]}

\* Every set on two ranks, the last rank's is empty.  The second rebuild is needed
\* because of its template parameter only.
PublicAndPrivate ==
  {[Plain(Fixed([r \in Rank |-> IF r \in {0, 1} THEN choice[r] ELSE <<>>]))
      EXCEPT !.program = <<Rebuild, RebuildAll>>, !.includeSelf = TRUE] :
     choice \in [{0, 1} -> PublicOrNot]}

\* Source and target differ; the last rank holds everything in both.
SourceAndTarget ==
  LET With(choice) == [r \in Rank |-> IF r \in {0, 1} THEN choice[r] ELSE IndexSet(AllKeys)]
  IN {[Plain(Pairs(With(source), With(target))) EXCEPT !.two = Rank] :
        <<source, target>> \in [{0, 1} -> Few] \X [{0, 1} -> Few]}

\* Rank 0 has two index sets, the others use one for source and target.
Mixed ==
  {[Plain(Pairs(source, target)) EXCEPT !.two = {0}] :
     <<source, target>> \in [Rank -> OneAttribute] \X [Rank -> OneAttribute]}

\* Ranks 0 and 1 share indices and name each other, the last rank names nobody.
Isolated ==
  {[Plain(Versions) EXCEPT !.neighbours = [r \in Rank |-> IF r < 2 THEN {1 - r} ELSE {}]]}

AllScenarios == InTheRing \cup OnThePath \cup PublicAndPrivate \cup SourceAndTarget

\* They are of the kind the lists are proved exact for.
ASSUME ProvedKind == \A s \in AllScenarios : Regular(s)

=============================================================================
