--------------------- MODULE MCVariableSizeCommunicator ---------------------
EXTENDS VariableSizeCommunicator, TLC

CONSTANT MaxEntries  \* entries of an interface

\* Interfaces and sizes are empty but for the links that are named.
Interface(f) == [l \in Links |-> IF l \in DOMAIN f THEN f[l] ELSE 0]
Forward(f) == [fixedSize |-> FALSE, forward |-> TRUE,
               size |-> [l \in Links |-> IF l \in DOMAIN f THEN f[l] ELSE <<>>]]
Backward(f) == [Forward(f) EXCEPT !.forward = FALSE]
FixedForward(f) == [Forward(f) EXCEPT !.fixedSize = TRUE]
FixedBackward(f) == [Backward(f) EXCEPT !.fixedSize = TRUE]

Ones(k) == [i \in 1 .. k |-> 1]
Twos(k) == [i \in 1 .. k |-> 2]

There == <<0, 1>>
Back == <<1, 0>>

\* All sizes of the entries of one interface, of which some are not zero, in a call
\* that is followed by one with a fixed size in the other direction.
AllSizes ==
  UNION {{[interface |-> Interface(There :> k @@ Back :> 1),
           calls |-> <<Forward(There :> s @@ Back :> <<2>>),
                       FixedBackward(There :> Ones(1) @@ Back :> Twos(k))>>] :
            s \in {t \in [1 .. k -> 0 .. maxBufferSize] : \E i \in 1 .. k : t[i] > 0}} :
         k \in 1 .. MaxEntries}

\* Three ranks in a line, the middle one exchanges with itself, too.
Chain ==
  {[interface |-> Interface(There :> 2 @@ <<1, 2>> :> 1 @@ <<2, 1>> :> 1 @@ <<1, 1>> :> 2),
    calls |-> <<Forward(There :> <<2, 2>> @@ <<1, 2>> :> <<1>> @@ <<2, 1>> :> <<1>> @@ <<1, 1>> :> <<0, 1>>),
                Forward(There :> <<0, 1>> @@ <<1, 2>> :> <<2>> @@ <<2, 1>> :> <<1>> @@ <<1, 1>> :> <<1, 0>>)>>]}

\* A fixed size that leaves a rest of the interface for a second message, then zero.
Mixed ==
  {[interface |-> Interface(There :> 3 @@ <<1, 1>> :> 1),
    calls |-> <<FixedForward(There :> Twos(3) @@ <<1, 1>> :> <<1>>),
                Backward(Back :> <<0, 2, 1>> @@ <<1, 1>> :> <<2>>)>>]}

CommunicatorScenarios == AllSizes \cup Mixed \cup Chain

\* The hypothesis of the theorems in VariableSizeProofs.
ASSUME ItemsInEveryScenario == \A s \in CommunicatorScenarios : HasItems(s)

\* An interface of which no entry has data.
ZeroScenarios ==
  {[interface |-> Interface(There :> k @@ Back :> 1),
    calls |-> <<Forward(There :> [i \in 1 .. k |-> 0] @@ Back :> <<1>>),
                Forward(There :> Ones(k) @@ Back :> <<1>>)>>] : k \in 1 .. MaxEntries}
=============================================================================
