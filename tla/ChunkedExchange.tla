--------------------------- MODULE ChunkedExchange ---------------------------
(***************************************************************************)
(* What forward() and backward() of Dune::VariableSizeCommunicator         *)
(* (variablesizecommunicator.hh) promise, whatever the buffers, messages   *)
(* and requests are.  Every rank makes the same sequence of calls.  In a   *)
(* call the data of a link, from a rank to a neighbour, arrive in pieces   *)
(* of any length while both ends are in this call, and are then scattered  *)
(* in pieces.  A rank returns when it has scattered all it is to receive,  *)
(* and all it sends has arrived.                                           *)
(***************************************************************************)
EXTENDS Integers

CONSTANTS
  Ranks,    \* the processes of the communicator
  NumCalls  \* how often each of them communicates

Links == Ranks \X Ranks

VARIABLES
  amount,    \* data items of a link in a call; these never change
  call,      \* the number of the call a rank is in or was in last
  inside,    \* the rank is in it
  sent,      \* of this call of the sender, the items that have arrived
  arrived,   \* the same for the call of the receiver
  scattered  \* those of them that were scattered

vars == <<amount, call, inside, sent, arrived, scattered>>

-----------------------------------------------------------------------------

\* Before its first call nothing is expected from anybody.
Expected(n, l) == IF n = 0 THEN 0 ELSE amount[n][l]

Init ==
  /\ amount \in [1 .. NumCalls -> [Links -> Nat]]
  /\ call = [r \in Ranks |-> 0]
  /\ inside = [r \in Ranks |-> FALSE]
  /\ sent = [l \in Links |-> 0]
  /\ arrived = [l \in Links |-> 0]
  /\ scattered = [l \in Links |-> 0]

Enter(r) ==
  /\ ~inside[r] /\ call[r] < NumCalls
  /\ call' = [call EXCEPT ![r] = @ + 1]
  /\ inside' = [inside EXCEPT ![r] = TRUE]
  /\ sent' = [l \in Links |-> IF l[1] = r THEN 0 ELSE sent[l]]
  /\ arrived' = [l \in Links |-> IF l[2] = r THEN 0 ELSE arrived[l]]
  /\ scattered' = [l \in Links |-> IF l[2] = r THEN 0 ELSE scattered[l]]
  /\ UNCHANGED amount

\* A message is matched.
Transfer(l) ==
  /\ inside[l[1]] /\ inside[l[2]] /\ call[l[1]] = call[l[2]]
  /\ \E n \in sent[l] + 1 .. Expected(call[l[1]], l) :
       /\ sent' = [sent EXCEPT ![l] = n]
       /\ arrived' = [arrived EXCEPT ![l] = n]
  /\ UNCHANGED <<amount, call, inside, scattered>>

Scatter(l) ==
  /\ inside[l[2]]
  /\ \E n \in scattered[l] + 1 .. arrived[l] : scattered' = [scattered EXCEPT ![l] = n]
  /\ UNCHANGED <<amount, call, inside, sent, arrived>>

Return(r) ==
  /\ inside[r]
  /\ \A q \in Ranks : /\ sent[<<r, q>>] = Expected(call[r], <<r, q>>)
                      /\ scattered[<<q, r>>] = Expected(call[r], <<q, r>>)
  /\ inside' = [inside EXCEPT ![r] = FALSE]
  /\ UNCHANGED <<amount, call, sent, arrived, scattered>>

Next ==
  \/ \E r \in Ranks : Enter(r) \/ Return(r)
  \/ \E l \in Links : Transfer(l) \/ Scatter(l)

Spec == Init /\ [][Next]_vars

-----------------------------------------------------------------------------

TypeOK ==
  /\ amount \in [1 .. NumCalls -> [Links -> Nat]]
  /\ call \in [Ranks -> 0 .. NumCalls]
  /\ inside \in [Ranks -> BOOLEAN]
  /\ sent \in [Links -> Nat]
  /\ arrived \in [Links -> Nat]
  /\ scattered \in [Links -> Nat]

\* A rank is beyond a call in which a link of it has data only if the other end
\* has come to this call: nobody runs ahead of a process it exchanges data with.
InStep ==
  \A l \in Links, n \in 1 .. NumCalls :
    amount[n][l] > 0 => /\ call[l[1]] > n => call[l[2]] >= n
                        /\ call[l[2]] > n => call[l[1]] >= n

\* A rank that has returned from a call has all the data of this call and no
\* more, and all it sent has arrived.
NothingLost ==
  \A l \in Links :
    /\ scattered[l] <= arrived[l] /\ arrived[l] <= Expected(call[l[2]], l)
    /\ ~inside[l[2]] => scattered[l] = Expected(call[l[2]], l)
    /\ ~inside[l[1]] /\ call[l[1]] = call[l[2]] => arrived[l] = Expected(call[l[2]], l)

\* What the steps preserve: in the same call the ends of a link agree on what has
\* arrived; the end that is ahead has nothing yet, the one behind has everything,
\* and the calls between had no data for the link.
LinkInvariant(l) ==
  LET s == call[l[1]]
      r == call[l[2]]
  IN /\ sent[l] <= Expected(s, l) /\ arrived[l] <= Expected(r, l) /\ scattered[l] <= arrived[l]
     /\ ~inside[l[1]] => sent[l] = Expected(s, l)
     /\ ~inside[l[2]] => scattered[l] = Expected(r, l)
     /\ s = r => sent[l] = arrived[l]
     /\ s > r => sent[l] = 0 /\ arrived[l] = Expected(r, l)
     /\ s < r => sent[l] = Expected(s, l) /\ arrived[l] = 0
     /\ \A n \in 1 .. NumCalls : (r < n /\ n < s) \/ (s < n /\ n < r) => amount[n][l] = 0

Inv == \A l \in Links : LinkInvariant(l)
=============================================================================
