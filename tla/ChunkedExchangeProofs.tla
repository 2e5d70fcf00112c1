------------------------ MODULE ChunkedExchangeProofs ------------------------
(***************************************************************************)
(* For all processes, numbers of calls and amounts of data: no rank runs   *)
(* ahead of one it exchanges data with, and a rank that has returned has   *)
(* all the data of its call.                                               *)
(***************************************************************************)
EXTENDS ChunkedExchange, TLAPS

\* What the links are to deliver is a number, and does not change.
LEMMA ExpectedNat ==
  ASSUME NumCalls \in Nat, TypeOK
  PROVE  /\ \A n \in 0 .. NumCalls, l \in Links : Expected(n, l) \in Nat
         /\ \A n \in 1 .. NumCalls, l \in Links : amount[n][l] \in Nat
                                                  /\ Expected(n, l) = amount[n][l]
         /\ \A l \in Links : Expected(0, l) = 0
         /\ \A l \in Links : l[1] \in Ranks /\ l[2] \in Ranks
<1>1. \A n \in 1 .. NumCalls, l \in Links : amount[n][l] \in Nat
  BY DEF TypeOK
<1>2. \A n \in 1 .. NumCalls, l \in Links : Expected(n, l) = amount[n][l]
  BY DEF Expected
<1>3. \A l \in Links : Expected(0, l) = 0
  BY DEF Expected
<1>4. \A n \in 0 .. NumCalls, l \in Links : Expected(n, l) \in Nat
  <2> SUFFICES ASSUME NEW n \in 0 .. NumCalls, NEW l \in Links PROVE Expected(n, l) \in Nat
    OBVIOUS
  <2>1. CASE n = 0
    BY <1>3, <2>1
  <2>2. CASE n # 0
    BY <1>1, <1>2, <2>2
  <2> QED BY <2>1, <2>2
<1>5. \A l \in Links : l[1] \in Ranks /\ l[2] \in Ranks
  BY DEF Links
<1> QED BY <1>1, <1>2, <1>3, <1>4, <1>5

LEMMA ExpectedConstant ==
  ASSUME amount' = amount
  PROVE  \A n, l : Expected(n, l)' = Expected(n, l)
BY DEF Expected

\* Every variable keeps its type: amount, call, inside and the counters of all links.
THEOREM TypeCorrect == ASSUME NumCalls \in Nat PROVE Spec => []TypeOK
<1>1. Init => TypeOK
  BY DEF Init, TypeOK
<1>2. TypeOK /\ [Next]_vars => TypeOK'
  <2> SUFFICES ASSUME TypeOK, [Next]_vars PROVE TypeOK'
    OBVIOUS
  <2>1. ASSUME NEW r \in Ranks, Enter(r) PROVE TypeOK'
    BY <2>1 DEF TypeOK, Enter
  <2>2. ASSUME NEW r \in Ranks, Return(r) PROVE TypeOK'
    BY <2>2 DEF TypeOK, Return
  <2>3. ASSUME NEW l \in Links, Transfer(l) PROVE TypeOK'
    <3>1. Expected(call[l[1]], l) \in Nat
      BY ExpectedNat DEF TypeOK
    <3>2. PICK n \in sent[l] + 1 .. Expected(call[l[1]], l) :
            sent' = [sent EXCEPT ![l] = n] /\ arrived' = [arrived EXCEPT ![l] = n]
      BY <2>3 DEF Transfer
    <3>3. n \in Nat
      BY <3>1 DEF TypeOK
    <3> QED BY <2>3, <3>2, <3>3 DEF TypeOK, Transfer
  <2>4. ASSUME NEW l \in Links, Scatter(l) PROVE TypeOK'
    BY <2>4 DEF TypeOK, Scatter
  <2>5. CASE UNCHANGED vars
    BY <2>5 DEF TypeOK, vars
  <2> QED BY <2>1, <2>2, <2>3, <2>4, <2>5 DEF Next
<1> QED BY <1>1, <1>2, PTL DEF Spec

-----------------------------------------------------------------------------

\* A rank enters its next call: it has nothing of it yet on any of its links, and
\* what it leaves behind was complete.
LEMMA EnterKeepsInv ==
  ASSUME NumCalls \in Nat, TypeOK, Inv, NEW r \in Ranks, Enter(r)
  PROVE  Inv'
<1> SUFFICES ASSUME NEW l \in Links PROVE LinkInvariant(l)'
  BY DEF Inv
<1>1. LinkInvariant(l)
  BY DEF Inv
<1>2. /\ call[l[1]] \in 0 .. NumCalls /\ call[l[2]] \in 0 .. NumCalls
      /\ call[r] \in 0 .. NumCalls /\ call[r] + 1 \in 1 .. NumCalls
      /\ sent[l] \in Nat /\ arrived[l] \in Nat /\ scattered[l] \in Nat
  <2>1. l[1] \in Ranks /\ l[2] \in Ranks
    BY DEF Links
  <2>2. call \in [Ranks -> 0 .. NumCalls] /\ call[r] < NumCalls
    BY DEF TypeOK, Enter
  <2>3. sent[l] \in Nat /\ arrived[l] \in Nat /\ scattered[l] \in Nat
    BY DEF TypeOK
  <2> QED BY <2>1, <2>2, <2>3
<1>3. /\ \A n : Expected(n, l)' = Expected(n, l)
      /\ \A n \in 0 .. NumCalls : Expected(n, l) \in Nat
      /\ \A n \in 1 .. NumCalls : amount'[n][l] = Expected(n, l) /\ amount[n][l] = Expected(n, l)
  BY ExpectedNat, ExpectedConstant DEF Enter
<1>4. /\ call'[l[1]] = IF l[1] = r THEN call[r] + 1 ELSE call[l[1]]
      /\ call'[l[2]] = IF l[2] = r THEN call[r] + 1 ELSE call[l[2]]
      /\ inside'[l[1]] = IF l[1] = r THEN TRUE ELSE inside[l[1]]
      /\ inside'[l[2]] = IF l[2] = r THEN TRUE ELSE inside[l[2]]
      /\ sent'[l] = IF l[1] = r THEN 0 ELSE sent[l]
      /\ arrived'[l] = IF l[2] = r THEN 0 ELSE arrived[l]
      /\ scattered'[l] = IF l[2] = r THEN 0 ELSE scattered[l]
  BY ExpectedNat DEF TypeOK, Enter
<1>5. ~inside[r]
  BY DEF Enter
<1>6. CASE l[1] = r /\ l[2] = r
  BY <1>1, <1>2, <1>3, <1>4, <1>5, <1>6 DEF LinkInvariant
<1>7. CASE l[1] = r /\ l[2] # r
  BY <1>1, <1>2, <1>3, <1>4, <1>5, <1>7 DEF LinkInvariant
<1>8. CASE l[1] # r /\ l[2] = r
  BY <1>1, <1>2, <1>3, <1>4, <1>5, <1>8 DEF LinkInvariant
<1>9. CASE l[1] # r /\ l[2] # r
  BY <1>1, <1>2, <1>3, <1>4, <1>5, <1>9 DEF LinkInvariant
<1> QED BY <1>6, <1>7, <1>8, <1>9

\* A rank returns: on its links everything was delivered.
LEMMA ReturnKeepsInv ==
  ASSUME NumCalls \in Nat, TypeOK, Inv, NEW r \in Ranks, Return(r)
  PROVE  Inv'
<1> SUFFICES ASSUME NEW l \in Links PROVE LinkInvariant(l)'
  BY DEF Inv
<1>1. LinkInvariant(l)
  BY DEF Inv
<1>2. \A n : Expected(n, l)' = Expected(n, l)
  BY ExpectedConstant DEF Return
<1>3. /\ l[1] = r => sent[l] = Expected(call[r], l)
      /\ l[2] = r => scattered[l] = Expected(call[r], l)
  <2>1. PICK s \in Ranks, q \in Ranks : l = <<s, q>>
    BY DEF Links
  <2> QED BY <2>1 DEF Return
<1>4. /\ inside'[l[1]] = (l[1] # r /\ inside[l[1]])
      /\ inside'[l[2]] = (l[2] # r /\ inside[l[2]])
  BY ExpectedNat DEF TypeOK, Return
<1> QED BY <1>1, <1>2, <1>3, <1>4 DEF LinkInvariant, Return

\* A message arrives while both ends are in the same call, so at both of them.
LEMMA TransferKeepsInv ==
  ASSUME NumCalls \in Nat, TypeOK, Inv, NEW k \in Links, Transfer(k)
  PROVE  Inv'
<1> SUFFICES ASSUME NEW l \in Links PROVE LinkInvariant(l)'
  BY DEF Inv
<1>1. LinkInvariant(l)
  BY DEF Inv
<1>2. \A n : Expected(n, l)' = Expected(n, l)
  BY ExpectedConstant DEF Transfer
<1>3. CASE l # k
  <2>1. sent'[l] = sent[l] /\ arrived'[l] = arrived[l]
    BY <1>3 DEF TypeOK, Transfer
  <2> QED BY <1>1, <1>2, <2>1 DEF LinkInvariant, Transfer
<1>4. CASE l = k
  <2>1. PICK n \in sent[l] + 1 .. Expected(call[l[1]], l) : sent'[l] = n /\ arrived'[l] = n
    BY <1>4 DEF TypeOK, Transfer
  <2>2. /\ call[l[1]] \in 0 .. NumCalls /\ sent[l] \in Nat /\ scattered[l] \in Nat
        /\ Expected(call[l[1]], l) \in Nat
    BY ExpectedNat DEF TypeOK
  <2>3. inside[l[1]] /\ inside[l[2]] /\ call[l[1]] = call[l[2]]
    BY <1>4 DEF Transfer
  <2> QED BY <1>1, <1>2, <2>1, <2>2, <2>3 DEF LinkInvariant, Transfer
<1> QED BY <1>3, <1>4

\* Scattering moves within what has arrived.
LEMMA ScatterKeepsInv ==
  ASSUME NumCalls \in Nat, TypeOK, Inv, NEW k \in Links, Scatter(k)
  PROVE  Inv'
<1> SUFFICES ASSUME NEW l \in Links PROVE LinkInvariant(l)'
  BY DEF Inv
<1>1. LinkInvariant(l)
  BY DEF Inv
<1>2. \A n : Expected(n, l)' = Expected(n, l)
  BY ExpectedConstant DEF Scatter
<1>3. CASE l # k
  <2>1. scattered'[l] = scattered[l]
    BY <1>3 DEF TypeOK, Scatter
  <2> QED BY <1>1, <1>2, <2>1 DEF LinkInvariant, Scatter
<1>4. CASE l = k
  <2>1. scattered'[l] \in scattered[l] + 1 .. arrived[l]
    BY <1>4 DEF TypeOK, Scatter
  <2>2. arrived[l] \in Nat /\ scattered[l] \in Nat /\ inside[l[2]]
    BY <1>4 DEF TypeOK, Scatter
  <2> QED BY <1>1, <1>2, <2>1, <2>2 DEF LinkInvariant, Scatter
<1> QED BY <1>3, <1>4

\* The ends of every link agree, whatever the order of the messages is.
THEOREM ExchangeInvariant == ASSUME NumCalls \in Nat PROVE Spec => []Inv
<1>1. Init => Inv
  <2> SUFFICES ASSUME Init, NEW l \in Links PROVE LinkInvariant(l)
    BY DEF Inv
  <2>1. l[1] \in Ranks /\ l[2] \in Ranks
    BY DEF Links
  <2> QED BY <2>1 DEF Init, LinkInvariant, Expected
<1>2. TypeOK /\ Inv /\ [Next]_vars => Inv'
  <2> SUFFICES ASSUME TypeOK, Inv, [Next]_vars PROVE Inv'
    OBVIOUS
  <2>1. CASE UNCHANGED vars
    BY <2>1 DEF Inv, LinkInvariant, Expected, vars
  <2> QED BY <2>1, EnterKeepsInv, ReturnKeepsInv, TransferKeepsInv, ScatterKeepsInv DEF Next
<1> QED BY <1>1, <1>2, TypeCorrect, PTL DEF Spec

\* No rank goes beyond a call in which it has data for or from a process before
\* this process has come to the call.
THEOREM StaysInStep == ASSUME NumCalls \in Nat PROVE Spec => []InStep
<1>1. TypeOK /\ Inv => InStep
  <2> SUFFICES ASSUME TypeOK, Inv, NEW l \in Links, NEW n \in 1 .. NumCalls, amount[n][l] > 0
               PROVE  /\ call[l[1]] > n => call[l[2]] >= n
                      /\ call[l[2]] > n => call[l[1]] >= n
    BY DEF InStep
  <2>1. call[l[1]] \in 0 .. NumCalls /\ call[l[2]] \in 0 .. NumCalls /\ amount[n][l] \in Nat
    BY ExpectedNat DEF TypeOK
  <2>2. ~((call[l[2]] < n /\ n < call[l[1]]) \/ (call[l[1]] < n /\ n < call[l[2]]))
    BY <2>1 DEF Inv, LinkInvariant
  <2> QED BY <2>1, <2>2
<1> QED BY <1>1, TypeCorrect, ExchangeInvariant, PTL

\* Nothing is scattered that has not arrived; who has returned has all of its call.
THEOREM DeliversEverything == ASSUME NumCalls \in Nat PROVE Spec => []NothingLost
<1>1. Inv => NothingLost
  BY DEF Inv, LinkInvariant, NothingLost
<1> QED BY <1>1, ExchangeInvariant, PTL
=============================================================================
