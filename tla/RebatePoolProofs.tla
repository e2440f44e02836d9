-------------------------- MODULE RebatePoolProofs --------------------------
(***************************************************************************)
(* Machine-checked proofs that the rebate pool's books agree, that it      *)
(* reserves what it has allocated, and that unclaimed allocations stay     *)
(* reserved while the window is not lengthened: for any claimants, number  *)
(* of epochs, allocation, window and amounts.                              *)
(***************************************************************************)
EXTENDS RebatePool, SumsProofs

LEMMA ClaimantsListed == ListsOnce(ClaimantSeq, Claimants)
  BY RebateAssumption DEF ListsOnce, Claimants

LEMMA ClaimantSeqType == ClaimantSeq \in Seq(Claimants)
  BY RebateAssumption

\* A function of the epochs is a sequence of MaxEpochs terms.
LEMMA EpochTerms ==
    ASSUME NEW S, NEW f \in [Epochs -> S]
    PROVE  f \in Seq(S) /\ Len(f) = MaxEpochs
  BY RebateAssumption DEF Epochs

LEMMA DrawnType ==
    ASSUME TypeOK, NEW e \in Epochs
    PROVE  Drawn(e) \in [Claimants -> Nat] /\ Undrawn(e) \in [Claimants -> Nat]
  BY DEF TypeOK, Drawn, Undrawn

\* What has been drawn and what has not make up the leaves.
LEMMA DrawnAndUndrawn ==
    ASSUME TypeOK, NEW e \in Epochs
    PROVE  SumOver(merkleRoot[e], ClaimantSeq)
               = SumOver(Drawn(e), ClaimantSeq) + SumOver(Undrawn(e), ClaimantSeq)
  <1>1. /\ Drawn(e) \in [Claimants -> Int]
        /\ Undrawn(e) \in [Claimants -> Int]
        /\ merkleRoot[e] \in [Claimants -> Int]
    BY DrawnType DEF TypeOK
  <1>2. \A u \in Claimants : merkleRoot[e][u] = Drawn(e)[u] + Undrawn(e)[u]
    BY DEF TypeOK, Drawn, Undrawn
  <1> DEFINE f == Drawn(e)
             g == Undrawn(e)
             h == merkleRoot[e]
  <1> HIDE DEF f, g, h
  <1>3. TermSum(h, f, g, Claimants)
    BY <1>1, <1>2 DEF f, g, h, TermSum
  <1>4. SumOver(h, ClaimantSeq) = SumOver(f, ClaimantSeq) + SumOver(g, ClaimantSeq)
    BY <1>3, ClaimantSeqType, SumOverAdd
  <1> QED
    BY <1>4 DEF f, g, h

LEMMA QuotientType == ASSUME NEW p \in Nat, NEW q \in Nat \ {0} PROVE p \div q \in Nat
  OBVIOUS

\* allocateLazy returns amounts for the claimants.
LEMMA AllocationsType ==
    ASSUME NEW units \in UnitChoices, NEW share \in ShareChoices
    PROVE  Allocations(units, share) \in [Claimants -> Nat]
  <1>1. units \in [Claimants -> Nat] /\ share \in Nat
    BY RebateAssumption
  <1>2. SumOver(units, ClaimantSeq) \in Nat
    BY <1>1, ClaimantSeqType, SumOverOfNaturals
  <1>3. CASE SumOver(units, ClaimantSeq) = 0
    BY <1>3 DEF Allocations, NoRoot
  <1>4. CASE SumOver(units, ClaimantSeq) # 0
    <2> DEFINE T == SumOver(units, ClaimantSeq)
    <2>1. T \in Nat \ {0}
      BY <1>2, <1>4
    <2>2. ASSUME NEW u \in Claimants PROVE (share * units[u]) \div T \in Nat
      <3>1. share * units[u] \in Nat
        BY <1>1
      <3> HIDE DEF T
      <3> QED
        BY <2>1, <3>1, QuotientType
    <2>3. Allocations(units, share) = [u \in Claimants |-> (share * units[u]) \div T]
      BY <1>4 DEF Allocations
    <2> HIDE DEF T
    <2> QED
      BY <2>2, <2>3
  <1> QED
    BY <1>3, <1>4
-----------------------------------------------------------------------------
LEMMA InitRebateInv == Init => RebateInv
  <1> SUFFICES ASSUME Init PROVE RebateInv
    OBVIOUS
  <1> USE DEF Init
  <1>1. TypeOK
    <2>1. NoRoot \in [Claimants -> Nat]
      BY DEF NoRoot
    <2>2. currentEpoch \in 0..MaxEpochs
      BY RebateAssumption
    <2>3. claimed \in [Epochs -> [Claimants -> BOOLEAN]]
      BY Zenon
    <2> QED
      BY <2>1, <2>2, <2>3, RebateAssumption DEF TypeOK
  <1>2. Books
    <2>1. totalOutstanding = SumSeq([e \in Epochs |-> totalAllocated[e] - totalClaimed[e]])
      <3> DEFINE f == [e \in Epochs |-> totalAllocated[e] - totalClaimed[e]]
      <3>1. f \in [Epochs -> Int] /\ \A e \in Epochs : f[e] = 0
        OBVIOUS
      <3>2. f \in Seq(Int) /\ Len(f) = MaxEpochs
        BY <3>1, EpochTerms
      <3>3. SumSeq(f) = 0
        <4>1. \A k \in 1..Len(f) : f[k] = 0
          BY <3>1, <3>2 DEF Epochs
        <4> HIDE DEF f
        <4> QED
          BY <3>2, <4>1, SumSeqOfZeros
      <3> QED
        BY <3>3
    <2>2. ASSUME NEW e \in Epochs PROVE totalClaimed[e] = SumOver(Drawn(e), ClaimantSeq)
      <3>1. Drawn(e) \in [Claimants -> Int] /\ \A u \in Claimants : Drawn(e)[u] = 0
        BY DEF Drawn
      <3> QED
        BY <3>1, ClaimantSeqType, SumOverOfZeros
    <2>3. ASSUME NEW u \in Claimants PROVE wallet[u] = SumSeq([e \in Epochs |-> Drawn(e)[u]])
      <3> DEFINE f == [e \in Epochs |-> Drawn(e)[u]]
      <3>1. f \in [Epochs -> Int] /\ \A e \in Epochs : f[e] = 0
        BY DEF Drawn
      <3>2. f \in Seq(Int) /\ Len(f) = MaxEpochs
        BY <3>1, EpochTerms
      <3>3. SumSeq(f) = 0
        <4>1. \A k \in 1..Len(f) : f[k] = 0
          BY <3>1, <3>2 DEF Epochs
        <4> HIDE DEF f
        <4> QED
          BY <3>2, <4>1, SumSeqOfZeros
      <3> QED
        BY <3>3
    <2> QED
      BY <2>1, <2>2, <2>3 DEF Books
  <1>3. Reserved /\ Blank
    BY DEF Reserved, Blank
  <1>4. Intact
    BY DEF Intact, Claimable
  <1> QED
    BY <1>1, <1>2, <1>3, <1>4 DEF RebateInv

\* The sum over the epochs of a change in one epoch.
LEMMA OneEpochChanges ==
    ASSUME NEW f \in [Epochs -> Int], NEW g \in [Epochs -> Int], NEW e \in Epochs,
           \A d \in Epochs : d # e => g[d] = f[d]
    PROVE  SumSeq(g) = SumSeq(f) + (g[e] - f[e])
  <1>1. f \in Seq(Int) /\ Len(f) = MaxEpochs /\ g \in Seq(Int) /\ Len(g) = MaxEpochs
    BY EpochTerms
  <1> QED
    BY <1>1, SumSeqUpdate DEF Epochs

\* What all epochs owe.
Owed == [e \in Epochs |-> totalAllocated[e] - totalClaimed[e]]

LEMMA OwedType == ASSUME TypeOK PROVE Owed \in [Epochs -> Int]
  BY DEF TypeOK, Owed

\* What one claimant has drawn from each epoch.
DrawnBy(u) == [e \in Epochs |-> Drawn(e)[u]]

LEMMA DrawnByType ==
    ASSUME TypeOK, NEW u \in Claimants
    PROVE  DrawnBy(u) \in [Epochs -> Int]
  BY DrawnType DEF DrawnBy

LEMMA SettleStep ==
    ASSUME RebateInv, NEW units \in UnitChoices, NEW share \in ShareChoices,
           SettleEpoch(units, share)
    PROVE  RebateInv'
  <1> DEFINE leaves == Allocations(units, share)
             total  == SumOver(leaves, ClaimantSeq)
             next   == currentEpoch + 1
  <1>1. leaves \in [Claimants -> Nat] /\ total \in Nat
    BY AllocationsType, ClaimantSeqType, SumOverOfNaturals
  <1>2. /\ next \in Epochs
        /\ balance - totalOutstanding >= total
        /\ totalOutstanding' = totalOutstanding + total
        /\ merkleRoot' = [merkleRoot EXCEPT ![next] = leaves]
        /\ totalAllocated' = [totalAllocated EXCEPT ![next] = total]
        /\ totalClaimed' = [totalClaimed EXCEPT ![next] = 0]
        /\ settledAt' = [settledAt EXCEPT ![next] = now]
        /\ currentEpoch' = next
        /\ UNCHANGED <<now, adminVars, claimed, balance, wallet, rescued>>
    BY DEF SettleEpoch, Unreserved
  <1> HIDE DEF leaves, total
  <1>3. TypeOK /\ Books /\ Reserved /\ Blank /\ Intact
    BY DEF RebateInv
  <1>4. TypeOK'
    <2>1. currentEpoch' \in 0..MaxEpochs
      BY <1>2, RebateAssumption DEF Epochs
    <2>2. totalOutstanding' \in Nat
      BY <1>1, <1>2, <1>3 DEF TypeOK
    <2>3. merkleRoot' \in [Epochs -> [Claimants -> Nat]]
      BY <1>1, <1>2, <1>3 DEF TypeOK
    <2>4. /\ totalAllocated' \in [Epochs -> Nat]
          /\ totalClaimed' \in [Epochs -> Nat]
          /\ settledAt' \in [Epochs -> Nat]
      BY <1>1, <1>2, <1>3 DEF TypeOK
    <2> QED
      BY <2>1, <2>2, <2>3, <2>4, <1>2, <1>3 DEF TypeOK, adminVars
  <1>5. /\ totalAllocated[next] = 0 /\ totalClaimed[next] = 0
        /\ \A u \in Claimants : ~claimed[next][u]
    BY <1>2, <1>3 DEF TypeOK, Blank
  <1>6. ASSUME NEW e \in Epochs PROVE Drawn(e)' = Drawn(e)
    <2>1. CASE e = next
      BY <2>1, <1>2, <1>5 DEF Drawn
    <2>2. CASE e # next
      BY <2>2, <1>2, <1>3 DEF Drawn, TypeOK
    <2> QED
      BY <2>1, <2>2
  <1>7. Books'
    <2>1. SumSeq(Owed') = SumSeq(Owed) + total
      <3>1. Owed \in [Epochs -> Int] /\ Owed' \in [Epochs -> Int]
        BY <1>3, <1>4, OwedType DEF TypeOK, Owed
      <3>2. \A d \in Epochs : d # next => Owed'[d] = Owed[d]
        BY <1>2, <1>3 DEF Owed, TypeOK
      <3>3. Owed[next] = 0 /\ Owed'[next] = total
        BY <1>1, <1>2, <1>3, <1>5 DEF Owed, TypeOK
      <3>4. SumSeq(Owed') = SumSeq(Owed) + (Owed'[next] - Owed[next])
        BY <1>2, <3>1, <3>2, OneEpochChanges
      <3> QED
        BY <1>1, <3>3, <3>4
    <2>2. totalOutstanding' = SumSeq(Owed')
      BY <1>2, <1>3, <2>1 DEF Books, Owed
    <2>3. ASSUME NEW e \in Epochs PROVE totalClaimed'[e] = SumOver(Drawn(e)', ClaimantSeq)
      <3>1. totalClaimed'[e] = totalClaimed[e]
        BY <1>2, <1>3, <1>5 DEF TypeOK
      <3> QED
        BY <1>3, <1>6, <3>1 DEF Books
    <2>4. ASSUME NEW u \in Claimants
          PROVE  wallet'[u] = SumSeq([e \in Epochs |-> Drawn(e)'[u]])
      <3>1. [e \in Epochs |-> Drawn(e)'[u]] = [e \in Epochs |-> Drawn(e)[u]]
        BY <1>6
      <3> QED
        BY <1>2, <1>3, <3>1 DEF Books
    <2> QED
      BY <2>2, <2>3, <2>4 DEF Books, Owed
  <1>8. Reserved'
    BY <1>1, <1>2, <1>3 DEF Reserved, TypeOK
  <1>9. Blank'
    BY <1>2, <1>3, RebateAssumption DEF Blank, TypeOK, Epochs
  <1>10. Intact'
    <2> SUFFICES ASSUME ~lengthened, NEW e \in Epochs
                 PROVE  /\ totalClaimed'[e] <= totalAllocated'[e]
                        /\ Claimable(e)' =>
                             totalAllocated'[e] = SumOver(merkleRoot'[e], ClaimantSeq)
      BY <1>2 DEF Intact, adminVars
    <2>1. CASE e = next
      <3>1. totalAllocated'[e] = total /\ totalClaimed'[e] = 0 /\ merkleRoot'[e] = leaves
        BY <2>1, <1>2, <1>3 DEF TypeOK
      <3> QED
        BY <3>1, <1>1 DEF total
    <2>2. CASE e # next
      <3>1. /\ totalAllocated'[e] = totalAllocated[e] /\ totalClaimed'[e] = totalClaimed[e]
            /\ merkleRoot'[e] = merkleRoot[e] /\ settledAt'[e] = settledAt[e]
        BY <2>2, <1>2, <1>3 DEF TypeOK
      <3>2. Claimable(e)' = Claimable(e)
        BY <3>1, <1>2 DEF Claimable, Expired, adminVars, NoRoot
      <3> QED
        BY <3>1, <3>2, <1>3 DEF Intact
    <2> QED
      BY <2>1, <2>2
  <1> QED
    BY <1>4, <1>7, <1>8, <1>9, <1>10 DEF RebateInv

LEMMA ClaimStep ==
    ASSUME RebateInv, NEW e \in Epochs, NEW u \in Claimants, Claim(e, u)
    PROVE  RebateInv'
  <1> DEFINE amount == merkleRoot[e][u]
  <1>1. TypeOK /\ Books /\ Reserved /\ Blank /\ Intact
    BY DEF RebateInv
  <1>2. amount \in Nat
    BY <1>1 DEF TypeOK
  <1>3. /\ Claimable(e) /\ ~claimed[e][u]
        /\ amount <= totalOutstanding /\ amount <= balance
        /\ claimed' = [claimed EXCEPT ![e][u] = TRUE]
        /\ totalClaimed' = [totalClaimed EXCEPT ![e] = @ + amount]
        /\ totalOutstanding' = totalOutstanding - amount
        /\ balance' = balance - amount
        /\ wallet' = [wallet EXCEPT ![u] = @ + amount]
        /\ UNCHANGED <<now, adminVars, epochVars, totalAllocated, rescued>>
    BY DEF Claim, CoversClaim, MarkClaimed
  <1> HIDE DEF amount
  <1>4. TypeOK'
    <2>1. claimed' \in [Epochs -> [Claimants -> BOOLEAN]]
      BY <1>1, <1>3 DEF TypeOK
    <2>2. totalOutstanding' \in Nat /\ balance' \in Nat
      BY <1>1, <1>2, <1>3 DEF TypeOK
    <2>3. totalClaimed' \in [Epochs -> Nat] /\ wallet' \in [Claimants -> Nat]
      BY <1>1, <1>2, <1>3 DEF TypeOK
    <2> QED
      BY <2>1, <2>2, <2>3, <1>1, <1>3 DEF TypeOK, adminVars, epochVars
  <1>5. /\ Drawn(e)' \in [Claimants -> Int] /\ Drawn(e) \in [Claimants -> Int]
        /\ Drawn(e)[u] = 0 /\ Drawn(e)'[u] = amount
        /\ \A v \in Claimants : v # u => Drawn(e)'[v] = Drawn(e)[v]
    <2>1. Drawn(e)[u] = 0 /\ Drawn(e)'[u] = amount
      BY <1>1, <1>3 DEF TypeOK, Drawn, amount, epochVars
    <2>2. \A v \in Claimants : v # u => Drawn(e)'[v] = Drawn(e)[v]
      BY <1>1, <1>3 DEF TypeOK, Drawn, epochVars
    <2>3. Drawn(e)' \in [Claimants -> Int] /\ Drawn(e) \in [Claimants -> Int]
      BY <1>1, <1>4 DEF TypeOK, Drawn
    <2> QED
      BY <2>1, <2>2, <2>3
  <1>6. ASSUME NEW d \in Epochs, d # e PROVE Drawn(d)' = Drawn(d)
    BY <1>6, <1>1, <1>3 DEF TypeOK, Drawn, epochVars
  <1>7. SumOver(Drawn(e)', ClaimantSeq) = SumOver(Drawn(e), ClaimantSeq) + amount
    <2> DEFINE f == Drawn(e)
               g == Drawn(e)'
    <2>1. /\ f \in [Claimants -> Int] /\ g \in [Claimants -> Int]
          /\ \A v \in Claimants : v # u => g[v] = f[v]
      BY <1>5
    <2>2. f[u] = 0 /\ g[u] = amount
      BY <1>5
    <2> HIDE DEF f, g
    <2>3. SumOver(g, ClaimantSeq) = SumOver(f, ClaimantSeq) + (g[u] - f[u])
      BY <2>1, ClaimantsListed, SumOverUpdate
    <2>4. SumOver(g, ClaimantSeq) = SumOver(f, ClaimantSeq) + amount
      BY <2>2, <2>3, <1>2
    <2> QED
      BY <2>4 DEF f, g
  <1>8. Books'
    <2>1. totalOutstanding' = SumSeq(Owed')
      <3>1. Owed \in [Epochs -> Int] /\ Owed' \in [Epochs -> Int]
        BY <1>1, <1>4, OwedType DEF TypeOK, Owed
      <3>2. \A d \in Epochs : d # e => Owed'[d] = Owed[d]
        BY <1>1, <1>3 DEF Owed, TypeOK
      <3>3. Owed'[e] - Owed[e] = -amount
        BY <1>1, <1>2, <1>3 DEF Owed, TypeOK
      <3>4. SumSeq(Owed') = SumSeq(Owed) + (Owed'[e] - Owed[e])
        BY <3>1, <3>2, OneEpochChanges
      <3>5. totalOutstanding = SumSeq(Owed)
        BY <1>1 DEF Books, Owed
      <3> QED
        BY <1>1, <1>2, <1>3, <3>3, <3>4, <3>5 DEF TypeOK
    <2>2. ASSUME NEW d \in Epochs PROVE totalClaimed'[d] = SumOver(Drawn(d)', ClaimantSeq)
      <3>1. CASE d = e
        <4>1. totalClaimed[e] = SumOver(Drawn(e), ClaimantSeq)
          BY <1>1 DEF Books
        <4>2. totalClaimed'[e] = totalClaimed[e] + amount
          BY <1>1, <1>3 DEF TypeOK
        <4> QED
          BY <3>1, <4>1, <4>2, <1>7
      <3>2. CASE d # e
        <4>1. totalClaimed'[d] = totalClaimed[d]
          BY <3>2, <1>1, <1>3 DEF TypeOK
        <4> QED
          BY <3>2, <4>1, <1>1, <1>6 DEF Books
      <3> QED
        BY <3>1, <3>2
    <2>3. ASSUME NEW v \in Claimants PROVE wallet'[v] = SumSeq(DrawnBy(v)')
      <3>1. wallet[v] = SumSeq(DrawnBy(v))
        BY <1>1 DEF Books, DrawnBy
      <3>2. CASE v = u
        <4>1. DrawnBy(u) \in [Epochs -> Int] /\ DrawnBy(u)' \in [Epochs -> Int]
          <5>1. \A d \in Epochs : Drawn(d)'[u] \in Int
            BY <1>4 DEF TypeOK, Drawn
          <5> QED
            BY <5>1, <1>1, DrawnByType DEF DrawnBy
        <4>2. \A d \in Epochs : d # e => DrawnBy(u)'[d] = DrawnBy(u)[d]
          BY <1>6 DEF DrawnBy
        <4>3. DrawnBy(u)'[e] = amount /\ DrawnBy(u)[e] = 0
          BY <1>5 DEF DrawnBy
        <4>4. SumSeq(DrawnBy(u)') = SumSeq(DrawnBy(u)) + (DrawnBy(u)'[e] - DrawnBy(u)[e])
          BY <4>1, <4>2, OneEpochChanges
        <4>5. wallet'[u] = wallet[u] + amount
          BY <1>1, <1>3 DEF TypeOK
        <4> QED
          BY <3>1, <3>2, <4>3, <4>4, <4>5, <1>2
      <3>3. CASE v # u
        <4>1. \A d \in Epochs : Drawn(d)'[v] = Drawn(d)[v]
          BY <3>3, <1>5, <1>6
        <4>2. DrawnBy(v)' = DrawnBy(v)
          BY <4>1 DEF DrawnBy
        <4>3. wallet'[v] = wallet[v]
          BY <3>3, <1>1, <1>3 DEF TypeOK
        <4> QED
          BY <3>1, <4>2, <4>3
      <3> QED
        BY <3>2, <3>3
    <2> QED
      BY <2>1, <2>2, <2>3 DEF Books, Owed, DrawnBy
  <1>9. Reserved'
    BY <1>1, <1>2, <1>3 DEF Reserved, TypeOK
  <1>10. Blank'
    <2>1. ~(e > currentEpoch)
      BY <1>1, <1>3 DEF Blank, Claimable
    <2>2. ASSUME NEW d \in Epochs, d > currentEpoch
          PROVE  /\ merkleRoot'[d] = NoRoot /\ totalAllocated'[d] = 0
                 /\ totalClaimed'[d] = 0 /\ \A v \in Claimants : ~claimed'[d][v]
      <3>1. d # e
        BY <2>1, <2>2
      <3> QED
        BY <3>1, <2>2, <1>1, <1>3 DEF Blank, TypeOK, epochVars
    <2> QED
      BY <2>2, <1>3 DEF Blank, epochVars, NoRoot
  <1>11. Intact'
    <2> SUFFICES ASSUME ~lengthened, NEW d \in Epochs
                 PROVE  /\ totalClaimed'[d] <= totalAllocated'[d]
                        /\ Claimable(d)' =>
                             totalAllocated'[d] = SumOver(merkleRoot'[d], ClaimantSeq)
      BY <1>3 DEF Intact, adminVars
    <2>1. Claimable(d)' = Claimable(d)
      BY <1>3 DEF Claimable, Expired, adminVars, epochVars, NoRoot
    <2>2. totalClaimed'[d] <= totalAllocated'[d]
      <3>1. CASE d # e
        BY <3>1, <1>1, <1>3 DEF Intact, TypeOK
      <3>2. CASE d = e
        <4>1. totalAllocated[e] = SumOver(Drawn(e), ClaimantSeq) + SumOver(Undrawn(e), ClaimantSeq)
          BY <1>1, <1>3, DrawnAndUndrawn DEF Intact
        <4>2. amount <= SumOver(Undrawn(e), ClaimantSeq)
          <5>1. Undrawn(e) \in [Claimants -> Nat] /\ Undrawn(e)[u] = amount
            BY <1>1, <1>3, DrawnType DEF Undrawn, amount
          <5> QED
            BY <5>1, ClaimantsListed, SumOverBound
        <4>3. totalClaimed[e] = SumOver(Drawn(e), ClaimantSeq)
          BY <1>1 DEF Books
        <4>4. totalClaimed'[e] = totalClaimed[e] + amount
          BY <1>1, <1>3 DEF TypeOK
        <4>5. SumOver(Undrawn(e), ClaimantSeq) \in Nat
          BY <1>1, DrawnType, ClaimantSeqType, SumOverOfNaturals
        <4> HIDE DEF Drawn, Undrawn
        <4> QED
          BY <3>2, <4>1, <4>2, <4>3, <4>4, <4>5, <1>1, <1>2, <1>3 DEF TypeOK
      <3> QED
        BY <3>1, <3>2
    <2> QED
      BY <2>1, <2>2, <1>1, <1>3 DEF Intact, epochVars
  <1> QED
    BY <1>4, <1>8, <1>9, <1>10, <1>11 DEF RebateInv

LEMMA RecycleStep ==
    ASSUME RebateInv, NEW e \in Epochs, RecycleExpiredEpoch(e)
    PROVE  RebateInv'
  <1> DEFINE unclaimed == totalAllocated[e] - totalClaimed[e]
  <1>1. TypeOK /\ Books /\ Reserved /\ Blank /\ Intact
    BY DEF RebateInv
  <1>2. /\ merkleRoot[e] # NoRoot /\ Expired(e)
        /\ totalAllocated[e] > totalClaimed[e]
        /\ totalOutstanding >= unclaimed
        /\ totalAllocated' = [totalAllocated EXCEPT ![e] = totalClaimed[e]]
        /\ totalOutstanding' = totalOutstanding - unclaimed
        /\ UNCHANGED <<now, adminVars, epochVars, totalClaimed, claimed, balance,
                       wallet, rescued>>
    BY DEF RecycleExpiredEpoch, CanRecycle
  <1>3. unclaimed \in Nat
    BY <1>1, <1>2 DEF TypeOK
  <1> HIDE DEF unclaimed
  <1>4. TypeOK'
    <2>1. totalOutstanding' \in Nat /\ totalAllocated' \in [Epochs -> Nat]
      BY <1>1, <1>2, <1>3 DEF TypeOK
    <2> QED
      BY <2>1, <1>1, <1>2 DEF TypeOK, adminVars, epochVars
  <1>5. Books'
    <2>1. totalOutstanding' = SumSeq(Owed')
      <3>1. Owed \in [Epochs -> Int] /\ Owed' \in [Epochs -> Int]
        BY <1>1, <1>4, OwedType DEF TypeOK, Owed
      <3>2. \A d \in Epochs : d # e => Owed'[d] = Owed[d]
        BY <1>1, <1>2 DEF Owed, TypeOK
      <3>3. Owed'[e] - Owed[e] = -unclaimed
        BY <1>1, <1>2, <1>3 DEF Owed, TypeOK, unclaimed
      <3>4. SumSeq(Owed') = SumSeq(Owed) + (Owed'[e] - Owed[e])
        BY <3>1, <3>2, OneEpochChanges
      <3>5. totalOutstanding = SumSeq(Owed)
        BY <1>1 DEF Books, Owed
      <3> QED
        BY <1>1, <1>2, <1>3, <3>3, <3>4, <3>5 DEF TypeOK
    <2>2. \A d \in Epochs : Drawn(d)' = Drawn(d)
      BY <1>2 DEF Drawn, epochVars
    <2> QED
      BY <2>1, <2>2, <1>1, <1>2 DEF Books, Owed
  <1>6. Reserved'
    BY <1>1, <1>2, <1>3 DEF Reserved, TypeOK
  <1>7. Blank'
    <2>1. ~(e > currentEpoch)
      BY <1>1, <1>2 DEF Blank
    <2>2. ASSUME NEW d \in Epochs, d > currentEpoch PROVE totalAllocated'[d] = 0
      <3>1. d # e
        BY <2>1, <2>2
      <3> QED
        BY <3>1, <2>2, <1>1, <1>2 DEF Blank, TypeOK
    <2> QED
      BY <2>2, <1>1, <1>2 DEF Blank, epochVars, NoRoot
  <1>8. Intact'
    <2> SUFFICES ASSUME ~lengthened, NEW d \in Epochs
                 PROVE  /\ totalClaimed'[d] <= totalAllocated'[d]
                        /\ Claimable(d)' =>
                             totalAllocated'[d] = SumOver(merkleRoot'[d], ClaimantSeq)
      BY <1>2 DEF Intact, adminVars
    <2>1. Claimable(d)' = Claimable(d)
      BY <1>2 DEF Claimable, Expired, adminVars, epochVars, NoRoot
    <2>2. CASE d = e
      <3>1. ~Claimable(e)
        BY <1>2 DEF Claimable
      <3> QED
        BY <3>1, <2>1, <2>2, <1>1, <1>2 DEF TypeOK
    <2>3. CASE d # e
      BY <2>1, <2>3, <1>1, <1>2 DEF TypeOK, Intact, epochVars
    <2> QED
      BY <2>2, <2>3
  <1> QED
    BY <1>4, <1>5, <1>6, <1>7, <1>8 DEF RebateInv

\* A step that leaves the epochs and the claims alone.
LEMMA EpochsUntouched ==
    ASSUME RebateInv, TypeOK', UNCHANGED <<epochVars, claimVars, wallet>>,
           balance' + rescued' >= balance + rescued,
           ~lengthened' => /\ ~lengthened
                           /\ now' >= now
                           /\ epochClaimWindowSeconds' <= epochClaimWindowSeconds
    PROVE  RebateInv'
  <1>1. TypeOK /\ Books /\ Reserved /\ Blank /\ Intact
    BY DEF RebateInv
  <1>2. Books'
    <2>1. \A d \in Epochs : Drawn(d)' = Drawn(d)
      BY DEF Drawn, epochVars, claimVars
    <2> QED
      BY <2>1, <1>1 DEF Books, epochVars, claimVars
  <1>3. Reserved'
    <2>1. totalOutstanding' = totalOutstanding /\ totalOutstanding \in Int
      BY <1>1 DEF TypeOK, claimVars
    <2>2. /\ balance + rescued \in Int /\ balance' + rescued' \in Int
          /\ totalOutstanding <= balance + rescued
      BY <1>1 DEF TypeOK, Reserved
    <2> QED
      BY <2>1, <2>2 DEF Reserved
  <1>4. Blank'
    BY <1>1 DEF Blank, epochVars, claimVars, NoRoot
  <1>5. Intact'
    <2>1. ASSUME ~lengthened', NEW e \in Epochs, Claimable(e)' PROVE Claimable(e)
      BY <2>1, <1>1 DEF Claimable, Expired, epochVars, NoRoot, TypeOK
    <2> QED
      BY <2>1, <1>1 DEF Intact, epochVars, claimVars
  <1> QED
    BY <1>2, <1>3, <1>4, <1>5 DEF RebateInv
-----------------------------------------------------------------------------
\* Every step preserves the invariant.
LEMMA NextRebateInv == RebateInv /\ [Next]_vars => RebateInv'
  <1> SUFFICES ASSUME RebateInv, [Next]_vars PROVE RebateInv'
    OBVIOUS
  <1>0. TypeOK
    BY DEF RebateInv
  <1>1. CASE \E units \in UnitChoices, share \in ShareChoices : SettleEpoch(units, share)
    BY <1>1, SettleStep
  <1>2. CASE \E e \in Epochs, u \in Claimants : Claim(e, u)
    BY <1>2, ClaimStep
  <1>3. CASE \E e \in Epochs : RecycleExpiredEpoch(e)
    BY <1>3, RecycleStep
  <1>4. CASE AssociateLazy
    <2>1. TypeOK' /\ UNCHANGED <<epochVars, claimVars, wallet, balance, rescued, lengthened,
                                 now, epochClaimWindowSeconds>>
      BY <1>0, <1>4 DEF AssociateLazy, TypeOK, epochVars, claimVars
    <2> QED
      BY <2>1, <1>0, EpochsUntouched DEF TypeOK
  <1>5. CASE \E isSet \in SignerChoices : SetSigner(isSet)
    <2>1. TypeOK' /\ UNCHANGED <<epochVars, claimVars, wallet, balance, rescued, lengthened,
                                 now, epochClaimWindowSeconds>>
      BY <1>0, <1>5, RebateAssumption DEF SetSigner, TypeOK, epochVars, claimVars
    <2> QED
      BY <2>1, <1>0, EpochsUntouched DEF TypeOK
  <1>6. CASE \E secs \in WindowChoices : SetEpochClaimWindowSeconds(secs)
    <2> PICK secs \in WindowChoices : SetEpochClaimWindowSeconds(secs)
      BY <1>6
    <2>1. /\ epochClaimWindowSeconds' = secs /\ secs \in Nat
          /\ lengthened' = (lengthened \/ secs > epochClaimWindowSeconds)
          /\ UNCHANGED <<epochVars, claimVars, wallet, balance, rescued, now,
                         signerSet, lazyAssociated>>
      BY RebateAssumption DEF SetEpochClaimWindowSeconds
    <2>2. lengthened' \in BOOLEAN
      BY <2>1
    <2>3. TypeOK'
      BY <2>1, <2>2, <1>0 DEF TypeOK, epochVars, claimVars
    <2>4. ~lengthened' => ~lengthened /\ epochClaimWindowSeconds' <= epochClaimWindowSeconds
      <3>1. ~lengthened' => ~lengthened /\ ~(secs > epochClaimWindowSeconds)
        BY <2>1, Zenon
      <3> QED
        BY <3>1, <2>1, <1>0 DEF TypeOK
    <2> QED
      BY <2>1, <2>3, <2>4, <1>0, EpochsUntouched DEF TypeOK
  <1>7. CASE \E amount \in RescueAmounts : RescueLazy(amount)
    <2> PICK amount \in RescueAmounts : RescueLazy(amount)
      BY <1>7
    <2>1. /\ amount \in Nat /\ amount <= balance
          /\ balance' = balance - amount /\ rescued' = rescued + amount
          /\ UNCHANGED <<now, adminVars, epochVars, claimVars, wallet>>
      BY RebateAssumption DEF RescueLazy
    <2>2. balance' \in Nat /\ rescued' \in Nat /\ balance' + rescued' >= balance + rescued
      BY <2>1, <1>0 DEF TypeOK
    <2>3. TypeOK'
      BY <2>1, <2>2, <1>0 DEF TypeOK, adminVars, epochVars, claimVars
    <2> QED
      BY <2>1, <2>2, <2>3, <1>0, EpochsUntouched DEF TypeOK, adminVars
  <1>8. CASE \E amount \in FundAmounts : Fund(amount)
    <2> PICK amount \in FundAmounts : Fund(amount)
      BY <1>8
    <2>1. /\ amount \in Nat /\ balance' = balance + amount
          /\ UNCHANGED <<now, adminVars, epochVars, claimVars, wallet, rescued>>
      BY RebateAssumption DEF Fund
    <2>2. balance' \in Nat /\ balance' + rescued' >= balance + rescued
      BY <2>1, <1>0 DEF TypeOK
    <2>3. TypeOK'
      BY <2>1, <2>2, <1>0 DEF TypeOK, adminVars, epochVars, claimVars
    <2> QED
      BY <2>1, <2>2, <2>3, <1>0, EpochsUntouched DEF TypeOK, adminVars
  <1>9. CASE Tick
    <2>1. /\ now' = now + 1
          /\ UNCHANGED <<adminVars, epochVars, claimVars, balance, wallet, rescued>>
      BY <1>9 DEF Tick
    <2>2. TypeOK'
      BY <2>1, <1>0 DEF TypeOK, adminVars, epochVars, claimVars
    <2> QED
      BY <2>1, <2>2, <1>0, EpochsUntouched DEF TypeOK, adminVars
  <1>10. CASE UNCHANGED vars
    <2>1. TypeOK' /\ UNCHANGED <<epochVars, claimVars, wallet, balance, rescued, lengthened,
                                 now, epochClaimWindowSeconds>>
      BY <1>0, <1>10 DEF vars, TypeOK, epochVars, claimVars
    <2> QED
      BY <2>1, <1>0, EpochsUntouched DEF TypeOK
  <1> QED
    BY <1>1, <1>2, <1>3, <1>4, <1>5, <1>6, <1>7, <1>8, <1>9, <1>10 DEF Next

THEOREM RebateInvariance == Spec => []RebateInv
  BY InitRebateInv, NextRebateInv, PTL DEF Spec

\* The books of LazyRebatePool.sol agree, with what HTS says its claimants
\* hold, in every reachable state.
THEOREM BooksHold == Spec => [](TypeOK /\ Books)
  <1>1. RebateInv => TypeOK /\ Books
    BY DEF RebateInv
  <1> QED
    BY <1>1, RebateInvariance, PTL

\* The invariant that the source states for totalOutstanding: it never
\* exceeds the balance by more than the owner has rescued.
THEOREM ReservedHolds == Spec => []Reserved
  <1>1. RebateInv => Reserved
    BY DEF RebateInv
  <1> QED
    BY <1>1, RebateInvariance, PTL

\* What all claimable epochs can still pay out.
Drawable == [e \in Epochs |->
    IF Claimable(e) THEN SumOver(Undrawn(e), ClaimantSeq) ELSE 0]

LEMMA DrawableIsOwed ==
    ASSUME RebateInv, ~lengthened, NEW e \in Epochs
    PROVE  Drawable[e] \in Nat /\ Drawable[e] <= Owed[e]
  <1>1. TypeOK /\ Books /\ Intact
    BY DEF RebateInv
  <1>2. SumOver(Undrawn(e), ClaimantSeq) \in Nat
    BY <1>1, DrawnType, ClaimantSeqType, SumOverOfNaturals
  <1>3. Owed[e] = totalAllocated[e] - totalClaimed[e] /\ totalClaimed[e] <= totalAllocated[e]
    BY <1>1 DEF Owed, Intact
  <1>4. totalAllocated[e] \in Nat /\ totalClaimed[e] \in Nat
    BY <1>1 DEF TypeOK
  <1>5. CASE Claimable(e)
    <2>1. totalAllocated[e] = SumOver(Drawn(e), ClaimantSeq) + SumOver(Undrawn(e), ClaimantSeq)
      BY <1>1, <1>5, DrawnAndUndrawn DEF Intact
    <2>2. totalClaimed[e] = SumOver(Drawn(e), ClaimantSeq)
      BY <1>1 DEF Books
    <2>3. Drawable[e] = SumOver(Undrawn(e), ClaimantSeq)
      BY <1>5 DEF Drawable
    <2> QED
      BY <2>1, <2>2, <2>3, <1>2, <1>3, <1>4
  <1>6. CASE ~Claimable(e)
    <2>1. Drawable[e] = 0
      BY <1>6 DEF Drawable
    <2> QED
      BY <2>1, <1>3, <1>4
  <1> QED
    BY <1>5, <1>6

LEMMA OwedIsOutstanding ==
    ASSUME RebateInv, ~lengthened
    PROVE  /\ SumSeq(Drawable) <= totalOutstanding
           /\ \A e \in Epochs : Owed[e] \in 0..totalOutstanding
  <1>1. TypeOK /\ totalOutstanding = SumSeq(Owed)
    BY DEF RebateInv, Books, Owed
  <1>2. Owed \in [Epochs -> Nat] /\ Drawable \in [Epochs -> Nat]
    <2>1. \A e \in Epochs : Owed[e] \in Nat /\ Drawable[e] \in Nat
      BY <1>1, OwedType, DrawableIsOwed
    <2> QED
      BY <2>1 DEF Owed, Drawable
  <1>3. /\ Owed \in Seq(Nat) /\ Len(Owed) = MaxEpochs
        /\ Drawable \in Seq(Nat) /\ Len(Drawable) = MaxEpochs
    BY <1>2, EpochTerms
  <1>4. Owed \in Seq(Int) /\ Drawable \in Seq(Int)
    BY <1>3
  <1>5. \A k \in 1..Len(Drawable) : Drawable[k] <= Owed[k]
    BY <1>3, DrawableIsOwed DEF Epochs
  <1>6. SumSeq(Drawable) <= SumSeq(Owed)
    BY <1>3, <1>4, <1>5, SumSeqMonotone
  <1>7. \A k \in 1..Len(Owed) : Owed[k] <= SumSeq(Owed)
    BY <1>3, SumSeqOfNaturals
  <1>8. \A e \in Epochs : Owed[e] \in Nat /\ Owed[e] <= totalOutstanding
    BY <1>1, <1>2, <1>3, <1>7 DEF Epochs
  <1>9. totalOutstanding \in Nat
    BY <1>1 DEF TypeOK
  <1> QED
    BY <1>1, <1>6, <1>8, <1>9

\* As long as the window has not been lengthened, settlements, claims and
\* recycling never take from what other epochs have allocated, however many
\* epochs overlap.
THEOREM ClaimsStayReservedHolds == Spec => []ClaimsStayReserved
  <1>1. RebateInv => ClaimsStayReserved
    <2> SUFFICES ASSUME RebateInv, ~lengthened
                 PROVE  /\ SumSeq(Drawable) <= totalOutstanding
                        /\ \A e \in Epochs : Owed[e] \in 0..totalOutstanding
      BY DEF ClaimsStayReserved, Drawable, Owed
    <2> QED
      BY OwedIsOutstanding
  <1> QED
    BY <1>1, RebateInvariance, PTL

\* The comment of settleEpoch holds as long as the window has not been
\* lengthened and nothing has been rescued: every undrawn leaf of every
\* claimable epoch can be drawn.
THEOREM NobodyIsStrandedUnlessLengthened ==
    Spec => [](~lengthened /\ rescued = 0 => NobodyIsStranded)
  <1>1. RebateInv => (~lengthened /\ rescued = 0 => NobodyIsStranded)
    <2> SUFFICES ASSUME RebateInv, ~lengthened, rescued = 0,
                        NEW e \in Epochs, NEW u \in Claimants,
                        Claimable(e), ~claimed[e][u]
                 PROVE  CoversClaim(merkleRoot[e][u])
      BY DEF NobodyIsStranded
    <2>1. TypeOK /\ Reserved
      BY DEF RebateInv
    <2>2. Undrawn(e) \in [Claimants -> Nat] /\ Undrawn(e)[u] = merkleRoot[e][u]
      BY <2>1, DrawnType DEF Undrawn
    <2>3. merkleRoot[e][u] <= SumOver(Undrawn(e), ClaimantSeq)
      BY <2>2, ClaimantsListed, SumOverBound
    <2>4. Drawable[e] = SumOver(Undrawn(e), ClaimantSeq)
      BY DEF Drawable
    <2>5. Drawable[e] \in Nat /\ Drawable[e] <= Owed[e] /\ Owed[e] \in 0..totalOutstanding
      BY DrawableIsOwed, OwedIsOutstanding
    <2>6. totalOutstanding \in Nat /\ totalOutstanding <= balance /\ balance \in Nat
      BY <2>1 DEF Reserved, TypeOK
    <2>7. merkleRoot[e][u] \in Nat
      BY <2>1 DEF TypeOK
    <2> QED
      BY <2>3, <2>4, <2>5, <2>6, <2>7 DEF CoversClaim
  <1> QED
    BY <1>1, RebateInvariance, PTL
=============================================================================
