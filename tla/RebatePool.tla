----------------------------- MODULE RebatePool -----------------------------
(***************************************************************************)
(* LazyRebatePool.sol: $LAZY rebates that a signer allocates by epoch and  *)
(* claimants draw, with computeRebateEpoch.js, which computes an epoch's   *)
(* allocation and submits it.                                              *)
(*                                                                         *)
(* A Merkle root stands for the leaves it commits to: a function from      *)
(* claimants to amounts, 0 where there is no leaf.  A proof verifies       *)
(* exactly for a leaf.  The root of no leaves is bytes32(0).               *)
(***************************************************************************)
EXTENDS Sums

CONSTANTS
    ClaimantSeq,        \* the claimants, in some order
    UnitChoices,        \* time-weighted staking units, per claimant
    ShareChoices,       \* the amounts the operator asks to distribute
    FundAmounts,        \* amounts of $LAZY sent to the pool
    RescueAmounts,      \* amounts of rescueLazy
    WindowChoices,      \* arguments of setEpochClaimWindowSeconds
    SignerChoices,      \* whether setSigner names a signer or address(0)
    InitialWindow,
    MIN_WINDOW, MAX_WINDOW,
    MaxEpochs,          \* bound: epochs settled
    MaxFunding,         \* bound: $LAZY ever sent to the pool
    MaxTime             \* bound: last timestamp explored

Claimants == {ClaimantSeq[k] : k \in 1..Len(ClaimantSeq)}

Epochs == 1..MaxEpochs

ASSUME RebateAssumption ==
    /\ ClaimantSeq \in Seq(Claimants)
    /\ \A i, j \in 1..Len(ClaimantSeq) : ClaimantSeq[i] = ClaimantSeq[j] => i = j
    /\ UnitChoices \subseteq [Claimants -> Nat]
    /\ ShareChoices \subseteq Nat
    /\ FundAmounts \subseteq Nat
    /\ RescueAmounts \subseteq Nat
    /\ WindowChoices \subseteq Nat
    /\ SignerChoices \subseteq BOOLEAN
    /\ InitialWindow \in Nat
    /\ MaxEpochs \in Nat

VARIABLES
    now,
    signerSet,          \* signer # address(0)
    lazyAssociated,
    epochClaimWindowSeconds,
    currentEpoch,
    totalOutstanding,
    merkleRoot, totalAllocated, totalClaimed, settledAt,    \* epochs[e]
    claimed,            \* claimed[e][u]
    balance,            \* HTS: the pool's $LAZY
    wallet,             \* HTS: what each claimant has drawn
    rescued,            \* bookkeeping only: what the owner has rescued
    lengthened          \* bookkeeping only: whether the owner has ever made
                        \* the claim window longer than it was

adminVars == <<signerSet, lazyAssociated, epochClaimWindowSeconds, lengthened>>
epochVars == <<currentEpoch, merkleRoot, settledAt>>
claimVars == <<totalAllocated, totalClaimed, totalOutstanding, claimed>>
vars == <<now, signerSet, lazyAssociated, epochClaimWindowSeconds, currentEpoch,
          totalOutstanding, merkleRoot, totalAllocated, totalClaimed, settledAt,
          claimed, balance, wallet, rescued, lengthened>>
-----------------------------------------------------------------------------
\* bytes32(0)
NoRoot == [u \in Claimants |-> 0]

\* allocateLazy: the share of each claimant, in proportion to its units and
\* rounded down; nothing at all when there are no units.
Allocations(units, share) ==
    LET totalUnits == SumOver(units, ClaimantSeq)
    IN  IF totalUnits = 0 THEN NoRoot
        ELSE [u \in Claimants |-> (share * units[u]) \div totalUnits]

\* isEpochExpired
Expired(e) == now > settledAt[e] + epochClaimWindowSeconds

\* merkleRoot # 0 and inside the claim window
Claimable(e) == merkleRoot[e] # NoRoot /\ ~Expired(e)

\* Mutant of Unreserved: the check before finding F was fixed.
UnreservedIsBalance == balance

\* The balance that settleEpoch may allocate.  The subtraction is checked
\* and reverts below zero.
Unreserved == balance - totalOutstanding

Init ==
    /\ now = 1
    /\ signerSet = TRUE
    /\ lazyAssociated = FALSE
    /\ epochClaimWindowSeconds = InitialWindow
    /\ currentEpoch = 0
    /\ totalOutstanding = 0
    /\ merkleRoot = [e \in Epochs |-> NoRoot]
    /\ totalAllocated = [e \in Epochs |-> 0]
    /\ totalClaimed = [e \in Epochs |-> 0]
    /\ settledAt = [e \in Epochs |-> 0]
    /\ claimed = [e \in Epochs |-> [u \in Claimants |-> FALSE]]
    /\ balance = 0
    /\ wallet = [u \in Claimants |-> 0]
    /\ rescued = 0
    /\ lengthened = FALSE

\* settleEpoch with what computeRebateEpoch.js computes: the leaves' root and
\* the sum of the leaves.
SettleEpoch(units, share) ==
    LET leaves == Allocations(units, share)
        total  == SumOver(leaves, ClaimantSeq)
        next   == currentEpoch + 1
    IN
    /\ signerSet
    /\ next \in Epochs
    /\ Unreserved >= total
    /\ totalOutstanding' = totalOutstanding + total
    /\ merkleRoot' = [merkleRoot EXCEPT ![next] = leaves]
    /\ totalAllocated' = [totalAllocated EXCEPT ![next] = total]
    /\ totalClaimed' = [totalClaimed EXCEPT ![next] = 0]
    /\ settledAt' = [settledAt EXCEPT ![next] = now]
    /\ currentEpoch' = next
    /\ UNCHANGED <<now, adminVars, claimed, balance, wallet, rescued>>

\* Mutant of MarkClaimed: the flag is not set.
MarkClaimedForgotten(e, u) == UNCHANGED claimed

MarkClaimed(e, u) == claimed' = [claimed EXCEPT ![e][u] = TRUE]

\* totalOutstanding -= amount is checked arithmetic, and the transfer needs
\* the balance.
CoversClaim(amount) == amount <= totalOutstanding /\ amount <= balance

\* claim: the claimant's leaf, once, inside the window.
Claim(e, u) ==
    LET amount == merkleRoot[e][u]
    IN
    /\ Claimable(e)
    /\ ~claimed[e][u]
    /\ amount > 0
    /\ CoversClaim(amount)
    /\ MarkClaimed(e, u)
    /\ totalClaimed' = [totalClaimed EXCEPT ![e] = @ + amount]
    /\ totalOutstanding' = totalOutstanding - amount
    /\ balance' = balance - amount
    /\ wallet' = [wallet EXCEPT ![u] = @ + amount]
    /\ UNCHANGED <<now, adminVars, epochVars, totalAllocated, rescued>>

\* Mutant of CanRecycle: the window is not awaited.
CanRecycleEarly(e) ==
    /\ merkleRoot[e] # NoRoot
    /\ totalAllocated[e] > totalClaimed[e]
    /\ totalOutstanding >= totalAllocated[e] - totalClaimed[e]

\* recycleExpiredEpoch's checks, the early return on nothing unclaimed and
\* the two checked subtractions.
CanRecycle(e) ==
    /\ merkleRoot[e] # NoRoot
    /\ Expired(e)
    /\ totalAllocated[e] > totalClaimed[e]
    /\ totalOutstanding >= totalAllocated[e] - totalClaimed[e]

RecycleExpiredEpoch(e) ==
    /\ CanRecycle(e)
    /\ totalAllocated' = [totalAllocated EXCEPT ![e] = totalClaimed[e]]
    /\ totalOutstanding' = totalOutstanding - (totalAllocated[e] - totalClaimed[e])
    /\ UNCHANGED <<now, adminVars, epochVars, totalClaimed, claimed, balance,
                   wallet, rescued>>
-----------------------------------------------------------------------------
(* The owner's entry points, and the transfers that fund the pool *)

AssociateLazy ==
    /\ ~lazyAssociated
    /\ lazyAssociated' = TRUE
    /\ UNCHANGED <<now, signerSet, epochClaimWindowSeconds, lengthened, epochVars,
                   claimVars, balance, wallet, rescued>>

SetSigner(isSet) ==
    /\ signerSet' = isSet
    /\ UNCHANGED <<now, lazyAssociated, epochClaimWindowSeconds, lengthened, epochVars,
                   claimVars, balance, wallet, rescued>>

SetEpochClaimWindowSeconds(secs) ==
    /\ secs \in MIN_WINDOW..MAX_WINDOW
    /\ epochClaimWindowSeconds' = secs
    /\ lengthened' = (lengthened \/ secs > epochClaimWindowSeconds)
    /\ UNCHANGED <<now, signerSet, lazyAssociated, epochVars, claimVars, balance,
                   wallet, rescued>>

\* rescueLazy: the books stay as they are.
RescueLazy(amount) ==
    /\ amount > 0
    /\ amount <= balance
    /\ balance' = balance - amount
    /\ rescued' = rescued + amount
    /\ UNCHANGED <<now, adminVars, epochVars, claimVars, wallet>>

\* A $LAZY transfer to the pool, possible once it is associated.
Fund(amount) ==
    /\ lazyAssociated
    /\ balance + rescued + SumOver(wallet, ClaimantSeq) + amount <= MaxFunding
    /\ balance' = balance + amount
    /\ UNCHANGED <<now, adminVars, epochVars, claimVars, wallet, rescued>>

Tick ==
    /\ now < MaxTime
    /\ now' = now + 1
    /\ UNCHANGED <<adminVars, epochVars, claimVars, balance, wallet, rescued>>

Next ==
    \/ \E units \in UnitChoices, share \in ShareChoices : SettleEpoch(units, share)
    \/ \E e \in Epochs, u \in Claimants : Claim(e, u)
    \/ \E e \in Epochs : RecycleExpiredEpoch(e)
    \/ AssociateLazy
    \/ \E isSet \in SignerChoices : SetSigner(isSet)
    \/ \E secs \in WindowChoices : SetEpochClaimWindowSeconds(secs)
    \/ \E amount \in RescueAmounts : RescueLazy(amount)
    \/ \E amount \in FundAmounts : Fund(amount)
    \/ Tick

Spec == Init /\ [][Next]_vars
-----------------------------------------------------------------------------
(* What the pool has to keep true *)

\* The type invariant; totalOutstanding is unsigned in the contract, so no
\* order of claims, recycling and window changes may take it below zero.
TypeOK ==
    /\ now \in Nat
    /\ signerSet \in BOOLEAN
    /\ lazyAssociated \in BOOLEAN
    /\ epochClaimWindowSeconds \in Nat
    /\ currentEpoch \in 0..MaxEpochs
    /\ totalOutstanding \in Nat
    /\ merkleRoot \in [Epochs -> [Claimants -> Nat]]
    /\ totalAllocated \in [Epochs -> Nat]
    /\ totalClaimed \in [Epochs -> Nat]
    /\ settledAt \in [Epochs -> Nat]
    /\ claimed \in [Epochs -> [Claimants -> BOOLEAN]]
    /\ balance \in Nat
    /\ wallet \in [Claimants -> Nat]
    /\ rescued \in Nat
    /\ lengthened \in BOOLEAN

\* What the claimants of epoch e have drawn, and what they have not.
Drawn(e) == [u \in Claimants |-> IF claimed[e][u] THEN merkleRoot[e][u] ELSE 0]
Undrawn(e) == [u \in Claimants |-> IF claimed[e][u] THEN 0 ELSE merkleRoot[e][u]]

\* The books agree: totalOutstanding is what all epochs together have
\* allocated and not paid, an epoch's totalClaimed is the sum of the leaves
\* its claimants have drawn, and each claimant holds one payment for each
\* epoch it has claimed, whatever was recycled, revived or rescued between.
Books ==
    /\ totalOutstanding = SumSeq([e \in Epochs |-> totalAllocated[e] - totalClaimed[e]])
    /\ \A e \in Epochs : totalClaimed[e] = SumOver(Drawn(e), ClaimantSeq)
    /\ \A u \in Claimants : wallet[u] = SumSeq([e \in Epochs |-> Drawn(e)[u]])

\* LazyRebatePool.sol, totalOutstanding: "Invariant: totalOutstanding <= LAZY
\* balance", apart from what the owner has rescued.
Reserved == totalOutstanding <= balance + rescued

\* As long as the owner has not lengthened the claim window, all that can
\* still be drawn from all claimable epochs together is reserved, and so is
\* all that can still be recycled: the settlement of a later epoch, a claim or
\* a recycling elsewhere never takes it away or makes recycling revert.
ClaimsStayReserved ==
    ~lengthened =>
        /\ SumSeq([e \in Epochs |->
               IF Claimable(e) THEN SumOver(Undrawn(e), ClaimantSeq) ELSE 0])
              <= totalOutstanding
        /\ \A e \in Epochs :
               totalAllocated[e] - totalClaimed[e] \in 0..totalOutstanding

\* Epochs not settled yet are blank.
Blank ==
    \A e \in Epochs : e > currentEpoch =>
        /\ merkleRoot[e] = NoRoot
        /\ totalAllocated[e] = 0
        /\ totalClaimed[e] = 0
        /\ \A u \in Claimants : ~claimed[e][u]

\* While the window has not been lengthened, an epoch's books change only by
\* claims as long as claimants can draw from it, and it never pays more than
\* it has allocated.
Intact ==
    ~lengthened =>
        \A e \in Epochs :
            /\ totalClaimed[e] <= totalAllocated[e]
            /\ Claimable(e) => totalAllocated[e] = SumOver(merkleRoot[e], ClaimantSeq)

\* The inductive invariant of the pool: every conjunct is preserved by every
\* transaction because of the others (RebatePoolProofs).
RebateInv == TypeOK /\ Books /\ Reserved /\ Blank /\ Intact
-----------------------------------------------------------------------------
\* Part of the unclaimed allocation of e has been returned to the pool.
Recycled(e) == totalAllocated[e] # SumOver(merkleRoot[e], ClaimantSeq)

\* LazyRebatePool.sol, settleEpoch: "overlapping epochs cannot over-commit the
\* pool and strand later claimers": who holds an undrawn leaf of a claimable
\* epoch that was never recycled can draw it.
NobodyIsStranded ==
    \A e \in Epochs, u \in Claimants :
        Claimable(e) /\ ~Recycled(e) /\ ~claimed[e][u] =>
            CoversClaim(merkleRoot[e][u])
=============================================================================
