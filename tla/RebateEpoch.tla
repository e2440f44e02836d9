----------------------------- MODULE RebateEpoch -----------------------------
(***************************************************************************)
(* scripts/ops/computeRebateEpoch.js: from the log of the staking contract  *)
(* to the units, the allocations and the Merkle tree of one rebate epoch.   *)
(* RebatePool models what the pool does with the result.                    *)
(*                                                                         *)
(* The staking contract is not part of the repository: an NFT is staked by  *)
(* one holder at a time and the log says when, in seconds.  Hashing is      *)
(* symbolic: a pair is the set of its halves, since hashPair sorts them.    *)
(***************************************************************************)
EXTENDS Sums, Sequences

CONSTANTS
    StakerSeq,        \* the stakers, sorted
    NFTSeq,           \* the NFTs that can be staked
    CollectionOf,     \* "gen1", "mutant", "lsv" (a range of gen2), "gen2" or another
    EpochStart, EpochEnd,     \* the window, in seconds
    MinStake,         \* seconds a stay must last inside the window to count
    PoolBalance,      \* $LAZY to distribute
    MaxClock,         \* bound: last second explored
    MaxStakeEvents,   \* bound on the staking log
    MaxLeaves         \* trees of up to this many leaves are checked

Stakers == {StakerSeq[i] : i \in DOMAIN StakerSeq}
StakeNFTs == {NFTSeq[i] : i \in DOMAIN NFTSeq}
NoStaker == "none"

\* The window has some length; everything else is an amount or a list.
ASSUME EpochAssumption ==
    /\ StakerSeq \in Seq(Stakers) /\ NFTSeq \in Seq(StakeNFTs) /\ NoStaker \notin Stakers
    /\ EpochStart \in Nat /\ EpochEnd \in Nat /\ EpochStart < EpochEnd
    /\ MinStake \in Nat /\ PoolBalance \in Nat /\ MaxLeaves \in Nat

\* multiplierFor, in tenths of a unit.
WeightOf == [n \in StakeNFTs |->
    CASE CollectionOf[n] = "gen1" -> 50
      [] CollectionOf[n] \in {"mutant", "lsv"} -> 25
      [] CollectionOf[n] = "gen2" -> 10
      [] OTHER -> 0]

VARIABLES
    clock,
    stakerOf,     \* who has staked every NFT
    stakeLog,     \* StakedNFT and UnstakedNFT events
    stakedFor,    \* reference: seconds inside the window, by staker and NFT
    epoch         \* memory of the script

stakeVars == <<clock, stakerOf, stakeLog, stakedFor>>
epochVars == <<clock, stakerOf, stakeLog, stakedFor, epoch>>

-----------------------------------------------------------------------------
(* The staking contract and time.                                            *)

StakeEvent(kind, u, n) ==
    /\ Len(stakeLog) < MaxStakeEvents
    /\ stakeLog' = Append(stakeLog, [kind |-> kind, user |-> u, nft |-> n, at |-> clock])
    /\ UNCHANGED <<clock, stakedFor, epoch>>

StakeNFT(u, n) ==
    /\ stakerOf[n] = NoStaker
    /\ StakeEvent("staked", u, n)
    /\ stakerOf' = [stakerOf EXCEPT ![n] = u]

UnstakeNFT(n) ==
    /\ stakerOf[n] # NoStaker
    /\ StakeEvent("unstaked", stakerOf[n], n)
    /\ stakerOf' = [stakerOf EXCEPT ![n] = NoStaker]

EpochTick ==
    /\ clock < MaxClock
    /\ clock' = clock + 1
    /\ stakedFor' = [u \in Stakers |-> [n \in StakeNFTs |->
                        IF stakerOf[n] = u /\ clock \in EpochStart .. EpochEnd - 1
                        THEN stakedFor[u][n] + 1 ELSE stakedFor[u][n]]]
    /\ UNCHANGED <<stakerOf, stakeLog, epoch>>

-----------------------------------------------------------------------------
(* The script.  It does not ask whether the window has passed.               *)

Open == -1
NoEpoch == [pc |-> "wait", pos |-> 0, readAt |-> 0, history |-> [n \in StakeNFTs |-> <<>>], dropped |-> 0,
            units |-> [u \in Stakers |-> 0], allocations |-> [u \in Stakers |-> 0]]

EpochInit ==
    /\ clock = 0 /\ stakerOf = [n \in StakeNFTs |-> NoStaker] /\ stakeLog = <<>>
    /\ stakedFor = [u \in Stakers |-> [n \in StakeNFTs |-> 0]]
    /\ epoch = NoEpoch

StartEpoch ==
    /\ epoch.pc = "wait"
    /\ epoch' = [epoch EXCEPT !.pc = "history"]
    /\ UNCHANGED stakeVars

HasOpen(periods) == periods # <<>> /\ periods[Len(periods)].to = Open

\* Mutant of InQuery: only the entries inside the window.
InQueryOfWindow(e) == e.at \in EpochStart .. EpochEnd

\* The query asks for entries up to the end of the window.
InQuery(e) == e.at <= EpochEnd

\* One entry of the log: a stake opens a period unless one is open, an
\* unstake closes the one that is.
Extend(periods, e) ==
    CASE e.kind = "staked" /\ ~HasOpen(periods) ->
            Append(periods, [owner |-> e.user, from |-> e.at, to |-> Open])
      [] e.kind = "unstaked" /\ HasOpen(periods) ->
            [periods EXCEPT ![Len(periods)].to = e.at]
      [] OTHER -> periods

ReconstructStakeHistory ==
    /\ epoch.pc = "history"
    /\ epoch' =
         IF epoch.pos < Len(stakeLog) /\ InQuery(stakeLog[epoch.pos + 1])
         THEN LET e == stakeLog[epoch.pos + 1]
              IN [epoch EXCEPT !.pos = @ + 1, !.history[e.nft] = Extend(@, e)]
         ELSE [epoch EXCEPT !.pc = "filter", !.readAt = clock]
    /\ UNCHANGED stakeVars

\* The seconds of a period that lie in the window; negative when none do.
Clamped(p) ==
    LesserOf(IF p.to = Open THEN EpochEnd ELSE p.to, EpochEnd) - GreaterOf(p.from, EpochStart)

\* The periods of an NFT that are not too short.
LongStays(periods) ==
    LET kept[i \in 0 .. Len(periods)] ==
            IF i = 0 THEN <<>>
            ELSE IF Clamped(periods[i]) >= MinStake THEN Append(kept[i-1], periods[i]) ELSE kept[i-1]
    IN kept[Len(periods)]

ApplyMinStakeFilter ==
    /\ epoch.pc = "filter"
    /\ LET kept == [n \in StakeNFTs |-> LongStays(epoch.history[n])]
       IN epoch' = [epoch EXCEPT
                      !.pc = "units",
                      !.history = kept,
                      !.dropped = SumOver([n \in StakeNFTs |->
                                             Len(epoch.history[n]) - Len(kept[n])], NFTSeq)]
    /\ UNCHANGED stakeVars

\* Seconds of a staker in the periods of an NFT that touch the window.
OwnerSeconds(periods, u) ==
    SumSeq([i \in 1 .. Len(periods) |->
              IF periods[i].owner = u /\ Clamped(periods[i]) > 0 THEN Clamped(periods[i]) ELSE 0])

\* Weighted seconds: the units times the length of the epoch.
Weighted(seconds) == SumOver([n \in StakeNFTs |-> WeightOf[n] * seconds[n]], NFTSeq)

\* The sum is of floating-point quotients: where the exact sum of several is
\* an integer, rounding can leave it just below.
Snapped(weighted) ==
    {weighted \div (EpochEnd - EpochStart)}
      \cup {q \in {(weighted - 1) \div (EpochEnd - EpochStart)} :
              q >= 0 /\ Len(NFTSeq) > 1 /\ weighted % (EpochEnd - EpochStart) = 0}

ComputeTimeWeightedUnits ==
    /\ epoch.pc = "units"
    /\ LET outcomes(u) == Snapped(Weighted([n \in StakeNFTs |-> OwnerSeconds(epoch.history[n], u)]))
       IN \E units \in [Stakers -> UNION {outcomes(u) : u \in Stakers}] :
             /\ \A u \in Stakers : units[u] \in outcomes(u)
             /\ epoch' = [epoch EXCEPT !.pc = "allocate", !.units = units]
    /\ UNCHANGED stakeVars

AllocateLazy ==
    /\ epoch.pc = "allocate"
    /\ LET totalUnits == SumOver(epoch.units, StakerSeq)
       IN epoch' = [epoch EXCEPT
                      !.pc = "done",
                      !.allocations = [u \in Stakers |->
                          IF totalUnits = 0 THEN 0
                          ELSE (PoolBalance * epoch.units[u]) \div totalUnits]]
    /\ UNCHANGED stakeVars

-----------------------------------------------------------------------------
(* The Merkle tree: its layers, from the leaves up.                          *)

HashPair(a, b) == [pair |-> {a, b}]

\* Mutant of Up: the odd node is paired with itself.
UpDoublingOdd(layer) ==
    [i \in 1 .. (Len(layer) + 1) \div 2 |->
        HashPair(layer[2 * i - 1], layer[LesserOf(2 * i, Len(layer))])]

\* Two by two; an odd last node moves up as it is.
Up(layer) ==
    [i \in 1 .. (Len(layer) + 1) \div 2 |->
        IF 2 * i > Len(layer) THEN layer[2 * i - 1]
        ELSE HashPair(layer[2 * i - 1], layer[2 * i])]

\* The layers of the tree, the leaves first.
BuildTree(leaves) ==
    LET layer[k \in 0 .. Len(leaves)] == IF k = 0 THEN leaves ELSE Up(layer[k-1])
        top == CHOOSE k \in 0 .. Len(leaves) :
                  Len(layer[k]) = 1 /\ \A l \in 0 .. k - 1 : Len(layer[l]) > 1
    IN [k \in 1 .. top + 1 |-> layer[k-1]]

\* The proof of the leaf at index i (from 0): the siblings of the nodes above
\* it, layer by layer, where they have one.
GetProof(tree, i) ==
    LET idx[k \in 0 .. Len(tree) - 1] == IF k = 0 THEN i ELSE idx[k-1] \div 2
        sibling(k) == IF idx[k-1] % 2 = 0 THEN idx[k-1] + 1 ELSE idx[k-1] - 1
        proof[k \in 0 .. Len(tree) - 1] ==
            IF k = 0 THEN <<>>
            ELSE IF sibling(k) < Len(tree[k]) THEN Append(proof[k-1], tree[k][sibling(k) + 1])
            ELSE proof[k-1]
    IN proof[Len(tree) - 1]

Root(tree) == tree[Len(tree)][1]

\* The pool's side: MerkleProof.verify.
Verify(proof, root, leaf) ==
    LET computed[k \in 0 .. Len(proof)] ==
            IF k = 0 THEN leaf ELSE HashPair(computed[k-1], proof[k])
    IN computed[Len(proof)] = root

Leaf(u, amount) == [user |-> u, amount |-> amount]

\* main, phases 4 and 5: a leaf for every positive allocation, in the order of
\* the sorted users.
EpochLeaves ==
    LET leaves[k \in 0 .. Len(StakerSeq)] ==
            IF k = 0 THEN <<>>
            ELSE LET amount == epoch.allocations[StakerSeq[k]]
                 IN IF amount > 0 THEN Append(leaves[k-1], Leaf(StakerSeq[k], amount)) ELSE leaves[k-1]
    IN leaves[Len(StakerSeq)]

EpochNext ==
    \/ \E u \in Stakers, n \in StakeNFTs : StakeNFT(u, n)
    \/ \E n \in StakeNFTs : UnstakeNFT(n)
    \/ EpochTick
    \/ StartEpoch \/ ReconstructStakeHistory \/ ApplyMinStakeFilter
    \/ ComputeTimeWeightedUnits \/ AllocateLazy

EpochSpec == EpochInit /\ [][EpochNext]_epochVars

-----------------------------------------------------------------------------
(* Properties.                                                               *)

StakeTime(u) == Weighted(stakedFor[u])

\* The units a staker is credited never exceed the time it really had NFTs
\* staked inside the window, counted second by second, and where no stay was
\* too short they are that time, up to one unit of rounding: stays that begin
\* before the window, end after it, or change hands inside it count once.  It
\* takes a log that is read after the window has passed.
UnitsMatchStakeTime ==
    epoch.pc \in {"allocate", "done"} /\ epoch.readAt >= EpochEnd =>
        \A u \in Stakers :
            LET exact == StakeTime(u) \div (EpochEnd - EpochStart)
            IN /\ epoch.units[u] <= exact
               /\ epoch.dropped = 0 => epoch.units[u] >= exact - 1

\* Every leaf of a tree is proved by the path GetProof returns.
ProvesEveryLeaf(leaves) ==
    LET tree == BuildTree(leaves)
    IN \A i \in DOMAIN leaves : Verify(GetProof(tree, i - 1), Root(tree), leaves[i])

\* TRUE, for trees of any small number of leaves.
SmallTreesProveEveryLeaf ==
    \A n \in 1 .. MaxLeaves : ProvesEveryLeaf([i \in 1 .. n |-> Leaf(i, n)])

\* Every allocation can be claimed: its proof leads from its leaf to the root
\* that was settled, for every number of leaves, and the allocations together
\* do not exceed what was to be distributed.
EveryAllocationIsClaimable ==
    epoch.pc = "done" =>
        /\ SumOver(epoch.allocations, StakerSeq) <= PoolBalance
        /\ EpochLeaves # <<>> => ProvesEveryLeaf(EpochLeaves)
        /\ SmallTreesProveEveryLeaf

=============================================================================
