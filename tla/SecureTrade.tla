----------------------------- MODULE SecureTrade -----------------------------
(***************************************************************************)
(* LazySecureTrade.sol: fixed-price listings of NFTs that stay in their    *)
(* seller's wallet until a buyer executes the listing.  A single listing   *)
(* is keyed by its NFT (the hash of token and serial); a batch listing by  *)
(* the nonce it was created with.  Both are executed in two hops through   *)
(* the contract, which keeps the platform fee.                             *)
(*                                                                         *)
(* A call is one step: it succeeds as a whole or reverts as a whole.       *)
(* A list of trade identifiers without repetition is a set of NFTs.        *)
(*                                                                         *)
(* The HBAR and NFT allowances to the contract that a transfer consumes    *)
(* are the network's: NFT approvals are modelled because isTradeValid      *)
(* reads them; the buyer's one-tinybar allowance, and allowances of $LAZY  *)
(* to the gas station, are taken to be given.                              *)
(***************************************************************************)
EXTENDS Sums, FiniteSets, TradeAuthority

CONSTANTS
    AddressSeq,     \* the wallets and stashes that trade, in some order
    NFTSeq,         \* the NFTs, in some order
    TokenOf,        \* the collection of each NFT
    ExemptTokens,   \* LSH_GEN1, LSH_GEN2, LSH_GEN1_MUTANT
    StashOwner,     \* stashOwnerOf of each factory; NoOne for no stash of it
    Offers,         \* NFTs and prices of single listings
    Lists,          \* arguments of createMultipleTrades: sequences of offers
    Bundles,        \* arguments of createBatchTrade: NFTs and their prices
    Expiries,       \* arguments _expiryTime
    Buyers,         \* arguments _buyer, of which NoOne is the open market
    Values,         \* msg.value of the execute functions
    FeeSchedules,   \* arguments of updateFeeRates
    Costs, Burns,   \* arguments of setLazyCostForTrade, setLazyBurnPercentage
    TierMoves,      \* changes of LSH holdings, <<address, tier>>
    Gifts,          \* HBAR anybody sends to the contract
    SerialApprovals,    \* NFTs whose owners approve them one by one
    OperatorApprovals,  \* <<owner, token>> of owners who approve all at once
    InitialOwners,  \* who may own which NFT when the contract is deployed
    InitialCost, InitialBurn, InitialSchedule, InitialTier,
    InitialHbar, InitialLazy,
    SMALL_BATCH, LARGE_BATCH,   \* 5 and 12, of _calculateBatchTradeCost
    MAX_BATCH, MAX_EXECUTE,     \* 22 and 5
    MAX_BPS,                    \* 10 000
    LOW_HBAR, REFILL,           \* 20 and 50, of TokenStakerV2.refill
    FEE_BUFFER,                 \* 50, of withdrawPlatformFees
    MaxNonce,       \* bound: listings ever created
    MaxTopUps       \* bound: gifts of HBAR to the contract

Addresses == {AddressSeq[k] : k \in 1..Len(AddressSeq)}
NFTs == {NFTSeq[k] : k \in 1..Len(NFTSeq)}
Tokens == {TokenOf[n] : n \in NFTs}
Nonces == 1..MaxNonce
Offer == [nft : NFTs, tinybar : Nat, lazy : Nat]
Schedules == [base : Nat, discount : [1..3 -> Nat]]

ASSUME TradeAssumption ==
    /\ AddressSeq \in Seq(Addresses)
    /\ \A i, j \in 1..Len(AddressSeq) : AddressSeq[i] = AddressSeq[j] => i = j
    /\ NFTSeq \in Seq(NFTs)
    /\ \A i, j \in 1..Len(NFTSeq) : NFTSeq[i] = NFTSeq[j] => i = j
    /\ NoOne \notin Addresses
    /\ StashOwner \in [Factories -> [Addresses -> Addresses \union {NoOne}]]
    /\ Offers \subseteq Offer
    /\ \A list \in Lists : list \in Seq(Offer)
    /\ Bundles \subseteq [items : SUBSET NFTs, tinybar : [NFTs -> Nat], lazy : [NFTs -> Nat]]
    /\ Expiries \subseteq Nat
    /\ Buyers \subseteq Addresses \union {NoOne}
    /\ Values \subseteq Nat
    /\ FeeSchedules \subseteq Schedules
    /\ InitialSchedule \in Schedules
    /\ InitialSchedule.base <= 500
    /\ \A k \in 1..3 : InitialSchedule.discount[k] <= 100
    /\ Costs \subseteq Nat /\ InitialCost \in Nat
    /\ Burns \subseteq Nat /\ InitialBurn \in Nat
    /\ TierMoves \subseteq Addresses \X (0..3)
    /\ InitialTier \in [Addresses -> 0..3]
    /\ Gifts \subseteq Nat
    /\ InitialOwners \subseteq [NFTs -> Addresses]
    /\ SerialApprovals \subseteq NFTs
    /\ OperatorApprovals \subseteq Addresses \X Tokens
    /\ InitialHbar \in [Addresses -> Nat]
    /\ InitialLazy \in [Addresses -> Nat]
    /\ MAX_BPS \in Nat /\ MAX_BPS > 500
    /\ LOW_HBAR \in Nat /\ REFILL \in Nat /\ REFILL >= LOW_HBAR
    /\ FEE_BUFFER \in Nat
    /\ MaxNonce \in Nat

VARIABLES
    \* the network and the other contracts
    ownerOf, serialApproved, operatorApproved, hbar, lazy, tier,
    \* listings
    trades, userTrades, tokenTrades,
    batches, userBatches, itemToBatch,
    tokens, tradeNonce,
    \* money and its parameters
    vault,              \* the contract's own HBAR
    totalHbarFeesCollected, lifetimeHbarVolume, lifetimeLazyVolume,
    feeRates, lazyCostForTrade, lazyBurnPercentage,
    \* history
    receipts,           \* TradeCompleted and BatchTradeExecuted, per NFT
    topUps,             \* HBAR from the gas station and from gifts
    withdrawn           \* HBAR the owner has withdrawn

assetVars == <<ownerOf, serialApproved, operatorApproved>>
tradeVars == <<trades, userTrades, tokenTrades>>
batchVars == <<batches, userBatches, itemToBatch>>
moneyVars == <<hbar, vault, totalHbarFeesCollected, lifetimeHbarVolume,
               lifetimeLazyVolume, receipts, topUps, withdrawn>>
paramVars == <<tier, feeRates, lazyCostForTrade, lazyBurnPercentage>>
vars == <<assetVars, tradeVars, batchVars, moneyVars, paramVars, lazy, tokens,
          tradeNonce, authorityVars, now>>
-----------------------------------------------------------------------------
NoTrade == [seller |-> NoOne, buyer |-> NoOne, tinybarPrice |-> 0,
            lazyPrice |-> 0, expiryTime |-> 0, nonce |-> 0]

NothingPriced == [n \in NFTs |-> 0]

NoBatch == [seller |-> NoOne, buyer |-> NoOne, items |-> {},
            tinybarPrice |-> NothingPriced, lazyPrice |-> NothingPriced,
            expiryTime |-> 0]

Init ==
    /\ AuthorityInit
    /\ ownerOf \in InitialOwners
    /\ serialApproved = {}
    /\ operatorApproved = {}
    /\ hbar = InitialHbar
    /\ lazy = InitialLazy
    /\ tier = InitialTier
    /\ trades = [n \in NFTs |-> NoTrade]
    /\ userTrades = [a \in Addresses |-> {}]
    /\ tokenTrades = [t \in Tokens |-> {}]
    /\ batches = [b \in Nonces |-> NoBatch]
    /\ userBatches = [a \in Addresses \union {NoOne} |-> {}]
    /\ itemToBatch = [n \in NFTs |-> 0]
    /\ tokens = {}
    /\ tradeNonce = 0
    /\ vault = 0
    /\ totalHbarFeesCollected = 0
    /\ lifetimeHbarVolume = 0
    /\ lifetimeLazyVolume = 0
    /\ feeRates = InitialSchedule
    /\ lazyCostForTrade = InitialCost
    /\ lazyBurnPercentage = InitialBurn
    /\ receipts = {}
    /\ topUps = 0
    /\ withdrawn = 0
-----------------------------------------------------------------------------
\* _validateNFTOwnershipAndApproval
OwnedAndApproved(n, a) ==
    /\ ownerOf[n] = a
    /\ n \in serialApproved \/ <<a, TokenOf[n]>> \in operatorApproved

\* _resolveBeneficialOwner: the human behind a stash of the resolver.
BeneficialOwner(a) ==
    IF bcf # NoOne /\ StashOwner[bcf][a] # NoOne THEN StashOwner[bcf][a] ELSE a

\* calculateSellerFeeRate, in basis points, for a seller already resolved
FeeRate(a) ==
    IF tier[a] = 0 THEN feeRates.base
    ELSE feeRates.base - (feeRates.base * feeRates.discount[tier[a]]) \div 100

\* _processHbarPayment: what the platform keeps of a price.
HbarFee(n, price, rate) ==
    IF TokenOf[n] \in ExemptTokens THEN 0 ELSE (price * rate) \div MAX_BPS

\* _calculateBatchTradeCost
BatchTradeCost(count) ==
    lazyCostForTrade * (IF count <= SMALL_BATCH THEN 2
                        ELSE IF count <= LARGE_BATCH THEN 3 ELSE 5)

\* Mutant of DrawLazyFrom: the draw does not look at the balance.
DrawUnchecked(a, amount) ==
    /\ amount # 0 /\ lazyBurnPercentage <= 100
    /\ lazy' = [lazy EXCEPT ![a] = @ - amount]

\* LazyGasStation.drawLazyFrom: $LAZY of a listing on the open market, part
\* of it burnt; the station refuses to draw nothing or to burn over 100 %.
DrawLazyFrom(a, amount) ==
    /\ amount # 0 /\ lazyBurnPercentage <= 100
    /\ lazy[a] >= amount
    /\ lazy' = [lazy EXCEPT ![a] = @ - amount]

\* Private listings, and those of holders of LSH tokens, are free.
PayForListing(a, buyer, amount) ==
    IF buyer = NoOne /\ tier[a] = 0 THEN DrawLazyFrom(a, amount) ELSE UNCHANGED lazy

NotInPast(expiry) == expiry = 0 \/ expiry >= now
-----------------------------------------------------------------------------
\* removeTradeFromState for each NFT of D: the listings without them, and
\* the indexes of their seller and of their buyer or the open market.
TradesWithout(D) == [n \in NFTs |-> IF n \in D THEN NoTrade ELSE trades[n]]

\* Mutant of UserTradesWithout: a private listing stays in its buyer's index.
UserTradesWithoutSellers(D) ==
    [a \in Addresses |-> userTrades[a] \ {n \in D : a = trades[n].seller}]

UserTradesWithout(D) ==
    [a \in Addresses |->
        userTrades[a] \ {n \in D : a \in {trades[n].seller, trades[n].buyer}}]

OpenTrade(n) == trades[n].seller # NoOne /\ trades[n].buyer = NoOne

TokenTradesWithout(D) ==
    [t \in Tokens |-> tokenTrades[t] \ {n \in D : OpenTrade(n) /\ TokenOf[n] = t}]

\* Mutant of RemoveTrades: the listing itself stays.
RemoveIndexesOnly(D) ==
    /\ trades' = trades
    /\ userTrades' = UserTradesWithout(D)
    /\ tokenTrades' = TokenTradesWithout(D)

RemoveTrades(D) ==
    /\ trades' = TradesWithout(D)
    /\ userTrades' = UserTradesWithout(D)
    /\ tokenTrades' = TokenTradesWithout(D)

\* The positions at which a list names n; the last one is what remains.
Positions(list, n) == {i \in 1..Len(list) : list[i].nft = n}
Listed(list) == {list[i].nft : i \in 1..Len(list)}
LastPosition(list, n) == CHOOSE i \in Positions(list, n) :
                            \A j \in Positions(list, n) : j <= i

\* _validateAndCreateTrade for each entry of a list, in order: an existing
\* listing of the NFT, whoever made it, gives way to the new one.
ListTrades(seller, list, buyer, expiry) ==
    LET listed == Listed(list)
        new == [n \in listed |->
                  LET i == LastPosition(list, n)
                  IN  [seller |-> seller, buyer |-> buyer,
                       tinybarPrice |-> list[i].tinybar, lazyPrice |-> list[i].lazy,
                       expiryTime |-> expiry, nonce |-> tradeNonce + i]]
    IN  /\ NotInPast(expiry)
        /\ \A i \in 1..Len(list) :
              /\ buyer = NoOne => list[i].tinybar # 0 \/ list[i].lazy # 0
              /\ OwnedAndApproved(list[i].nft, seller)
        /\ tradeNonce + Len(list) <= MaxNonce
        /\ tradeNonce' = tradeNonce + Len(list)
        /\ tokens' = tokens \union {TokenOf[n] : n \in listed}
        /\ trades' = [n \in NFTs |-> IF n \in listed THEN new[n] ELSE trades[n]]
        /\ userTrades' = [a \in Addresses |->
              UserTradesWithout(listed)[a] \union (IF a \in {seller, buyer} THEN listed ELSE {})]
        /\ tokenTrades' = [t \in Tokens |->
              TokenTradesWithout(listed)[t] \union
                 {n \in listed : buyer = NoOne /\ TokenOf[n] = t}]
        /\ UNCHANGED <<assetVars, batchVars, moneyVars, paramVars, authorityVars, now>>

CreateTrade(seller, offer, buyer, expiry) ==
    /\ PayForListing(seller, buyer, lazyCostForTrade)
    /\ ListTrades(seller, <<offer>>, buyer, expiry)

\* createTradeOnBehalf: an authorized factory lists for one of its stashes,
\* and the listing is free.
CreateTradeOnBehalf(f, seller, offer, buyer, expiry) ==
    /\ f \in authorizedFactories
    /\ StashOwner[f][seller] # NoOne
    /\ ListTrades(seller, <<offer>>, buyer, expiry)
    /\ UNCHANGED lazy

CreateMultipleTrades(seller, list, buyer, expiry) ==
    /\ Len(list) \in 1..MAX_BATCH
    /\ ListTrades(seller, list, buyer, expiry)
    /\ PayForListing(seller, buyer, BatchTradeCost(Len(list)))

NothingSold == UNCHANGED <<assetVars, batchVars, moneyVars, paramVars, lazy, tokens,
                           tradeNonce, authorityVars, now>>

\* cancelTrades, and cancelTrade for a single one: by seller or buyer,
\* whether or not the seller still owns the NFT; all or none.
CancelTrades(a, D) ==
    /\ \A n \in D : a \in {trades[n].seller, trades[n].buyer}
    /\ RemoveTrades(D)
    /\ NothingSold

\* cancelMultipleTrades: by the seller; what is not his is passed over.  It
\* clears the token index of private listings too, where they never were.
CancelMultipleTrades(a, D) ==
    LET his == {n \in D : trades[n].seller = a}
    IN  /\ Cardinality(D) \in 1..MAX_BATCH
        /\ trades' = TradesWithout(his)
        /\ userTrades' = UserTradesWithout(his)
        /\ tokenTrades' = [t \in Tokens |-> tokenTrades[t] \ {n \in his : TokenOf[n] = t}]
        /\ NothingSold
-----------------------------------------------------------------------------
\* Mutant of TradeValid: expiry is checked at creation only.
TradeValidForever(n, caller) ==
    LET trade == trades[n]
    IN  /\ trade.seller # NoOne
        /\ trade.buyer = NoOne \/ caller \in {trade.seller, trade.buyer}
        /\ OwnedAndApproved(n, trade.seller)

\* isTradeValid for a caller
TradeValid(n, caller) ==
    LET trade == trades[n]
    IN  /\ trade.seller # NoOne
        /\ trade.expiryTime = 0 \/ now <= trade.expiryTime
        /\ trade.buyer = NoOne \/ caller \in {trade.seller, trade.buyer}
        /\ OwnedAndApproved(n, trade.seller)

\* The total of f, a function of the NFTs of D.
TotalOver(D, f) == SumOver([n \in NFTs |-> IF n \in D THEN f[n] ELSE 0], NFTSeq)

\* Mutant of Covered: msg.value of a multiple execution is not checked, as
\* before audit finding A.
CoveredWhenSingle(value, due) == TRUE

\* _refundExcessHbar reverts when the call did not bring the price.
Covered(value, due) == value >= due

Refund(value, due) == IF value > due THEN value - due ELSE 0

\* The two hops of each NFT of D (_execute2StepNFTTransfer), its $LAZY leg and
\* the refund.  sale[n] gives seller, tinybar and lazy price and the fee.  The
\* contract pays the seller the price less the fee, at least one tinybar, and
\* gets one tinybar from the buyer in the second hop.  Below LOW_HBAR the gas
\* station tops the contract up; its HBAR is lowest before the last hop.
Settle(D, sale, buyer, value) ==
    LET due    == TotalOver(D, [n \in D |-> sale[n].tinybar])
        net    == [n \in D |-> GreaterOf(sale[n].tinybar - sale[n].fee, 1)]
        hops   == Cardinality(D)
        lowest == vault + value - TotalOver(D, net) + hops - 1
        topUp  == IF lowest < LOW_HBAR THEN REFILL ELSE 0
        fees   == TotalOver(D, [n \in D |-> sale[n].fee])
        lazies == TotalOver(D, [n \in D |-> sale[n].lazy])
        earned(a, f) == TotalOver({n \in D : sale[n].seller = a}, f)
    IN  /\ \A n \in D : OwnedAndApproved(n, sale[n].seller) /\ TokenOf[n] \in tokens
        /\ Covered(value, due)
        /\ hbar[buyer] >= value + hops
        /\ lowest + topUp >= 0
        /\ lazy[buyer] >= lazies
        /\ vault' = vault + topUp + value - TotalOver(D, net) + hops - Refund(value, due)
        /\ hbar' = [a \in Addresses |->
              hbar[a] + earned(a, net)
                - (IF a = buyer THEN value + hops - Refund(value, due) ELSE 0)]
        /\ lazy' = [a \in Addresses |->
              lazy[a] + earned(a, [n \in D |-> sale[n].lazy])
                - (IF a = buyer THEN lazies ELSE 0)]
        /\ ownerOf' = [n \in NFTs |-> IF n \in D THEN buyer ELSE ownerOf[n]]
        /\ serialApproved' = serialApproved \ D
        /\ totalHbarFeesCollected' = totalHbarFeesCollected + fees
        /\ lifetimeHbarVolume' = lifetimeHbarVolume + due
        /\ lifetimeLazyVolume' = lifetimeLazyVolume + lazies
        /\ topUps' = topUps + topUp
        /\ receipts' = receipts \union
              {[nft |-> n, nonce |-> sale[n].nonce, seller |-> sale[n].seller,
                buyer |-> buyer, tinybar |-> sale[n].tinybar, net |-> net[n],
                private |-> sale[n].private] : n \in D}
        /\ UNCHANGED <<operatorApproved, withdrawn, tokens, tradeNonce, paramVars,
                       authorityVars, now>>

\* The sale that the listing of n amounts to: a private one carries no fee.
SaleOfTrade(n) ==
    LET trade == trades[n]
        rate  == IF trade.buyer # NoOne THEN 0 ELSE FeeRate(BeneficialOwner(trade.seller))
    IN  [seller |-> trade.seller, tinybar |-> trade.tinybarPrice,
         lazy |-> trade.lazyPrice, nonce |-> trade.nonce,
         private |-> trade.buyer # NoOne,
         fee |-> HbarFee(n, trade.tinybarPrice, rate)]

\* executeTrades, and executeTrade for a single one, all or none: _executeTrade
\* refuses the seller and whoever shares the seller's beneficial owner.
ExecuteTrades(caller, D, value) ==
    /\ Cardinality(D) \in 1..MAX_EXECUTE
    /\ \A n \in D :
          /\ TradeValid(n, caller)
          /\ BeneficialOwner(caller) # BeneficialOwner(trades[n].seller)
    /\ Settle(D, [n \in D |-> SaleOfTrade(n)], caller, value)
    /\ RemoveTrades(D)
    /\ UNCHANGED batchVars
-----------------------------------------------------------------------------
\* createBatchTrade, for distinct NFTs: an item for nothing costs one tinybar.
\* The batch becomes the batch of each of its items, whatever was before.
CreateBatchTrade(seller, bundle, buyer, expiry) ==
    LET id == tradeNonce + 1
        items == bundle.items
        price == [n \in NFTs |-> IF n \in items THEN GreaterOf(bundle.tinybar[n], 1) ELSE 0]
    IN  /\ NotInPast(expiry)
        /\ Cardinality(items) \in 1..MAX_BATCH
        /\ \A n \in items : OwnedAndApproved(n, seller)
        /\ id <= MaxNonce
        /\ PayForListing(seller, buyer, BatchTradeCost(Cardinality(items)))
        /\ tradeNonce' = id
        /\ tokens' = tokens \union {TokenOf[n] : n \in items}
        /\ batches' = [batches EXCEPT ![id] =
              [seller |-> seller, buyer |-> buyer, items |-> items,
               tinybarPrice |-> price,
               lazyPrice |-> [n \in NFTs |-> IF n \in items THEN bundle.lazy[n] ELSE 0],
               expiryTime |-> expiry]]
        /\ itemToBatch' = [n \in NFTs |-> IF n \in items THEN id ELSE itemToBatch[n]]
        /\ userBatches' = [a \in Addresses \union {NoOne} |->
              IF a \in {seller, buyer} THEN userBatches[a] \union {id} ELSE userBatches[a]]
        /\ UNCHANGED <<assetVars, tradeVars, moneyVars, paramVars, authorityVars, now>>

\* Mutant of CleanupBatchTrade: the items keep pointing at the batch.
CleanupLeavesItems(b) ==
    /\ batches' = [batches EXCEPT ![b] = NoBatch]
    /\ userBatches' = [a \in Addresses \union {NoOne} |->
          IF a \in {batches[b].seller, batches[b].buyer} THEN userBatches[a] \ {b}
          ELSE userBatches[a]]
    /\ UNCHANGED itemToBatch

\* _cleanupBatchTrade: the items are released even when a newer batch holds
\* them too.
CleanupBatchTrade(b) ==
    /\ batches' = [batches EXCEPT ![b] = NoBatch]
    /\ userBatches' = [a \in Addresses \union {NoOne} |->
          IF a \in {batches[b].seller, batches[b].buyer} THEN userBatches[a] \ {b}
          ELSE userBatches[a]]
    /\ itemToBatch' = [n \in NFTs |-> IF n \in batches[b].items THEN 0 ELSE itemToBatch[n]]

CancelBatchTrade(a, b) ==
    /\ batches[b].seller = a
    /\ CleanupBatchTrade(b)
    /\ UNCHANGED <<assetVars, tradeVars, moneyVars, paramVars, lazy, tokens, tradeNonce,
                   authorityVars, now>>

\* executeBatchTrade: the caller is compared with the buyer only, and owners
\* and approvals are left to the transfers.
ExecuteBatchTrade(caller, b, value) ==
    LET batch == batches[b]
        rate  == IF batch.buyer # NoOne THEN 0 ELSE FeeRate(BeneficialOwner(batch.seller))
        sale  == [n \in batch.items |->
                    [seller |-> batch.seller, tinybar |-> batch.tinybarPrice[n],
                     lazy |-> batch.lazyPrice[n], nonce |-> b,
                     private |-> batch.buyer # NoOne,
                     fee |-> HbarFee(n, batch.tinybarPrice[n], rate)]]
    IN  /\ batch.seller # NoOne
        /\ batch.expiryTime = 0 \/ now <= batch.expiryTime
        /\ batch.buyer \in {NoOne, caller}
        /\ Settle(batch.items, sale, caller, value)
        /\ CleanupBatchTrade(b)
        /\ UNCHANGED tradeVars
-----------------------------------------------------------------------------
\* Mutant of UpdateFeeRates: no cap on the base rate.
UpdateFeeRatesUncapped(s) ==
    /\ \A k \in 1..3 : s.discount[k] <= 100
    /\ feeRates' = s
    /\ UNCHANGED <<tier, lazyCostForTrade, lazyBurnPercentage, moneyVars>>

\* updateFeeRates: at most 5 %, discounts of at most 100 %, higher tiers first.
UpdateFeeRates(s) ==
    /\ s.base <= 500
    /\ \A k \in 1..3 : s.discount[k] <= 100
    /\ s.discount[3] >= s.discount[2] /\ s.discount[2] >= s.discount[1]
    /\ feeRates' = s
    /\ UNCHANGED <<tier, lazyCostForTrade, lazyBurnPercentage, moneyVars>>

SetLazyCostForTrade(cost) ==
    /\ lazyCostForTrade' = cost
    /\ UNCHANGED <<tier, feeRates, lazyBurnPercentage, moneyVars>>

SetLazyBurnPercentage(burn) ==
    /\ lazyBurnPercentage' = burn
    /\ UNCHANGED <<tier, feeRates, lazyCostForTrade, moneyVars>>

\* withdrawPlatformFees: all but the buffer, to a recipient.
WithdrawPlatformFees(a) ==
    /\ vault > FEE_BUFFER
    /\ vault' = FEE_BUFFER
    /\ hbar' = [hbar EXCEPT ![a] = @ + vault - FEE_BUFFER]
    /\ withdrawn' = withdrawn + (vault - FEE_BUFFER)
    /\ UNCHANGED <<totalHbarFeesCollected, lifetimeHbarVolume, lifetimeLazyVolume,
                   receipts, topUps, paramVars>>

\* receive
Receive(a, amount) ==
    /\ hbar[a] >= amount
    /\ topUps + amount <= MaxTopUps
    /\ hbar' = [hbar EXCEPT ![a] = @ - amount]
    /\ vault' = vault + amount
    /\ topUps' = topUps + amount
    /\ UNCHANGED <<totalHbarFeesCollected, lifetimeHbarVolume, lifetimeLazyVolume,
                   receipts, withdrawn, paramVars>>

\* Holdings, stakes and delegations that LSHTierLib reads have changed.
TierChanges(move) ==
    /\ tier' = [tier EXCEPT ![move[1]] = move[2]]
    /\ UNCHANGED <<feeRates, lazyCostForTrade, lazyBurnPercentage, moneyVars>>

\* Owners approve the contract and move their NFTs themselves; a transfer
\* consumes the approval of the serial.
ApproveSerial(n, ok) ==
    /\ serialApproved' = IF ok THEN serialApproved \union {n} ELSE serialApproved \ {n}
    /\ UNCHANGED <<ownerOf, operatorApproved>>

ApproveAll(p, ok) ==
    /\ operatorApproved' = IF ok THEN operatorApproved \union {p} ELSE operatorApproved \ {p}
    /\ UNCHANGED <<ownerOf, serialApproved>>

TransferNFT(n, to) ==
    /\ to # ownerOf[n]
    /\ ownerOf' = [ownerOf EXCEPT ![n] = to]
    /\ serialApproved' = serialApproved \ {n}
    /\ UNCHANGED operatorApproved

Tick ==
    /\ now < MaxTime
    /\ now' = now + 1
    /\ UNCHANGED <<assetVars, tradeVars, batchVars, moneyVars, paramVars, lazy, tokens,
                   tradeNonce, authorityVars>>
-----------------------------------------------------------------------------
Creation ==
    \E a \in Addresses, buyer \in Buyers, expiry \in Expiries :
       \/ \E offer \in Offers :
             \/ CreateTrade(a, offer, buyer, expiry)
             \/ \E f \in Factories : CreateTradeOnBehalf(f, a, offer, buyer, expiry)
       \/ \E list \in Lists : CreateMultipleTrades(a, list, buyer, expiry)
       \/ \E bundle \in Bundles : CreateBatchTrade(a, bundle, buyer, expiry)

\* Sets of live single listings: a call that names another one reverts, or
\* passes it over.
Calls == SUBSET {n \in NFTs : trades[n].seller # NoOne} \ {{}}

Cancellation ==
    \E a \in Addresses :
       \/ \E D \in Calls : CancelTrades(a, D) \/ CancelMultipleTrades(a, D)
       \/ \E b \in Nonces : CancelBatchTrade(a, b)

Execution ==
    \E a \in Addresses, value \in Values :
       \/ \E D \in Calls : ExecuteTrades(a, D, value)
       \/ \E b \in Nonces : ExecuteBatchTrade(a, b, value)

Owner ==
    /\ \/ \E s \in FeeSchedules : UpdateFeeRates(s)
       \/ \E cost \in Costs : SetLazyCostForTrade(cost)
       \/ \E burn \in Burns : SetLazyBurnPercentage(burn)
       \/ \E a \in Addresses : WithdrawPlatformFees(a)
       \/ \E a \in Addresses, amount \in Gifts : Receive(a, amount)
       \/ \E move \in TierMoves : TierChanges(move)
    /\ UNCHANGED <<assetVars, tradeVars, batchVars, lazy, tokens, tradeNonce,
                   authorityVars, now>>

Wallets ==
    /\ \/ \E n \in SerialApprovals, ok \in BOOLEAN : ApproveSerial(n, ok)
       \/ \E p \in OperatorApprovals, ok \in BOOLEAN : ApproveAll(p, ok)
       \/ \E n \in NFTs, to \in Addresses : TransferNFT(n, to)
    /\ UNCHANGED <<tradeVars, batchVars, moneyVars, paramVars, lazy, tokens, tradeNonce,
                   authorityVars, now>>

Trust ==
    /\ Authority
    /\ UNCHANGED <<assetVars, tradeVars, batchVars, moneyVars, paramVars, lazy, tokens,
                   tradeNonce>>

Next == Creation \/ Cancellation \/ Execution \/ Owner \/ Wallets \/ Trust \/ Tick

Spec == Init /\ [][Next]_vars
=============================================================================
