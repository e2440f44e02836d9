------------------------ MODULE SecureTradeProperties ------------------------
(***************************************************************************)
(* What LazySecureTrade.sol is expected to guarantee, stated over the      *)
(* states and steps of SecureTrade.                                        *)
(***************************************************************************)
EXTENDS SecureTrade

Trade == [seller : Addresses \union {NoOne}, buyer : Addresses \union {NoOne},
          tinybarPrice : Nat, lazyPrice : Nat, expiryTime : Nat, nonce : Nat]

Batch == [seller : Addresses \union {NoOne}, buyer : Addresses \union {NoOne},
          items : SUBSET NFTs, tinybarPrice : [NFTs -> Nat],
          lazyPrice : [NFTs -> Nat], expiryTime : Nat]

Receipt == [nft : NFTs, nonce : Nat, seller : Addresses, buyer : Addresses,
            tinybar : Nat, net : Nat, private : BOOLEAN]

\* Every variable has its type: no balance is negative, and the fee rates
\* stay within the limits of updateFeeRates.
TradeTypeOK ==
    /\ ownerOf \in [NFTs -> Addresses]
    /\ serialApproved \subseteq NFTs
    /\ operatorApproved \subseteq Addresses \X Tokens
    /\ hbar \in [Addresses -> Nat]
    /\ lazy \in [Addresses -> Nat]
    /\ tier \in [Addresses -> 0..3]
    /\ trades \in [NFTs -> Trade]
    /\ userTrades \in [Addresses -> SUBSET NFTs]
    /\ tokenTrades \in [Tokens -> SUBSET NFTs]
    /\ batches \in [Nonces -> Batch]
    /\ userBatches \in [Addresses \union {NoOne} -> SUBSET Nonces]
    /\ itemToBatch \in [NFTs -> Nonces \union {0}]
    /\ tokens \subseteq Tokens
    /\ tradeNonce \in 0..MaxNonce
    /\ vault \in Nat
    /\ totalHbarFeesCollected \in Nat
    /\ lifetimeHbarVolume \in Nat
    /\ lifetimeLazyVolume \in Nat
    /\ feeRates \in Schedules
    /\ feeRates.base <= 500
    /\ \A k \in 1..3 : feeRates.discount[k] <= 100
    /\ lazyCostForTrade \in Nat
    /\ lazyBurnPercentage \in Nat
    /\ receipts \subseteq Receipt
    /\ topUps \in Nat
    /\ withdrawn \in Nat

LiveTrade(n) == trades[n].seller # NoOne
LiveBatch(b) == batches[b].seller # NoOne

\* The indexes that getUserTrades and getTradesForToken read list exactly the
\* live listings: each under its seller, and under its buyer or, on the open
\* market, under its token; through re-listing, cancelling in three ways and
\* executing.
TradeIndexesAgree ==
    /\ \A a \in Addresses :
          userTrades[a] = {n \in NFTs : LiveTrade(n) /\ a \in {trades[n].seller, trades[n].buyer}}
    /\ \A t \in Tokens : tokenTrades[t] = {n \in NFTs : OpenTrade(n) /\ TokenOf[n] = t}

\* getUserBatchTrades lists exactly the live batches of a seller or buyer, and
\* itemToBatch never points at a batch that is gone or does not hold the item.
BatchIndexesAgree ==
    /\ \A a \in Addresses \union {NoOne} :
          userBatches[a] = {b \in Nonces : LiveBatch(b) /\ a \in {batches[b].seller, batches[b].buyer}}
    /\ \A n \in NFTs : itemToBatch[n] # 0 => n \in batches[itemToBatch[n]].items

\* A listing is executed at most once, and nothing later carries its nonce:
\* live listings have nonces of their own, already given out, and none that a
\* receipt bears.
ListingsAreSpent ==
    /\ \A n \in NFTs : LiveTrade(n) =>
          /\ trades[n].nonce \in 1..tradeNonce
          /\ ~LiveBatch(trades[n].nonce)
          /\ \A m \in NFTs \ {n} : trades[m].nonce # trades[n].nonce
    /\ \A b \in Nonces : LiveBatch(b) => b <= tradeNonce
    /\ \A r \in receipts :
          /\ r.nonce \in 1..tradeNonce
          /\ ~LiveBatch(r.nonce)
          /\ \A n \in NFTs : trades[n].nonce # r.nonce

\* What makes the three inductive: the types of the fields involved, and a
\* listing that is gone has left nothing behind.
ListingInv ==
    /\ trades \in [NFTs -> Trade]
    /\ userTrades \in [Addresses -> SUBSET NFTs]
    /\ tokenTrades \in [Tokens -> SUBSET NFTs]
    /\ batches \in [Nonces -> Batch]
    /\ userBatches \in [Addresses \union {NoOne} -> SUBSET Nonces]
    /\ itemToBatch \in [NFTs -> Nonces \union {0}]
    /\ tradeNonce \in 0..MaxNonce
    /\ \A n \in NFTs : ~LiveTrade(n) => trades[n] = NoTrade
    /\ \A b \in Nonces : ~LiveBatch(b) => batches[b] = NoBatch
    /\ TradeIndexesAgree
    /\ BatchIndexesAgree
    /\ ListingsAreSpent

\* Sellers are paid by buyers, never from the contract's own HBAR: what the
\* contract holds, with what the owner has withdrawn, covers every fee ever
\* collected on top of what it was given (audit finding A, which let an
\* executeTrades without value spend the contract's HBAR).
FeesAreBacked == vault + withdrawn >= topUps + totalHbarFeesCollected

\* A private sale, and a sale of the house's own collections, pays the seller
\* the whole price; any other sale leaves him at least 95 % of it.
SellersKeepTheirShare ==
    \A r \in receipts :
       /\ r.private \/ TokenOf[r.nft] \in ExemptTokens => r.net >= r.tinybar
       /\ (r.tinybar - r.net) * MAX_BPS <= r.tinybar * 500

\* What is sold is what was listed: the NFT goes, from its owner, to a buyer
\* whom a live and unexpired listing admits, at that listing's price; however
\* long the listing has lain, and whichever way the NFT has travelled since.
SoldAsListed ==
    [][\A r \in receipts' \ receipts :
          /\ ownerOf[r.nft] = r.seller /\ ownerOf'[r.nft] = r.buyer
          /\ \/ /\ trades[r.nft].nonce = r.nonce
                /\ trades[r.nft].seller = r.seller
                /\ trades[r.nft].buyer \in {NoOne, r.buyer}
                /\ trades[r.nft].expiryTime = 0 \/ now <= trades[r.nft].expiryTime
                /\ r.tinybar = trades[r.nft].tinybarPrice
             \/ /\ batches[r.nonce].seller = r.seller
                /\ r.nft \in batches[r.nonce].items
                /\ batches[r.nonce].buyer \in {NoOne, r.buyer}
                /\ batches[r.nonce].expiryTime = 0 \/ now <= batches[r.nonce].expiryTime
                /\ r.tinybar = batches[r.nonce].tinybarPrice[r.nft]]_vars

\* "Buyers only (sellers cannot execute their own trades)" (SECURITY.md:178).
\* executeBatchTrade has no such check, and the seller executes his own batch.
SellersDoNotBuy == \A r \in receipts : r.seller # r.buyer
=============================================================================
