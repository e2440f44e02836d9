--------------------------- MODULE EnglishAuction ---------------------------
(***************************************************************************)
(* EnglishAuction.sol: escrowed bundle auctions on two payment rails, with *)
(* anti-snipe extension, buy-now collapse, permissionless settlement and   *)
(* pull claims for the bundle and for every refund.                        *)
(*                                                                         *)
(* One action is one transaction that does not revert.  Every entry point  *)
(* is nonReentrant, so a transaction is atomic; what interleaves is the    *)
(* order of the transactions of different accounts and of the owner, and   *)
(* the passing of time.                                                    *)
(***************************************************************************)
EXTENDS AuctionLedger, FiniteSets

CONSTANTS
    NoAccount,          \* address(0)
    EA,                 \* the auction contract's own address
    Tokens,             \* NFT collections
    NFTs,               \* serials, each of one collection
    TokenOf,            \* TokenOf[n]: the collection of serial n
    RoyaltyFees,        \* RoyaltyFees[t]: the royalty schedule HTS reports
    Bcfs,               \* factories that setBcf may name
    NoBcf,              \* address(0) as a factory
    StashOwnerOf,       \* StashOwnerOf[f][x]: x's human owner according to
                        \* factory f, x itself when x is not a stash of f
    LshTierOf,          \* LSHTierLib's answer for a human owner, 0..3
    TIMELOCK_WINDOW,
    Listings,           \* Listings[x]: the AuctionParams that x submits
    BidAmounts,         \* the amounts that bidders submit
    PauseChoices,       \* the values the owner passes to setPaused
    VipChoices,         \* whether setVipSubscription sets or clears
    FeeChoices,         \* the bps the owner passes to the two fee setters
    DefaultChoices,     \* arguments of setDefaults
    LimitChoices,       \* arguments of setDurationLimits
    WithdrawChoices,    \* amounts of withdrawProtocolFee
    DonationChoices,    \* amounts sent to receive()
    InitialNFTOwner,
    InitialLedger,
    InitialConfig,
    MaxFloat,           \* bound: the float and donations together
    MaxNonce,           \* bound: auctions per seller
    LastListing,        \* bound: last timestamp at which an auction is created
    MaxTime             \* bound: last timestamp explored

MAX_BPS == 10000
MAX_BUNDLE_ITEMS == 10
MAX_ROYALTY_ENTRIES == 12
MAX_PROTOCOL_FEE_BPS == 1000
MAX_BOUNTY_BPS == 500
CUSTODY_HOP_TINYBAR == 1

AuctionIds == Accounts \X (0..MaxNonce - 1)
Seller(id) == id[1]

\* What callers pass to createAuction; 0 in the last three fields asks for the
\* contract's default.
AuctionParams == [nfts : Seq(NFTs), lazy : Nat, payment : Rails, startPrice : Nat,
                  reservePrice : Nat, buyNowPrice : Nat, duration : Nat,
                  minStepBps : Nat, antiSnipeWindow : Nat, antiSnipeExtension : Nat]

\* The owner's tunable storage.
Config == [protocolFeeBps : 0..MAX_PROTOCOL_FEE_BPS,
           settlementBountyBps : 0..MAX_BOUNTY_BPS,
           minDuration : Nat \ {0}, maxDuration : Nat, maxExtensionWindow : Nat,
           defaultMinStepBps : 0..MAX_BPS, defaultAntiSnipeWindow : Nat,
           defaultAntiSnipeExtension : Nat]

ASSUME ContractAssumption ==
    /\ NoAccount \notin Accounts
    /\ EA \notin Accounts
    /\ NoBcf \notin Bcfs
    /\ TokenOf \in [NFTs -> Tokens]
    /\ \A f \in Bcfs : StashOwnerOf[f] \in [Accounts -> Accounts]
    /\ LshTierOf \in [Accounts -> 0..3]
    /\ InitialNFTOwner \in [NFTs -> Accounts]
    /\ InitialLedger \in Ledger
    /\ InitialConfig \in Config
    /\ RoyaltyFees \in
           [Tokens -> Seq([feeCollector : Accounts, numerator : Nat, denominator : Nat])]

\* The contract as the deploy script leaves it: nothing owed yet, and a float
\* of at least one tinybar for every serial that can be in escrow.
ASSUME DeployAssumption ==
    /\ IsFiniteSet(NFTs)
    /\ InitialLedger.held = InitialLedger.float
    /\ InitialLedger.float["HBAR"] >= Cardinality(NFTs)
    /\ \A r \in Rails :
           InitialLedger.accrued[r] = 0 /\ \A x \in Accounts : InitialLedger.claimable[r][x] = 0

ASSUME InputAssumption ==
    /\ \A x \in Accounts : \A p \in Listings[x] : p \in AuctionParams
    /\ BidAmounts \subseteq Nat
    /\ FeeChoices \subseteq Nat
    /\ WithdrawChoices \subseteq Nat
    /\ DonationChoices \subseteq Nat
    /\ \A d \in DefaultChoices :
           d.minStepBps \in Nat /\ d.antiSnipeWindow \in Nat /\ d.antiSnipeExtension \in Nat
    /\ \A l \in LimitChoices :
           l.minDuration \in Nat /\ l.maxDuration \in Nat /\ l.maxExtensionWindow \in Nat
    /\ PauseChoices \subseteq BOOLEAN
    /\ VipChoices \subseteq BOOLEAN
    /\ TIMELOCK_WINDOW \in Nat \ {0}
    /\ MaxNonce \in Nat

VARIABLES
    now,            \* block.timestamp
    paused,
    config,         \* fees, duration limits and defaults
    vipSubscription,    \* whether the VIP pointer is set
    bcf, pendingBcf, pendingBcfEta,
    sellerNonce,
    state,          \* auctions[id].state; "None" also stands for deleted
    terms,          \* the fields of auctions[id] fixed at creation
    closeAt, highBid, highBidder,
    nftOwner,       \* HTS: who holds each serial
    ledger

adminVars == <<paused, config, vipSubscription>>
bcfVars == <<bcf, pendingBcf, pendingBcfEta>>
recordVars == <<state, terms, closeAt, highBid, highBidder>>
custodyVars == <<sellerNonce, nftOwner>>
vars == <<now, paused, config, vipSubscription, bcf, pendingBcf,
          pendingBcfEta, sellerNonce, state, terms, closeAt, highBid,
          highBidder, nftOwner, ledger>>

-----------------------------------------------------------------------------
(* Helpers *)

Bps(amount, bps) == (amount * bps) \div MAX_BPS

\* _resolveBeneficialOwner: identity when no factory is wired.
ResolveBeneficialOwner(x) == IF bcf = NoBcf THEN x ELSE StashOwnerOf[bcf][x]

\* _resolveSellerTier of the resolved owner; the VIP pointer is not read.
SellerTier(seller) == LshTierOf[ResolveBeneficialOwner(seller)]

\* _snapshotRoyalty: one collection's schedule in basis points, capped at
\* MAX_BPS, entries with a zero fraction skipped.
RoyaltyEntries(t) ==
    LET fees == RoyaltyFees[t]
        upTo[k \in 0..Len(fees)] ==
            IF k = 0 THEN <<>>
            ELSE IF fees[k].numerator > 0 /\ fees[k].denominator > 0
                 THEN Append(upTo[k-1],
                             [collector |-> fees[k].feeCollector,
                              bps |-> LesserOf(MAX_BPS, (fees[k].numerator * MAX_BPS)
                                                            \div fees[k].denominator)])
                 ELSE upTo[k-1]
    IN  upTo[Len(fees)]

\* The royalty snapshot of a bundle: each collection once, in bundle order.
RoyaltySnapshot(nfts) ==
    LET upTo[k \in 0..Len(nfts)] ==
            IF k = 0 THEN <<>>
            ELSE IF \E j \in 1..k-1 : TokenOf[nfts[j]] = TokenOf[nfts[k]]
                 THEN upTo[k-1]
                 ELSE upTo[k-1] \o RoyaltyEntries(TokenOf[nfts[k]])
    IN  upTo[Len(nfts)]

\* The serials of a bundle.
Serials(nfts) == {nfts[k] : k \in 1..Len(nfts)}

\* _minimumNextBid
MinimumNextBid(id) ==
    IF highBid[id] = 0
    THEN terms[id].startPrice
    ELSE highBid[id] + GreaterOf(1, Bps(highBid[id], terms[id].minStepBps))

\* _computeProtocolFee: Platinum pays nothing, Gold a quarter, Silver half.
ProtocolFee(price, tier) ==
    CASE tier = 3 -> 0
      [] tier = 2 -> Bps(price, (config.protocolFeeBps * 25) \div 100)
      [] tier = 1 -> Bps(price, (config.protocolFeeBps * 50) \div 100)
      [] OTHER    -> Bps(price, config.protocolFeeBps)

\* Mutant of ExtendedCloseAt: an extension is not capped at maxCloseAt.
ExtendedCloseAtUncapped(id) ==
    IF closeAt[id] - now <= terms[id].antiSnipeWindow
    THEN GreaterOf(closeAt[id], now + terms[id].antiSnipeExtension)
    ELSE closeAt[id]

\* The anti-snipe rule: the close time after a bid accepted at time now.
ExtendedCloseAt(id) ==
    IF closeAt[id] - now <= terms[id].antiSnipeWindow
    THEN GreaterOf(closeAt[id],
                   LesserOf(now + terms[id].antiSnipeExtension, terms[id].maxCloseAt))
    ELSE closeAt[id]

\* The royalty loop of _settleInternal: each collector is paid its share of
\* the price, capped by what is left of the pool.
PayRoyalties(L, r, royalties, price, pool, refusing) ==
    LET after[k \in 0..Len(royalties)] ==
            IF k = 0 THEN [ledger |-> L, left |-> pool]
            ELSE LET before == after[k-1]
                     amount == LesserOf(Bps(price, royalties[k].bps), before.left)
                 IN  [ledger |-> PayOrQueue(before.ledger, r, royalties[k].collector,
                                            amount, refusing),
                      left   |-> before.left - amount]
    IN  after[Len(royalties)]

\* _settleInternal's payments for a sale at the given price: royalties, then
\* the fee, then the seller's remainder, then the settler's bounty.
PaySale(L, id, price, settler, refusing) ==
    LET r      == terms[id].payment
        fee    == ProtocolFee(price, terms[id].sellerTier)
        bounty == Bps(price, config.settlementBountyBps)
        paid   == PayRoyalties(L, r, terms[id].royalties, price,
                               price - fee - bounty, refusing)
    IN  QueueRefund(PayOrQueue(AccrueFee(paid.ledger, r, fee),
                               r, Seller(id), paid.left, refusing),
                    r, settler, bounty)

\* The bundle leaves for x: x funds one custody hop per NFT.
ReleasedLedger(L, id, x) ==
    PayOut(PayIn(L, "HBAR", x, CUSTODY_HOP_TINYBAR * Len(terms[id].nfts)),
           "LAZY", x, terms[id].lazy)

\* Mutant of CanRelease: the pause also stops bundles from leaving.
CanReleaseUnlessPaused(id, x) ==
    /\ ~paused
    /\ ledger.wallet["HBAR"][x] >= CUSTODY_HOP_TINYBAR * Len(terms[id].nfts)
    /\ ledger.held["LAZY"] >= terms[id].lazy

CanRelease(id, x) ==
    /\ ledger.wallet["HBAR"][x] >= CUSTODY_HOP_TINYBAR * Len(terms[id].nfts)
    /\ ledger.held["LAZY"] >= terms[id].lazy

NoTerms == [payment |-> "HBAR", reservePrice |-> 0, startPrice |-> 0,
            buyNowPrice |-> 0, minStepBps |-> 0, antiSnipeWindow |-> 0,
            antiSnipeExtension |-> 0, maxCloseAt |-> 0, sellerTier |-> 0,
            nfts |-> <<>>, lazy |-> 0, royalties |-> <<>>]

\* Mutant of DeleteRecord: the record stays.
DeleteRecordForgotten(id) == UNCHANGED recordVars

\* delete auctions[id]
DeleteRecord(id) ==
    /\ state' = [state EXCEPT ![id] = "None"]
    /\ terms' = [terms EXCEPT ![id] = NoTerms]
    /\ closeAt' = [closeAt EXCEPT ![id] = 0]
    /\ highBid' = [highBid EXCEPT ![id] = 0]
    /\ highBidder' = [highBidder EXCEPT ![id] = NoAccount]
-----------------------------------------------------------------------------
Init ==
    /\ now = 1
    /\ paused = FALSE
    /\ config = InitialConfig
    /\ vipSubscription = FALSE
    /\ bcf = NoBcf
    /\ pendingBcf = NoBcf
    /\ pendingBcfEta = 0
    /\ sellerNonce = [x \in Accounts |-> 0]
    /\ state = [id \in AuctionIds |-> "None"]
    /\ terms = [id \in AuctionIds |-> NoTerms]
    /\ closeAt = [id \in AuctionIds |-> 0]
    /\ highBid = [id \in AuctionIds |-> 0]
    /\ highBidder = [id \in AuctionIds |-> NoAccount]
    /\ nftOwner = InitialNFTOwner
    /\ ledger = InitialLedger

\* The checks of _createAuctionFor on its parameters.
ValidParams(p) ==
    /\ Len(p.nfts) + (IF p.lazy > 0 THEN 1 ELSE 0) \in 1..MAX_BUNDLE_ITEMS
    /\ p.startPrice > 0
    /\ p.reservePrice > 0 => p.reservePrice >= p.startPrice
    /\ p.buyNowPrice > 0 => p.buyNowPrice >= p.reservePrice
    /\ p.duration >= config.minDuration
    /\ p.duration <= config.maxDuration

\* createAuction.  Each NFT item is checked against its current owner and
\* moved in; the contract pays the seller one tinybar per serial.
CreateAuction(seller, p) ==
    LET id   == <<seller, sellerNonce[seller]>>
        hops == CUSTODY_HOP_TINYBAR * Len(p.nfts)
        close == now + p.duration
    IN
    /\ ~paused
    /\ sellerNonce[seller] < MaxNonce
    /\ now <= LastListing
    /\ ValidParams(p)
    /\ \A k \in 1..Len(p.nfts) :
           /\ nftOwner[p.nfts[k]] = seller
           /\ \A j \in 1..k-1 : p.nfts[j] # p.nfts[k]
    /\ Len(RoyaltySnapshot(p.nfts)) <= MAX_ROYALTY_ENTRIES
    /\ ledger.held["HBAR"] >= hops
    /\ ledger.wallet["LAZY"][seller] >= p.lazy
    /\ sellerNonce' = [sellerNonce EXCEPT ![seller] = @ + 1]
    /\ state' = [state EXCEPT ![id] = "Open"]
    /\ terms' = [terms EXCEPT ![id] =
           [payment      |-> p.payment,
            reservePrice |-> p.reservePrice,
            startPrice   |-> p.startPrice,
            buyNowPrice  |-> p.buyNowPrice,
            minStepBps   |-> IF p.minStepBps = 0
                             THEN config.defaultMinStepBps ELSE p.minStepBps,
            antiSnipeWindow |-> IF p.antiSnipeWindow = 0
                             THEN config.defaultAntiSnipeWindow ELSE p.antiSnipeWindow,
            antiSnipeExtension |-> IF p.antiSnipeExtension = 0
                             THEN config.defaultAntiSnipeExtension
                             ELSE p.antiSnipeExtension,
            maxCloseAt   |-> close + config.maxExtensionWindow,
            sellerTier   |-> SellerTier(seller),
            nfts         |-> p.nfts,
            lazy         |-> p.lazy,
            royalties    |-> RoyaltySnapshot(p.nfts)]]
    /\ closeAt' = [closeAt EXCEPT ![id] = close]
    /\ nftOwner' = [n \in NFTs |-> IF n \in Serials(p.nfts) THEN EA ELSE nftOwner[n]]
    /\ ledger' = PayIn(PayOut(ledger, "HBAR", seller, hops), "LAZY", seller, p.lazy)
    /\ UNCHANGED <<now, adminVars, bcfVars, highBid, highBidder>>

\* Mutant of CanCancel: a bid no longer binds the seller.
CanCancelWithBids(caller, id) ==
    /\ state[id] = "Open"
    /\ ResolveBeneficialOwner(caller) = ResolveBeneficialOwner(Seller(id))

\* The checks of cancelAuction: only before the first bid, by whoever shares
\* the seller's beneficial owner.
CanCancel(caller, id) ==
    /\ state[id] = "Open"
    /\ ResolveBeneficialOwner(caller) = ResolveBeneficialOwner(Seller(id))
    /\ highBidder[id] = NoAccount

\* cancelAuction: the bundle returns to the seller in the same call.
CancelAuction(caller, id) ==
    /\ CanCancel(caller, id)
    /\ CanRelease(id, Seller(id))
    /\ DeleteRecord(id)
    /\ nftOwner' = [n \in NFTs |->
           IF n \in Serials(terms[id].nfts) THEN Seller(id) ELSE nftOwner[n]]
    /\ ledger' = ReleasedLedger(ledger, id, Seller(id))
    /\ UNCHANGED <<now, adminVars, bcfVars, sellerNonce>>

\* _settleInternal's success condition.
MeetsReserve(id, winner, price) ==
    winner # NoAccount /\ price >= terms[id].reservePrice

\* Mutant of ReturnStandingBid: a failed auction's bid goes to the seller.
ReturnBidToSeller(L, id, winner, price) ==
    IF winner = NoAccount THEN L
    ELSE QueueRefund(L, terms[id].payment, Seller(id), price)

\* A failed auction returns its standing bid.
ReturnStandingBid(L, id, winner, price) ==
    IF winner = NoAccount THEN L
    ELSE QueueRefund(L, terms[id].payment, winner, price)

\* _settleInternal on a record whose high bid and bidder are given: proceeds
\* go out at once, the bundle stays until its recorded claimant collects it.
Finalise(L, id, winner, price, settler, refusing) ==
    LET sold == MeetsReserve(id, winner, price)
    IN
    /\ state' = [state EXCEPT ![id] = "Settled"]
    /\ highBid' = [highBid EXCEPT ![id] = price]
    /\ highBidder' = [highBidder EXCEPT ![id] = IF sold THEN winner ELSE Seller(id)]
    /\ ledger' = IF sold THEN PaySale(L, id, price, settler, refusing)
                 ELSE ReturnStandingBid(L, id, winner, price)
    /\ UNCHANGED <<terms, closeAt, nftOwner>>

\* The checks of _placeBid, in their order.
AcceptsBid(bidder, id, amount) ==
    /\ state[id] = "Open"
    /\ now < closeAt[id]
    /\ ResolveBeneficialOwner(bidder) # ResolveBeneficialOwner(Seller(id))
    /\ amount >= MinimumNextBid(id)
    /\ ledger.wallet[terms[id].payment][bidder] >= amount

\* Mutant of BidLedger: the excess over the buy-now price is kept.
BidLedgerKeepingExcess(bidder, id, amount, effective) ==
    LET r == terms[id].payment
        paid == PayIn(ledger, r, bidder, amount)
    IN  IF highBidder[id] = NoAccount
        THEN paid
        ELSE QueueRefund(paid, r, highBidder[id], highBid[id])

\* What _placeBid does to the money before any settlement: the amount comes
\* in, an excess over the buy-now price is queued, the outbid is queued.
BidLedger(bidder, id, amount, effective) ==
    LET r == terms[id].payment
        excess == QueueRefund(PayIn(ledger, r, bidder, amount), r, bidder,
                              amount - effective)
    IN  IF highBidder[id] = NoAccount
        THEN excess
        ELSE QueueRefund(excess, r, highBidder[id], highBid[id])

\* Mutant of TriggersBuyNow: a bid of exactly the buy-now price only stands.
TriggersAboveBuyNow(id, amount) ==
    terms[id].buyNowPrice > 0 /\ amount > terms[id].buyNowPrice

TriggersBuyNow(id, amount) ==
    terms[id].buyNowPrice > 0 /\ amount >= terms[id].buyNowPrice

\* placeBid.  At or above a configured buy-now price the bid collapses to it
\* and settles the auction in the same call, the bidder as settler.
PlaceBid(bidder, id, amount) ==
    /\ ~paused
    /\ AcceptsBid(bidder, id, amount)
    /\ \/ /\ ~TriggersBuyNow(id, amount)
          /\ ledger' = BidLedger(bidder, id, amount, amount)
          /\ highBid' = [highBid EXCEPT ![id] = amount]
          /\ highBidder' = [highBidder EXCEPT ![id] = bidder]
          /\ closeAt' = [closeAt EXCEPT ![id] = ExtendedCloseAt(id)]
          /\ UNCHANGED <<state, terms, nftOwner>>
       \/ /\ TriggersBuyNow(id, amount)
          /\ \E refusing \in SUBSET MayRefuse[terms[id].payment] :
                 Finalise(BidLedger(bidder, id, amount, terms[id].buyNowPrice), id,
                          bidder, terms[id].buyNowPrice, bidder, refusing)
    /\ UNCHANGED <<now, adminVars, bcfVars, sellerNonce>>

\* buyNow: _placeBid with exactly the buy-now price.
BuyNow(bidder, id) ==
    /\ terms[id].buyNowPrice # 0
    /\ PlaceBid(bidder, id, terms[id].buyNowPrice)

\* Mutant of Due: the pause also stops settlements.
DueUnlessPaused(id) == ~paused /\ state[id] = "Open" /\ now >= closeAt[id]

Due(id) == state[id] = "Open" /\ now >= closeAt[id]

\* settle: anyone, once the close time has come.
Settle(settler, id) ==
    /\ Due(id)
    /\ \E refusing \in SUBSET MayRefuse[terms[id].payment] :
           Finalise(ledger, id, highBidder[id], highBid[id], settler, refusing)
    /\ UNCHANGED <<now, adminVars, bcfVars, sellerNonce>>

\* claimAuctionNFT: anyone may call it, the bundle goes to the recorded
\* claimant.  A claimant that is not associated or has granted no hop
\* allowance makes the call revert, which is the action not happening.
ClaimAuctionNFT(id) ==
    LET claimant == highBidder[id]
    IN
    /\ state[id] = "Settled"
    /\ CanRelease(id, claimant)
    /\ DeleteRecord(id)
    /\ nftOwner' = [n \in NFTs |->
           IF n \in Serials(terms[id].nfts) THEN claimant ELSE nftOwner[n]]
    /\ ledger' = ReleasedLedger(ledger, id, claimant)
    /\ UNCHANGED <<now, adminVars, bcfVars, sellerNonce>>

\* claim: a failed push restores the entry and reverts.
Claim(x, r) ==
    /\ ledger.claimable[r][x] > 0
    /\ ledger.held[r] >= ledger.claimable[r][x]
    /\ ledger' = PullClaim(ledger, r, x)
    /\ UNCHANGED <<now, adminVars, bcfVars, recordVars, custodyVars>>
-----------------------------------------------------------------------------
(* The owner's entry points, and donations *)

SetPaused(value) ==
    /\ paused # value
    /\ paused' = value
    /\ UNCHANGED <<now, config, vipSubscription, bcfVars, recordVars, custodyVars, ledger>>

SetVipSubscription(value) ==
    /\ vipSubscription # value
    /\ vipSubscription' = value
    /\ UNCHANGED <<now, paused, config, bcfVars, recordVars, custodyVars, ledger>>

\* Mutant of SetProtocolFeeBps: the 10 % cap is missing.
SetProtocolFeeBpsUncapped(bps) ==
    /\ config' = [config EXCEPT !.protocolFeeBps = bps]
    /\ UNCHANGED <<now, paused, vipSubscription, bcfVars, recordVars, custodyVars, ledger>>

SetProtocolFeeBps(bps) ==
    /\ bps <= MAX_PROTOCOL_FEE_BPS
    /\ config' = [config EXCEPT !.protocolFeeBps = bps]
    /\ UNCHANGED <<now, paused, vipSubscription, bcfVars, recordVars, custodyVars, ledger>>

SetSettlementBountyBps(bps) ==
    /\ bps <= MAX_BOUNTY_BPS
    /\ config' = [config EXCEPT !.settlementBountyBps = bps]
    /\ UNCHANGED <<now, paused, vipSubscription, bcfVars, recordVars, custodyVars, ledger>>

SetDefaults(d) ==
    /\ d.minStepBps <= MAX_BPS
    /\ config' = [config EXCEPT !.defaultMinStepBps = d.minStepBps,
                                !.defaultAntiSnipeWindow = d.antiSnipeWindow,
                                !.defaultAntiSnipeExtension = d.antiSnipeExtension]
    /\ UNCHANGED <<now, paused, vipSubscription, bcfVars, recordVars, custodyVars, ledger>>

SetDurationLimits(l) ==
    /\ l.minDuration # 0
    /\ l.maxDuration >= l.minDuration
    /\ config' = [config EXCEPT !.minDuration = l.minDuration,
                                !.maxDuration = l.maxDuration,
                                !.maxExtensionWindow = l.maxExtensionWindow]
    /\ UNCHANGED <<now, paused, vipSubscription, bcfVars, recordVars, custodyVars, ledger>>

\* Mutant of WithdrawProtocolFee: bounded only by the balance.
WithdrawFromBalance(to, r, amount) ==
    /\ amount > 0
    /\ amount <= ledger.held[r]
    /\ ledger' = [PayOut(ledger, r, to, amount) EXCEPT !.accrued[r] = @ - amount]
    /\ UNCHANGED <<now, adminVars, bcfVars, recordVars, custodyVars>>

\* withdrawProtocolFee: bounded by what settlements accrued, debited first.
WithdrawProtocolFee(to, r, amount) ==
    /\ amount > 0
    /\ amount <= ledger.accrued[r]
    /\ amount <= ledger.held[r]
    /\ ledger' = [PayOut(ledger, r, to, amount) EXCEPT !.accrued[r] = @ - amount]
    /\ UNCHANGED <<now, adminVars, bcfVars, recordVars, custodyVars>>

\* receive(): anyone may send HBAR.
Donate(x, amount) ==
    /\ ledger.wallet["HBAR"][x] >= amount
    /\ ledger.float["HBAR"] + amount <= MaxFloat
    /\ ledger' = [PayIn(ledger, "HBAR", x, amount) EXCEPT !.float["HBAR"] = @ + amount]
    /\ UNCHANGED <<now, adminVars, bcfVars, recordVars, custodyVars>>

\* setBcf: at once while none is wired, otherwise announced.
SetBcf(f) ==
    /\ IF bcf = NoBcf
       THEN bcf' = f /\ UNCHANGED <<pendingBcf, pendingBcfEta>>
       ELSE /\ pendingBcf' = f
            /\ pendingBcfEta' = now + TIMELOCK_WINDOW
            /\ UNCHANGED bcf
    /\ UNCHANGED <<now, adminVars, recordVars, custodyVars, ledger>>

\* executeBcfChange: permissionless once the announcement is 48 hours old.
ExecuteBcfChange ==
    /\ pendingBcfEta # 0
    /\ now >= pendingBcfEta
    /\ bcf' = pendingBcf
    /\ pendingBcf' = NoBcf
    /\ pendingBcfEta' = 0
    /\ UNCHANGED <<now, adminVars, recordVars, custodyVars, ledger>>

CancelBcfChange ==
    /\ pendingBcfEta # 0
    /\ pendingBcf' = NoBcf
    /\ pendingBcfEta' = 0
    /\ UNCHANGED <<now, bcf, adminVars, recordVars, custodyVars, ledger>>

Tick ==
    /\ now < MaxTime
    /\ now' = now + 1
    /\ UNCHANGED <<adminVars, bcfVars, recordVars, custodyVars, ledger>>
-----------------------------------------------------------------------------
Lifecycle ==
    \/ \E x \in Accounts : \E p \in Listings[x] : CreateAuction(x, p)
    \/ \E x \in Accounts, id \in AuctionIds : CancelAuction(x, id)
    \/ \E x \in Accounts, id \in AuctionIds, amount \in BidAmounts : PlaceBid(x, id, amount)
    \/ \E x \in Accounts, id \in AuctionIds : BuyNow(x, id)
    \/ \E x \in Accounts, id \in AuctionIds : Settle(x, id)
    \/ \E id \in AuctionIds : ClaimAuctionNFT(id)

Money ==
    \/ \E x \in Accounts, r \in Rails : Claim(x, r)
    \/ \E x \in Accounts, r \in Rails, amount \in WithdrawChoices :
           WithdrawProtocolFee(x, r, amount)
    \/ \E x \in Accounts, amount \in DonationChoices : Donate(x, amount)

Owner ==
    \/ \E v \in PauseChoices : SetPaused(v)
    \/ \E v \in VipChoices : SetVipSubscription(v)
    \/ \E bps \in FeeChoices : SetProtocolFeeBps(bps)
    \/ \E bps \in FeeChoices : SetSettlementBountyBps(bps)
    \/ \E d \in DefaultChoices : SetDefaults(d)
    \/ \E l \in LimitChoices : SetDurationLimits(l)
    \/ \E f \in Bcfs \union {NoBcf} : SetBcf(f)
    \/ ExecuteBcfChange
    \/ CancelBcfChange

Next == Lifecycle \/ Money \/ Owner \/ Tick

Spec == Init /\ [][Next]_vars
=============================================================================
