-------------------------- MODULE MCEnglishAuction --------------------------
(***************************************************************************)
(* Finite instances of EnglishAuction for TLC.  alice lists an NFT for     *)
(* HBAR, bob lists an NFT with some $LAZY for $LAZY; carol bids and is the *)
(* royalty collector.  vault is alice's stash.                             *)
(***************************************************************************)
EXTENDS EnglishAuctionProperties

CONSTANTS alice, bob, carol, vault, n1, n2, painting, sculpture, factory, factory2

MCAccountSeq == <<alice, bob, carol>>
MCStashSeq == <<alice, bob, vault>>
MCMayRefuse == [r \in Rails |-> IF r = "HBAR" THEN {carol} ELSE {}]
MCRefuseNone == [r \in Rails |-> {}]

MCTokens == {painting, sculpture}
MCNFTs == {n1, n2}
MCTokenOf == [n \in MCNFTs |-> IF n = n1 THEN painting ELSE sculpture]

\* painting: 5 %; sculpture: 60 % and 120 %, more than any sale can pay.
MCRoyaltyFees ==
    [t \in MCTokens |->
        IF t = painting
        THEN <<[feeCollector |-> carol, numerator |-> 1, denominator |-> 20]>>
        ELSE <<[feeCollector |-> carol, numerator |-> 3, denominator |-> 5],
               [feeCollector |-> carol, numerator |-> 0, denominator |-> 1],
               [feeCollector |-> alice, numerator |-> 6, denominator |-> 5]>>]
MCStashRoyaltyFees ==
    [t \in MCTokens |-> <<[feeCollector |-> bob, numerator |-> 1, denominator |-> 20]>>]

MCStashNFTOwner == [n \in MCNFTs |-> IF n = n1 THEN vault ELSE bob]
MCNFTOwner == [n \in MCNFTs |-> IF n = n1 THEN alice ELSE bob]

MCIdentity == [f \in {factory, factory2} |-> [x \in Accounts |-> x]]
\* factory knows vault as alice's stash; factory2 is a replacement that has
\* not (yet) been given the old stashes.
MCStashes ==
    [f \in {factory, factory2} |->
        [x \in Accounts |-> IF f = factory /\ x = vault THEN alice ELSE x]]
MCLshTier == [x \in Accounts |-> IF x = bob THEN 2 ELSE 0]

\* A reserve above the start price, a buy-now, and an anti-snipe rule that
\* can extend the auction until its cap.
ListPainting ==
    [nfts |-> <<n1>>, lazy |-> 0, payment |-> "HBAR", startPrice |-> 1000,
     reservePrice |-> 2000, buyNowPrice |-> 3000, duration |-> 1,
     minStepBps |-> 1000, antiSnipeWindow |-> 1, antiSnipeExtension |-> 2]

\* No reserve and a buy-now below the start price, with the seller's $LAZY
\* in the bundle, so that escrow and bids share a balance; the step and the
\* anti-snipe fields are left to the defaults.
ListSculpture ==
    [nfts |-> <<n2>>, lazy |-> 500, payment |-> "LAZY", startPrice |-> 2000,
     reservePrice |-> 0, buyNowPrice |-> 1500, duration |-> 1,
     minStepBps |-> 0, antiSnipeWindow |-> 0, antiSnipeExtension |-> 0]

\* One serial without reserve or buy-now: its buyer may list it again.
ListRelisted ==
    [ListPainting EXCEPT !.reservePrice = 0, !.buyNowPrice = 0, !.antiSnipeWindow = 0]

MCListings == [x \in Accounts |->
    IF x = alice THEN {ListPainting} ELSE IF x = bob THEN {ListSculpture} ELSE {}]
MCPaintings == [x \in Accounts |-> IF x = alice THEN {ListPainting} ELSE {}]
\* The stash lists the painting, and bob lists it again if he buys it.
MCRelist == [x \in Accounts |->
    IF x = vault THEN {ListPainting} ELSE IF x = bob THEN {ListRelisted} ELSE {}]

MCConfig ==
    [protocolFeeBps |-> 100, settlementBountyBps |-> 10, minDuration |-> 1,
     maxDuration |-> 2, maxExtensionWindow |-> 2, defaultMinStepBps |-> 200,
     defaultAntiSnipeWindow |-> 1, defaultAntiSnipeExtension |-> 1]

\* A one-tinybar float per serial, as the deploy script provides (10 HBAR).
MCLedger ==
    [held      |-> [r \in Rails |-> IF r = "HBAR" THEN 2 ELSE 0],
     wallet    |-> [r \in Rails |-> [x \in Accounts |-> 4000]],
     claimable |-> [r \in Rails |-> [x \in Accounts |-> 0]],
     accrued   |-> [r \in Rails |-> 0],
     float     |-> [r \in Rails |-> IF r = "HBAR" THEN 2 ELSE 0]]

MCDefaults == {[minStepBps |-> 10000, antiSnipeWindow |-> 0, antiSnipeExtension |-> 0]}
MCLimits == {[minDuration |-> 1, maxDuration |-> 1, maxExtensionWindow |-> 0]}
=============================================================================
