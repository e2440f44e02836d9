---------------------- MODULE EnglishAuctionProperties ----------------------
(***************************************************************************)
(* What EnglishAuction.sol has to keep true: its escrow, its lifecycle and *)
(* its money.                                                              *)
(***************************************************************************)
EXTENDS EnglishAuction

States == {"None", "Open", "Settled"}

Royalties == Seq([collector : Accounts, bps : 0..MAX_BPS])

Terms == [payment : Rails, reservePrice : Nat, startPrice : Nat,
          buyNowPrice : Nat, minStepBps : Nat, antiSnipeWindow : Nat,
          antiSnipeExtension : Nat, maxCloseAt : Nat, sellerTier : 0..3,
          nfts : Seq(NFTs), lazy : Nat, royalties : Royalties]

\* The type invariant of the contract's storage and of the ledger.
TypeOK ==
    /\ now \in Nat \ {0}
    /\ paused \in BOOLEAN
    /\ config \in Config
    /\ vipSubscription \in BOOLEAN
    /\ bcf \in Bcfs \union {NoBcf}
    /\ pendingBcf \in Bcfs \union {NoBcf}
    /\ pendingBcfEta \in Nat
    /\ sellerNonce \in [Accounts -> 0..MaxNonce]
    /\ state \in [AuctionIds -> States]
    /\ terms \in [AuctionIds -> Terms]
    /\ closeAt \in [AuctionIds -> Nat]
    /\ highBid \in [AuctionIds -> Nat]
    /\ highBidder \in [AuctionIds -> Accounts \union {NoAccount}]
    /\ nftOwner \in [NFTs -> Accounts \union {EA}]
    /\ ledger \in Ledger
-----------------------------------------------------------------------------
(* Custody and lifecycle *)

Live(id) == state[id] # "None"

\* A serial is in the contract's hands exactly while one live auction lists
\* it, and no two live auctions ever list the same serial: what
\* _persistItemsAndEscrow takes in, exactly one _releaseBundle gives back.
Custody ==
    /\ \A n \in NFTs :
           nftOwner[n] = EA <=> \E id \in AuctionIds : Live(id) /\ n \in Serials(terms[id].nfts)
    /\ \A i, j \in AuctionIds :
           Live(i) /\ Live(j) /\ i # j =>
               Serials(terms[i].nfts) \cap Serials(terms[j].nfts) = {}

\* The standing bid of an open auction: there is a bidder exactly when there
\* is a bid, the bidder is not the seller, the bid is at least the start
\* price and below the buy-now price (a bid that reached it has settled the
\* auction), and the close time has not moved past the extension cap.
StandingBid ==
    \A id \in AuctionIds : state[id] = "Open" =>
        /\ highBid[id] = 0 <=> highBidder[id] = NoAccount
        /\ highBidder[id] # Seller(id)
        /\ highBid[id] > 0 => highBid[id] >= terms[id].startPrice
        /\ terms[id].buyNowPrice > 0 => highBid[id] < terms[id].buyNowPrice
        /\ closeAt[id] <= terms[id].maxCloseAt

\* The recorded claimant of a settled auction is a real account, and it is
\* someone other than the seller only if the reserve was met: a bidder below
\* the reserve can never collect the bundle.
Claimant ==
    \A id \in AuctionIds : state[id] = "Settled" =>
        /\ highBidder[id] # NoAccount
        /\ highBidder[id] # Seller(id) =>
               highBid[id] > 0 /\ highBid[id] >= terms[id].reservePrice

\* What Custody, StandingBid and Claimant rest on.  A record exists only for
\* a nonce already spent, so createAuction never meets a live record under the
\* id it makes; the record of a deleted auction is blank, so no bidder or item
\* of an old auction is found in a new one; an open auction has a start price.
Records ==
    \A id \in AuctionIds :
        /\ Live(id) => id[2] < sellerNonce[Seller(id)] /\ terms[id].startPrice > 0
        /\ ~Live(id) => terms[id] = NoTerms /\ highBid[id] = 0 /\ highBidder[id] = NoAccount

\* The part of TypeOK that the lifecycle needs: what the fields of a record
\* other than the royalty snapshot can hold.
TermsOK(t) ==
    /\ t.nfts \in Seq(NFTs)
    /\ {t.reservePrice, t.startPrice, t.buyNowPrice, t.maxCloseAt,
        t.minStepBps, t.antiSnipeWindow, t.antiSnipeExtension} \subseteq Nat

RecordTypeOK ==
    /\ now \in Nat
    /\ config \in Config
    /\ sellerNonce \in [Accounts -> Nat]
    /\ state \in [AuctionIds -> States]
    /\ terms = [id \in AuctionIds |-> terms[id]]
    /\ \A id \in AuctionIds : TermsOK(terms[id])
    /\ closeAt \in [AuctionIds -> Nat]
    /\ highBid \in [AuctionIds -> Nat]
    /\ highBidder \in [AuctionIds -> Accounts \union {NoAccount}]
    /\ nftOwner \in [NFTs -> Accounts \union {EA}]

\* The inductive invariant of the lifecycle: every conjunct is preserved by
\* every transaction because of the others (EnglishAuctionProofs).
IInv == RecordTypeOK /\ Records /\ Custody /\ StandingBid /\ Claimant

\* While an auction stays open its close time never moves back and never past
\* the cap fixed at creation; the high bid only rises, by at least the step,
\* and neither bid nor bidder nor close time can change at or after the close
\* time (placeBid's checks against anti-snipe, buy-now and late bids).
BiddingRatchet ==
    [][\A id \in AuctionIds : state[id] = "Open" /\ state'[id] = "Open" =>
          /\ closeAt'[id] \in closeAt[id]..terms[id].maxCloseAt
          /\ highBid'[id] # highBid[id] =>
                /\ highBid'[id] >= MinimumNextBid(id)
                /\ now < closeAt[id]
          /\ now >= closeAt[id] =>
                UNCHANGED <<closeAt[id], highBid[id], highBidder[id]>>]_vars

\* A serial leaves the contract only for the seller of its auction while that
\* auction has no sale (cancelled, failed), or for the winner recorded at a
\* settlement that met the reserve; never for an outbid account.
SerialsGoToTheClaimant ==
    [][\A n \in NFTs : nftOwner[n] = EA /\ nftOwner'[n] # EA =>
          \E id \in AuctionIds :
              /\ n \in Serials(terms[id].nfts)
              /\ state'[id] = "None"
              /\ \/ /\ state[id] = "Open"
                    /\ highBidder[id] = NoAccount
                    /\ nftOwner'[n] = Seller(id)
                 \/ /\ state[id] = "Settled"
                    /\ nftOwner'[n] = highBidder[id]]_vars
-----------------------------------------------------------------------------
(* Money *)

\* The sum of f over all auction ids.
OverIds(f) ==
    SumOver([x \in Accounts |-> SumSeq([n \in 1..MaxNonce |-> f[<<x, n-1>>]])],
            AccountSeq)

\* What auction id makes the contract owe on rail r: the standing bid of an
\* open auction, and the escrowed fungibles; the hop tinybars lent to the
\* seller, which come back with the serials, count against it.
StandingOn(id, r) ==
    IF state[id] = "Open" /\ terms[id].payment = r THEN highBid[id] ELSE 0

Hops(id) == CUSTODY_HOP_TINYBAR * Len(terms[id].nfts)

EscrowOn(id, r) ==
    IF Live(id) THEN IF r = "LAZY" THEN terms[id].lazy ELSE -Hops(id) ELSE 0

\* What is owed on a rail besides escrow: both queues, the fees kept for the
\* owner, and the standing bids.
Owed(r) ==
    Queued(ledger, r) + ledger.accrued[r] + OverIds([id \in AuctionIds |-> StandingOn(id, r)])

\* Every unit the contract holds is accounted for, on both rails: the float,
\* what is owed and the escrow.  So no bid, refund, royalty, bounty or fee is
\* ever lost or counted twice, whatever pushes fail, and the owner's
\* withdrawals stay inside the accrued fees.  And with a deploy-time float of
\* one tinybar per serial that can be in escrow the balance covers all that is
\* owed, hops lent out or not: a claim is never short of funds.
Solvent ==
    \A r \in Rails :
        /\ ledger.held[r] = ledger.float[r] + Owed(r)
                               + OverIds([id \in AuctionIds |-> EscrowOn(id, r)])
        /\ ledger.held[r] >= Owed(r)
                               + OverIds([id \in AuctionIds |-> GreaterOf(0, EscrowOn(id, r))])

\* What Solvent rests on besides IInv: the books balance; no bundle lists a
\* serial twice, so one hop is lent for every serial in custody; and the float
\* has a tinybar for each serial there is.
DistinctItems ==
    \A id \in AuctionIds : Live(id) =>
        \A j, k \in 1..Len(terms[id].nfts) : terms[id].nfts[j] = terms[id].nfts[k] => j = k

InCustody == {n \in NFTs : nftOwner[n] = EA}

HopsLent ==
    OverIds([id \in AuctionIds |-> EscrowOn(id, "HBAR")]) + Cardinality(InCustody) = 0

BooksBalance ==
    \A r \in Rails :
        ledger.held[r] - Queued(ledger, r) - ledger.accrued[r] - ledger.float[r]
            = OverIds([id \in AuctionIds |-> StandingOn(id, r) + EscrowOn(id, r)])

FloatCovers == ledger.float["HBAR"] >= Cardinality(NFTs)

MoneyInv == TypeOK /\ IInv /\ DistinctItems /\ HopsLent /\ BooksBalance /\ FloatCovers

\* What belongs to account x inside auction id: its standing bid, and the
\* escrow if that would come back to it were the auction abandoned now.
Beneficiary(id) == IF state[id] = "Settled" THEN highBidder[id] ELSE Seller(id)

Stake(x, r, id) ==
    (IF highBidder[id] = x THEN StandingOn(id, r) ELSE 0)
      + (IF Beneficiary(id) = x THEN EscrowOn(id, r) ELSE 0)

\* The price x pays in this step: the final price of the auction that the
\* step settles for it, and the hop tinybars it takes over from the seller;
\* or, for the seller of that auction, the fungibles that it sells.
SaleCost(x, r, id) ==
    IF state[id] = "Open" /\ state'[id] = "Settled" /\ highBidder'[id] # Seller(id)
    THEN IF highBidder'[id] = x
         THEN (IF terms[id].payment = r THEN highBid'[id] ELSE 0)
                + (IF r = "HBAR" THEN Hops(id) ELSE 0)
         ELSE IF Seller(id) = x /\ r = "LAZY" THEN terms[id].lazy ELSE 0
    ELSE 0

\* What x has in its wallet or can pull.
Owns(x, r) == ledger.wallet[r][x] + ledger.claimable[r][x]

OnlyBuyersLose ==
    \A x \in Accounts, r \in Rails :
        Owns(x, r)' - Owns(x, r) + (ledger'.float[r] - ledger.float[r])
            + OverIds([id \in AuctionIds |->
                  Stake(x, r, id)' - Stake(x, r, id) + SaleCost(x, r, id)]) >= 0

\* No account gets poorer except by winning an auction, at no more than its
\* final price, or by donating: a refund, an excess, an escrowed fungible or
\* a seller's remainder that is dropped or capped wrongly would show here.
LosesOnlyByBuying == [][OnlyBuyersLose]_vars

\* The protocol keeps at most a tenth of the price of the auction that a step
\* settles, and nothing from one that fails, whatever the owner set the fee
\* to between the last bid and the settlement.
FeeIsBounded ==
    [][\A r \in Rails : ledger'.accrued[r] > ledger.accrued[r] =>
          \E id \in AuctionIds :
              /\ state[id] = "Open" /\ state'[id] = "Settled"
              /\ highBidder'[id] # Seller(id) /\ terms[id].payment = r
              /\ 10 * (ledger'.accrued[r] - ledger.accrued[r]) <= highBid'[id]]_vars
-----------------------------------------------------------------------------
(* Liveness.  settle and claimAuctionNFT are permissionless and settle pays *)
(* a bounty, so somebody calls them; accounts pull what is theirs.          *)

Fairness ==
    /\ WF_vars(Tick)
    /\ \A id \in AuctionIds :
           /\ WF_vars(\E x \in Accounts : Settle(x, id))
           /\ WF_vars(ClaimAuctionNFT(id))
    /\ \A x \in Accounts, r \in Rails : WF_vars(Claim(x, r))

FairSpec == Spec /\ Fairness

\* Anti-snipe extensions cannot keep an auction open for ever, and neither a
\* pause nor a refused push can keep it from settling.
OpenAuctionsEnd ==
    \A id \in AuctionIds : state[id] = "Open" ~> state[id] # "Open"

\* A settled bundle is collected.
SettledBundlesLeave ==
    \A id \in AuctionIds : state[id] = "Settled" ~> state[id] = "None"

\* A queued refund is paid: the commingled balance is never short of it.
RefundsArePaid ==
    \A x \in Accounts, r \in Rails :
        ledger.claimable[r][x] > 0 ~> ledger.claimable[r][x] = 0
=============================================================================
