------------------------ MODULE EnglishAuctionProofs ------------------------
(***************************************************************************)
(* Machine-checked proofs that EnglishAuction keeps its lifecycle, custody *)
(* and money properties for every set of accounts, serials, royalties,     *)
(* listings and factories, for every number of auctions and for ever.      *)
(*                                                                         *)
(* The inductive invariant of the first part is IInv.  Each kind of        *)
(* transaction has a lemma: one that touches no record, createAuction, a   *)
(* bid that stands, a settlement, and a release that deletes the record.   *)
(*                                                                         *)
(* The second part is about the money, for any refusals, bids and fees:    *)
(* the ledger keeps its type, every unit held is accounted for (MoneyInv), *)
(* nobody loses but by buying, and the protocol keeps at most a tenth of a *)
(* price.                                                                  *)
(***************************************************************************)
EXTENDS EnglishAuctionProperties, SumsProofs, TLAPS

\* An auction id is a seller and a number.
LEMMA IdParts ==
    ASSUME NEW id \in AuctionIds
    PROVE  Seller(id) \in Accounts /\ id[2] \in 0..MaxNonce-1 /\ id = <<Seller(id), id[2]>>
  BY DEF AuctionIds, Seller

\* The serials of a bundle are serials.
LEMMA SerialsType ==
    ASSUME NEW s \in Seq(NFTs)
    PROVE  Serials(s) \subseteq NFTs
  BY DEF Serials

LEMMA NoSerials == Serials(NoTerms.nfts) = {}
  BY DEF Serials, NoTerms

LEMMA NoTermsOK == TermsOK(NoTerms)
  BY DEF TermsOK, NoTerms

\* A step that touches no record and moves no serial preserves the invariant.
LEMMA RecordsUntouched ==
    ASSUME IInv, UNCHANGED <<recordVars, custodyVars>>,
           now' \in Nat, config' \in Config
    PROVE  IInv'
  BY DEF IInv, RecordTypeOK, Records, Custody, StandingBid, Claimant, Live,
         recordVars, custodyVars, TermsOK

LEMMA InitIInv == Init => IInv
  <1> SUFFICES ASSUME Init PROVE IInv
    OBVIOUS
  <1> USE DEF Init
  <1>1. RecordTypeOK
    BY ContractAssumption, NoTermsOK DEF RecordTypeOK, States
  <1>2. Records /\ StandingBid /\ Claimant
    BY DEF Records, StandingBid, Claimant, Live
  <1>3. Custody
    <2>1. \A n \in NFTs : nftOwner[n] # EA
      BY ContractAssumption
    <2> QED
      BY <2>1 DEF Custody, Live
  <1> QED
    BY <1>1, <1>2, <1>3 DEF IInv

\* A release: the record of a live auction is deleted and its serials go to x.
LEMMA ReleaseStep ==
    ASSUME IInv, NEW id \in AuctionIds, NEW x \in Accounts, Live(id),
           DeleteRecord(id),
           nftOwner' = [n \in NFTs |->
               IF n \in Serials(terms[id].nfts) THEN x ELSE nftOwner[n]],
           UNCHANGED <<now, adminVars, bcfVars, sellerNonce>>
    PROVE  IInv'
  <1> USE DEF DeleteRecord
  <1>1. /\ \A i \in AuctionIds \ {id} :
               /\ state'[i] = state[i] /\ terms'[i] = terms[i] /\ closeAt'[i] = closeAt[i]
               /\ highBid'[i] = highBid[i] /\ highBidder'[i] = highBidder[i]
        /\ state'[id] = "None" /\ terms'[id] = NoTerms /\ highBid'[id] = 0
        /\ highBidder'[id] = NoAccount
    BY DEF IInv, RecordTypeOK
  <1>2. RecordTypeOK'
    <2>1. \A i \in AuctionIds : TermsOK(terms'[i])
      BY <1>1, NoTermsOK DEF IInv, RecordTypeOK
    <2>2. /\ terms' = [i \in AuctionIds |-> terms'[i]]
          /\ state' \in [AuctionIds -> States]
          /\ closeAt' \in [AuctionIds -> Nat]
          /\ highBid' \in [AuctionIds -> Nat]
          /\ highBidder' \in [AuctionIds -> Accounts \union {NoAccount}]
      BY DEF IInv, RecordTypeOK, States
    <2>3. nftOwner' \in [NFTs -> Accounts \union {EA}]
      BY DEF IInv, RecordTypeOK
    <2> QED
      BY <2>1, <2>2, <2>3 DEF IInv, RecordTypeOK, adminVars, bcfVars, TermsOK
  <1>3. Records'
    BY <1>1 DEF IInv, Records, Live
  <1>4. StandingBid' /\ Claimant'
    BY <1>1 DEF IInv, StandingBid, Claimant
  <1>5. Custody'
    <2>1. \A n \in NFTs : nftOwner'[n] = EA <=>
              nftOwner[n] = EA /\ n \notin Serials(terms[id].nfts)
      BY ContractAssumption DEF IInv, RecordTypeOK
    <2>2. \A i \in AuctionIds : Live(i)' <=> Live(i) /\ i # id
      BY <1>1 DEF Live
    <2>3. ASSUME NEW n \in NFTs
          PROVE  nftOwner'[n] = EA <=>
                     \E i \in AuctionIds : Live(i)' /\ n \in Serials(terms'[i].nfts)
      <3>1. nftOwner'[n] = EA =>
                \E i \in AuctionIds : Live(i) /\ i # id /\ n \in Serials(terms[i].nfts)
        BY <2>1 DEF IInv, Custody
      <3>2. ASSUME NEW i \in AuctionIds, Live(i), i # id, n \in Serials(terms[i].nfts)
            PROVE  nftOwner'[n] = EA
        <4>1. n \notin Serials(terms[id].nfts) /\ nftOwner[n] = EA
          BY <3>2 DEF IInv, Custody
        <4> QED
          BY <2>1, <4>1
      <3> QED
        BY <1>1, <2>2, <3>1, <3>2
    <2>4. ASSUME NEW i \in AuctionIds, NEW j \in AuctionIds, Live(i)', Live(j)', i # j
          PROVE  Serials(terms'[i].nfts) \cap Serials(terms'[j].nfts) = {}
      BY <1>1, <2>2, <2>4 DEF IInv, Custody
    <2>5. \A i, j \in AuctionIds : Live(i)' /\ Live(j)' /\ i # j =>
              Serials(terms'[i].nfts) \cap Serials(terms'[j].nfts) = {}
      BY <2>4
    <2> QED
      BY <2>3, <2>5 DEF Custody, Serials, Live
  <1> QED
    BY <1>2, <1>3, <1>4, <1>5 DEF IInv

\* A settlement: the record of an open auction becomes Settled with its
\* claimant, and nothing else about it changes.
LEMMA FinaliseStep ==
    ASSUME IInv, NEW id \in AuctionIds, state[id] = "Open",
           NEW L, NEW winner \in Accounts \union {NoAccount}, NEW price \in Nat,
           NEW settler, NEW refusing,
           winner # NoAccount => price > 0,
           Finalise(L, id, winner, price, settler, refusing),
           UNCHANGED <<now, adminVars, bcfVars, sellerNonce>>
    PROVE  IInv'
  <1> DEFINE claimant == IF MeetsReserve(id, winner, price) THEN winner ELSE Seller(id)
  <1>0. claimant \in Accounts
    BY IdParts DEF MeetsReserve
  <1>1. /\ state' = [state EXCEPT ![id] = "Settled"]
        /\ highBid' = [highBid EXCEPT ![id] = price]
        /\ highBidder' = [highBidder EXCEPT ![id] = claimant]
        /\ UNCHANGED <<terms, closeAt, nftOwner>>
    BY DEF Finalise
  <1> HIDE DEF claimant
  <1>2. /\ \A i \in AuctionIds \ {id} :
               /\ state'[i] = state[i] /\ highBid'[i] = highBid[i]
               /\ highBidder'[i] = highBidder[i]
        /\ state'[id] = "Settled" /\ highBid'[id] = price /\ highBidder'[id] = claimant
    BY <1>1 DEF IInv, RecordTypeOK
  <1>3. \A i \in AuctionIds : Live(i)' <=> Live(i)
    BY <1>2 DEF Live
  <1>4. RecordTypeOK'
    BY <1>0, <1>1 DEF IInv, RecordTypeOK, States, adminVars, bcfVars, TermsOK
  <1>5. Records'
    BY <1>1, <1>2, <1>3 DEF IInv, Records, Live
  <1>6. Custody'
    BY <1>1, <1>3 DEF IInv, Custody
  <1>7. StandingBid'
    BY <1>1, <1>2 DEF IInv, StandingBid
  <1>8. Claimant'
    <2>1. claimant # NoAccount
      BY <1>0, ContractAssumption
    <2>2. claimant # Seller(id) => price > 0 /\ price >= terms[id].reservePrice
      BY DEF claimant, MeetsReserve
    <2> QED
      BY <1>1, <1>2, <2>1, <2>2 DEF IInv, Claimant
  <1> QED
    BY <1>4, <1>5, <1>6, <1>7, <1>8 DEF IInv

\* The next bid is above the standing one and at least the start price.
LEMMA MinimumNextBidBounds ==
    ASSUME IInv, NEW id \in AuctionIds
    PROVE  /\ MinimumNextBid(id) \in Nat
           /\ highBid[id] = 0 => MinimumNextBid(id) = terms[id].startPrice
           /\ highBid[id] > 0 => MinimumNextBid(id) > highBid[id]
  <1>1. highBid[id] \in Nat /\ terms[id].startPrice \in Nat /\ terms[id].minStepBps \in Nat
    BY DEF IInv, RecordTypeOK, TermsOK
  <1>2. Bps(highBid[id], terms[id].minStepBps) \in Int
    BY <1>1 DEF Bps, MAX_BPS
  <1> QED
    BY <1>1, <1>2 DEF MinimumNextBid, GreaterOf

\* An extension never shortens an auction and never passes the cap.
LEMMA ExtensionBounds ==
    ASSUME IInv, NEW id \in AuctionIds, state[id] = "Open"
    PROVE  ExtendedCloseAt(id) \in Nat /\ ExtendedCloseAt(id) \in closeAt[id]..terms[id].maxCloseAt
  <1>1. /\ closeAt[id] \in Nat /\ now \in Nat /\ terms[id].maxCloseAt \in Nat
        /\ terms[id].antiSnipeWindow \in Nat /\ terms[id].antiSnipeExtension \in Nat
    BY DEF IInv, RecordTypeOK, TermsOK
  <1>2. closeAt[id] <= terms[id].maxCloseAt
    BY DEF IInv, StandingBid
  <1> QED
    BY <1>1, <1>2 DEF ExtendedCloseAt, GreaterOf, LesserOf

\* The self-bid check keeps the seller, whatever the factory answers, out of
\* its own auction.
LEMMA BidderIsNotSeller ==
    ASSUME NEW bidder, NEW id, NEW amount, AcceptsBid(bidder, id, amount)
    PROVE  bidder # Seller(id)
  BY DEF AcceptsBid

\* A bid that stands.
LEMMA StandingBidStep ==
    ASSUME IInv, NEW bidder \in Accounts, NEW id \in AuctionIds, NEW amount \in Nat,
           AcceptsBid(bidder, id, amount), ~TriggersBuyNow(id, amount),
           highBid' = [highBid EXCEPT ![id] = amount],
           highBidder' = [highBidder EXCEPT ![id] = bidder],
           closeAt' = [closeAt EXCEPT ![id] = ExtendedCloseAt(id)],
           UNCHANGED <<state, terms, nftOwner, now, adminVars, bcfVars, sellerNonce>>
    PROVE  IInv'
  <1>1. /\ \A i \in AuctionIds \ {id} :
               /\ highBid'[i] = highBid[i] /\ highBidder'[i] = highBidder[i]
               /\ closeAt'[i] = closeAt[i]
        /\ highBid'[id] = amount /\ highBidder'[id] = bidder
        /\ closeAt'[id] = ExtendedCloseAt(id)
    BY DEF IInv, RecordTypeOK
  <1>2. state[id] = "Open" /\ amount >= MinimumNextBid(id)
    BY DEF AcceptsBid
  <1>3. RecordTypeOK'
    BY <1>2, ExtensionBounds DEF IInv, RecordTypeOK, adminVars, bcfVars, TermsOK
  <1>4. Records' /\ Claimant'
    BY <1>1, <1>2 DEF IInv, Records, Claimant, Live
  <1>5. Custody'
    BY DEF IInv, Custody, Live
  <1>6. StandingBid'
    <2>1. /\ highBid[id] \in Nat /\ terms[id].startPrice \in Nat /\ terms[id].startPrice > 0
          /\ terms[id].buyNowPrice \in Nat
      BY <1>2 DEF IInv, RecordTypeOK, TermsOK, Records, Live
    <2>2. highBid[id] > 0 => highBid[id] >= terms[id].startPrice
      BY <1>2 DEF IInv, StandingBid
    <2>3. amount > 0 /\ amount >= terms[id].startPrice
      BY <1>2, <2>1, <2>2, MinimumNextBidBounds
    <2>4. terms[id].buyNowPrice > 0 => amount < terms[id].buyNowPrice
      BY <2>1 DEF TriggersBuyNow
    <2>5. bidder # Seller(id) /\ bidder # NoAccount
      BY BidderIsNotSeller, ContractAssumption
    <2>6. ExtendedCloseAt(id) <= terms[id].maxCloseAt
      BY <1>2, ExtensionBounds DEF IInv, RecordTypeOK, TermsOK
    <2> QED
      BY <1>1, <2>3, <2>4, <2>5, <2>6 DEF IInv, StandingBid
  <1> QED
    BY <1>3, <1>4, <1>5, <1>6 DEF IInv

LEMMA PlaceBidStep ==
    ASSUME IInv, NEW bidder \in Accounts, NEW id \in AuctionIds, NEW amount \in Nat,
           PlaceBid(bidder, id, amount)
    PROVE  IInv'
  <1>1. AcceptsBid(bidder, id, amount) /\ UNCHANGED <<now, adminVars, bcfVars, sellerNonce>>
    BY DEF PlaceBid
  <1>2. CASE ~TriggersBuyNow(id, amount)
    BY <1>1, <1>2, StandingBidStep DEF PlaceBid
  <1>3. CASE TriggersBuyNow(id, amount)
    <2>1. PICK refusing :
              Finalise(BidLedger(bidder, id, amount, terms[id].buyNowPrice), id,
                       bidder, terms[id].buyNowPrice, bidder, refusing)
      BY <1>3 DEF PlaceBid
    <2>2. state[id] = "Open" /\ terms[id].buyNowPrice \in Nat /\ terms[id].buyNowPrice > 0
      BY <1>1, <1>3 DEF AcceptsBid, TriggersBuyNow, IInv, RecordTypeOK, TermsOK
    <2> QED
      BY <1>1, <2>1, <2>2, FinaliseStep
  <1> QED
    BY <1>2, <1>3

LEMMA SettleStep ==
    ASSUME IInv, NEW settler \in Accounts, NEW id \in AuctionIds, Settle(settler, id)
    PROVE  IInv'
  <1>1. state[id] = "Open" /\ UNCHANGED <<now, adminVars, bcfVars, sellerNonce>>
    BY DEF Settle, Due
  <1>2. PICK refusing :
            Finalise(ledger, id, highBidder[id], highBid[id], settler, refusing)
    BY DEF Settle
  <1>3. /\ highBid[id] \in Nat /\ highBidder[id] \in Accounts \union {NoAccount}
        /\ highBidder[id] # NoAccount => highBid[id] > 0
    BY <1>1 DEF IInv, RecordTypeOK, StandingBid
  <1> QED
    BY <1>1, <1>2, <1>3, FinaliseStep

\* createAuction: the id is fresh, and the serials were the seller's, so no
\* live auction lists them.
LEMMA CreateStep ==
    ASSUME IInv, NEW seller \in Accounts, NEW p \in Listings[seller], CreateAuction(seller, p)
    PROVE  IInv'
  <1> DEFINE id == <<seller, sellerNonce[seller]>>
             t  == terms'[id]
  <1>1. /\ id \in AuctionIds /\ Seller(id) = seller /\ id[2] = sellerNonce[seller]
        /\ sellerNonce[seller] \in Nat
    BY InputAssumption DEF CreateAuction, AuctionIds, Seller, IInv, RecordTypeOK
  <1>2. state[id] = "None" /\ terms[id] = NoTerms /\ highBid[id] = 0 /\ highBidder[id] = NoAccount
    BY <1>1 DEF IInv, Records, Live
  <1>3. /\ sellerNonce' = [sellerNonce EXCEPT ![seller] = @ + 1]
        /\ state' = [state EXCEPT ![id] = "Open"]
        /\ terms' = [terms EXCEPT ![id] = t]
        /\ closeAt' = [closeAt EXCEPT ![id] = now + p.duration]
        /\ UNCHANGED <<highBid, highBidder, now, adminVars, bcfVars>>
        /\ nftOwner' = [n \in NFTs |-> IF n \in Serials(p.nfts) THEN EA ELSE nftOwner[n]]
    BY <1>1 DEF CreateAuction, IInv, RecordTypeOK
  <1>4. /\ t.nfts = p.nfts /\ t.startPrice = p.startPrice
        /\ t.maxCloseAt = now + p.duration + config.maxExtensionWindow
        /\ TermsOK(t)
    <2>1. p \in AuctionParams /\ config \in Config /\ now \in Nat
      BY InputAssumption DEF IInv, RecordTypeOK
    <2>2. /\ t.nfts = p.nfts /\ t.startPrice = p.startPrice
          /\ t.reservePrice = p.reservePrice /\ t.buyNowPrice = p.buyNowPrice
          /\ t.maxCloseAt = now + p.duration + config.maxExtensionWindow
          /\ t.minStepBps \in {p.minStepBps, config.defaultMinStepBps}
          /\ t.antiSnipeWindow \in {p.antiSnipeWindow, config.defaultAntiSnipeWindow}
          /\ t.antiSnipeExtension \in {p.antiSnipeExtension, config.defaultAntiSnipeExtension}
      BY <1>1 DEF CreateAuction, IInv, RecordTypeOK
    <2> HIDE DEF t, id
    <2>3. /\ p.nfts \in Seq(NFTs) /\ p.startPrice \in Nat /\ p.reservePrice \in Nat
          /\ p.buyNowPrice \in Nat /\ p.minStepBps \in Nat /\ p.duration \in Nat
          /\ p.antiSnipeWindow \in Nat /\ p.antiSnipeExtension \in Nat
      BY <2>1 DEF AuctionParams
    <2>4. /\ config.defaultMinStepBps \in Nat /\ config.maxExtensionWindow \in Nat
          /\ config.defaultAntiSnipeWindow \in Nat /\ config.defaultAntiSnipeExtension \in Nat
      BY <2>1 DEF Config
    <2>5. t.maxCloseAt \in Nat
      BY <2>1, <2>2, <2>3, <2>4, SMTT(20)
    <2>6. t.minStepBps \in Nat /\ t.antiSnipeWindow \in Nat /\ t.antiSnipeExtension \in Nat
      BY <2>2, <2>3, <2>4
    <2> QED
      BY <2>2, <2>3, <2>5, <2>6 DEF TermsOK
  <1>5. p.startPrice > 0 /\ p.duration \in Nat /\ Serials(p.nfts) \subseteq NFTs
    BY InputAssumption, SerialsType DEF CreateAuction, ValidParams, AuctionParams
  <1>6. \A n \in Serials(p.nfts) : nftOwner[n] = seller
    BY DEF CreateAuction, Serials
  <1> HIDE DEF id, t
  <1>7. /\ \A i \in AuctionIds \ {id} :
               /\ state'[i] = state[i] /\ terms'[i] = terms[i] /\ closeAt'[i] = closeAt[i]
        /\ state'[id] = "Open" /\ terms'[id] = t /\ closeAt'[id] = now + p.duration
    BY <1>1, <1>3 DEF IInv, RecordTypeOK
  <1>8. \A i \in AuctionIds : Live(i)' <=> Live(i) \/ i = id
    BY <1>7 DEF Live
  <1>9. RecordTypeOK'
    <2>1. \A i \in AuctionIds : TermsOK(terms'[i])
      BY <1>4, <1>7 DEF IInv, RecordTypeOK
    <2>2. now + p.duration \in Nat
      BY <1>5 DEF IInv, RecordTypeOK
    <2>3. terms' = [i \in AuctionIds |-> terms'[i]]
      BY <1>3 DEF IInv, RecordTypeOK
    <2>4. /\ sellerNonce' \in [Accounts -> Nat]
          /\ state' \in [AuctionIds -> States]
          /\ closeAt' \in [AuctionIds -> Nat]
      BY <1>1, <1>3, <2>2 DEF IInv, RecordTypeOK, States
    <2>5. nftOwner' \in [NFTs -> Accounts \union {EA}]
      BY <1>3 DEF IInv, RecordTypeOK
    <2> QED
      BY <1>3, <2>1, <2>3, <2>4, <2>5
      DEF IInv, RecordTypeOK, adminVars, bcfVars, TermsOK
  <1>10. Records'
    <2>1. \A x \in Accounts : sellerNonce'[x] >= sellerNonce[x] /\ sellerNonce'[x] \in Nat
      BY <1>3 DEF IInv, RecordTypeOK
    <2>2. sellerNonce'[seller] > sellerNonce[seller]
      BY <1>3 DEF IInv, RecordTypeOK
    <2>3. \A i \in AuctionIds : i[2] \in Nat /\ Seller(i) \in Accounts /\ sellerNonce[Seller(i)] \in Nat
      BY IdParts DEF IInv, RecordTypeOK
    <2>4. ASSUME NEW i \in AuctionIds, Live(i)'
          PROVE  i[2] < sellerNonce'[Seller(i)] /\ terms'[i].startPrice > 0
      <3>1. CASE i = id
        BY <1>1, <1>4, <1>5, <1>7, <2>2, <3>1
      <3>2. CASE i # id
        BY <1>7, <1>8, <2>1, <2>3, <2>4, <3>2 DEF IInv, Records
      <3> QED
        BY <3>1, <3>2
    <2>5. ASSUME NEW i \in AuctionIds, ~Live(i)'
          PROVE  terms'[i] = NoTerms /\ highBid'[i] = 0 /\ highBidder'[i] = NoAccount
      BY <1>3, <1>7, <1>8, <2>5 DEF IInv, Records
    <2> QED
      BY <2>4, <2>5 DEF Records, Seller, Live
  <1>11. StandingBid'
    <2>1. closeAt'[id] <= terms'[id].maxCloseAt
      BY <1>4, <1>5, <1>7 DEF IInv, RecordTypeOK, Config
    <2>2. highBid'[id] = 0 /\ highBidder'[id] = NoAccount /\ Seller(id) # NoAccount
      BY <1>1, <1>2, <1>3, ContractAssumption
    <2>3. terms'[id].buyNowPrice \in Nat
      BY <1>4, <1>7 DEF TermsOK
    <2> QED
      BY <1>3, <1>7, <2>1, <2>2, <2>3 DEF IInv, StandingBid
  <1>12. Claimant'
    BY <1>3, <1>7 DEF IInv, Claimant
  <1>13. Custody'
    <2>1. \A n \in NFTs : nftOwner'[n] = EA <=> nftOwner[n] = EA \/ n \in Serials(p.nfts)
      BY <1>3, <1>6, ContractAssumption
    <2>2. \A i \in AuctionIds : Live(i) => Serials(terms[i].nfts) \cap Serials(p.nfts) = {}
      BY <1>5, <1>6, ContractAssumption, SMTT(20) DEF IInv, Custody
    <2>3. \A i \in AuctionIds : Live(i) => i # id
      BY <1>2 DEF Live
    <2>4. ASSUME NEW n \in NFTs
          PROVE  nftOwner'[n] = EA <=>
                     \E i \in AuctionIds : Live(i)' /\ n \in Serials(terms'[i].nfts)
      <3>1. nftOwner[n] = EA <=> \E i \in AuctionIds : Live(i) /\ n \in Serials(terms[i].nfts)
        BY DEF IInv, Custody
      <3>2. Serials(terms'[id].nfts) = Serials(p.nfts)
        BY <1>4, <1>7
      <3> QED
        BY <1>1, <1>7, <1>8, <2>1, <2>3, <3>1, <3>2
    <2>5. ASSUME NEW i \in AuctionIds, NEW j \in AuctionIds, Live(i)', Live(j)', i # j
          PROVE  Serials(terms'[i].nfts) \cap Serials(terms'[j].nfts) = {}
      BY <1>4, <1>7, <1>8, <2>2, <2>5 DEF IInv, Custody
    <2>6. \A i, j \in AuctionIds : Live(i)' /\ Live(j)' /\ i # j =>
              Serials(terms'[i].nfts) \cap Serials(terms'[j].nfts) = {}
      BY <2>5
    <2> QED
      BY <2>4, <2>6 DEF Custody, Serials, Live
  <1> QED
    BY <1>9, <1>10, <1>11, <1>12, <1>13 DEF IInv

-----------------------------------------------------------------------------
LEMMA LifecycleStep == IInv /\ Lifecycle => IInv'
  <1> SUFFICES ASSUME IInv, Lifecycle PROVE IInv'
    OBVIOUS
  <1>1. CASE \E x \in Accounts : \E p \in Listings[x] : CreateAuction(x, p)
    BY <1>1, CreateStep
  <1>2. CASE \E x \in Accounts, id \in AuctionIds : CancelAuction(x, id)
    <2>1. PICK x \in Accounts, id \in AuctionIds : CancelAuction(x, id)
      BY <1>2
    <2>2. Live(id) /\ Seller(id) \in Accounts
      BY <2>1, IdParts DEF CancelAuction, CanCancel, Live
    <2> QED
      BY <2>1, <2>2, ReleaseStep DEF CancelAuction
  <1>3. CASE \E x \in Accounts, id \in AuctionIds, amount \in BidAmounts : PlaceBid(x, id, amount)
    BY <1>3, PlaceBidStep, InputAssumption
  <1>4. CASE \E x \in Accounts, id \in AuctionIds : BuyNow(x, id)
    <2>1. \A id \in AuctionIds : terms[id].buyNowPrice \in Nat
      BY DEF IInv, RecordTypeOK, TermsOK
    <2> QED
      BY <1>4, <2>1, PlaceBidStep DEF BuyNow
  <1>5. CASE \E x \in Accounts, id \in AuctionIds : Settle(x, id)
    BY <1>5, SettleStep
  <1>6. CASE \E id \in AuctionIds : ClaimAuctionNFT(id)
    <2>1. PICK id \in AuctionIds : ClaimAuctionNFT(id)
      BY <1>6
    <2>2. Live(id) /\ highBidder[id] \in Accounts
      BY <2>1 DEF ClaimAuctionNFT, Live, IInv, RecordTypeOK, Claimant
    <2> QED
      BY <2>1, <2>2, ReleaseStep DEF ClaimAuctionNFT
  <1> QED
    BY <1>1, <1>2, <1>3, <1>4, <1>5, <1>6 DEF Lifecycle

\* Payments, the owner's setters and the clock touch no record.
LEMMA MoneyStep == IInv /\ Money => IInv'
  <1> SUFFICES ASSUME IInv, Money PROVE IInv'
    OBVIOUS
  <1>1. UNCHANGED <<now, config, bcf, recordVars, custodyVars>>
    BY DEF Money, Claim, WithdrawProtocolFee, Donate, adminVars, bcfVars
  <1>2. now' \in Nat /\ config' \in Config
    BY <1>1 DEF IInv, RecordTypeOK
  <1> QED
    BY <1>1, <1>2, RecordsUntouched

LEMMA TickStep == IInv /\ Tick => IInv'
  <1> SUFFICES ASSUME IInv, Tick PROVE IInv'
    OBVIOUS
  <1>1. UNCHANGED <<recordVars, custodyVars>>
    BY DEF Tick
  <1>2. now' \in Nat /\ config' \in Config
    BY DEF IInv, RecordTypeOK, Tick, adminVars, bcfVars
  <1> QED
    BY <1>1, <1>2, RecordsUntouched

LEMMA StutterStep == IInv /\ UNCHANGED vars => IInv'
  <1> SUFFICES ASSUME IInv, UNCHANGED vars PROVE IInv'
    OBVIOUS
  <1>1. UNCHANGED <<recordVars, custodyVars>>
    BY DEF vars, recordVars, custodyVars
  <1>2. now' \in Nat /\ config' \in Config
    BY DEF IInv, RecordTypeOK, vars
  <1> QED
    BY <1>1, <1>2, RecordsUntouched

\* The setters keep the configuration inside its bounds.
LEMMA ConfigStep ==
    ASSUME config \in Config,
           \/ \E bps \in FeeChoices : SetProtocolFeeBps(bps)
           \/ \E bps \in FeeChoices : SetSettlementBountyBps(bps)
           \/ \E d \in DefaultChoices : SetDefaults(d)
           \/ \E l \in LimitChoices : SetDurationLimits(l)
    PROVE  config' \in Config
  <1> USE DEF Config
  <1>1. CASE \E bps \in FeeChoices : SetProtocolFeeBps(bps)
    BY <1>1, InputAssumption DEF SetProtocolFeeBps
  <1>2. CASE \E bps \in FeeChoices : SetSettlementBountyBps(bps)
    BY <1>2, InputAssumption DEF SetSettlementBountyBps
  <1>3. CASE \E d \in DefaultChoices : SetDefaults(d)
    <2>1. PICK d \in DefaultChoices : SetDefaults(d)
      BY <1>3
    <2>2. /\ d.minStepBps \in 0..MAX_BPS
          /\ d.antiSnipeWindow \in Nat /\ d.antiSnipeExtension \in Nat
      <3>1. d.minStepBps <= MAX_BPS
        BY <2>1 DEF SetDefaults
      <3>2. d.minStepBps \in Nat /\ d.antiSnipeWindow \in Nat /\ d.antiSnipeExtension \in Nat
        BY InputAssumption
      <3> QED
        BY <3>1, <3>2
    <2>3. config' = [config EXCEPT !.defaultMinStepBps = d.minStepBps,
                                   !.defaultAntiSnipeWindow = d.antiSnipeWindow,
                                   !.defaultAntiSnipeExtension = d.antiSnipeExtension]
      BY <2>1 DEF SetDefaults
    <2> QED
      BY <2>2, <2>3
  <1>4. CASE \E l \in LimitChoices : SetDurationLimits(l)
    BY <1>4, InputAssumption DEF SetDurationLimits
  <1> QED
    BY <1>1, <1>2, <1>3, <1>4

LEMMA OwnerStep == IInv /\ Owner => IInv'
  <1> SUFFICES ASSUME IInv, Owner PROVE IInv'
    OBVIOUS
  <1>1. UNCHANGED <<now, recordVars, custodyVars>>
    BY DEF Owner, SetPaused, SetVipSubscription, SetProtocolFeeBps, SetSettlementBountyBps,
           SetDefaults, SetDurationLimits, SetBcf, ExecuteBcfChange, CancelBcfChange
  <1>2. config' \in Config
    <2>1. CASE UNCHANGED config
      BY <2>1 DEF IInv, RecordTypeOK
    <2>2. CASE \/ \E bps \in FeeChoices : SetProtocolFeeBps(bps)
               \/ \E bps \in FeeChoices : SetSettlementBountyBps(bps)
               \/ \E d \in DefaultChoices : SetDefaults(d)
               \/ \E l \in LimitChoices : SetDurationLimits(l)
      BY <2>2, ConfigStep DEF IInv, RecordTypeOK
    <2> QED
      BY <2>1, <2>2 DEF Owner, SetPaused, SetVipSubscription, SetBcf, ExecuteBcfChange,
                        CancelBcfChange, adminVars
  <1> QED
    BY <1>1, <1>2, RecordsUntouched DEF IInv, RecordTypeOK

\* The lifecycle invariant holds in every reachable state.
THEOREM Invariance == Spec => []IInv
  <1>1. IInv /\ [Next]_vars => IInv'
    BY LifecycleStep, MoneyStep, OwnerStep, TickStep, StutterStep DEF Next
  <1> QED
    BY InitIInv, <1>1, PTL DEF Spec

\* Escrow: serials are in the contract's hands exactly while one live auction
\* lists them, and no two live auctions share one.
THEOREM CustodyHolds == Spec => []Custody
  BY Invariance, PTL DEF IInv

\* Bids: below the buy-now price, from someone other than the seller, and the
\* close time is inside the cap fixed at creation.
THEOREM StandingBidHolds == Spec => []StandingBid
  BY Invariance, PTL DEF IInv

\* Settlement: a claimant other than the seller has met the reserve.
THEOREM ClaimantHolds == Spec => []Claimant
  BY Invariance, PTL DEF IInv

-----------------------------------------------------------------------------
(* Action properties *)

\* What one transaction can do to one record.
Untouched(id) == UNCHANGED <<state[id], closeAt[id], highBid[id], highBidder[id]>>

BidStands(id) ==
    \E bidder \in Accounts, amount \in Nat :
        /\ AcceptsBid(bidder, id, amount)
        /\ highBid'[id] = amount
        /\ closeAt'[id] = ExtendedCloseAt(id)

Effect(id) ==
    \/ Untouched(id)
    \/ state[id] # "Open"
    \/ state'[id] # "Open"
    \/ BidStands(id)

LEMMA PlaceBidEffect ==
    ASSUME IInv, NEW bidder \in Accounts, NEW i \in AuctionIds, NEW amount \in Nat,
           PlaceBid(bidder, i, amount), NEW id \in AuctionIds
    PROVE  Effect(id)
  <1>1. CASE ~TriggersBuyNow(i, amount)
    <2>1. /\ AcceptsBid(bidder, i, amount) /\ UNCHANGED state
          /\ highBid' = [highBid EXCEPT ![i] = amount]
          /\ highBidder' = [highBidder EXCEPT ![i] = bidder]
          /\ closeAt' = [closeAt EXCEPT ![i] = ExtendedCloseAt(i)]
      BY <1>1 DEF PlaceBid
    <2>2. CASE id = i
      <3>1. highBid'[id] = amount /\ closeAt'[id] = ExtendedCloseAt(id)
        BY <2>1, <2>2 DEF IInv, RecordTypeOK
      <3> QED
        BY <2>1, <2>2, <3>1 DEF Effect, BidStands
    <2>3. CASE id # i
      BY <2>1, <2>3 DEF IInv, RecordTypeOK, Effect, Untouched
    <2> QED
      BY <2>2, <2>3
  <1>2. CASE TriggersBuyNow(i, amount)
    <2>1. PICK refusing :
              Finalise(BidLedger(bidder, i, amount, terms[i].buyNowPrice), i,
                       bidder, terms[i].buyNowPrice, bidder, refusing)
      BY <1>2 DEF PlaceBid
    <2> QED
      BY <2>1 DEF Finalise, IInv, RecordTypeOK, Effect, Untouched
  <1> QED
    BY <1>1, <1>2

LEMMA StepEffect ==
    ASSUME IInv, [Next]_vars, NEW id \in AuctionIds
    PROVE  Effect(id)
  <1>1. CASE \E x \in Accounts : \E p \in Listings[x] : CreateAuction(x, p)
    <2>1. PICK x \in Accounts : \E p \in Listings[x] : CreateAuction(x, p)
      BY <1>1
    <2> DEFINE i == <<x, sellerNonce[x]>>
    <2>2. i \in AuctionIds /\ state[i] = "None"
      BY <2>1, InputAssumption
      DEF CreateAuction, AuctionIds, Seller, IInv, RecordTypeOK, Records, Live
    <2>3. id # i => Untouched(id)
      BY <2>1 DEF CreateAuction, IInv, RecordTypeOK, Untouched
    <2> QED
      BY <2>2, <2>3 DEF Effect
  <1>2. CASE \E x \in Accounts, i \in AuctionIds : CancelAuction(x, i)
    BY <1>2 DEF CancelAuction, DeleteRecord, IInv, RecordTypeOK, Effect, Untouched
  <1>3. CASE \E x \in Accounts, i \in AuctionIds, amount \in BidAmounts : PlaceBid(x, i, amount)
    BY <1>3, PlaceBidEffect, InputAssumption
  <1>4. CASE \E x \in Accounts, i \in AuctionIds : BuyNow(x, i)
    <2>1. \A i \in AuctionIds : terms[i].buyNowPrice \in Nat
      BY DEF IInv, RecordTypeOK, TermsOK
    <2> QED
      BY <1>4, <2>1, PlaceBidEffect DEF BuyNow
  <1>5. CASE \E x \in Accounts, i \in AuctionIds : Settle(x, i)
    <2>1. PICK x \in Accounts, i \in AuctionIds : Settle(x, i)
      BY <1>5
    <2>2. PICK refusing : Finalise(ledger, i, highBidder[i], highBid[i], x, refusing)
      BY <2>1 DEF Settle
    <2> QED
      BY <2>2 DEF Finalise, IInv, RecordTypeOK, Effect, Untouched
  <1>6. CASE \E i \in AuctionIds : ClaimAuctionNFT(i)
    BY <1>6 DEF ClaimAuctionNFT, DeleteRecord, IInv, RecordTypeOK, Effect, Untouched
  <1>7. CASE Money \/ Owner \/ Tick \/ UNCHANGED vars
    <2>1. UNCHANGED recordVars
      BY <1>7 DEF Money, Owner, Tick, vars, recordVars, Claim, WithdrawProtocolFee, Donate,
           SetPaused, SetVipSubscription, SetProtocolFeeBps, SetSettlementBountyBps,
           SetDefaults, SetDurationLimits, SetBcf, ExecuteBcfChange, CancelBcfChange
    <2> QED
      BY <2>1 DEF recordVars, Effect, Untouched
  <1> QED
    BY <1>1, <1>2, <1>3, <1>4, <1>5, <1>6, <1>7 DEF Next, Lifecycle

\* Bidding only moves one way, and not at all once the close time has come.
THEOREM BiddingRatchetHolds == Spec => BiddingRatchet
  <1> DEFINE Ratchet ==
        \A id \in AuctionIds : state[id] = "Open" /\ state'[id] = "Open" =>
          /\ closeAt'[id] \in closeAt[id]..terms[id].maxCloseAt
          /\ highBid'[id] # highBid[id] =>
                /\ highBid'[id] >= MinimumNextBid(id)
                /\ now < closeAt[id]
          /\ now >= closeAt[id] =>
                UNCHANGED <<closeAt[id], highBid[id], highBidder[id]>>
  <1>1. IInv /\ [Next]_vars => Ratchet
    <2> SUFFICES ASSUME IInv, [Next]_vars, NEW id \in AuctionIds,
                        state[id] = "Open", state'[id] = "Open"
                 PROVE  /\ closeAt'[id] \in closeAt[id]..terms[id].maxCloseAt
                        /\ highBid'[id] # highBid[id] =>
                              /\ highBid'[id] >= MinimumNextBid(id)
                              /\ now < closeAt[id]
                        /\ now >= closeAt[id] =>
                              UNCHANGED <<closeAt[id], highBid[id], highBidder[id]>>
      OBVIOUS
    <2>1. /\ closeAt[id] \in Nat /\ now \in Nat /\ terms[id].maxCloseAt \in Nat
          /\ closeAt[id] <= terms[id].maxCloseAt
      BY DEF IInv, RecordTypeOK, TermsOK, StandingBid
    <2>2. CASE Untouched(id)
      BY <2>1, <2>2 DEF Untouched
    <2>3. CASE BidStands(id)
      BY <2>1, <2>3, ExtensionBounds DEF BidStands, AcceptsBid
    <2> QED
      BY <2>2, <2>3, StepEffect DEF Effect
  <1> HIDE DEF Ratchet
  <1>2. Spec => [][Ratchet]_vars
    BY Invariance, <1>1, PTL DEF Spec
  <1> QED
    BY <1>2 DEF Ratchet, BiddingRatchet

\* A released serial goes to the seller of an auction without bids or to the
\* claimant recorded at settlement.
THEOREM SerialsGoToTheClaimantHolds == Spec => SerialsGoToTheClaimant
  <1> DEFINE Delivered ==
        \A n \in NFTs : nftOwner[n] = EA /\ nftOwner'[n] # EA =>
          \E id \in AuctionIds :
              /\ n \in Serials(terms[id].nfts)
              /\ state'[id] = "None"
              /\ \/ /\ state[id] = "Open"
                    /\ highBidder[id] = NoAccount
                    /\ nftOwner'[n] = Seller(id)
                 \/ /\ state[id] = "Settled"
                    /\ nftOwner'[n] = highBidder[id]
  <1>1. IInv /\ [Next]_vars => Delivered
    <2> SUFFICES ASSUME IInv, [Next]_vars, NEW n \in NFTs,
                        nftOwner[n] = EA, nftOwner'[n] # EA
                 PROVE  \E id \in AuctionIds :
                            /\ n \in Serials(terms[id].nfts)
                            /\ state'[id] = "None"
                            /\ \/ /\ state[id] = "Open"
                                  /\ highBidder[id] = NoAccount
                                  /\ nftOwner'[n] = Seller(id)
                               \/ /\ state[id] = "Settled"
                                  /\ nftOwner'[n] = highBidder[id]
      OBVIOUS
    <2>1. CASE \E x \in Accounts, id \in AuctionIds : CancelAuction(x, id)
      <3>1. PICK x \in Accounts, id \in AuctionIds : CancelAuction(x, id)
        BY <2>1
      <3>2. state'[id] = "None" /\ state[id] = "Open" /\ highBidder[id] = NoAccount
        BY <3>1 DEF CancelAuction, CanCancel, DeleteRecord, IInv, RecordTypeOK
      <3>3. n \in Serials(terms[id].nfts) /\ nftOwner'[n] = Seller(id)
        BY <3>1 DEF CancelAuction
      <3> QED
        BY <3>2, <3>3
    <2>2. CASE \E id \in AuctionIds : ClaimAuctionNFT(id)
      <3>1. PICK id \in AuctionIds : ClaimAuctionNFT(id)
        BY <2>2
      <3>2. state'[id] = "None" /\ state[id] = "Settled"
        BY <3>1 DEF ClaimAuctionNFT, DeleteRecord, IInv, RecordTypeOK
      <3>3. n \in Serials(terms[id].nfts) /\ nftOwner'[n] = highBidder[id]
        BY <3>1 DEF ClaimAuctionNFT
      <3> QED
        BY <3>2, <3>3
    <2>3. ~\E x \in Accounts : \E p \in Listings[x] : CreateAuction(x, p)
      BY DEF CreateAuction
    <2>4. ~\E x \in Accounts, id \in AuctionIds : Settle(x, id)
      BY DEF Settle, Finalise
    <2>5. \A x, id, amount : ~PlaceBid(x, id, amount)
      BY DEF PlaceBid, Finalise
    <2>6. ~(Money \/ Owner \/ Tick \/ UNCHANGED vars)
      BY DEF Money, Owner, Tick, vars, custodyVars, Claim, WithdrawProtocolFee, Donate,
           SetPaused, SetVipSubscription, SetProtocolFeeBps, SetSettlementBountyBps,
           SetDefaults, SetDurationLimits, SetBcf, ExecuteBcfChange, CancelBcfChange
    <2> QED
      BY <2>1, <2>2, <2>3, <2>4, <2>5, <2>6 DEF Next, Lifecycle, BuyNow
  <1> HIDE DEF Delivered
  <1>2. Spec => [][Delivered]_vars
    BY Invariance, <1>1, PTL DEF Spec
  <1> QED
    BY <1>2 DEF Delivered, SerialsGoToTheClaimant


-----------------------------------------------------------------------------
(* The ledger operations.  Each of them touches one account on one rail.    *)

LEMMA AccountsListed == ListsOnce(AccountSeq, Accounts)
  BY AccountsAssumption DEF ListsOnce, Accounts

\* What the contract holds on rail r beyond what its pull queue owes, and what
\* account x has in its wallet or can pull.
Net(L, r) == L.held[r] - Queued(L, r)
Own(L, r, x) == L.wallet[r][x] + L.claimable[r][x]

\* M is L with w moved from the balance to x's wallet and q more in x's queue
\* entry, all on rail r.
Touches(L, M, r, x, w, q) ==
    /\ M \in Ledger
    /\ M.accrued = L.accrued
    /\ M.float = L.float
    /\ \A s \in Rails : M.held[s] = L.held[s] - (IF s = r THEN w ELSE 0)
    /\ \A s \in Rails, y \in Accounts :
           /\ M.wallet[s][y] = L.wallet[s][y] + (IF s = r /\ y = x THEN w ELSE 0)
           /\ M.claimable[s][y] = L.claimable[s][y] + (IF s = r /\ y = x THEN q ELSE 0)

\* x gets a units on rail r from the contract, in its wallet or as a claim.
Credits(L, M, r, x, a) ==
    /\ M \in Ledger
    /\ M.accrued = L.accrued
    /\ M.float = L.float
    /\ \A s \in Rails : Net(M, s) = Net(L, s) - (IF s = r THEN a ELSE 0)
    /\ \A s \in Rails, y \in Accounts :
           Own(M, s, y) = Own(L, s, y) + (IF s = r /\ y = x THEN a ELSE 0)

LEMMA LedgerParts ==
    ASSUME NEW L \in Ledger
    PROVE  /\ L.held \in [Rails -> Nat]
           /\ L.wallet \in [Rails -> [Accounts -> Nat]]
           /\ L.claimable \in [Rails -> [Accounts -> Nat]]
           /\ L.accrued \in [Rails -> Nat]
           /\ L.float \in [Rails -> Nat]
  BY DEF Ledger

LEMMA QueuedType ==
    ASSUME NEW L \in Ledger, NEW r \in Rails
    PROVE  Queued(L, r) \in Nat
  <1>1. L.claimable[r] \in [Accounts -> Nat]
    BY LedgerParts
  <1> QED
    BY <1>1, AccountsListed, SumOverOfNaturals DEF Queued, ListsOnce

LEMMA NetType ==
    ASSUME NEW L \in Ledger, NEW r \in Rails
    PROVE  Net(L, r) \in Int
  BY LedgerParts, QueuedType DEF Net

LEMMA OwnType ==
    ASSUME NEW L \in Ledger, NEW r \in Rails, NEW x \in Accounts
    PROVE  Own(L, r, x) \in Nat
  BY LedgerParts DEF Own

LEMMA TouchesQueue ==
    ASSUME NEW L \in Ledger, NEW M, NEW r \in Rails, NEW x \in Accounts,
           NEW w \in Int, NEW q \in Int, Touches(L, M, r, x, w, q), NEW s \in Rails
    PROVE  Queued(M, s) = Queued(L, s) + (IF s = r THEN q ELSE 0)
  <1>1. /\ L.claimable[s] \in [Accounts -> Int]
        /\ M.claimable[s] \in [Accounts -> Int]
    BY LedgerParts DEF Touches
  <1>2. CASE s = r
    <2>1. /\ \A y \in Accounts : y # x => M.claimable[s][y] = L.claimable[s][y]
          /\ M.claimable[s][x] = L.claimable[s][x] + q
          /\ L.claimable[s][x] \in Int
      BY <1>1, <1>2 DEF Touches
    <2>2. Queued(M, s) = Queued(L, s) + (M.claimable[s][x] - L.claimable[s][x])
      <3> DEFINE f == L.claimable[s]
                 g == M.claimable[s]
      <3>1. f \in [Accounts -> Int] /\ g \in [Accounts -> Int]
        BY <1>1
      <3>2. \A y \in Accounts : y # x => g[y] = f[y]
        BY <2>1
      <3>3. SumOver(g, AccountSeq) = SumOver(f, AccountSeq) + (g[x] - f[x])
        <4> HIDE DEF f, g
        <4> QED
          BY <3>1, <3>2, AccountsListed, SumOverUpdate
      <3> QED
        BY <3>3 DEF Queued
    <2>3. Queued(L, s) \in Nat
      BY QueuedType
    <2> QED
      BY <1>2, <2>1, <2>2, <2>3
  <1>3. CASE s # r
    <2>1. \A y \in Accounts : M.claimable[s][y] = L.claimable[s][y]
      BY <1>1, <1>3 DEF Touches
    <2>2. M.claimable[s] = L.claimable[s]
      BY <1>1, <2>1
    <2>3. Queued(L, s) \in Nat
      BY QueuedType
    <2> QED
      BY <1>3, <2>2, <2>3 DEF Queued
  <1> QED
    BY <1>2, <1>3

\* So x gets what the contract loses.
LEMMA TouchesCredits ==
    ASSUME NEW L \in Ledger, NEW M, NEW r \in Rails, NEW x \in Accounts,
           NEW w \in Int, NEW q \in Int, Touches(L, M, r, x, w, q)
    PROVE  Credits(L, M, r, x, w + q)
  <1>1. M \in Ledger
    BY DEF Touches
  <1>2. ASSUME NEW s \in Rails
        PROVE  Net(M, s) = Net(L, s) - (IF s = r THEN w + q ELSE 0)
    <2>1. L.held[s] \in Int /\ M.held[s] = L.held[s] - (IF s = r THEN w ELSE 0)
      BY LedgerParts DEF Touches
    <2>2. Queued(L, s) \in Int
      BY QueuedType
    <2>3. Queued(M, s) = Queued(L, s) + (IF s = r THEN q ELSE 0)
      BY TouchesQueue
    <2> QED
      BY <2>1, <2>2, <2>3 DEF Net
  <1>3. ASSUME NEW s \in Rails, NEW y \in Accounts
        PROVE  Own(M, s, y) = Own(L, s, y) + (IF s = r /\ y = x THEN w + q ELSE 0)
    <2>1. /\ L.wallet[s][y] \in Int /\ L.claimable[s][y] \in Int
          /\ M.wallet[s][y] = L.wallet[s][y] + (IF s = r /\ y = x THEN w ELSE 0)
          /\ M.claimable[s][y] = L.claimable[s][y] + (IF s = r /\ y = x THEN q ELSE 0)
      BY LedgerParts DEF Touches
    <2> QED
      BY <2>1 DEF Own
  <1> QED
    BY <1>1, <1>2, <1>3 DEF Credits, Touches

LEMMA PayInCredits ==
    ASSUME NEW L \in Ledger, NEW r \in Rails, NEW x \in Accounts, NEW a \in Nat,
           L.wallet[r][x] >= a
    PROVE  Credits(L, PayIn(L, r, x, a), r, x, -a)
  <1> DEFINE H == [L.held EXCEPT ![r] = @ + a]
             W == [L.wallet EXCEPT ![r][x] = @ - a]
             M == [L EXCEPT !.held = H, !.wallet = W]
  <1>1. H \in [Rails -> Nat] /\ W \in [Rails -> [Accounts -> Nat]]
    BY LedgerParts
  <1>2. PayIn(L, r, x, a) = M
    BY DEF PayIn, Ledger
  <1>3. M \in Ledger
    BY <1>1, LedgerParts DEF Ledger
  <1>4. Touches(L, M, r, x, -a, 0)
    BY <1>3, LedgerParts DEF Touches, Ledger
  <1>5. Credits(L, M, r, x, (-a) + 0)
    <2> HIDE DEF M
    <2> QED
      BY <1>4, TouchesCredits
  <1> QED
    BY <1>2, <1>5

LEMMA PayOutCredits ==
    ASSUME NEW L \in Ledger, NEW r \in Rails, NEW x \in Accounts, NEW a \in Nat,
           L.held[r] >= a
    PROVE  Credits(L, PayOut(L, r, x, a), r, x, a)
  <1> DEFINE H == [L.held EXCEPT ![r] = @ - a]
             W == [L.wallet EXCEPT ![r][x] = @ + a]
             M == [L EXCEPT !.held = H, !.wallet = W]
  <1>1. H \in [Rails -> Nat] /\ W \in [Rails -> [Accounts -> Nat]]
    BY LedgerParts
  <1>2. PayOut(L, r, x, a) = M
    BY DEF PayOut, Ledger
  <1>3. M \in Ledger
    BY <1>1, LedgerParts DEF Ledger
  <1>4. Touches(L, M, r, x, a, 0)
    BY <1>3, LedgerParts DEF Touches, Ledger
  <1>5. Credits(L, M, r, x, a + 0)
    <2> HIDE DEF M
    <2> QED
      BY <1>4, TouchesCredits
  <1> QED
    BY <1>2, <1>5

LEMMA QueueRefundCredits ==
    ASSUME NEW L \in Ledger, NEW r \in Rails, NEW x \in Accounts, NEW a \in Nat
    PROVE  Credits(L, QueueRefund(L, r, x, a), r, x, a)
  <1> DEFINE Q == [L.claimable EXCEPT ![r][x] = @ + a]
             M == [L EXCEPT !.claimable = Q]
  <1>1. Q \in [Rails -> [Accounts -> Nat]]
    BY LedgerParts
  <1>2. QueueRefund(L, r, x, a) = M
    BY DEF QueueRefund, Ledger
  <1>3. M \in Ledger
    BY <1>1, LedgerParts DEF Ledger
  <1>4. Touches(L, M, r, x, 0, a)
    <2>1. M.held = L.held /\ M.wallet = L.wallet /\ M.accrued = L.accrued /\ M.float = L.float
      BY DEF Ledger
    <2>2. M.claimable = Q
      BY DEF Ledger
    <2> HIDE DEF M
    <2> QED
      BY <1>3, <2>1, <2>2, LedgerParts DEF Touches
  <1>5. Credits(L, M, r, x, 0 + a)
    <2> HIDE DEF M
    <2> QED
      BY <1>4, TouchesCredits
  <1> QED
    BY <1>2, <1>5

\* Whether the push is made, refused or not covered.
LEMMA PayOrQueueCredits ==
    ASSUME NEW L \in Ledger, NEW r \in Rails, NEW x \in Accounts, NEW a \in Nat,
           NEW refusing
    PROVE  Credits(L, PayOrQueue(L, r, x, a, refusing), r, x, a)
  <1>1. CASE x \in refusing \/ L.held[r] < a
    BY <1>1, QueueRefundCredits DEF PayOrQueue
  <1>2. CASE ~(x \in refusing \/ L.held[r] < a)
    <2>1. L.held[r] >= a
      BY <1>2, LedgerParts
    <2> QED
      BY <1>2, <2>1, PayOutCredits DEF PayOrQueue
  <1> QED
    BY <1>1, <1>2

LEMMA PullClaimCredits ==
    ASSUME NEW L \in Ledger, NEW r \in Rails, NEW x \in Accounts,
           L.held[r] >= L.claimable[r][x]
    PROVE  Credits(L, PullClaim(L, r, x), r, x, 0)
  <1> DEFINE c == L.claimable[r][x]
             H == [L.held EXCEPT ![r] = @ - c]
             W == [L.wallet EXCEPT ![r][x] = @ + c]
             Q == [L.claimable EXCEPT ![r][x] = 0]
             M == [L EXCEPT !.held = H, !.wallet = W, !.claimable = Q]
  <1>1. c \in Nat /\ -c \in Int /\ L.held[r] >= c
    BY LedgerParts
  <1>2. /\ H \in [Rails -> Nat] /\ W \in [Rails -> [Accounts -> Nat]]
        /\ Q \in [Rails -> [Accounts -> Nat]]
    BY <1>1, LedgerParts
  <1>3. PullClaim(L, r, x) = M
    BY DEF PullClaim, PayOut, Ledger
  <1>4. M \in Ledger
    BY <1>2, LedgerParts DEF Ledger
  <1>5. Touches(L, M, r, x, c, -c)
    <2>1. /\ M.held = H /\ M.wallet = W /\ M.claimable = Q
          /\ M.accrued = L.accrued /\ M.float = L.float
      BY DEF Ledger
    <2> HIDE DEF M
    <2> QED
      BY <1>1, <1>4, <2>1, LedgerParts DEF Touches
  <1>6. Credits(L, M, r, x, c + (-c))
    <2> HIDE DEF M, c
    <2> QED
      BY <1>1, <1>5, TouchesCredits
  <1> QED
    BY <1>1, <1>3, <1>6
-----------------------------------------------------------------------------
(* The royalty snapshot.                                                     *)

\* An entry of a royalty snapshot.
Royalty == [collector : Accounts, bps : 0..MAX_BPS]

LEMMA RoyaltyType ==
    ASSUME NEW f \in [feeCollector : Accounts, numerator : Nat, denominator : Nat],
           f.denominator > 0
    PROVE  [collector |-> f.feeCollector,
            bps |-> LesserOf(MAX_BPS, (f.numerator * MAX_BPS) \div f.denominator)]
               \in Royalty
  <1>1. f.numerator * MAX_BPS \in Nat /\ f.denominator \in Nat \ {0}
    BY DEF MAX_BPS
  <1>2. (f.numerator * MAX_BPS) \div f.denominator \in Nat
    BY <1>1
  <1>3. LesserOf(MAX_BPS, (f.numerator * MAX_BPS) \div f.denominator) \in 0..MAX_BPS
    <2>1. \A q \in Nat : LesserOf(MAX_BPS, q) \in 0..MAX_BPS
      BY DEF LesserOf, MAX_BPS
    <2> QED
      BY <1>2, <2>1
  <1> QED
    BY <1>3 DEF Royalty

LEMMA RoyaltyEntriesType ==
    ASSUME NEW t \in Tokens
    PROVE  RoyaltyEntries(t) \in Seq(Royalty)
  <1> DEFINE fees == RoyaltyFees[t]
             n == Len(fees)
             T == Seq(Royalty)
             entry(k) == [collector |-> fees[k].feeCollector,
                          bps |-> LesserOf(MAX_BPS, (fees[k].numerator * MAX_BPS)
                                                        \div fees[k].denominator)]
             Step(s, k) == IF fees[k].numerator > 0 /\ fees[k].denominator > 0
                           THEN Append(s, entry(k)) ELSE s
             G == [p \in T \X (1..n) |-> Step(p[1], p[2])]
             Eq(f) == f = [k \in 0..n |-> IF k = 0 THEN << >> ELSE Step(f[k-1], k)]
             Sol == CHOOSE f : Eq(f)
  <1>1. RoyaltyEntries(t) = Sol[n]
    BY Zenon DEF RoyaltyEntries
  <1>2. /\ n \in Nat
        /\ \A k \in 1..n :
               fees[k] \in [feeCollector : Accounts, numerator : Nat, denominator : Nat]
    <2> DEFINE Fee == [feeCollector : Accounts, numerator : Nat, denominator : Nat]
    <2>1. fees \in Seq(Fee)
      BY ContractAssumption
    <2>2. Len(fees) \in Nat /\ \A k \in 1..Len(fees) : fees[k] \in Fee
      <3> HIDE DEF fees, Fee
      <3> QED
        BY <2>1
    <2> QED
      BY <2>2
  <1>3. \A s \in T, k \in 1..n : Step(s, k) \in T
    <2> SUFFICES ASSUME NEW s \in T, NEW k \in 1..n,
                        fees[k].numerator > 0, fees[k].denominator > 0
                 PROVE  Append(s, entry(k)) \in T
      OBVIOUS
    <2>1. entry(k) \in Royalty
      <3> HIDE DEF fees, n
      <3> QED
        BY <1>2, RoyaltyType
    <2> HIDE DEF entry
    <2> QED
      BY <2>1
  <1>4. StepsOn(G, T, n)
    <2> HIDE DEF T, n, Step
    <2> QED
      BY <1>3 DEF StepsOn
  <1>5. PICK w : Follows(w, G, T, n, << >>)
    <2> DEFINE empty == << >>
    <2>1. empty \in T
      OBVIOUS
    <2>2. n \in Nat
      BY <1>2
    <2> HIDE DEF T, n, G, empty
    <2>3. \E f : Follows(f, G, T, n, empty)
      BY <1>4, <2>1, <2>2, RecursionExists
    <2> QED
      BY <2>3 DEF empty
  <1>6. Eq(w)
    <2> HIDE DEF T, n, Step
    <2>1. \A k \in 1..n : w[k-1] \in T
      BY <1>2, <1>5 DEF Follows
    <2>2. \A k \in 1..n : w[k] = Step(w[k-1], k)
      BY <1>5, <2>1 DEF Follows
    <2> QED
      BY <1>2, <1>5, <2>2 DEF Follows
  <1>7. Eq(Sol)
    <2> HIDE DEF Eq
    <2> QED
      BY <1>6
  <1>8. Sol[0] = << >> /\ \A k \in 1..n : Sol[k] = Step(Sol[k-1], k)
    <2> HIDE DEF Sol, n, Step
    <2> QED
      BY <1>2, <1>7
  <1>9. Sol[n] \in T
    <2>1. << >> \in T
      OBVIOUS
    <2> HIDE DEF Sol, n, Step, T
    <2>2. \A k \in 1..n : Sol[k-1] \in T => Sol[k] \in T
      BY <1>3, <1>8
    <2>3. \A k \in 0..n : Sol[k] \in T
      BY <1>2, <1>8, <2>1, <2>2, InductionUpTo
    <2> QED
      BY <1>2, <2>3
  <1> QED
    BY <1>1, <1>9

LEMMA RoyaltySnapshotType ==
    ASSUME NEW nfts \in Seq(NFTs)
    PROVE  RoyaltySnapshot(nfts) \in Seq(Royalty)
  <1> DEFINE n == Len(nfts)
             T == Seq(Royalty)
             Step(s, k) == IF \E j \in 1..k-1 : TokenOf[nfts[j]] = TokenOf[nfts[k]]
                           THEN s ELSE s \o RoyaltyEntries(TokenOf[nfts[k]])
             G == [p \in T \X (1..n) |-> Step(p[1], p[2])]
             Eq(f) == f = [k \in 0..n |-> IF k = 0 THEN << >> ELSE Step(f[k-1], k)]
             Sol == CHOOSE f : Eq(f)
  <1>1. RoyaltySnapshot(nfts) = Sol[n]
    BY Zenon DEF RoyaltySnapshot
  <1>2. n \in Nat /\ \A k \in 1..n : TokenOf[nfts[k]] \in Tokens
    BY ContractAssumption
  <1>3. \A s \in T, k \in 1..n : Step(s, k) \in T
    <2> SUFFICES ASSUME NEW s \in T, NEW k \in 1..n
                 PROVE  s \o RoyaltyEntries(TokenOf[nfts[k]]) \in T
      OBVIOUS
    <2>1. RoyaltyEntries(TokenOf[nfts[k]]) \in T
      BY <1>2, RoyaltyEntriesType
    <2> QED
      BY <2>1
  <1>4. StepsOn(G, T, n)
    <2> HIDE DEF T, n, Step
    <2> QED
      BY <1>3 DEF StepsOn
  <1>5. PICK w : Follows(w, G, T, n, << >>)
    <2> DEFINE empty == << >>
    <2>1. empty \in T
      OBVIOUS
    <2>2. n \in Nat
      BY <1>2
    <2> HIDE DEF T, n, G, empty
    <2>3. \E f : Follows(f, G, T, n, empty)
      BY <1>4, <2>1, <2>2, RecursionExists
    <2> QED
      BY <2>3 DEF empty
  <1>6. Eq(w)
    <2> HIDE DEF T, n, Step
    <2>1. \A k \in 1..n : w[k-1] \in T
      BY <1>2, <1>5 DEF Follows
    <2>2. \A k \in 1..n : w[k] = Step(w[k-1], k)
      BY <1>5, <2>1 DEF Follows
    <2> QED
      BY <1>2, <1>5, <2>2 DEF Follows
  <1>7. Eq(Sol)
    <2> HIDE DEF Eq
    <2> QED
      BY <1>6
  <1>8. Sol[0] = << >> /\ \A k \in 1..n : Sol[k] = Step(Sol[k-1], k)
    <2> HIDE DEF Sol, n, Step
    <2> QED
      BY <1>2, <1>7
  <1>9. Sol[n] \in T
    <2>1. << >> \in T
      OBVIOUS
    <2> HIDE DEF Sol, n, Step, T
    <2>2. \A k \in 1..n : Sol[k-1] \in T => Sol[k] \in T
      BY <1>3, <1>8
    <2>3. \A k \in 0..n : Sol[k] \in T
      BY <1>2, <1>8, <2>1, <2>2, InductionUpTo
    <2> QED
      BY <1>2, <2>3
  <1> QED
    BY <1>1, <1>9

-----------------------------------------------------------------------------
(* Payments of a settlement.                                                 *)

\* The contract hands out a units on rail r, and nobody loses.
Pays(L, M, r, a) ==
    /\ M \in Ledger
    /\ M.accrued = L.accrued
    /\ M.float = L.float
    /\ \A s \in Rails : Net(M, s) = Net(L, s) - (IF s = r THEN a ELSE 0)
    /\ \A s \in Rails, y \in Accounts : Own(M, s, y) >= Own(L, s, y)

LEMMA PaysNothing ==
    ASSUME NEW L \in Ledger, NEW r \in Rails
    PROVE  Pays(L, L, r, 0)
  BY NetType, OwnType DEF Pays

LEMMA CreditsPays ==
    ASSUME NEW L \in Ledger, NEW M, NEW r \in Rails, NEW x \in Accounts,
           NEW a \in Nat, Credits(L, M, r, x, a)
    PROVE  Pays(L, M, r, a)
  BY OwnType DEF Pays, Credits

LEMMA PaysAndCredits ==
    ASSUME NEW L \in Ledger, NEW M, NEW N, NEW r \in Rails, NEW x \in Accounts,
           NEW a \in Int, NEW b \in Nat, Pays(L, M, r, a), Credits(M, N, r, x, b)
    PROVE  Pays(L, N, r, a + b)
  <1>1. M \in Ledger /\ N \in Ledger
    BY DEF Pays, Credits
  <1>2. N.accrued = L.accrued /\ N.float = L.float
    BY DEF Pays, Credits
  <1>3. ASSUME NEW s \in Rails
        PROVE  Net(N, s) = Net(L, s) - (IF s = r THEN a + b ELSE 0)
    <2>1. /\ Net(L, s) \in Int /\ Net(M, s) \in Int
          /\ Net(M, s) = Net(L, s) - (IF s = r THEN a ELSE 0)
          /\ Net(N, s) = Net(M, s) - (IF s = r THEN b ELSE 0)
      BY <1>1, NetType DEF Pays, Credits
    <2> QED
      BY <2>1
  <1>4. ASSUME NEW s \in Rails, NEW y \in Accounts
        PROVE  Own(N, s, y) >= Own(L, s, y)
    <2>1. /\ Own(L, s, y) \in Nat /\ Own(M, s, y) \in Nat
          /\ Own(M, s, y) >= Own(L, s, y)
          /\ Own(N, s, y) = Own(M, s, y) + (IF s = r /\ y = x THEN b ELSE 0)
      BY <1>1, OwnType DEF Pays, Credits
    <2> QED
      BY <2>1
  <1> QED
    BY <1>1, <1>2, <1>3, <1>4 DEF Pays

\* The bounds of a share in basis points.
LEMMA BpsBounds ==
    ASSUME NEW price \in Nat, NEW bps \in Nat
    PROVE  /\ Bps(price, bps) \in Nat
           /\ bps <= 1000 => 10 * Bps(price, bps) <= price
           /\ bps <= 500 => 20 * Bps(price, bps) <= price
  <1>1. price * bps \in Nat
    OBVIOUS
  <1>2. \A m \in Nat : m \div 10000 \in Nat /\ 10000 * (m \div 10000) <= m
    OBVIOUS
  <1>3. Bps(price, bps) \in Nat /\ 10000 * Bps(price, bps) <= price * bps
    BY <1>1, <1>2 DEF Bps, MAX_BPS
  <1>4. ASSUME NEW c \in Nat, bps <= c PROVE price * bps <= price * c
    BY <1>4
  <1>5. bps <= 1000 => price * bps <= price * 1000
    BY <1>4
  <1>6. bps <= 500 => price * bps <= price * 500
    BY <1>4
  <1> QED
    BY <1>1, <1>3, <1>5, <1>6

\* The royalty loop hands out what leaves the pool.
LEMMA PayRoyaltiesPays ==
    ASSUME NEW L \in Ledger, NEW r \in Rails, NEW royalties \in Seq(Royalty),
           NEW price \in Nat, NEW pool \in Nat, NEW refusing
    PROVE  LET paid == PayRoyalties(L, r, royalties, price, pool, refusing)
           IN  paid.left \in Nat /\ Pays(L, paid.ledger, r, pool - paid.left)
  <1> DEFINE n == Len(royalties)
             T == {st \in [ledger : Ledger, left : Nat] :
                      Pays(L, st.ledger, r, pool - st.left)}
             start == [ledger |-> L, left |-> pool]
             amount(st, k) == LesserOf(Bps(price, royalties[k].bps), st.left)
             Step(st, k) == [ledger |-> PayOrQueue(st.ledger, r, royalties[k].collector,
                                                   amount(st, k), refusing),
                             left   |-> st.left - amount(st, k)]
             G == [p \in T \X (1..n) |-> Step(p[1], p[2])]
             Eq(f) == f = [k \in 0..n |-> IF k = 0 THEN start ELSE Step(f[k-1], k)]
             Sol == CHOOSE f : Eq(f)
  <1>1. PayRoyalties(L, r, royalties, price, pool, refusing) = Sol[n]
    BY Zenon DEF PayRoyalties
  <1>2. /\ n \in Nat
        /\ \A k \in 1..n : royalties[k].collector \in Accounts /\ royalties[k].bps \in Nat
    <2>1. n \in Nat /\ \A k \in 1..n : royalties[k] \in Royalty
      OBVIOUS
    <2> HIDE DEF n
    <2> QED
      BY <2>1 DEF Royalty
  <1>3. start \in T
    <2>1. start \in [ledger : Ledger, left : Nat] /\ start.ledger = L /\ start.left = pool
      OBVIOUS
    <2>2. Pays(L, L, r, pool - pool)
      BY PaysNothing
    <2> HIDE DEF start
    <2> QED
      BY <2>1, <2>2
  <1>4. ASSUME NEW st \in T, NEW k \in 1..n PROVE Step(st, k) \in T
    <2>1. st.ledger \in Ledger /\ st.left \in Nat /\ Pays(L, st.ledger, r, pool - st.left)
      OBVIOUS
    <2>2. amount(st, k) \in Nat /\ st.left - amount(st, k) \in Nat
      <3>1. Bps(price, royalties[k].bps) \in Nat
        BY <1>2, BpsBounds
      <3> QED
        BY <2>1, <3>1 DEF LesserOf
    <2> DEFINE a == amount(st, k)
               M == PayOrQueue(st.ledger, r, royalties[k].collector, a, refusing)
    <2>3. Credits(st.ledger, M, r, royalties[k].collector, a)
      <3> HIDE DEF amount
      <3> QED
        BY <1>2, <2>1, <2>2, PayOrQueueCredits
    <2>4. Pays(L, M, r, (pool - st.left) + a)
      <3>1. pool - st.left \in Int
        BY <2>1
      <3> HIDE DEF M, a, T, n
      <3>2. a \in Nat
        BY <2>2 DEF a
      <3> QED
        BY <1>2, <2>1, <2>3, <3>1, <3>2, PaysAndCredits
    <2>5. (pool - st.left) + a = pool - (st.left - a)
      BY <2>1, <2>2
    <2>6. M \in Ledger
      BY <2>3 DEF Credits
    <2>7. Step(st, k) = [ledger |-> M, left |-> st.left - a]
      OBVIOUS
    <2> HIDE DEF M, Step, amount
    <2> QED
      BY <2>2, <2>4, <2>5, <2>6, <2>7
  <1>5. StepsOn(G, T, n)
    <2> HIDE DEF T, n, Step
    <2> QED
      BY <1>4 DEF StepsOn
  <1>6. PICK w : Follows(w, G, T, n, start)
    <2>1. n \in Nat
      BY <1>2
    <2> HIDE DEF T, n, G, start
    <2> QED
      BY <1>3, <1>5, <2>1, RecursionExists
  <1>7. Eq(w)
    <2> HIDE DEF T, n, Step, start
    <2>1. \A k \in 1..n : w[k-1] \in T
      BY <1>2, <1>6 DEF Follows
    <2>2. \A k \in 1..n : w[k] = Step(w[k-1], k)
      BY <1>6, <2>1 DEF Follows
    <2> QED
      BY <1>2, <1>6, <2>2 DEF Follows
  <1>8. Eq(Sol)
    <2> HIDE DEF Eq
    <2> QED
      BY <1>7
  <1>9. Sol[0] = start /\ \A k \in 1..n : Sol[k] = Step(Sol[k-1], k)
    <2> HIDE DEF Sol, n, Step, start
    <2> QED
      BY <1>2, <1>8
  <1>10. Sol[n] \in T
    <2> HIDE DEF Sol, n, Step, T, start
    <2>1. \A k \in 1..n : Sol[k-1] \in T => Sol[k] \in T
      BY <1>4, <1>9
    <2>2. \A k \in 0..n : Sol[k] \in T
      BY <1>2, <1>3, <1>9, <2>1, InductionUpTo
    <2> QED
      BY <1>2, <2>2
  <1> QED
    <2> HIDE DEF Sol, n
    <2> QED
      BY <1>1, <1>10

LEMMA ConfigParts ==
    ASSUME config \in Config
    PROVE  /\ config.protocolFeeBps \in Nat /\ config.protocolFeeBps <= 1000
           /\ config.settlementBountyBps \in Nat /\ config.settlementBountyBps <= 500
  BY DEF Config, MAX_PROTOCOL_FEE_BPS, MAX_BOUNTY_BPS

LEMMA DefaultParts ==
    ASSUME config \in Config
    PROVE  /\ config.defaultMinStepBps \in Nat
           /\ config.defaultAntiSnipeWindow \in Nat
           /\ config.defaultAntiSnipeExtension \in Nat
           /\ config.maxExtensionWindow \in Nat
  <1>1. config.defaultMinStepBps \in 0..MAX_BPS
    BY DEF Config
  <1>2. config.defaultAntiSnipeWindow \in Nat
    BY DEF Config
  <1>3. config.defaultAntiSnipeExtension \in Nat
    BY DEF Config
  <1>4. config.maxExtensionWindow \in Nat
    BY DEF Config
  <1>5. 0..MAX_BPS \subseteq Nat
    OBVIOUS
  <1> QED
    BY <1>1, <1>2, <1>3, <1>4, <1>5

\* The fee of every tier is at most a tenth of the price.
LEMMA ProtocolFeeBounds ==
    ASSUME config \in Config, NEW price \in Nat, NEW tier \in 0..3
    PROVE  ProtocolFee(price, tier) \in Nat /\ 10 * ProtocolFee(price, tier) <= price
  <1> DEFINE c == config.protocolFeeBps
  <1>1. c \in Nat /\ c <= 1000
    BY ConfigParts
  <1>2. /\ (c * 25) \div 100 \in Nat /\ (c * 25) \div 100 <= 1000
        /\ (c * 50) \div 100 \in Nat /\ (c * 50) \div 100 <= 1000
    <2> HIDE DEF c
    <2> QED
      BY <1>1
  <1>3. \A bps \in Nat : bps <= 1000 => Bps(price, bps) \in Nat /\ 10 * Bps(price, bps) <= price
    BY BpsBounds
  <1>4. CASE tier = 3
    BY <1>4 DEF ProtocolFee
  <1>5. CASE tier = 2
    <2>1. ProtocolFee(price, tier) = Bps(price, (c * 25) \div 100)
      BY <1>5 DEF ProtocolFee
    <2> QED
      BY <1>2, <1>3, <2>1
  <1>6. CASE tier = 1
    <2>1. ProtocolFee(price, tier) = Bps(price, (c * 50) \div 100)
      BY <1>6 DEF ProtocolFee
    <2> QED
      BY <1>2, <1>3, <2>1
  <1>7. CASE tier = 0
    <2>1. ProtocolFee(price, tier) = Bps(price, c)
      BY <1>7 DEF ProtocolFee
    <2> QED
      BY <1>1, <1>3, <2>1
  <1> QED
    BY <1>4, <1>5, <1>6, <1>7

\* The fee stays in the balance, as the owner's.
Accrues(L, M, r, fee) ==
    /\ M \in Ledger
    /\ M.float = L.float
    /\ \A s \in Rails : /\ M.accrued[s] = L.accrued[s] + (IF s = r THEN fee ELSE 0)
                        /\ Net(M, s) = Net(L, s)
    /\ \A s \in Rails, y \in Accounts : Own(M, s, y) = Own(L, s, y)

LEMMA AccrueFeeAccrues ==
    ASSUME NEW L \in Ledger, NEW r \in Rails, NEW fee \in Nat
    PROVE  Accrues(L, AccrueFee(L, r, fee), r, fee)
  <1> DEFINE A == [L.accrued EXCEPT ![r] = @ + fee]
             M == [L EXCEPT !.accrued = A]
  <1>1. A \in [Rails -> Nat] /\ AccrueFee(L, r, fee) = M
    BY DEF AccrueFee, Ledger
  <1>2. /\ M \in Ledger /\ M.float = L.float /\ M.held = L.held
        /\ M.wallet = L.wallet /\ M.claimable = L.claimable /\ M.accrued = A
    BY <1>1 DEF Ledger
  <1>3. \A s \in Rails : A[s] = L.accrued[s] + (IF s = r THEN fee ELSE 0)
    BY LedgerParts
  <1> HIDE DEF M, A
  <1> QED
    BY <1>1, <1>2, <1>3 DEF Accrues, Net, Own, Queued

\* A sale at the price: a fee of at most a tenth of it stays, the rest goes
\* out, and nobody loses.
Sells(L, M, r, price) ==
    \E fee \in Nat :
        /\ 10 * fee <= price
        /\ M \in Ledger
        /\ M.float = L.float
        /\ \A s \in Rails :
               /\ M.accrued[s] = L.accrued[s] + (IF s = r THEN fee ELSE 0)
               /\ Net(M, s) = Net(L, s) - (IF s = r THEN price - fee ELSE 0)
        /\ \A s \in Rails, y \in Accounts : Own(M, s, y) >= Own(L, s, y)

LEMMA PaySaleSells ==
    ASSUME NEW L \in Ledger, NEW id \in AuctionIds, NEW price \in Nat,
           NEW settler \in Accounts, NEW refusing, config \in Config,
           terms[id].payment \in Rails, terms[id].sellerTier \in 0..3,
           terms[id].royalties \in Seq(Royalty)
    PROVE  Sells(L, PaySale(L, id, price, settler, refusing), terms[id].payment, price)
  <1> DEFINE r      == terms[id].payment
             fee    == ProtocolFee(price, terms[id].sellerTier)
             bounty == Bps(price, config.settlementBountyBps)
             pool   == price - fee - bounty
             paid   == PayRoyalties(L, r, terms[id].royalties, price, pool, refusing)
             M1     == AccrueFee(paid.ledger, r, fee)
             M2     == PayOrQueue(M1, r, Seller(id), paid.left, refusing)
             M3     == QueueRefund(M2, r, settler, bounty)
  <1>1. PaySale(L, id, price, settler, refusing) = M3
    BY DEF PaySale
  <1>2. fee \in Nat /\ 10 * fee <= price
    BY ProtocolFeeBounds
  <1>3. bounty \in Nat /\ 20 * bounty <= price
    BY ConfigParts, BpsBounds
  <1>4. pool \in Nat
    <2> HIDE DEF fee, bounty
    <2> QED
      BY <1>2, <1>3
  <1>5. paid.left \in Nat /\ Pays(L, paid.ledger, r, pool - paid.left)
    <2> HIDE DEF pool
    <2> QED
      BY <1>4, PayRoyaltiesPays
  <1> HIDE DEF fee, bounty, paid, r
  <1>6. r \in Rails /\ Seller(id) \in Accounts /\ paid.ledger \in Ledger
    BY <1>5, IdParts DEF r, Pays
  <1>7. Accrues(paid.ledger, M1, r, fee)
    BY <1>2, <1>6, AccrueFeeAccrues
  <1>8. Pays(M1, M2, r, paid.left)
    <2>1. Credits(M1, M2, r, Seller(id), paid.left)
      BY <1>5, <1>6, <1>7, PayOrQueueCredits DEF Accrues
    <2> HIDE DEF M1, M2
    <2> QED
      BY <1>5, <1>6, <1>7, <2>1, CreditsPays DEF Accrues
  <1>9. Pays(M1, M3, r, paid.left + bounty)
    <2>1. M2 \in Ledger
      BY <1>8 DEF Pays
    <2>2. Credits(M2, M3, r, settler, bounty)
      BY <1>3, <1>6, <2>1, QueueRefundCredits
    <2> HIDE DEF M1, M2, M3
    <2> QED
      BY <1>3, <1>5, <1>6, <1>7, <1>8, <2>2, PaysAndCredits DEF Accrues
  <1>10. M3 \in Ledger /\ M3.float = L.float
    BY <1>5, <1>7, <1>9 DEF Pays, Accrues
  <1>11. ASSUME NEW s \in Rails
         PROVE  /\ M3.accrued[s] = L.accrued[s] + (IF s = r THEN fee ELSE 0)
                /\ Net(M3, s) = Net(L, s) - (IF s = r THEN price - fee ELSE 0)
    <2> HIDE DEF M1, M2, M3
    <2>1. M3.accrued[s] = L.accrued[s] + (IF s = r THEN fee ELSE 0)
      BY <1>5, <1>7, <1>9 DEF Pays, Accrues
    <2>2. /\ Net(paid.ledger, s) = Net(L, s) - (IF s = r THEN pool - paid.left ELSE 0)
          /\ Net(M1, s) = Net(paid.ledger, s)
          /\ Net(M3, s) = Net(M1, s) - (IF s = r THEN paid.left + bounty ELSE 0)
      BY <1>5, <1>7, <1>9 DEF Pays, Accrues
    <2>3. Net(L, s) \in Int
      BY NetType
    <2> QED
      BY <1>2, <1>3, <1>5, <2>1, <2>2, <2>3
  <1>12. ASSUME NEW s \in Rails, NEW y \in Accounts
         PROVE  Own(M3, s, y) >= Own(L, s, y)
    <2> HIDE DEF M1, M2, M3
    <2>1. /\ Own(paid.ledger, s, y) >= Own(L, s, y)
          /\ Own(M1, s, y) = Own(paid.ledger, s, y)
          /\ Own(M3, s, y) >= Own(M1, s, y)
      BY <1>5, <1>7, <1>9 DEF Pays, Accrues
    <2>2. Own(L, s, y) \in Nat /\ Own(M1, s, y) \in Nat /\ Own(M3, s, y) \in Nat
      BY <1>7, <1>10, OwnType DEF Accrues
    <2> QED
      BY <2>1, <2>2
  <1>13. Sells(L, M3, r, price)
    <2> HIDE DEF M3
    <2> QED
      BY <1>2, <1>10, <1>11, <1>12 DEF Sells
  <1> QED
    BY <1>1, <1>13 DEF r

-----------------------------------------------------------------------------
(* Sums over the auctions.                                                   *)

\* The terms and the sum of f over one seller's auctions.
RowTerms(f, x) == [n \in 1..MaxNonce |-> f[<<x, n-1>>]]
Row(f) == [x \in Accounts |-> SumSeq(RowTerms(f, x))]

LEMMA RowTermsType ==
    ASSUME NEW f \in [AuctionIds -> Int], NEW x \in Accounts
    PROVE  RowTerms(f, x) \in Seq(Int) /\ Len(RowTerms(f, x)) = MaxNonce
  <1>1. MaxNonce \in Nat
    BY InputAssumption
  <1>2. \A n \in 1..MaxNonce : <<x, n-1>> \in AuctionIds
    BY <1>1 DEF AuctionIds
  <1>3. \A n \in 1..MaxNonce : f[<<x, n-1>>] \in Int
    BY <1>2
  <1> QED
    BY <1>1, <1>3 DEF RowTerms

LEMMA RowType ==
    ASSUME NEW f \in [AuctionIds -> Int]
    PROVE  Row(f) \in [Accounts -> Int]
  BY RowTermsType, SumSeqType DEF Row

LEMMA OverIdsIsSum ==
    ASSUME NEW f
    PROVE  OverIds(f) = SumOver(Row(f), AccountSeq)
  BY DEF OverIds, Row, RowTerms

LEMMA OverIdsType ==
    ASSUME NEW f \in [AuctionIds -> Int]
    PROVE  OverIds(f) \in Int
  BY RowType, OverIdsIsSum, AccountsListed, SumOverType DEF ListsOnce

LEMMA OverIdsUpdate ==
    ASSUME NEW f \in [AuctionIds -> Int], NEW g \in [AuctionIds -> Int],
           NEW id \in AuctionIds, \A i \in AuctionIds : i # id => g[i] = f[i]
    PROVE  OverIds(g) = OverIds(f) + (g[id] - f[id])
  <1> DEFINE x == Seller(id)
             m == id[2] + 1
  <1>1. MaxNonce \in Nat /\ x \in Accounts /\ m \in 1..MaxNonce /\ id = <<x, m-1>>
    BY IdParts, InputAssumption
  <1> HIDE DEF x, m
  <1>2. \A y \in Accounts, n \in 1..MaxNonce :
            /\ <<y, n-1>> \in AuctionIds
            /\ <<y, n-1>> = id => y = x /\ n = m
    BY <1>1 DEF AuctionIds
  <1>3. ASSUME NEW y \in Accounts, y # x PROVE Row(g)[y] = Row(f)[y]
    <2>1. \A n \in 1..MaxNonce : g[<<y, n-1>>] = f[<<y, n-1>>]
      BY <1>2, <1>3
    <2>2. RowTerms(g, y) = RowTerms(f, y)
      BY <2>1 DEF RowTerms
    <2> QED
      BY <2>2 DEF Row
  <1>4. Row(g)[x] = Row(f)[x] + (g[id] - f[id])
    <2> DEFINE s == RowTerms(f, x)
               t == RowTerms(g, x)
    <2>1. /\ s \in Seq(Int) /\ t \in Seq(Int)
          /\ Len(s) = MaxNonce /\ Len(t) = MaxNonce
      BY <1>1, RowTermsType
    <2>2. \A n \in 1..MaxNonce : n # m => t[n] = s[n]
      BY <1>1, <1>2 DEF RowTerms
    <2>3. s[m] = f[id] /\ t[m] = g[id]
      BY <1>1 DEF RowTerms
    <2>4. SumSeq(t) = SumSeq(s) + (t[m] - s[m])
      <3> HIDE DEF s, t
      <3> QED
        BY <1>1, <2>1, <2>2, SumSeqUpdate
    <2> QED
      BY SMTT(20), <1>1, <2>3, <2>4 DEF Row
  <1>5. SumOver(Row(g), AccountSeq) = SumOver(Row(f), AccountSeq) + (Row(g)[x] - Row(f)[x])
    BY <1>1, <1>3, RowType, AccountsListed, SumOverUpdate
  <1>6. /\ Row(f)[x] \in Int /\ f[id] \in Int /\ g[id] \in Int
        /\ SumOver(Row(f), AccountSeq) \in Int
    BY <1>1, RowType, AccountsListed, SumOverType DEF ListsOnce
  <1> QED
    BY <1>4, <1>5, <1>6, OverIdsIsSum

LEMMA OverIdsOfZeros ==
    ASSUME NEW f \in [AuctionIds -> Int], \A i \in AuctionIds : f[i] = 0
    PROVE  OverIds(f) = 0
  <1>1. ASSUME NEW x \in Accounts PROVE Row(f)[x] = 0
    <2>1. RowTerms(f, x) \in Seq(Int) /\ Len(RowTerms(f, x)) = MaxNonce /\ MaxNonce \in Nat
      BY RowTermsType, InputAssumption
    <2>2. \A n \in 1..MaxNonce : RowTerms(f, x)[n] = 0
      <3>1. \A n \in 1..MaxNonce : <<x, n-1>> \in AuctionIds
        BY <2>1 DEF AuctionIds
      <3> QED
        BY <3>1 DEF RowTerms
    <2> QED
      BY <2>1, <2>2, SumSeqOfZeros DEF Row
  <1> QED
    BY <1>1, RowType, OverIdsIsSum, AccountsListed, SumOverOfZeros DEF ListsOnce

\* A sum with one term that can differ from 0 is that term.
LEMMA OverIdsOfOne ==
    ASSUME NEW f \in [AuctionIds -> Int], NEW id \in AuctionIds,
           \A i \in AuctionIds : i # id => f[i] = 0
    PROVE  OverIds(f) = f[id]
  <1> DEFINE zero == [i \in AuctionIds |-> 0]
  <1>1. zero \in [AuctionIds -> Int] /\ OverIds(zero) = 0
    <2>1. zero \in [AuctionIds -> Int] /\ \A i \in AuctionIds : zero[i] = 0
      OBVIOUS
    <2> HIDE DEF zero
    <2> QED
      BY <2>1, OverIdsOfZeros
  <1>2. OverIds(f) = OverIds(zero) + (f[id] - 0)
    <2>1. zero[id] = 0 /\ \A i \in AuctionIds : i # id => f[i] = zero[i]
      OBVIOUS
    <2> HIDE DEF zero
    <2> QED
      BY <1>1, <2>1, OverIdsUpdate
  <1> QED
    BY <1>1, <1>2

-----------------------------------------------------------------------------
(* What a step does to the money of one auction.                             *)

MoneyType == ledger \in Ledger /\ terms \in [AuctionIds -> Terms]

LEMMA TermsParts ==
    ASSUME MoneyType, NEW id \in AuctionIds
    PROVE  /\ terms[id].payment \in Rails
           /\ terms[id].lazy \in Nat
           /\ terms[id].sellerTier \in 0..3
           /\ terms[id].royalties \in Seq(Royalty)
           /\ terms[id].nfts \in Seq(NFTs)
           /\ Hops(id) \in Nat
  <1>1. terms[id] \in Terms
    BY DEF MoneyType
  <1>2. terms[id].nfts \in Seq(NFTs)
    BY <1>1 DEF Terms
  <1>3. terms[id].royalties \in Seq(Royalty)
    BY <1>1 DEF Terms, Royalties, Royalty
  <1>4. Hops(id) \in Nat
    BY <1>2 DEF Hops, CUSTODY_HOP_TINYBAR
  <1> QED
    BY <1>1, <1>2, <1>3, <1>4 DEF Terms

\* What the books say the contract keeps for auction id on rail r, and what it
\* has left when its queues, its fees and its float are set aside.
Booked(id, r) == StandingOn(id, r) + EscrowOn(id, r)
Surplus(L, r) == Net(L, r) - L.accrued[r] - L.float[r]

LEMMA BookedType ==
    ASSUME MoneyType, IInv, NEW id \in AuctionIds, NEW r \in Rails
    PROVE  StandingOn(id, r) \in Nat /\ EscrowOn(id, r) \in Int /\ Booked(id, r) \in Int
  <1>1. StandingOn(id, r) \in Nat
    BY DEF StandingOn, IInv, RecordTypeOK
  <1>2. EscrowOn(id, r) \in Int
    BY TermsParts DEF EscrowOn
  <1> QED
    BY <1>1, <1>2 DEF Booked

LEMMA SurplusType ==
    ASSUME NEW L \in Ledger, NEW r \in Rails
    PROVE  Surplus(L, r) \in Int
  BY NetType, LedgerParts DEF Surplus

\* The records of the other auctions.
OthersSame(id) ==
    \A i \in AuctionIds : i # id =>
        UNCHANGED <<state[i], terms[i], highBid[i], highBidder[i]>>

\* A fee is kept only from a sale, and is at most a tenth of its price.
FeeFrom(id, r) ==
    /\ state[id] = "Open" /\ state'[id] = "Settled"
    /\ highBidder'[id] # Seller(id) /\ terms[id].payment = r
    /\ 10 * (ledger'.accrued[r] - ledger.accrued[r]) <= highBid'[id]

\* The money moves as the record of auction id does.
MoneyFollows(id) ==
    /\ ledger' \in Ledger
    /\ ledger'.float = ledger.float
    /\ \A r \in Rails : Surplus(ledger', r) - Surplus(ledger, r) = Booked(id, r)' - Booked(id, r)
    /\ \A r \in Rails, y \in Accounts :
           Own(ledger', r, y) - Own(ledger, r, y)
               + (Stake(y, r, id)' - Stake(y, r, id) + SaleCost(y, r, id)) >= 0
    /\ \A r \in Rails : ledger'.accrued[r] > ledger.accrued[r] => FeeFrom(id, r)

LEMMA ReleasedLedgerEffect ==
    ASSUME MoneyType, IInv, NEW id \in AuctionIds, NEW x \in Accounts, Live(id),
           CanRelease(id, x)
    PROVE  LET M == ReleasedLedger(ledger, id, x)
           IN  /\ M \in Ledger /\ M.float = ledger.float /\ M.accrued = ledger.accrued
               /\ \A r \in Rails : Net(M, r) = Net(ledger, r) - EscrowOn(id, r)
               /\ \A r \in Rails, y \in Accounts :
                      Own(M, r, y) = Own(ledger, r, y) + (IF y = x THEN EscrowOn(id, r) ELSE 0)
  <1> DEFINE h  == Hops(id)
             z  == terms[id].lazy
             M1 == PayIn(ledger, "HBAR", x, h)
             M2 == PayOut(M1, "LAZY", x, z)
  <1>1. ReleasedLedger(ledger, id, x) = M2
    BY DEF ReleasedLedger, Hops
  <1>2. h \in Nat /\ z \in Nat /\ ledger \in Ledger /\ {"HBAR", "LAZY"} \subseteq Rails
    BY TermsParts DEF MoneyType, Rails
  <1>3. ledger.wallet["HBAR"][x] >= h /\ ledger.held["LAZY"] >= z
    BY DEF CanRelease, Hops
  <1>4. \A r \in Rails : EscrowOn(id, r) = IF r = "LAZY" THEN z ELSE -h
    BY DEF EscrowOn
  <1> HIDE DEF h, z
  <1>5. Credits(ledger, M1, "HBAR", x, -h)
    BY <1>2, <1>3, PayInCredits
  <1>6. M1 \in Ledger /\ M1.held["LAZY"] >= z
    <2>1. M1.held["LAZY"] = ledger.held["LAZY"]
      BY <1>2 DEF PayIn, Ledger, Rails
    <2> QED
      BY <1>3, <1>5, <2>1 DEF Credits
  <1>7. Credits(M1, M2, "LAZY", x, z)
    BY <1>2, <1>6, PayOutCredits
  <1> HIDE DEF M1, M2
  <1>8. M2 \in Ledger /\ M2.float = ledger.float /\ M2.accrued = ledger.accrued
    BY <1>5, <1>7 DEF Credits
  <1>9. ASSUME NEW r \in Rails
        PROVE  Net(M2, r) = Net(ledger, r) - EscrowOn(id, r)
    <2>1. /\ Net(ledger, r) \in Int
          /\ Net(M1, r) = Net(ledger, r) - (IF r = "HBAR" THEN -h ELSE 0)
          /\ Net(M2, r) = Net(M1, r) - (IF r = "LAZY" THEN z ELSE 0)
      BY <1>2, <1>5, <1>7, NetType DEF Credits
    <2>2. r = "HBAR" \/ r = "LAZY"
      BY DEF Rails
    <2> QED
      BY <1>2, <1>4, <2>1, <2>2
  <1>10. ASSUME NEW r \in Rails, NEW y \in Accounts
         PROVE  Own(M2, r, y) = Own(ledger, r, y) + (IF y = x THEN EscrowOn(id, r) ELSE 0)
    <2>1. /\ Own(ledger, r, y) \in Nat
          /\ Own(M1, r, y) = Own(ledger, r, y) + (IF r = "HBAR" /\ y = x THEN -h ELSE 0)
          /\ Own(M2, r, y) = Own(M1, r, y) + (IF r = "LAZY" /\ y = x THEN z ELSE 0)
      BY <1>2, <1>5, <1>7, OwnType DEF Credits
    <2>2. r = "HBAR" \/ r = "LAZY"
      BY DEF Rails
    <2> QED
      BY <1>2, <1>4, <2>1, <2>2
  <1> QED
    BY <1>1, <1>8, <1>9, <1>10

\* Cancelling and claiming give the escrow back to the one it belongs to.
LEMMA ReleaseMoney ==
    ASSUME MoneyType, IInv, NEW id \in AuctionIds, NEW x \in Accounts, Live(id),
           x = Beneficiary(id), state[id] = "Open" => highBidder[id] = NoAccount,
           CanRelease(id, x), DeleteRecord(id), ledger' = ReleasedLedger(ledger, id, x)
    PROVE  MoneyFollows(id) /\ OthersSame(id)
  <1>1. /\ ledger' \in Ledger /\ ledger'.float = ledger.float
        /\ ledger'.accrued = ledger.accrued
        /\ \A r \in Rails : Net(ledger', r) = Net(ledger, r) - EscrowOn(id, r)
        /\ \A r \in Rails, y \in Accounts :
               Own(ledger', r, y) = Own(ledger, r, y) + (IF y = x THEN EscrowOn(id, r) ELSE 0)
    BY ReleasedLedgerEffect
  <1>2. state'[id] = "None" /\ OthersSame(id)
    BY DEF DeleteRecord, OthersSame, IInv, RecordTypeOK
  <1>3. \A r \in Rails : StandingOn(id, r) = 0
    <2>1. state[id] = "Open" => highBid[id] = 0
      BY DEF IInv, StandingBid
    <2> QED
      BY <2>1 DEF StandingOn
  <1>4. \A r \in Rails : StandingOn(id, r)' = 0 /\ EscrowOn(id, r)' = 0
    BY <1>2 DEF StandingOn, EscrowOn, Live
  <1>5. ASSUME NEW r \in Rails
        PROVE  Surplus(ledger', r) - Surplus(ledger, r) = Booked(id, r)' - Booked(id, r)
    <2>1. Net(ledger, r) \in Int /\ EscrowOn(id, r) \in Int
      BY NetType, BookedType DEF MoneyType
    <2>2. ledger.accrued[r] \in Int /\ ledger.float[r] \in Int
      BY LedgerParts DEF MoneyType
    <2> QED
      BY <1>1, <1>3, <1>4, <2>1, <2>2 DEF Surplus, Booked
  <1>6. ASSUME NEW r \in Rails, NEW y \in Accounts
        PROVE  Own(ledger', r, y) - Own(ledger, r, y)
                   + (Stake(y, r, id)' - Stake(y, r, id) + SaleCost(y, r, id)) >= 0
    <2>1. Own(ledger, r, y) \in Nat /\ EscrowOn(id, r) \in Int
      BY OwnType, BookedType DEF MoneyType
    <2>2. Stake(y, r, id)' = 0
      BY <1>4 DEF Stake
    <2>3. Stake(y, r, id) = IF y = x THEN EscrowOn(id, r) ELSE 0
      BY <1>3, <2>1 DEF Stake
    <2>4. SaleCost(y, r, id) = 0
      BY <1>2 DEF SaleCost
    <2> QED
      BY <1>1, <2>1, <2>2, <2>3, <2>4
  <1>7. ASSUME NEW r \in Rails PROVE ~(ledger'.accrued[r] > ledger.accrued[r])
    BY <1>1, LedgerParts DEF MoneyType
  <1> QED
    BY <1>1, <1>2, <1>5, <1>6, <1>7 DEF MoneyFollows

\* A bid comes in, its excess is queued, and so is the bid that it beats.
LEMMA BidLedgerEffect ==
    ASSUME MoneyType, IInv, NEW id \in AuctionIds, NEW bidder \in Accounts,
           state[id] = "Open", NEW amount \in Nat, NEW effective \in Nat,
           effective <= amount, ledger.wallet[terms[id].payment][bidder] >= amount
    PROVE  LET M == BidLedger(bidder, id, amount, effective)
           IN  /\ M \in Ledger /\ M.float = ledger.float /\ M.accrued = ledger.accrued
               /\ \A s \in Rails :
                      Net(M, s) = Net(ledger, s) + (IF s = terms[id].payment
                                                    THEN effective - highBid[id] ELSE 0)
               /\ \A s \in Rails, y \in Accounts :
                      Own(M, s, y) = Own(ledger, s, y)
                          - (IF s = terms[id].payment /\ y = bidder THEN effective ELSE 0)
                          + (IF s = terms[id].payment /\ y = highBidder[id] THEN highBid[id]
                                                                            ELSE 0)
  <1> DEFINE r  == terms[id].payment
             hb == highBid[id]
             x  == highBidder[id]
             M1 == PayIn(ledger, r, bidder, amount)
             M2 == QueueRefund(M1, r, bidder, amount - effective)
             M3 == QueueRefund(M2, r, x, hb)
  <1>1. /\ ledger \in Ledger /\ r \in Rails /\ hb \in Nat
        /\ x \in Accounts \union {NoAccount} /\ NoAccount \notin Accounts
        /\ x = NoAccount => hb = 0
    BY TermsParts, ContractAssumption DEF MoneyType, IInv, RecordTypeOK, StandingBid
  <1>2. BidLedger(bidder, id, amount, effective) = IF x = NoAccount THEN M2 ELSE M3
    BY DEF BidLedger
  <1>3. ledger.wallet[r][bidder] >= amount /\ amount - effective \in Nat
    OBVIOUS
  <1> HIDE DEF r, hb, x
  <1>4. Credits(ledger, M1, r, bidder, -amount)
    BY <1>1, <1>3, PayInCredits
  <1>5. Credits(M1, M2, r, bidder, amount - effective)
    <2>1. M1 \in Ledger
      BY <1>4 DEF Credits
    <2> HIDE DEF M1
    <2> QED
      BY <1>1, <1>3, <2>1, QueueRefundCredits
  <1>6. x # NoAccount => Credits(M2, M3, r, x, hb)
    <2>1. M2 \in Ledger
      BY <1>5 DEF Credits
    <2> HIDE DEF M2
    <2> QED
      BY <1>1, <2>1, QueueRefundCredits
  <1> DEFINE M == IF x = NoAccount THEN M2 ELSE M3
  <1> HIDE DEF M1, M2, M3
  <1>7. M \in Ledger /\ M.float = ledger.float /\ M.accrued = ledger.accrued
    BY <1>4, <1>5, <1>6 DEF Credits
  <1>8. ASSUME NEW s \in Rails
        PROVE  Net(M, s) = Net(ledger, s) + (IF s = r THEN effective - hb ELSE 0)
    <2>1. /\ Net(ledger, s) \in Int
          /\ Net(M1, s) = Net(ledger, s) - (IF s = r THEN -amount ELSE 0)
          /\ Net(M2, s) = Net(M1, s) - (IF s = r THEN amount - effective ELSE 0)
          /\ x # NoAccount => Net(M3, s) = Net(M2, s) - (IF s = r THEN hb ELSE 0)
      BY <1>1, <1>4, <1>5, <1>6, NetType DEF Credits
    <2> QED
      BY <1>1, <2>1
  <1>9. ASSUME NEW s \in Rails, NEW y \in Accounts
        PROVE  Own(M, s, y) = Own(ledger, s, y) - (IF s = r /\ y = bidder THEN effective ELSE 0)
                                 + (IF s = r /\ y = x THEN hb ELSE 0)
    <2>1. /\ Own(ledger, s, y) \in Nat
          /\ Own(M1, s, y) = Own(ledger, s, y) + (IF s = r /\ y = bidder THEN -amount ELSE 0)
          /\ Own(M2, s, y) = Own(M1, s, y)
                                + (IF s = r /\ y = bidder THEN amount - effective ELSE 0)
          /\ x # NoAccount => Own(M3, s, y) = Own(M2, s, y)
                                                 + (IF s = r /\ y = x THEN hb ELSE 0)
      BY <1>1, <1>4, <1>5, <1>6, OwnType DEF Credits
    <2> QED
      BY <1>1, <2>1
  <1> HIDE DEF M
  <1>10. BidLedger(bidder, id, amount, effective) = M
    BY <1>2 DEF M
  <1> QED
    BY <1>7, <1>8, <1>9, <1>10 DEF r, hb, x

\* A bid that stands takes the place of the one before it.
LEMMA StandingBidMoney ==
    ASSUME MoneyType, IInv, NEW id \in AuctionIds, NEW bidder \in Accounts,
           NEW amount \in Nat, AcceptsBid(bidder, id, amount),
           ledger' = BidLedger(bidder, id, amount, amount),
           highBid' = [highBid EXCEPT ![id] = amount],
           highBidder' = [highBidder EXCEPT ![id] = bidder],
           UNCHANGED <<state, terms>>
    PROVE  MoneyFollows(id) /\ OthersSame(id)
  <1> DEFINE r  == terms[id].payment
             hb == highBid[id]
             x  == highBidder[id]
  <1>1. /\ ledger' \in Ledger /\ ledger'.float = ledger.float
        /\ ledger'.accrued = ledger.accrued
        /\ \A s \in Rails :
               Net(ledger', s) = Net(ledger, s) + (IF s = r THEN amount - hb ELSE 0)
        /\ \A s \in Rails, y \in Accounts :
               Own(ledger', s, y) = Own(ledger, s, y)
                          - (IF s = r /\ y = bidder THEN amount ELSE 0)
                          + (IF s = r /\ y = x THEN hb ELSE 0)
    BY BidLedgerEffect DEF AcceptsBid
  <1>2. /\ state[id] = "Open" /\ state' = state /\ terms' = terms
        /\ highBid'[id] = amount /\ highBidder'[id] = bidder
        /\ hb \in Nat
    BY DEF AcceptsBid, IInv, RecordTypeOK
  <1>3. OthersSame(id)
    BY DEF OthersSame, IInv, RecordTypeOK
  <1> HIDE DEF r, hb, x
  <1>4. ASSUME NEW s \in Rails
        PROVE  /\ StandingOn(id, s) = IF s = r THEN hb ELSE 0
               /\ StandingOn(id, s)' = IF s = r THEN amount ELSE 0
               /\ EscrowOn(id, s)' = EscrowOn(id, s)
    BY <1>2 DEF StandingOn, EscrowOn, Live, Hops, r, hb
  <1>5. ASSUME NEW s \in Rails
        PROVE  Surplus(ledger', s) - Surplus(ledger, s) = Booked(id, s)' - Booked(id, s)
    <2>1. Net(ledger, s) \in Int /\ EscrowOn(id, s) \in Int
      BY NetType, BookedType DEF MoneyType
    <2>2. ledger.accrued[s] \in Int /\ ledger.float[s] \in Int
      BY LedgerParts DEF MoneyType
    <2> QED
      BY <1>1, <1>2, <1>4, <2>1, <2>2 DEF Surplus, Booked
  <1>6. ASSUME NEW s \in Rails, NEW y \in Accounts
        PROVE  Own(ledger', s, y) - Own(ledger, s, y)
                   + (Stake(y, s, id)' - Stake(y, s, id) + SaleCost(y, s, id)) >= 0
    <2>1. Own(ledger, s, y) \in Nat /\ EscrowOn(id, s) \in Int
      BY OwnType, BookedType DEF MoneyType
    <2> DEFINE e == IF Seller(id) = y THEN EscrowOn(id, s) ELSE 0
    <2>2. e \in Int
      BY <2>1
    <2>3. Stake(y, s, id) = (IF y = x /\ s = r THEN hb ELSE 0) + e
      BY <1>2, <1>4 DEF Stake, Beneficiary, x
    <2>4. Stake(y, s, id)' = (IF y = bidder /\ s = r THEN amount ELSE 0) + e
      BY <1>2, <1>4 DEF Stake, Beneficiary
    <2>5. SaleCost(y, s, id) = 0
      BY <1>2 DEF SaleCost
    <2> HIDE DEF e
    <2> QED
      BY <1>1, <1>2, <2>1, <2>2, <2>3, <2>4, <2>5
  <1>7. ASSUME NEW s \in Rails PROVE ~(ledger'.accrued[s] > ledger.accrued[s])
    BY <1>1, LedgerParts DEF MoneyType
  <1> QED
    BY <1>1, <1>3, <1>5, <1>6, <1>7 DEF MoneyFollows

\* A new auction takes the escrow from its seller and lends it the hops.
LEMMA CreateMoney ==
    ASSUME MoneyType, IInv, NEW x \in Accounts, NEW p \in AuctionParams,
           CreateAuction(x, p), NEW id \in AuctionIds, id = <<x, sellerNonce[x]>>
    PROVE  MoneyFollows(id) /\ OthersSame(id)
  <1> DEFINE h  == CUSTODY_HOP_TINYBAR * Len(p.nfts)
             z  == p.lazy
             M1 == PayOut(ledger, "HBAR", x, h)
             M2 == PayIn(M1, "LAZY", x, z)
  <1>1. Seller(id) = x /\ state[id] = "None"
    BY DEF Seller, IInv, RecordTypeOK, Records, Live
  <1>2. /\ highBid[id] = 0 /\ highBidder[id] = NoAccount /\ NoAccount \notin Accounts
        /\ NoAccount # x
    BY <1>1, ContractAssumption DEF IInv, Records, Live
  <1>3. h \in Nat /\ z \in Nat /\ p.nfts \in Seq(NFTs) /\ {"HBAR", "LAZY"} \subseteq Rails
    BY DEF AuctionParams, CUSTODY_HOP_TINYBAR, Rails
  <1>4. /\ ledger.held["HBAR"] >= h /\ ledger.wallet["LAZY"][x] >= z
        /\ ledger' = M2 /\ highBid' = highBid /\ highBidder' = highBidder
    BY DEF CreateAuction
  <1>5. /\ state'[id] = "Open" /\ terms'[id].nfts = p.nfts /\ terms'[id].lazy = z
        /\ OthersSame(id)
    BY <1>1 DEF CreateAuction, OthersSame, IInv, RecordTypeOK
  <1>6. \A r \in Rails : EscrowOn(id, r)' = IF r = "LAZY" THEN z ELSE -h
    BY <1>5 DEF EscrowOn, Live, Hops
  <1>7. \A r \in Rails : /\ StandingOn(id, r) = 0 /\ EscrowOn(id, r) = 0
                         /\ StandingOn(id, r)' = 0
    BY <1>1, <1>2, <1>4 DEF StandingOn, EscrowOn, Live
  <1> HIDE DEF h, z
  <1>8. Credits(ledger, M1, "HBAR", x, h)
    BY <1>3, <1>4, PayOutCredits DEF MoneyType
  <1>9. Credits(M1, M2, "LAZY", x, -z)
    <2>1. M1 \in Ledger
      BY <1>8 DEF Credits
    <2>2. M1.wallet["LAZY"][x] = ledger.wallet["LAZY"][x]
      BY <1>3 DEF PayOut, MoneyType, Ledger, Rails
    <2> HIDE DEF M1
    <2> QED
      BY <1>3, <1>4, <2>1, <2>2, PayInCredits
  <1> HIDE DEF M1, M2
  <1>10. M2 \in Ledger /\ M2.float = ledger.float /\ M2.accrued = ledger.accrued
    BY <1>8, <1>9 DEF Credits
  <1>11. ASSUME NEW r \in Rails
         PROVE  Surplus(ledger', r) - Surplus(ledger, r) = Booked(id, r)' - Booked(id, r)
    <2>1. /\ Net(ledger, r) \in Int
          /\ Net(M1, r) = Net(ledger, r) - (IF r = "HBAR" THEN h ELSE 0)
          /\ Net(M2, r) = Net(M1, r) - (IF r = "LAZY" THEN -z ELSE 0)
      BY <1>8, <1>9, NetType DEF Credits, MoneyType
    <2>2. ledger.accrued[r] \in Int /\ ledger.float[r] \in Int
      BY LedgerParts DEF MoneyType
    <2>3. r = "HBAR" \/ r = "LAZY"
      BY DEF Rails
    <2>4. Net(M2, r) = Net(ledger, r) + (IF r = "LAZY" THEN z ELSE -h)
      BY <1>3, <2>1, <2>3
    <2>5. Booked(id, r) = 0 /\ Booked(id, r)' = IF r = "LAZY" THEN z ELSE -h
      BY <1>3, <1>6, <1>7 DEF Booked
    <2>6. Surplus(M2, r) = Surplus(ledger, r) + (IF r = "LAZY" THEN z ELSE -h)
      <3> DEFINE d == IF r = "LAZY" THEN z ELSE -h
      <3>1. d \in Int
        BY <1>3
      <3>2. Net(M2, r) = Net(ledger, r) + d
        BY <2>4
      <3>3. M2.accrued[r] = ledger.accrued[r] /\ M2.float[r] = ledger.float[r]
        BY <1>10
      <3> HIDE DEF d
      <3>4. Surplus(M2, r) = Surplus(ledger, r) + d
        BY <2>1, <2>2, <3>1, <3>2, <3>3 DEF Surplus
      <3> QED
        BY <3>4 DEF d
    <2>7. Surplus(ledger, r) \in Int
      BY SurplusType DEF MoneyType
    <2> QED
      BY <1>3, <1>4, <2>5, <2>6, <2>7
  <1>12. ASSUME NEW r \in Rails, NEW y \in Accounts
         PROVE  Own(ledger', r, y) - Own(ledger, r, y)
                   + (Stake(y, r, id)' - Stake(y, r, id) + SaleCost(y, r, id)) >= 0
    <2>1. /\ Own(ledger, r, y) \in Nat
          /\ Own(M1, r, y) = Own(ledger, r, y) + (IF r = "HBAR" /\ y = x THEN h ELSE 0)
          /\ Own(M2, r, y) = Own(M1, r, y) + (IF r = "LAZY" /\ y = x THEN -z ELSE 0)
      BY <1>8, <1>9, OwnType DEF Credits, MoneyType
    <2>2. r = "HBAR" \/ r = "LAZY"
      BY DEF Rails
    <2>3. Stake(y, r, id) = 0
      BY <1>7 DEF Stake
    <2>4. Stake(y, r, id)' = IF y = x THEN EscrowOn(id, r)' ELSE 0
      <3>1. EscrowOn(id, r)' \in Int
        BY <1>3, <1>6
      <3> QED
        BY <1>1, <1>5, <1>7, <3>1 DEF Stake, Beneficiary
    <2>5. SaleCost(y, r, id) = 0
      BY <1>1 DEF SaleCost
    <2>6. CASE y # x
      BY <1>4, <2>1, <2>3, <2>4, <2>5, <2>6
    <2>7. CASE y = x
      BY <1>3, <1>4, <1>6, <2>1, <2>2, <2>3, <2>4, <2>5, <2>7
    <2> QED
      BY <2>6, <2>7
  <1>13. ASSUME NEW r \in Rails PROVE ~(ledger'.accrued[r] > ledger.accrued[r])
    BY <1>4, <1>10, LedgerParts DEF MoneyType
  <1> QED
    BY <1>1, <1>4, <1>5, <1>10, <1>11, <1>12, <1>13 DEF MoneyFollows

-----------------------------------------------------------------------------
(* A settlement.                                                             *)

\* L is the ledger when a settlement at the price begins: the standing bid has
\* been replaced by the price, which the winner has paid.
Staged(L, id, winner, price) ==
    /\ L \in Ledger /\ L.float = ledger.float /\ L.accrued = ledger.accrued
    /\ \A s \in Rails :
           Net(L, s) = Net(ledger, s) + (IF s = terms[id].payment
                                         THEN price - highBid[id] ELSE 0)
    /\ \A s \in Rails, y \in Accounts :
           Own(L, s, y) = Own(ledger, s, y)
               - (IF s = terms[id].payment /\ y = winner THEN price ELSE 0)
               + (IF s = terms[id].payment /\ y = highBidder[id] THEN highBid[id] ELSE 0)

\* The conditions under which _settleInternal is called.
Settling(L, id, winner, price) ==
    /\ state[id] = "Open"
    /\ winner \in Accounts \union {NoAccount}
    /\ winner # Seller(id)
    /\ price \in Nat
    /\ winner = NoAccount => price = 0
    /\ Staged(L, id, winner, price)

\* What settling leaves in the books.
LEMMA SettledBooks ==
    ASSUME MoneyType, IInv, NEW id \in AuctionIds, NEW L, NEW winner, NEW price,
           NEW settler, NEW refusing, Settling(L, id, winner, price),
           Finalise(L, id, winner, price, settler, refusing)
    PROVE  /\ state'[id] = "Settled" /\ highBid'[id] = price
           /\ highBidder'[id] = IF MeetsReserve(id, winner, price) THEN winner ELSE Seller(id)
           /\ OthersSame(id)
           /\ \A s \in Rails :
                  /\ StandingOn(id, s) = IF s = terms[id].payment THEN highBid[id] ELSE 0
                  /\ StandingOn(id, s)' = 0
                  /\ EscrowOn(id, s)' = EscrowOn(id, s)
                  /\ Hops(id)' = Hops(id)
  <1>1. /\ state'[id] = "Settled" /\ highBid'[id] = price /\ terms' = terms
        /\ highBidder'[id] = IF MeetsReserve(id, winner, price) THEN winner ELSE Seller(id)
    BY DEF Finalise, IInv, RecordTypeOK
  <1>2. OthersSame(id)
    BY DEF Finalise, OthersSame, IInv, RecordTypeOK
  <1>3. state[id] = "Open"
    BY DEF Settling
  <1> QED
    BY <1>1, <1>2, <1>3 DEF StandingOn, EscrowOn, Live, Hops

\* A sale: the winner has paid the price, and gets the bundle.
LEMMA SoldMoney ==
    ASSUME MoneyType, IInv, NEW id \in AuctionIds, NEW L, NEW winner, NEW price,
           NEW settler \in Accounts, NEW refusing, Settling(L, id, winner, price),
           Finalise(L, id, winner, price, settler, refusing),
           MeetsReserve(id, winner, price)
    PROVE  MoneyFollows(id)
  <1> DEFINE r  == terms[id].payment
             hb == highBid[id]
             x  == highBidder[id]
  <1>0. /\ L \in Ledger /\ price \in Nat /\ hb \in Nat /\ winner \in Accounts
        /\ winner # Seller(id) /\ state[id] = "Open" /\ ledger \in Ledger
    BY DEF Settling, Staged, MeetsReserve, MoneyType, IInv, RecordTypeOK
  <1>1. ledger' = PaySale(L, id, price, settler, refusing)
    BY DEF Finalise
  <1>2. Sells(L, ledger', r, price)
    BY <1>0, <1>1, TermsParts, PaySaleSells DEF IInv, RecordTypeOK
  <1>3. PICK fee \in Nat :
            /\ 10 * fee <= price
            /\ ledger' \in Ledger
            /\ ledger'.float = L.float
            /\ \A s \in Rails :
                   /\ ledger'.accrued[s] = L.accrued[s] + (IF s = r THEN fee ELSE 0)
                   /\ Net(ledger', s) = Net(L, s) - (IF s = r THEN price - fee ELSE 0)
            /\ \A s \in Rails, y \in Accounts : Own(ledger', s, y) >= Own(L, s, y)
    BY <1>2 DEF Sells
  <1>4. /\ L.float = ledger.float /\ L.accrued = ledger.accrued
        /\ \A s \in Rails : Net(L, s) = Net(ledger, s) + (IF s = r THEN price - hb ELSE 0)
        /\ \A s \in Rails, y \in Accounts :
               Own(L, s, y) = Own(ledger, s, y)
                   - (IF s = r /\ y = winner THEN price ELSE 0)
                   + (IF s = r /\ y = x THEN hb ELSE 0)
    BY DEF Settling, Staged
  <1>5. /\ state'[id] = "Settled" /\ highBid'[id] = price /\ highBidder'[id] = winner
        /\ \A s \in Rails :
               /\ StandingOn(id, s) = IF s = r THEN hb ELSE 0
               /\ StandingOn(id, s)' = 0
               /\ EscrowOn(id, s)' = EscrowOn(id, s)
               /\ Hops(id)' = Hops(id)
    BY SettledBooks
  <1>6. /\ Hops(id) \in Nat /\ terms[id].lazy \in Nat
        /\ \A s \in Rails : EscrowOn(id, s) = IF s = "LAZY" THEN terms[id].lazy ELSE -Hops(id)
    BY <1>0, TermsParts DEF EscrowOn, Live
  <1> HIDE DEF r, hb, x
  <1>7. ASSUME NEW s \in Rails
        PROVE  Surplus(ledger', s) - Surplus(ledger, s) = Booked(id, s)' - Booked(id, s)
    <2>1. /\ Net(ledger, s) \in Int /\ EscrowOn(id, s) \in Int
          /\ ledger.accrued[s] \in Int /\ ledger.float[s] \in Int
      BY <1>0, NetType, BookedType, LedgerParts
    <2>2. /\ ledger'.accrued[s] = ledger.accrued[s] + (IF s = r THEN fee ELSE 0)
          /\ ledger'.float[s] = ledger.float[s]
          /\ Net(ledger', s) = Net(L, s) - (IF s = r THEN price - fee ELSE 0)
          /\ Net(L, s) = Net(ledger, s) + (IF s = r THEN price - hb ELSE 0)
      BY <1>3, <1>4
    <2>3. Booked(id, s)' - Booked(id, s) = IF s = r THEN -hb ELSE 0
      BY <1>0, <1>5, <2>1 DEF Booked
    <2>4. CASE s = r
      BY <1>0, <2>1, <2>2, <2>3, <2>4 DEF Surplus
    <2>5. CASE s # r
      BY <1>0, <2>1, <2>2, <2>3, <2>5 DEF Surplus
    <2> QED
      BY <2>4, <2>5
  <1>8. ASSUME NEW s \in Rails, NEW y \in Accounts
        PROVE  Own(ledger', s, y) - Own(ledger, s, y)
                   + (Stake(y, s, id)' - Stake(y, s, id) + SaleCost(y, s, id)) >= 0
    <2>1. /\ Own(ledger, s, y) \in Nat /\ Own(ledger', s, y) \in Nat
          /\ EscrowOn(id, s) \in Int /\ Hops(id) \in Nat /\ terms[id].lazy \in Nat
      BY <1>0, <1>3, <1>6, OwnType, BookedType
    <2>2. Own(ledger', s, y) >= Own(ledger, s, y)
                   - (IF s = r /\ y = winner THEN price ELSE 0)
                   + (IF s = r /\ y = x THEN hb ELSE 0)
      BY <1>3, <1>4
    <2>3. Stake(y, s, id) = (IF y = x /\ s = r THEN hb ELSE 0)
                                + (IF y = Seller(id) THEN EscrowOn(id, s) ELSE 0)
      BY <1>0, <1>5 DEF Stake, Beneficiary, x
    <2>4. Stake(y, s, id)' = IF y = winner THEN EscrowOn(id, s) ELSE 0
      BY <1>5, <2>1 DEF Stake, Beneficiary
    <2>5. SaleCost(y, s, id) = IF y = winner
                               THEN (IF s = r THEN price ELSE 0)
                                       + (IF s = "HBAR" THEN Hops(id) ELSE 0)
                               ELSE IF y = Seller(id) /\ s = "LAZY" THEN terms[id].lazy ELSE 0
      BY <1>0, <1>5 DEF SaleCost, r
    <2>6. s = "HBAR" \/ s = "LAZY"
      BY DEF Rails
    <2>7. EscrowOn(id, s) = IF s = "LAZY" THEN terms[id].lazy ELSE -Hops(id)
      BY <1>6
    <2>8. CASE y = winner
      BY <1>0, <2>1, <2>2, <2>3, <2>4, <2>5, <2>6, <2>7, <2>8
    <2>9. CASE y # winner
      BY <1>0, <2>1, <2>2, <2>3, <2>4, <2>5, <2>6, <2>7, <2>9
    <2> QED
      BY <2>8, <2>9
  <1>9. ASSUME NEW s \in Rails, ledger'.accrued[s] > ledger.accrued[s]
        PROVE  FeeFrom(id, s)
    <2>1. ledger.accrued[s] \in Nat
      BY <1>0, LedgerParts
    <2>2. ledger'.accrued[s] = ledger.accrued[s] + (IF s = r THEN fee ELSE 0)
      BY <1>3, <1>4
    <2>3. s = r /\ ledger'.accrued[s] - ledger.accrued[s] = fee
      BY <1>9, <2>1, <2>2
    <2> QED
      BY <1>0, <1>3, <1>5, <2>3 DEF FeeFrom, r
  <1> QED
    BY <1>3, <1>4, <1>7, <1>8, <1>9 DEF MoneyFollows

\* No sale: the bid, if there is one, goes back to its bidder.
LEMMA UnsoldMoney ==
    ASSUME MoneyType, IInv, NEW id \in AuctionIds, NEW L, NEW winner, NEW price,
           NEW settler \in Accounts, NEW refusing, Settling(L, id, winner, price),
           Finalise(L, id, winner, price, settler, refusing),
           ~MeetsReserve(id, winner, price)
    PROVE  MoneyFollows(id)
  <1> DEFINE r  == terms[id].payment
             hb == highBid[id]
             x  == highBidder[id]
  <1>0. /\ L \in Ledger /\ price \in Nat /\ hb \in Nat
        /\ winner \in Accounts \union {NoAccount} /\ NoAccount \notin Accounts
        /\ winner = NoAccount => price = 0
        /\ state[id] = "Open" /\ ledger \in Ledger /\ r \in Rails
    BY ContractAssumption, TermsParts
    DEF Settling, Staged, MoneyType, IInv, RecordTypeOK
  <1>1. ledger' = ReturnStandingBid(L, id, winner, price)
    BY DEF Finalise
  <1>2. IF winner = NoAccount THEN ledger' = L ELSE Credits(L, ledger', r, winner, price)
    <2>1. CASE winner = NoAccount
      BY <1>1, <2>1 DEF ReturnStandingBid
    <2>2. CASE winner # NoAccount
      <3>1. ledger' = QueueRefund(L, r, winner, price)
        BY <1>1, <2>2 DEF ReturnStandingBid
      <3> HIDE DEF r
      <3> QED
        BY <1>0, <2>2, <3>1, QueueRefundCredits
    <2> QED
      BY <2>1, <2>2
  <1>3. /\ ledger' \in Ledger /\ ledger'.float = L.float /\ ledger'.accrued = L.accrued
        /\ \A s \in Rails : Net(ledger', s) = Net(L, s) - (IF s = r THEN price ELSE 0)
        /\ \A s \in Rails, y \in Accounts :
               Own(ledger', s, y) = Own(L, s, y) + (IF s = r /\ y = winner THEN price ELSE 0)
    <2>1. CASE winner = NoAccount
      <3> HIDE DEF r
      <3> QED
        BY <1>0, <1>2, <2>1, NetType, OwnType
    <2>2. CASE winner # NoAccount
      BY <1>2, <2>2 DEF Credits
    <2> QED
      BY <2>1, <2>2
  <1>4. /\ L.float = ledger.float /\ L.accrued = ledger.accrued
        /\ \A s \in Rails : Net(L, s) = Net(ledger, s) + (IF s = r THEN price - hb ELSE 0)
        /\ \A s \in Rails, y \in Accounts :
               Own(L, s, y) = Own(ledger, s, y)
                   - (IF s = r /\ y = winner THEN price ELSE 0)
                   + (IF s = r /\ y = x THEN hb ELSE 0)
    BY DEF Settling, Staged
  <1>5. /\ state'[id] = "Settled" /\ highBidder'[id] = Seller(id)
        /\ \A s \in Rails :
               /\ StandingOn(id, s) = IF s = r THEN hb ELSE 0
               /\ StandingOn(id, s)' = 0
               /\ EscrowOn(id, s)' = EscrowOn(id, s)
    BY SettledBooks
  <1> HIDE DEF r, hb, x
  <1>6. ASSUME NEW s \in Rails
        PROVE  Surplus(ledger', s) - Surplus(ledger, s) = Booked(id, s)' - Booked(id, s)
    <2>1. /\ Net(ledger, s) \in Int /\ EscrowOn(id, s) \in Int
          /\ ledger.accrued[s] \in Int /\ ledger.float[s] \in Int
      BY <1>0, NetType, BookedType, LedgerParts
    <2>2. /\ ledger'.accrued[s] = ledger.accrued[s]
          /\ ledger'.float[s] = ledger.float[s]
          /\ Net(ledger', s) = Net(L, s) - (IF s = r THEN price ELSE 0)
          /\ Net(L, s) = Net(ledger, s) + (IF s = r THEN price - hb ELSE 0)
      BY <1>3, <1>4
    <2>3. Booked(id, s)' - Booked(id, s) = IF s = r THEN -hb ELSE 0
      BY <1>0, <1>5, <2>1 DEF Booked
    <2> QED
      BY <1>0, <2>1, <2>2, <2>3 DEF Surplus
  <1>7. ASSUME NEW s \in Rails, NEW y \in Accounts
        PROVE  Own(ledger', s, y) - Own(ledger, s, y)
                   + (Stake(y, s, id)' - Stake(y, s, id) + SaleCost(y, s, id)) >= 0
    <2>1. Own(ledger, s, y) \in Nat /\ EscrowOn(id, s) \in Int
      BY <1>0, OwnType, BookedType
    <2>2. Own(ledger', s, y) = Own(ledger, s, y) + (IF s = r /\ y = x THEN hb ELSE 0)
      BY <1>0, <1>3, <1>4, <2>1
    <2> DEFINE e == IF y = Seller(id) THEN EscrowOn(id, s) ELSE 0
    <2>3. e \in Int
      BY <2>1
    <2>4. Stake(y, s, id) = (IF y = x /\ s = r THEN hb ELSE 0) + e
      BY <1>0, <1>5 DEF Stake, Beneficiary, x
    <2>5. Stake(y, s, id)' = e
      BY <1>5, <2>1 DEF Stake, Beneficiary
    <2>6. SaleCost(y, s, id) = 0
      BY <1>5 DEF SaleCost
    <2> HIDE DEF e
    <2> QED
      BY <1>0, <2>1, <2>2, <2>3, <2>4, <2>5, <2>6
  <1>8. ASSUME NEW s \in Rails PROVE ~(ledger'.accrued[s] > ledger.accrued[s])
    BY <1>0, <1>3, <1>4, LedgerParts
  <1> QED
    BY <1>3, <1>4, <1>6, <1>7, <1>8 DEF MoneyFollows

LEMMA FinaliseMoney ==
    ASSUME MoneyType, IInv, NEW id \in AuctionIds, NEW L, NEW winner, NEW price,
           NEW settler \in Accounts, NEW refusing, Settling(L, id, winner, price),
           Finalise(L, id, winner, price, settler, refusing)
    PROVE  MoneyFollows(id) /\ OthersSame(id)
  BY SoldMoney, UnsoldMoney, SettledBooks

LEMMA PlaceBidMoney ==
    ASSUME MoneyType, IInv, NEW id \in AuctionIds, NEW bidder \in Accounts,
           NEW amount \in Nat, PlaceBid(bidder, id, amount)
    PROVE  MoneyFollows(id) /\ OthersSame(id)
  <1>1. AcceptsBid(bidder, id, amount)
    BY DEF PlaceBid
  <1>2. CASE ~TriggersBuyNow(id, amount)
    BY <1>1, <1>2, StandingBidMoney DEF PlaceBid
  <1>3. CASE TriggersBuyNow(id, amount)
    <2> DEFINE price == terms[id].buyNowPrice
               L == BidLedger(bidder, id, amount, price)
    <2>1. PICK refusing : Finalise(L, id, bidder, price, bidder, refusing)
      BY <1>3 DEF PlaceBid
    <2>2. price \in Nat /\ price <= amount
      BY <1>3 DEF IInv, RecordTypeOK, TermsOK, TriggersBuyNow
    <2> HIDE DEF price
    <2>3. Staged(L, id, bidder, price)
      BY <1>1, <2>2, BidLedgerEffect DEF AcceptsBid, Staged
    <2>4. bidder # Seller(id) /\ bidder # NoAccount /\ state[id] = "Open"
      BY <1>1, ContractAssumption DEF AcceptsBid
    <2>5. Settling(L, id, bidder, price)
      BY <2>2, <2>3, <2>4 DEF Settling
    <2> HIDE DEF L
    <2> QED
      BY <2>1, <2>5, FinaliseMoney
  <1> QED
    BY <1>2, <1>3

LEMMA SettleMoney ==
    ASSUME MoneyType, IInv, NEW id \in AuctionIds, NEW settler \in Accounts,
           Settle(settler, id)
    PROVE  MoneyFollows(id) /\ OthersSame(id)
  <1> DEFINE x == highBidder[id]
             hb == highBid[id]
  <1>1. PICK refusing : Finalise(ledger, id, x, hb, settler, refusing)
    BY DEF Settle
  <1>2. /\ state[id] = "Open" /\ x \in Accounts \union {NoAccount} /\ hb \in Nat
        /\ x # Seller(id) /\ (x = NoAccount => hb = 0) /\ ledger \in Ledger
    BY DEF Settle, Due, IInv, RecordTypeOK, StandingBid, MoneyType
  <1>3. Staged(ledger, id, x, hb)
    <2> HIDE DEF x, hb
    <2>1. \A s \in Rails : Net(ledger, s) \in Int
      BY <1>2, NetType
    <2>2. \A s \in Rails, y \in Accounts : Own(ledger, s, y) \in Nat
      BY <1>2, OwnType
    <2> QED
      BY <1>2, <2>1, <2>2 DEF Staged, x, hb
  <1>4. Settling(ledger, id, x, hb)
    BY <1>2, <1>3 DEF Settling
  <1> HIDE DEF x, hb
  <1> QED
    BY <1>1, <1>4, FinaliseMoney

LEMMA CancelMoney ==
    ASSUME MoneyType, IInv, NEW id \in AuctionIds, NEW caller \in Accounts,
           CancelAuction(caller, id)
    PROVE  MoneyFollows(id) /\ OthersSame(id)
  <1>1. /\ state[id] = "Open" /\ Live(id) /\ highBidder[id] = NoAccount
        /\ Beneficiary(id) = Seller(id) /\ Seller(id) \in Accounts
    BY IdParts DEF CancelAuction, CanCancel, Live, Beneficiary
  <1> QED
    BY <1>1, ReleaseMoney DEF CancelAuction

LEMMA ClaimAuctionMoney ==
    ASSUME MoneyType, IInv, NEW id \in AuctionIds, ClaimAuctionNFT(id)
    PROVE  MoneyFollows(id) /\ OthersSame(id)
  <1>1. /\ state[id] = "Settled" /\ Live(id) /\ Beneficiary(id) = highBidder[id]
        /\ highBidder[id] \in Accounts
    BY DEF ClaimAuctionNFT, Live, Beneficiary, IInv, RecordTypeOK, Claimant
  <1> QED
    BY <1>1, ReleaseMoney DEF ClaimAuctionNFT

\* A step that touches no record: every account keeps what it owns, but for
\* what it donates, and no fee is accrued.
Quiet ==
    /\ UNCHANGED <<state, terms, highBid, highBidder>>
    /\ ledger' \in Ledger
    /\ \A r \in Rails : /\ Surplus(ledger', r) = Surplus(ledger, r)
                        /\ ledger'.accrued[r] <= ledger.accrued[r]
                        /\ ledger'.float[r] >= ledger.float[r]
    /\ \A r \in Rails, y \in Accounts :
           Own(ledger', r, y) - Own(ledger, r, y) + (ledger'.float[r] - ledger.float[r]) >= 0

LEMMA ClaimQuiet ==
    ASSUME MoneyType, NEW x \in Accounts, NEW r \in Rails, Claim(x, r)
    PROVE  Quiet
  <1>1. Credits(ledger, ledger', r, x, 0)
    BY PullClaimCredits DEF Claim, MoneyType
  <1>2. ledger \in Ledger /\ ledger' \in Ledger
    BY <1>1 DEF MoneyType, Credits
  <1>3. /\ ledger'.accrued = ledger.accrued /\ ledger'.float = ledger.float
        /\ \A s \in Rails : Net(ledger', s) = Net(ledger, s)
        /\ \A s \in Rails, y \in Accounts : Own(ledger', s, y) = Own(ledger, s, y)
    BY <1>1, <1>2, NetType, OwnType DEF Credits
  <1> QED
    BY <1>2, <1>3, LedgerParts, OwnType DEF Quiet, Claim, recordVars, Surplus

LEMMA WithdrawQuiet ==
    ASSUME MoneyType, NEW x \in Accounts, NEW r \in Rails, NEW amount \in Nat,
           WithdrawProtocolFee(x, r, amount)
    PROVE  Quiet
  <1> DEFINE M == PayOut(ledger, r, x, amount)
             A == [M.accrued EXCEPT ![r] = @ - amount]
             N == [M EXCEPT !.accrued = A]
  <1>1. ledger \in Ledger /\ amount <= ledger.accrued[r] /\ ledger.held[r] >= amount
    BY LedgerParts DEF WithdrawProtocolFee, MoneyType
  <1>2. Credits(ledger, M, r, x, amount)
    BY <1>1, PayOutCredits
  <1>3. M \in Ledger /\ M.accrued = ledger.accrued /\ M.float = ledger.float
    BY <1>2 DEF Credits
  <1>4. ledger' = N
    <2>1. ledger' = [M EXCEPT !.accrued[r] = @ - amount]
      BY DEF WithdrawProtocolFee
    <2> HIDE DEF M
    <2> QED
      BY <1>3, <2>1 DEF Ledger
  <1>5. A \in [Rails -> Nat] /\ \A s \in Rails :
            A[s] = ledger.accrued[s] - (IF s = r THEN amount ELSE 0)
    BY <1>1, <1>3, LedgerParts
  <1>6. /\ N \in Ledger /\ N.float = M.float /\ N.held = M.held /\ N.wallet = M.wallet
        /\ N.claimable = M.claimable /\ N.accrued = A
    <2> HIDE DEF M, A
    <2> QED
      BY <1>3, <1>5 DEF Ledger
  <1> HIDE DEF M, N, A
  <1>7. /\ \A s \in Rails : Net(N, s) = Net(M, s)
        /\ \A s \in Rails, y \in Accounts : Own(N, s, y) = Own(M, s, y)
    BY <1>6 DEF Net, Own, Queued
  <1>8. ASSUME NEW s \in Rails
        PROVE  /\ Surplus(N, s) = Surplus(ledger, s)
               /\ N.accrued[s] <= ledger.accrued[s]
               /\ N.float[s] >= ledger.float[s]
    <2>1. /\ Net(ledger, s) \in Int /\ ledger.accrued[s] \in Nat /\ ledger.float[s] \in Nat
          /\ Net(M, s) = Net(ledger, s) - (IF s = r THEN amount ELSE 0)
          /\ N.accrued[s] = ledger.accrued[s] - (IF s = r THEN amount ELSE 0)
          /\ N.float[s] = ledger.float[s]
      BY <1>1, <1>2, <1>3, <1>5, <1>6, NetType, LedgerParts DEF Credits
    <2> QED
      BY <1>7, <2>1 DEF Surplus
  <1>9. ASSUME NEW s \in Rails, NEW y \in Accounts
        PROVE  Own(N, s, y) - Own(ledger, s, y) + (N.float[s] - ledger.float[s]) >= 0
    <2>1. /\ Own(ledger, s, y) \in Nat /\ ledger.float[s] \in Nat
          /\ Own(M, s, y) = Own(ledger, s, y) + (IF s = r /\ y = x THEN amount ELSE 0)
          /\ N.float[s] = ledger.float[s]
      BY <1>1, <1>2, <1>3, <1>6, OwnType, LedgerParts DEF Credits
    <2> QED
      BY <1>7, <2>1
  <1> QED
    BY <1>4, <1>6, <1>8, <1>9 DEF Quiet, WithdrawProtocolFee, recordVars

LEMMA DonateQuiet ==
    ASSUME MoneyType, NEW x \in Accounts, NEW amount \in Nat, Donate(x, amount)
    PROVE  Quiet
  <1> DEFINE r == "HBAR"
             M == PayIn(ledger, r, x, amount)
             F == [M.float EXCEPT ![r] = @ + amount]
             N == [M EXCEPT !.float = F]
  <1>1. ledger \in Ledger /\ ledger.wallet[r][x] >= amount /\ r \in Rails
    BY DEF Donate, MoneyType, Rails
  <1>2. Credits(ledger, M, r, x, -amount)
    BY <1>1, PayInCredits
  <1>3. M \in Ledger /\ M.accrued = ledger.accrued /\ M.float = ledger.float
    BY <1>2 DEF Credits
  <1>4. ledger' = N
    <2>1. ledger' = [M EXCEPT !.float[r] = @ + amount]
      BY DEF Donate
    <2> HIDE DEF M
    <2> QED
      BY <1>3, <2>1 DEF Ledger
  <1>5. F \in [Rails -> Nat] /\ \A s \in Rails :
            F[s] = ledger.float[s] + (IF s = r THEN amount ELSE 0)
    BY <1>1, <1>3, LedgerParts
  <1>6. /\ N \in Ledger /\ N.accrued = M.accrued /\ N.held = M.held /\ N.wallet = M.wallet
        /\ N.claimable = M.claimable /\ N.float = F
    <2> HIDE DEF M, F
    <2> QED
      BY <1>3, <1>5 DEF Ledger
  <1> HIDE DEF M, N, F, r
  <1>7. /\ \A s \in Rails : Net(N, s) = Net(M, s)
        /\ \A s \in Rails, y \in Accounts : Own(N, s, y) = Own(M, s, y)
    BY <1>6 DEF Net, Own, Queued
  <1>8. ASSUME NEW s \in Rails
        PROVE  /\ Surplus(N, s) = Surplus(ledger, s)
               /\ N.accrued[s] <= ledger.accrued[s]
               /\ N.float[s] >= ledger.float[s]
    <2>1. /\ Net(ledger, s) \in Int /\ ledger.accrued[s] \in Nat /\ ledger.float[s] \in Nat
          /\ Net(M, s) = Net(ledger, s) - (IF s = r THEN -amount ELSE 0)
          /\ N.accrued[s] = ledger.accrued[s]
          /\ N.float[s] = ledger.float[s] + (IF s = r THEN amount ELSE 0)
      BY <1>1, <1>2, <1>3, <1>5, <1>6, NetType, LedgerParts DEF Credits
    <2> QED
      BY <1>7, <2>1 DEF Surplus
  <1>9. ASSUME NEW s \in Rails, NEW y \in Accounts
        PROVE  Own(N, s, y) - Own(ledger, s, y) + (N.float[s] - ledger.float[s]) >= 0
    <2>1. /\ Own(ledger, s, y) \in Nat /\ ledger.float[s] \in Nat
          /\ Own(M, s, y) = Own(ledger, s, y) + (IF s = r /\ y = x THEN -amount ELSE 0)
          /\ N.float[s] = ledger.float[s] + (IF s = r THEN amount ELSE 0)
      BY <1>1, <1>2, <1>5, <1>6, OwnType, LedgerParts DEF Credits
    <2> QED
      BY <1>7, <2>1
  <1> QED
    BY <1>4, <1>6, <1>8, <1>9 DEF Quiet, Donate, recordVars

\* Every step is quiet or follows one record.
LEMMA StepMoney ==
    ASSUME MoneyType, IInv, [Next]_vars
    PROVE  Quiet \/ \E id \in AuctionIds : MoneyFollows(id) /\ OthersSame(id)
  <1>1. CASE \E x \in Accounts : \E p \in Listings[x] : CreateAuction(x, p)
    <2>1. PICK x \in Accounts : \E p \in Listings[x] : CreateAuction(x, p)
      BY <1>1
    <2>2. PICK p \in AuctionParams : CreateAuction(x, p)
      BY <2>1, InputAssumption
    <2>3. <<x, sellerNonce[x]>> \in AuctionIds
      BY <2>2, InputAssumption DEF CreateAuction, AuctionIds, IInv, RecordTypeOK
    <2>4. PICK id \in AuctionIds : id = <<x, sellerNonce[x]>>
      BY <2>3
    <2> QED
      BY <2>2, <2>4, CreateMoney
  <1>2. CASE \E x \in Accounts, id \in AuctionIds : CancelAuction(x, id)
    BY <1>2, CancelMoney
  <1>3. CASE \E x \in Accounts, id \in AuctionIds, amount \in BidAmounts :
                 PlaceBid(x, id, amount)
    BY <1>3, PlaceBidMoney, InputAssumption
  <1>4. CASE \E x \in Accounts, id \in AuctionIds : BuyNow(x, id)
    <2>1. \A id \in AuctionIds : terms[id].buyNowPrice \in Nat
      BY DEF IInv, RecordTypeOK, TermsOK
    <2> QED
      BY <1>4, <2>1, PlaceBidMoney DEF BuyNow
  <1>5. CASE \E x \in Accounts, id \in AuctionIds : Settle(x, id)
    BY <1>5, SettleMoney
  <1>6. CASE \E id \in AuctionIds : ClaimAuctionNFT(id)
    BY <1>6, ClaimAuctionMoney
  <1>7. CASE Money
    BY <1>7, ClaimQuiet, WithdrawQuiet, DonateQuiet, InputAssumption DEF Money
  <1>8. CASE Owner \/ Tick \/ UNCHANGED vars
    <2>1. UNCHANGED <<state, terms, highBid, highBidder, ledger>>
      BY <1>8 DEF Owner, Tick, vars, recordVars,
         SetPaused, SetVipSubscription, SetProtocolFeeBps, SetSettlementBountyBps,
         SetDefaults, SetDurationLimits, SetBcf, ExecuteBcfChange, CancelBcfChange
    <2>2. /\ ledger \in Ledger /\ \A r \in Rails : Surplus(ledger, r) \in Int
          /\ \A r \in Rails, y \in Accounts : Own(ledger, r, y) \in Nat
          /\ \A r \in Rails : ledger.accrued[r] \in Nat /\ ledger.float[r] \in Nat
      BY SurplusType, OwnType, LedgerParts DEF MoneyType
    <2> QED
      BY <2>1, <2>2 DEF Quiet
  <1> QED
    BY <1>1, <1>2, <1>3, <1>4, <1>5, <1>6, <1>7, <1>8 DEF Next, Lifecycle

-----------------------------------------------------------------------------
(* Types.                                                                    *)

LEMMA NoTermsType == NoTerms \in Terms
  BY DEF NoTerms, Terms, Rails, Royalties, MAX_BPS

LEMMA TypeMoney == TypeOK => MoneyType
  BY DEF TypeOK, MoneyType

LEMMA InitType == Init => TypeOK
  <1> SUFFICES ASSUME Init PROVE TypeOK
    OBVIOUS
  <1>1. sellerNonce \in [Accounts -> 0..MaxNonce]
    BY InputAssumption DEF Init
  <1>2. terms \in [AuctionIds -> Terms]
    BY NoTermsType DEF Init
  <1>3. config \in Config /\ ledger \in Ledger
    BY ContractAssumption DEF Init
  <1>4. nftOwner \in [NFTs -> Accounts \union {EA}]
    BY ContractAssumption DEF Init
  <1>5. /\ state \in [AuctionIds -> States]
        /\ closeAt \in [AuctionIds -> Nat] /\ highBid \in [AuctionIds -> Nat]
        /\ highBidder \in [AuctionIds -> Accounts \union {NoAccount}]
    BY DEF Init, States
  <1>6. now \in Nat \ {0} /\ pendingBcfEta \in Nat
    BY DEF Init
  <1>7. /\ paused \in BOOLEAN /\ vipSubscription \in BOOLEAN
        /\ bcf \in Bcfs \union {NoBcf} /\ pendingBcf \in Bcfs \union {NoBcf}
    BY Zenon DEF Init
  <1> QED
    BY <1>1, <1>2, <1>3, <1>4, <1>5, <1>6, <1>7 DEF TypeOK

\* The record that createAuction writes.
LEMMA CreatedTermsType ==
    ASSUME TypeOK, IInv, NEW x \in Accounts, NEW p \in AuctionParams, CreateAuction(x, p)
    PROVE  terms' \in [AuctionIds -> Terms]
  <1> DEFINE t ==
           [payment      |-> p.payment,
            reservePrice |-> p.reservePrice,
            startPrice   |-> p.startPrice,
            buyNowPrice  |-> p.buyNowPrice,
            minStepBps   |-> IF p.minStepBps = 0
                             THEN config.defaultMinStepBps ELSE p.minStepBps,
            antiSnipeWindow |-> IF p.antiSnipeWindow = 0
                             THEN config.defaultAntiSnipeWindow ELSE p.antiSnipeWindow,
            antiSnipeExtension |-> IF p.antiSnipeExtension = 0
                             THEN config.defaultAntiSnipeExtension
                             ELSE p.antiSnipeExtension,
            maxCloseAt   |-> (now + p.duration) + config.maxExtensionWindow,
            sellerTier   |-> SellerTier(x),
            nfts         |-> p.nfts,
            lazy         |-> p.lazy,
            royalties    |-> RoyaltySnapshot(p.nfts)]
  <1>1. terms' = [terms EXCEPT ![<<x, sellerNonce[x]>>] = t]
    BY DEF CreateAuction
  <1>2. /\ p.payment \in Rails /\ p.nfts \in Seq(NFTs)
        /\ {p.reservePrice, p.startPrice, p.buyNowPrice, p.minStepBps, p.antiSnipeWindow,
            p.antiSnipeExtension, p.duration, p.lazy} \subseteq Nat
    BY DEF AuctionParams
  <1>3. {config.defaultMinStepBps, config.defaultAntiSnipeWindow,
         config.defaultAntiSnipeExtension, config.maxExtensionWindow} \subseteq Nat
    BY DefaultParts DEF TypeOK
  <1>4. SellerTier(x) \in 0..3
    <2>1. ResolveBeneficialOwner(x) \in Accounts
      BY ContractAssumption DEF TypeOK, ResolveBeneficialOwner
    <2> QED
      BY <2>1, ContractAssumption DEF SellerTier
  <1>5. RoyaltySnapshot(p.nfts) \in Royalties
    BY <1>2, RoyaltySnapshotType DEF Royalties, Royalty
  <1>6. (now + p.duration) + config.maxExtensionWindow \in Nat
    BY <1>2, <1>3 DEF TypeOK
  <1>7. t \in Terms
    BY SMTT(20), <1>2, <1>3, <1>4, <1>5, <1>6 DEF Terms
  <1> HIDE DEF t
  <1> QED
    BY <1>1, <1>7 DEF TypeOK

LEMMA TermsStep ==
    ASSUME TypeOK, IInv, [Next]_vars
    PROVE  terms' \in [AuctionIds -> Terms]
  <1>1. CASE \E x \in Accounts : \E p \in Listings[x] : CreateAuction(x, p)
    BY <1>1, CreatedTermsType, InputAssumption
  <1>2. CASE (\E x \in Accounts, id \in AuctionIds : CancelAuction(x, id))
                \/ \E id \in AuctionIds : ClaimAuctionNFT(id)
    BY <1>2, NoTermsType DEF CancelAuction, ClaimAuctionNFT, DeleteRecord, TypeOK
  <1>3. CASE \/ \E x, id, amount : PlaceBid(x, id, amount)
             \/ \E x \in Accounts, id \in AuctionIds : BuyNow(x, id)
             \/ \E x \in Accounts, id \in AuctionIds : Settle(x, id)
    <2>1. terms' = terms
      BY <1>3 DEF PlaceBid, BuyNow, Settle, Finalise
    <2> QED
      BY <2>1 DEF TypeOK
  <1>4. CASE Money \/ Owner \/ Tick \/ UNCHANGED vars
    <2>1. terms' = terms
      BY <1>4 DEF Money, Owner, Tick, vars, recordVars, Claim, WithdrawProtocolFee, Donate,
         SetPaused, SetVipSubscription, SetProtocolFeeBps, SetSettlementBountyBps,
         SetDefaults, SetDurationLimits, SetBcf, ExecuteBcfChange, CancelBcfChange
    <2> QED
      BY <2>1 DEF TypeOK
  <1> QED
    BY <1>1, <1>2, <1>3, <1>4 DEF Next, Lifecycle

LEMMA NonceStep ==
    ASSUME TypeOK, [Next]_vars
    PROVE  sellerNonce' \in [Accounts -> 0..MaxNonce]
  <1>1. CASE \E x \in Accounts : \E p \in Listings[x] : CreateAuction(x, p)
    <2>1. PICK x \in Accounts : \E p \in Listings[x] : CreateAuction(x, p)
      BY <1>1
    <2>2. sellerNonce[x] < MaxNonce /\ sellerNonce' = [sellerNonce EXCEPT ![x] = @ + 1]
      BY <2>1 DEF CreateAuction
    <2> QED
      BY <2>2, InputAssumption DEF TypeOK
  <1>2. CASE Money \/ Owner \/ Tick \/ UNCHANGED vars
    BY <1>2 DEF Money, Owner, Tick, vars, custodyVars, Claim, WithdrawProtocolFee, Donate,
         SetPaused, SetVipSubscription, SetProtocolFeeBps, SetSettlementBountyBps,
         SetDefaults, SetDurationLimits, SetBcf, ExecuteBcfChange, CancelBcfChange, TypeOK
  <1>3. CASE Lifecycle /\ ~\E x \in Accounts : \E p \in Listings[x] : CreateAuction(x, p)
    <2>1. sellerNonce' = sellerNonce
      BY <1>3 DEF Lifecycle, CancelAuction, PlaceBid, BuyNow, Settle, ClaimAuctionNFT
    <2> QED
      BY <2>1 DEF TypeOK
  <1> QED
    BY <1>1, <1>2, <1>3 DEF Next

LEMMA ClockAndAdminStep ==
    ASSUME TypeOK, [Next]_vars
    PROVE  /\ now' \in Nat \ {0} /\ paused' \in BOOLEAN /\ vipSubscription' \in BOOLEAN
           /\ bcf' \in Bcfs \union {NoBcf} /\ pendingBcf' \in Bcfs \union {NoBcf}
           /\ pendingBcfEta' \in Nat
  <1> USE DEF TypeOK, adminVars, bcfVars
  <1>1. CASE Lifecycle
    <2>1. UNCHANGED <<now, adminVars, bcfVars>>
      BY <1>1 DEF Lifecycle, CreateAuction, CancelAuction, PlaceBid, BuyNow, Settle,
         ClaimAuctionNFT
    <2> QED
      BY <2>1
  <1>2. CASE Money
    BY <1>2 DEF Money, Claim, WithdrawProtocolFee, Donate
  <1>3. CASE Owner
    <2>1. CASE \E v \in PauseChoices : SetPaused(v)
      BY <2>1, InputAssumption DEF SetPaused
    <2>2. CASE \E v \in VipChoices : SetVipSubscription(v)
      BY <2>2, InputAssumption DEF SetVipSubscription
    <2>3. CASE \/ \E bps \in FeeChoices : SetProtocolFeeBps(bps)
               \/ \E bps \in FeeChoices : SetSettlementBountyBps(bps)
               \/ \E d \in DefaultChoices : SetDefaults(d)
               \/ \E l \in LimitChoices : SetDurationLimits(l)
      BY <2>3 DEF SetProtocolFeeBps, SetSettlementBountyBps, SetDefaults, SetDurationLimits
    <2>4. CASE \E f \in Bcfs \union {NoBcf} : SetBcf(f)
      <3>1. now + TIMELOCK_WINDOW \in Nat
        BY InputAssumption
      <3> QED
        BY <2>4, <3>1 DEF SetBcf
    <2>5. CASE ExecuteBcfChange \/ CancelBcfChange
      BY <2>5 DEF ExecuteBcfChange, CancelBcfChange
    <2> QED
      BY <1>3, <2>1, <2>2, <2>3, <2>4, <2>5 DEF Owner
  <1>4. CASE Tick
    BY <1>4 DEF Tick
  <1>5. CASE UNCHANGED vars
    BY <1>5 DEF vars
  <1> QED
    BY <1>1, <1>2, <1>3, <1>4, <1>5 DEF Next

LEMMA TypeStep ==
    ASSUME TypeOK, IInv, IInv', [Next]_vars
    PROVE  TypeOK'
  <1>1. ledger' \in Ledger
    BY TypeMoney, StepMoney DEF Quiet, MoneyFollows
  <1>2. /\ config' \in Config /\ state' \in [AuctionIds -> States]
        /\ closeAt' \in [AuctionIds -> Nat] /\ highBid' \in [AuctionIds -> Nat]
        /\ highBidder' \in [AuctionIds -> Accounts \union {NoAccount}]
        /\ nftOwner' \in [NFTs -> Accounts \union {EA}]
    BY DEF IInv, RecordTypeOK
  <1> QED
    BY <1>1, <1>2, TermsStep, NonceStep, ClockAndAdminStep DEF TypeOK
-----------------------------------------------------------------------------
(* The types hold in every reachable state.                                  *)

LEMMA NextKeepsIInv ==
    ASSUME IInv, [Next]_vars
    PROVE  IInv'
  BY LifecycleStep, MoneyStep, OwnerStep, TickStep, StutterStep DEF Next

\* Storage and ledger keep their types: no balance, queue entry or accrued fee
\* is ever debited below zero, whatever pushes fail.
THEOREM TypeCorrect == Spec => []TypeOK
  <1>1. TypeOK /\ IInv /\ [Next]_vars => TypeOK'
    BY NextKeepsIInv, TypeStep
  <1> QED
    BY InitType, Invariance, <1>1, PTL DEF Spec

-----------------------------------------------------------------------------
(* The books balance.                                                        *)

LEMMA BookedTypeNext ==
    ASSUME TypeOK', NEW id \in AuctionIds, NEW r \in Rails
    PROVE  /\ StandingOn(id, r)' \in Nat /\ EscrowOn(id, r)' \in Int
           /\ Booked(id, r)' \in Int
  <1>1. terms'[id] \in Terms /\ highBid'[id] \in Nat
    BY DEF TypeOK
  <1>2. terms'[id].lazy \in Nat /\ terms'[id].nfts \in Seq(NFTs)
    BY <1>1 DEF Terms
  <1>3. Hops(id)' \in Nat
    BY <1>2 DEF Hops, CUSTODY_HOP_TINYBAR
  <1>4. StandingOn(id, r)' \in Nat /\ EscrowOn(id, r)' \in Int
    BY <1>1, <1>2, <1>3 DEF StandingOn, EscrowOn
  <1> QED
    BY <1>4 DEF Booked

LEMMA BooksStep ==
    ASSUME TypeOK, TypeOK', IInv, BooksBalance, [Next]_vars
    PROVE  BooksBalance'
  <1> SUFFICES ASSUME NEW r \in Rails
               PROVE  Surplus(ledger', r) = OverIds([id \in AuctionIds |-> Booked(id, r)'])
    BY DEF BooksBalance, Surplus, Net, Booked
  <1> DEFINE f == [id \in AuctionIds |-> Booked(id, r)]
             g == [id \in AuctionIds |-> Booked(id, r)']
  <1>1. Surplus(ledger, r) = OverIds(f)
    BY DEF BooksBalance, Surplus, Net, Booked
  <1>2. f \in [AuctionIds -> Int] /\ g \in [AuctionIds -> Int]
    BY TypeMoney, BookedType, BookedTypeNext
  <1>3. CASE Quiet
    <2>1. \A id \in AuctionIds : Booked(id, r)' = Booked(id, r)
      BY <1>3 DEF Quiet, Booked, StandingOn, EscrowOn, Live, Hops
    <2>2. g = f
      BY <2>1
    <2> QED
      BY <1>1, <1>3, <2>2 DEF Quiet
  <1>4. ASSUME NEW id \in AuctionIds, MoneyFollows(id), OthersSame(id)
        PROVE  Surplus(ledger', r) = OverIds(g)
    <2>1. \A i \in AuctionIds : i # id => Booked(i, r)' = Booked(i, r)
      BY <1>4 DEF OthersSame, Booked, StandingOn, EscrowOn, Live, Hops
    <2>2. /\ \A i \in AuctionIds : i # id => g[i] = f[i]
          /\ f[id] = Booked(id, r) /\ g[id] = Booked(id, r)'
      BY <2>1
    <2>3. Surplus(ledger', r) - Surplus(ledger, r) = g[id] - f[id]
      BY <1>4, <2>2 DEF MoneyFollows
    <2> HIDE DEF f, g
    <2>4. OverIds(g) = OverIds(f) + (g[id] - f[id])
      BY <1>2, <2>2, OverIdsUpdate
    <2>5. OverIds(f) \in Int /\ f[id] \in Int /\ g[id] \in Int
      BY <1>2, OverIdsType
    <2>6. Surplus(ledger', r) \in Int
      BY SurplusType DEF TypeOK
    <2> QED
      BY <1>1, <2>3, <2>4, <2>5, <2>6
  <1> QED
    BY <1>3, <1>4, TypeMoney, StepMoney

-----------------------------------------------------------------------------
(* Custody and the hops lent for it.                                         *)

\* A step keeps every bundle where it is, takes the bundle of a new auction
\* in, or gives that of a deleted one out.
OthersKept(id) ==
    \A i \in AuctionIds : i # id => (Live(i)' <=> Live(i)) /\ terms'[i] = terms[i]

BundlesKept ==
    /\ \A i \in AuctionIds : Live(i)' <=> Live(i)
    /\ terms' = terms
    /\ nftOwner' = nftOwner

Distinct(nfts) == \A j, k \in 1..Len(nfts) : nfts[j] = nfts[k] => j = k

TakenIn(id) ==
    /\ ~Live(id) /\ Live(id)' /\ OthersKept(id)
    /\ Distinct(terms'[id].nfts)
    /\ InCustody \cap Serials(terms'[id].nfts) = {}
    /\ InCustody' = InCustody \union Serials(terms'[id].nfts)

GivenOut(id) ==
    /\ Live(id) /\ ~Live(id)' /\ OthersKept(id)
    /\ InCustody' = InCustody \ Serials(terms[id].nfts)

LEMMA CreateTakesIn ==
    ASSUME TypeOK, IInv, NEW x \in Accounts, NEW p \in AuctionParams,
           CreateAuction(x, p), NEW id \in AuctionIds, id = <<x, sellerNonce[x]>>
    PROVE  TakenIn(id)
  <1>1. Seller(id) = x /\ ~Live(id)
    BY DEF Seller, IInv, RecordTypeOK, Records
  <1>2. terms'[id].nfts = p.nfts /\ Live(id)' /\ OthersKept(id)
    BY DEF CreateAuction, IInv, RecordTypeOK, Live, OthersKept
  <1>3. p.nfts \in Seq(NFTs) /\ x # EA
    BY ContractAssumption DEF AuctionParams
  <1>4. Distinct(p.nfts)
    <2>1. \A k \in 1..Len(p.nfts) : \A j \in 1..k-1 : p.nfts[j] # p.nfts[k]
      BY DEF CreateAuction
    <2> QED
      BY <1>3, <2>1 DEF Distinct
  <1>5. Serials(p.nfts) \subseteq NFTs /\ \A n \in Serials(p.nfts) : nftOwner[n] = x
    BY <1>3 DEF CreateAuction, Serials
  <1>6. nftOwner' = [n \in NFTs |-> IF n \in Serials(p.nfts) THEN EA ELSE nftOwner[n]]
    BY DEF CreateAuction
  <1>7. /\ InCustody \cap Serials(p.nfts) = {}
        /\ InCustody' = InCustody \union Serials(p.nfts)
    BY <1>3, <1>5, <1>6 DEF InCustody
  <1> QED
    BY <1>1, <1>2, <1>4, <1>7 DEF TakenIn

LEMMA ReleaseGivesOut ==
    ASSUME TypeOK, IInv, NEW id \in AuctionIds, NEW x \in Accounts, Live(id),
           DeleteRecord(id),
           nftOwner' = [n \in NFTs |->
               IF n \in Serials(terms[id].nfts) THEN x ELSE nftOwner[n]]
    PROVE  GivenOut(id)
  <1>1. ~Live(id)' /\ OthersKept(id)
    BY DEF DeleteRecord, IInv, RecordTypeOK, Live, OthersKept
  <1>2. InCustody' = InCustody \ Serials(terms[id].nfts)
    BY ContractAssumption DEF InCustody
  <1> QED
    BY <1>1, <1>2 DEF GivenOut

LEMMA StepBundles ==
    ASSUME TypeOK, IInv, [Next]_vars
    PROVE  BundlesKept \/ \E id \in AuctionIds : TakenIn(id) \/ GivenOut(id)
  <1>1. CASE \E x \in Accounts : \E p \in Listings[x] : CreateAuction(x, p)
    <2>1. PICK x \in Accounts : \E p \in Listings[x] : CreateAuction(x, p)
      BY <1>1
    <2>2. PICK p \in AuctionParams : CreateAuction(x, p)
      BY <2>1, InputAssumption
    <2>3. <<x, sellerNonce[x]>> \in AuctionIds
      BY <2>2, InputAssumption DEF CreateAuction, AuctionIds, IInv, RecordTypeOK
    <2>4. PICK id \in AuctionIds : id = <<x, sellerNonce[x]>>
      BY <2>3
    <2> QED
      BY <2>2, <2>4, CreateTakesIn
  <1>2. CASE \E x \in Accounts, id \in AuctionIds : CancelAuction(x, id)
    <2>1. PICK x \in Accounts, id \in AuctionIds : CancelAuction(x, id)
      BY <1>2
    <2>2. Seller(id) \in Accounts /\ Live(id)
      BY <2>1, IdParts DEF CancelAuction, CanCancel, Live
    <2> QED
      BY <2>1, <2>2, ReleaseGivesOut DEF CancelAuction
  <1>3. CASE \E id \in AuctionIds : ClaimAuctionNFT(id)
    <2>1. PICK id \in AuctionIds : ClaimAuctionNFT(id)
      BY <1>3
    <2>2. highBidder[id] \in Accounts /\ Live(id)
      BY <2>1 DEF ClaimAuctionNFT, Live, IInv, Claimant, RecordTypeOK
    <2> QED
      BY <2>1, <2>2, ReleaseGivesOut DEF ClaimAuctionNFT
  <1>4. ASSUME NEW x \in Accounts, NEW id \in AuctionIds, NEW amount, PlaceBid(x, id, amount)
        PROVE  BundlesKept
    <2>1. state[id] = "Open" /\ (state' = state \/ state' = [state EXCEPT ![id] = "Settled"])
      BY <1>4 DEF PlaceBid, AcceptsBid, Finalise
    <2>2. terms' = terms /\ nftOwner' = nftOwner
      BY <1>4 DEF PlaceBid, Finalise
    <2> QED
      BY <2>1, <2>2 DEF BundlesKept, Live, IInv, RecordTypeOK
  <1>5. CASE \E x \in Accounts, id \in AuctionIds : BuyNow(x, id)
    BY <1>4, <1>5 DEF BuyNow
  <1>6. CASE \E x \in Accounts, id \in AuctionIds : Settle(x, id)
    <2>1. PICK x \in Accounts, id \in AuctionIds : Settle(x, id)
      BY <1>6
    <2>2. /\ state[id] = "Open" /\ state' = [state EXCEPT ![id] = "Settled"]
          /\ terms' = terms /\ nftOwner' = nftOwner
      BY <2>1 DEF Settle, Due, Finalise
    <2> QED
      BY <2>2 DEF BundlesKept, Live, IInv, RecordTypeOK
  <1>7. CASE Money \/ Owner \/ Tick \/ UNCHANGED vars
    <2>1. UNCHANGED <<state, terms, nftOwner>>
      BY <1>7 DEF Money, Owner, Tick, vars, recordVars, custodyVars, Claim,
         WithdrawProtocolFee, Donate,
         SetPaused, SetVipSubscription, SetProtocolFeeBps, SetSettlementBountyBps,
         SetDefaults, SetDurationLimits, SetBcf, ExecuteBcfChange, CancelBcfChange
    <2> QED
      BY <2>1 DEF BundlesKept, Live
  <1> QED
    BY <1>1, <1>2, <1>3, <1>4, <1>5, <1>6, <1>7 DEF Next, Lifecycle

LEMMA DistinctStep ==
    ASSUME TypeOK, IInv, DistinctItems, [Next]_vars
    PROVE  DistinctItems'
  <1>1. \A id \in AuctionIds : Live(id) => Distinct(terms[id].nfts)
    BY DEF DistinctItems, Distinct
  <1>2. \A id \in AuctionIds : Live(id)' => Distinct(terms'[id].nfts)
    BY <1>1, StepBundles DEF BundlesKept, TakenIn, GivenOut, OthersKept
  <1> QED
    BY <1>2 DEF DistinctItems, Distinct, Live
\* A bundle that lists no serial twice has as many serials as items.
LEMMA SerialsCount ==
    ASSUME NEW nfts \in Seq(NFTs), Distinct(nfts)
    PROVE  IsFiniteSet(Serials(nfts)) /\ Cardinality(Serials(nfts)) = Len(nfts)
  <1> DEFINE f == [k \in 1..Len(nfts) |-> nfts[k]]
             S == 1..Len(nfts)
  <1>1. f \in Bijection(S, Serials(nfts))
    BY DEF Bijection, Injection, Surjection, IsInjective, Serials, Distinct
  <1>2. ExistsBijection(S, Serials(nfts))
    BY <1>1 DEF ExistsBijection
  <1>3. IsFiniteSet(S) /\ Cardinality(S) = Len(nfts)
    <2>1. Len(nfts) \in Nat
      OBVIOUS
    <2> QED
      BY <2>1, FS_Interval
  <1> HIDE DEF S
  <1> QED
    BY <1>2, <1>3, FS_Bijection

LEMMA CustodyFinite ==
    /\ IsFiniteSet(InCustody) /\ Cardinality(InCustody) \in Nat
    /\ Cardinality(InCustody) <= Cardinality(NFTs) /\ Cardinality(NFTs) \in Nat
  <1>1. InCustody \in SUBSET NFTs
    BY DEF InCustody
  <1> QED
    BY <1>1, DeployAssumption, FS_Subset, FS_CardinalityType

\* The hops that auction id has lent, as its escrow on the HBAR rail.
LEMMA EscrowOnHbar ==
    ASSUME NEW id
    PROVE  /\ EscrowOn(id, "HBAR") = IF Live(id) THEN -Len(terms[id].nfts) ELSE 0
           /\ EscrowOn(id, "HBAR")' = IF Live(id)' THEN -Len(terms'[id].nfts) ELSE 0
  BY DEF EscrowOn, Hops, CUSTODY_HOP_TINYBAR

LEMMA HopsStep ==
    ASSUME TypeOK, TypeOK', IInv, DistinctItems, HopsLent, [Next]_vars
    PROVE  HopsLent'
  <1> DEFINE f == [id \in AuctionIds |-> EscrowOn(id, "HBAR")]
             g == [id \in AuctionIds |-> EscrowOn(id, "HBAR")']
             C == InCustody
             D == InCustody'
  <1>1. OverIds(f) + Cardinality(C) = 0
    BY DEF HopsLent
  <1>2. SUFFICES OverIds(g) + Cardinality(D) = 0
    BY DEF HopsLent
  <1>3. f \in [AuctionIds -> Int] /\ g \in [AuctionIds -> Int]
    BY TypeMoney, BookedType, BookedTypeNext DEF Rails
  <1>4. IsFiniteSet(C) /\ Cardinality(C) \in Nat
    BY CustodyFinite
  <1>5. \A id \in AuctionIds :
            /\ terms[id].nfts \in Seq(NFTs) /\ Len(terms[id].nfts) \in Nat
            /\ terms'[id].nfts \in Seq(NFTs) /\ Len(terms'[id].nfts) \in Nat
    <2>1. \A id \in AuctionIds : terms[id] \in Terms /\ terms'[id] \in Terms
      BY DEF TypeOK
    <2>2. \A t \in Terms : t.nfts \in Seq(NFTs) /\ Len(t.nfts) \in Nat
      BY DEF Terms
    <2> QED
      BY <2>1, <2>2
  <1>6. /\ \A i \in AuctionIds : f[i] = IF Live(i) THEN -Len(terms[i].nfts) ELSE 0
        /\ \A i \in AuctionIds : g[i] = IF Live(i)' THEN -Len(terms'[i].nfts) ELSE 0
    BY EscrowOnHbar
  <1>7. CASE BundlesKept
    <2>1. D = C
      BY <1>7 DEF BundlesKept, InCustody
    <2>2. g = f
      BY <1>6, <1>7 DEF BundlesKept
    <2> QED
      BY <1>1, <2>1, <2>2
  <1>8. ASSUME NEW id \in AuctionIds, TakenIn(id) \/ GivenOut(id)
        PROVE  OverIds(g) + Cardinality(D) = 0
    <2>1. \A i \in AuctionIds : i # id => g[i] = f[i]
      BY <1>6, <1>8 DEF TakenIn, GivenOut, OthersKept
    <2>2. OverIds(g) = OverIds(f) + (g[id] - f[id])
      <3> HIDE DEF f, g
      <3> QED
        BY <1>3, <2>1, OverIdsUpdate
    <2>3. OverIds(f) \in Int
      <3> HIDE DEF f
      <3> QED
        BY <1>3, OverIdsType
    <2>4. CASE TakenIn(id)
      <3> DEFINE S == Serials(terms'[id].nfts)
                 l == Len(terms'[id].nfts)
      <3>1. IsFiniteSet(S) /\ Cardinality(S) = l /\ l \in Nat
        BY <1>5, <2>4, SerialsCount DEF TakenIn
      <3>2. f[id] = 0 /\ g[id] = -l
        BY <1>6, <2>4 DEF TakenIn
      <3>3. C \cap S = {} /\ D = C \union S
        BY <2>4 DEF TakenIn
      <3> HIDE DEF S, l, f, g, C, D
      <3>4. Cardinality(C \union S) = Cardinality(C) + Cardinality(S) - Cardinality(C \cap S)
        BY <1>4, <3>1, FS_Union
      <3>5. Cardinality(D) = Cardinality(C) + l
        BY <1>4, <3>1, <3>3, <3>4, FS_EmptySet
      <3> QED
        BY <1>1, <1>4, <2>2, <2>3, <3>1, <3>2, <3>5
    <2>5. CASE GivenOut(id)
      <3> DEFINE S == Serials(terms[id].nfts)
                 l == Len(terms[id].nfts)
      <3>1. IsFiniteSet(S) /\ Cardinality(S) = l /\ l \in Nat
        BY <1>5, <2>5, SerialsCount DEF GivenOut, DistinctItems, Distinct
      <3>2. f[id] = -l /\ g[id] = 0
        BY <1>6, <2>5 DEF GivenOut
      <3>3. D = C \ S
        BY <2>5 DEF GivenOut
      <3>4. S \subseteq C
        <4>1. S \subseteq NFTs
          BY <1>5 DEF Serials
        <4>2. \A n \in S : nftOwner[n] = EA
          BY <2>5, <4>1 DEF IInv, Custody, GivenOut
        <4> QED
          BY <4>1, <4>2 DEF InCustody
      <3> HIDE DEF S, l, f, g, C, D
      <3>5. C \cap S = S
        BY <3>4
      <3>6. Cardinality(D) = Cardinality(C) - l
        BY <1>4, <3>1, <3>3, <3>5, FS_Difference
      <3> QED
        BY <1>1, <1>4, <2>2, <2>3, <3>1, <3>2, <3>6
    <2> QED
      BY <1>8, <2>4, <2>5
  <1> QED
    BY <1>7, <1>8, StepBundles

LEMMA FloatStep ==
    ASSUME TypeOK, TypeOK', IInv, FloatCovers, [Next]_vars
    PROVE  FloatCovers'
  <1>1. ledger'.float["HBAR"] >= ledger.float["HBAR"]
    <2>1. ledger.float["HBAR"] \in Nat
      BY LedgerParts DEF TypeOK, Rails
    <2> QED
      BY <2>1, TypeMoney, StepMoney DEF Quiet, MoneyFollows, Rails
  <1>2. /\ ledger.float["HBAR"] \in Nat /\ ledger'.float["HBAR"] \in Nat
        /\ Cardinality(NFTs) \in Nat
    BY LedgerParts, CustodyFinite DEF TypeOK, Rails
  <1> QED
    BY <1>1, <1>2 DEF FloatCovers

LEMMA InitMoney ==
    ASSUME Init
    PROVE  DistinctItems /\ HopsLent /\ BooksBalance /\ FloatCovers
  <1>1. \A id \in AuctionIds : ~Live(id)
    BY DEF Init, Live
  <1>2. \A id \in AuctionIds, r \in Rails : StandingOn(id, r) = 0 /\ EscrowOn(id, r) = 0
    BY <1>1 DEF StandingOn, EscrowOn, Live
  <1>3. HopsLent
    <2> DEFINE f == [id \in AuctionIds |-> EscrowOn(id, "HBAR")]
    <2>1. f \in [AuctionIds -> Int] /\ \A id \in AuctionIds : f[id] = 0
      BY <1>2 DEF Rails
    <2>2. InCustody = {}
      BY ContractAssumption DEF Init, InCustody
    <2>3. OverIds(f) = 0
      <3> HIDE DEF f
      <3> QED
        BY <2>1, OverIdsOfZeros
    <2> QED
      BY <2>2, <2>3, FS_EmptySet DEF HopsLent
  <1>4. ASSUME NEW r \in Rails
        PROVE  ledger.held[r] - Queued(ledger, r) - ledger.accrued[r] - ledger.float[r]
                   = OverIds([id \in AuctionIds |-> StandingOn(id, r) + EscrowOn(id, r)])
    <2> DEFINE f == [id \in AuctionIds |-> StandingOn(id, r) + EscrowOn(id, r)]
    <2>1. f \in [AuctionIds -> Int] /\ \A id \in AuctionIds : f[id] = 0
      BY <1>2
    <2>2. OverIds(f) = 0
      <3> HIDE DEF f
      <3> QED
        BY <2>1, OverIdsOfZeros
    <2>3. /\ ledger.claimable[r] \in [Accounts -> Nat] /\ ledger.held[r] \in Nat
          /\ ledger.held[r] = ledger.float[r] /\ ledger.accrued[r] = 0
          /\ \A x \in Accounts : ledger.claimable[r][x] = 0
      BY ContractAssumption, DeployAssumption, LedgerParts DEF Init
    <2>4. Queued(ledger, r) = 0
      <3> DEFINE q == ledger.claimable[r]
      <3>1. q \in [Accounts -> Int] /\ \A x \in Accounts : q[x] = 0
        BY <2>3
      <3>2. AccountSeq \in Seq(Accounts)
        BY AccountsAssumption
      <3> HIDE DEF q
      <3>3. SumOver(q, AccountSeq) = 0
        BY <3>1, <3>2, SumOverOfZeros
      <3> QED
        BY <3>3 DEF q, Queued
    <2> QED
      BY <2>2, <2>3, <2>4
  <1>5. FloatCovers
    BY DeployAssumption DEF Init, FloatCovers
  <1> QED
    BY <1>1, <1>3, <1>4, <1>5 DEF DistinctItems, BooksBalance

\* The inductive invariant of the contract's money.
THEOREM MoneyInvariance == Spec => []MoneyInv
  <1>1. Init => MoneyInv
    BY InitIInv, InitType, InitMoney DEF MoneyInv
  <1>2. MoneyInv /\ [Next]_vars => MoneyInv'
    <2> SUFFICES ASSUME MoneyInv, [Next]_vars PROVE MoneyInv'
      OBVIOUS
    <2>1. IInv'
      BY NextKeepsIInv DEF MoneyInv
    <2>2. TypeOK'
      BY <2>1, TypeStep DEF MoneyInv
    <2> QED
      BY <2>1, <2>2, DistinctStep, HopsStep, BooksStep, FloatStep DEF MoneyInv
  <1> QED
    BY <1>1, <1>2, PTL DEF Spec

-----------------------------------------------------------------------------
(* Solvency.                                                                 *)

LEMMA OverIdsAdd ==
    ASSUME NEW f, NEW g, NEW h, TermSum(h, f, g, AuctionIds)
    PROVE  OverIds(h) = OverIds(f) + OverIds(g)
  <1>1. f \in [AuctionIds -> Int] /\ g \in [AuctionIds -> Int] /\ h \in [AuctionIds -> Int]
    BY DEF TermSum
  <1>2. ASSUME NEW x \in Accounts PROVE Row(h)[x] = Row(f)[x] + Row(g)[x]
    <2>1. /\ RowTerms(f, x) \in Seq(Int) /\ Len(RowTerms(f, x)) = MaxNonce
          /\ RowTerms(g, x) \in Seq(Int) /\ Len(RowTerms(g, x)) = MaxNonce
          /\ RowTerms(h, x) \in Seq(Int) /\ Len(RowTerms(h, x)) = MaxNonce
          /\ MaxNonce \in Nat
      BY <1>1, RowTermsType, InputAssumption
    <2>2. \A n \in 1..MaxNonce : <<x, n-1>> \in AuctionIds
      BY <2>1 DEF AuctionIds
    <2>3. \A n \in 1..MaxNonce : RowTerms(h, x)[n] = RowTerms(f, x)[n] + RowTerms(g, x)[n]
      BY <2>2 DEF RowTerms, TermSum
    <2>4. SumSeq(RowTerms(h, x)) = SumSeq(RowTerms(f, x)) + SumSeq(RowTerms(g, x))
      <3> DEFINE s == RowTerms(f, x)
                 t == RowTerms(g, x)
                 u == RowTerms(h, x)
      <3>1. /\ s \in Seq(Int) /\ t \in Seq(Int) /\ u \in Seq(Int)
            /\ Len(t) = Len(s) /\ Len(u) = Len(s)
            /\ \A n \in 1..Len(s) : u[n] = s[n] + t[n]
        BY <2>1, <2>3
      <3> HIDE DEF s, t, u
      <3>2. SumSeq(u) = SumSeq(s) + SumSeq(t)
        BY <3>1, SumSeqAdd
      <3> QED
        BY <3>2 DEF s, t, u
    <2> QED
      BY <2>4 DEF Row
  <1>3. TermSum(Row(h), Row(f), Row(g), Accounts)
    BY <1>1, <1>2, RowType DEF TermSum
  <1>4. AccountSeq \in Seq(Accounts)
    BY AccountsAssumption
  <1> QED
    BY <1>3, <1>4, SumOverAdd, OverIdsIsSum

\* What the escrow takes from the balance is covered: nothing on the $LAZY
\* rail, and by the float on the HBAR rail.
LEMMA FloatCoversHops ==
    ASSUME MoneyInv, NEW r \in Rails
    PROVE  ledger.float[r] + OverIds([id \in AuctionIds |-> EscrowOn(id, r)])
               >= OverIds([id \in AuctionIds |-> GreaterOf(0, EscrowOn(id, r))])
  <1> DEFINE e == [id \in AuctionIds |-> EscrowOn(id, r)]
             p == [id \in AuctionIds |-> GreaterOf(0, EscrowOn(id, r))]
  <1>1. e \in [AuctionIds -> Int] /\ p \in [AuctionIds -> Int]
    BY TypeMoney, BookedType DEF MoneyInv, GreaterOf
  <1>2. ledger.float[r] \in Nat
    BY LedgerParts DEF MoneyInv, TypeOK
  <1>3. \A id \in AuctionIds : Hops(id) \in Nat /\ terms[id].lazy \in Nat
    BY TypeMoney, TermsParts DEF MoneyInv
  <1>4. CASE r = "LAZY"
    <2>1. \A id \in AuctionIds : GreaterOf(0, EscrowOn(id, r)) = EscrowOn(id, r)
      BY <1>3, <1>4 DEF EscrowOn, GreaterOf
    <2>2. p = e
      BY <2>1
    <2>3. OverIds(e) \in Int
      <3> HIDE DEF e
      <3> QED
        BY <1>1, OverIdsType
    <2> HIDE DEF p, e
    <2>4. ledger.float[r] + OverIds(e) >= OverIds(p)
      BY <1>2, <2>2, <2>3
    <2> QED
      BY <2>4 DEF p, e
  <1>5. CASE r = "HBAR"
    <2>1. \A id \in AuctionIds : p[id] = 0
      BY <1>3, <1>5 DEF EscrowOn, GreaterOf
    <2>2. OverIds(p) = 0
      <3> HIDE DEF p
      <3> QED
        BY <1>1, <2>1, OverIdsOfZeros
    <2>3. OverIds(e) + Cardinality(InCustody) = 0
      BY <1>5 DEF MoneyInv, HopsLent
    <2>4. OverIds(e) \in Int
      <3> HIDE DEF e
      <3> QED
        BY <1>1, OverIdsType
    <2>5. ledger.float[r] >= Cardinality(NFTs)
      BY <1>5 DEF MoneyInv, FloatCovers
    <2> HIDE DEF p, e
    <2>6. ledger.float[r] + OverIds(e) >= OverIds(p)
      BY <1>2, <2>2, <2>3, <2>4, <2>5, CustodyFinite
    <2> QED
      BY <2>6 DEF p, e
  <1> QED
    BY <1>4, <1>5 DEF Rails

\* Both halves of Solvent follow from the inductive invariant.
LEMMA MoneyInvSolvent == MoneyInv => Solvent
  <1> SUFFICES ASSUME MoneyInv, NEW r \in Rails
               PROVE  /\ ledger.held[r] = ledger.float[r] + Owed(r)
                             + OverIds([id \in AuctionIds |-> EscrowOn(id, r)])
                      /\ ledger.held[r] >= Owed(r)
                             + OverIds([id \in AuctionIds |-> GreaterOf(0, EscrowOn(id, r))])
    BY DEF Solvent
  <1> DEFINE s == [id \in AuctionIds |-> StandingOn(id, r)]
             e == [id \in AuctionIds |-> EscrowOn(id, r)]
             b == [id \in AuctionIds |-> StandingOn(id, r) + EscrowOn(id, r)]
             p == [id \in AuctionIds |-> GreaterOf(0, EscrowOn(id, r))]
  <1>1. \A id \in AuctionIds : StandingOn(id, r) \in Nat /\ EscrowOn(id, r) \in Int
    BY TypeMoney, BookedType DEF MoneyInv
  <1>2. /\ s \in [AuctionIds -> Int] /\ e \in [AuctionIds -> Int] /\ p \in [AuctionIds -> Int]
        /\ TermSum(b, s, e, AuctionIds)
    BY <1>1 DEF TermSum, GreaterOf
  <1>3. ledger.held[r] - Queued(ledger, r) - ledger.accrued[r] - ledger.float[r] = OverIds(b)
    BY DEF MoneyInv, BooksBalance
  <1>4. ledger.float[r] + OverIds(e) >= OverIds(p)
    BY FloatCoversHops
  <1>5. Owed(r) = Queued(ledger, r) + ledger.accrued[r] + OverIds(s)
    BY DEF Owed
  <1>6. /\ ledger.held[r] \in Nat /\ ledger.accrued[r] \in Nat /\ ledger.float[r] \in Nat
        /\ Queued(ledger, r) \in Nat
    BY LedgerParts, QueuedType DEF MoneyInv, TypeOK
  <1> HIDE DEF s, e, b, p
  <1>7. /\ OverIds(b) = OverIds(s) + OverIds(e)
        /\ OverIds(s) \in Int /\ OverIds(e) \in Int /\ OverIds(p) \in Int
    BY <1>2, OverIdsAdd, OverIdsType
  <1>8. /\ ledger.held[r] = ledger.float[r] + Owed(r) + OverIds(e)
        /\ ledger.held[r] >= Owed(r) + OverIds(p)
    BY <1>3, <1>4, <1>5, <1>6, <1>7
  <1> QED
    BY <1>8 DEF e, p

\* Every unit that the contract holds is accounted for, and the balance covers
\* all that it owes: bids, refunds, royalties, fees and escrow.
THEOREM SolventHolds == Spec => []Solvent
  BY MoneyInvariance, MoneyInvSolvent, PTL
-----------------------------------------------------------------------------
(* What a step may never do with the money.                                  *)

\* The protocol keeps at most a tenth of the price of the auction that a step
\* settles, and nothing otherwise.
THEOREM FeeIsBoundedHolds == Spec => FeeIsBounded
  <1> DEFINE Bounded ==
        \A r \in Rails : ledger'.accrued[r] > ledger.accrued[r] =>
          \E id \in AuctionIds :
              /\ state[id] = "Open" /\ state'[id] = "Settled"
              /\ highBidder'[id] # Seller(id) /\ terms[id].payment = r
              /\ 10 * (ledger'.accrued[r] - ledger.accrued[r]) <= highBid'[id]
  <1>1. TypeOK /\ TypeOK' /\ IInv /\ [Next]_vars => Bounded
    <2> SUFFICES ASSUME TypeOK, TypeOK', IInv, [Next]_vars, NEW r \in Rails,
                        ledger'.accrued[r] > ledger.accrued[r]
                 PROVE  \E id \in AuctionIds : FeeFrom(id, r)
      BY DEF FeeFrom
    <2>1. ledger.accrued[r] \in Nat /\ ledger'.accrued[r] \in Nat
      BY LedgerParts DEF TypeOK
    <2>2. ~Quiet
      BY <2>1 DEF Quiet
    <2> QED
      BY <2>2, TypeMoney, StepMoney DEF MoneyFollows
  <1> HIDE DEF Bounded
  <1>2. Spec => [][Bounded]_vars
    BY Invariance, TypeCorrect, <1>1, PTL DEF Spec
  <1> QED
    BY <1>2 DEF FeeIsBounded, Bounded

LEMMA StakeType ==
    ASSUME TypeOK, TypeOK', IInv, NEW x \in Accounts, NEW r \in Rails, NEW id \in AuctionIds
    PROVE  /\ Stake(x, r, id) \in Int /\ Stake(x, r, id)' \in Int
           /\ SaleCost(x, r, id) \in Int
  <1>1. /\ StandingOn(id, r) \in Int /\ EscrowOn(id, r) \in Int
        /\ StandingOn(id, r)' \in Int /\ EscrowOn(id, r)' \in Int
    BY TypeMoney, BookedType, BookedTypeNext
  <1>2. Stake(x, r, id) \in Int
    BY <1>1 DEF Stake
  <1>3. Stake(x, r, id)' \in Int
    BY <1>1 DEF Stake
  <1>4. highBid'[id] \in Nat /\ Hops(id) \in Nat /\ terms[id].lazy \in Nat
    BY TypeMoney, TermsParts DEF TypeOK
  <1>5. SaleCost(x, r, id) \in Int
    BY <1>4 DEF SaleCost
  <1> QED
    BY <1>2, <1>3, <1>5

\* The stake of every account in an auction that a step leaves alone stays.
LEMMA StakeKept ==
    ASSUME TypeOK, TypeOK', IInv, NEW x \in Accounts, NEW r \in Rails, NEW id \in AuctionIds,
           UNCHANGED <<state[id], terms[id], highBid[id], highBidder[id]>>
    PROVE  Stake(x, r, id)' - Stake(x, r, id) + SaleCost(x, r, id) = 0
  <1>1. Stake(x, r, id)' = Stake(x, r, id)
    BY DEF Stake, Beneficiary, StandingOn, EscrowOn, Live, Hops
  <1>2. SaleCost(x, r, id) = 0
    BY DEF SaleCost
  <1> QED
    BY <1>1, <1>2, StakeType

\* Nobody gets poorer but by winning an auction, at no more than its final
\* price, or by donating.
THEOREM LosesOnlyByBuyingHolds == Spec => LosesOnlyByBuying
  <1> DEFINE Loss(x, r) ==
        OverIds([id \in AuctionIds |->
                    Stake(x, r, id)' - Stake(x, r, id) + SaleCost(x, r, id)])
  <1>1. TypeOK /\ TypeOK' /\ IInv /\ [Next]_vars => OnlyBuyersLose
    <2> SUFFICES ASSUME TypeOK, TypeOK', IInv, [Next]_vars, NEW x \in Accounts, NEW r \in Rails
                 PROVE  Own(ledger', r, x) - Own(ledger, r, x)
                            + (ledger'.float[r] - ledger.float[r]) + Loss(x, r) >= 0
      BY DEF Own, Owns, OnlyBuyersLose
    <2> DEFINE f == [id \in AuctionIds |->
                        Stake(x, r, id)' - Stake(x, r, id) + SaleCost(x, r, id)]
    <2>1. f \in [AuctionIds -> Int]
      BY StakeType
    <2>2. /\ Own(ledger', r, x) \in Nat /\ Own(ledger, r, x) \in Nat
          /\ ledger'.float[r] \in Nat /\ ledger.float[r] \in Nat
      BY OwnType, LedgerParts DEF TypeOK
    <2>3. CASE Quiet
      <3>1. \A id \in AuctionIds : f[id] = 0
        BY <2>3, StakeKept DEF Quiet
      <3>2. Own(ledger', r, x) - Own(ledger, r, x) + (ledger'.float[r] - ledger.float[r]) >= 0
        BY <2>3 DEF Quiet
      <3> HIDE DEF f
      <3>3. OverIds(f) = 0
        BY <2>1, <3>1, OverIdsOfZeros
      <3>4. Own(ledger', r, x) - Own(ledger, r, x)
                + (ledger'.float[r] - ledger.float[r]) + OverIds(f) >= 0
        BY <2>2, <3>2, <3>3
      <3> QED
        BY <3>4 DEF f
    <2>4. ASSUME NEW id \in AuctionIds, MoneyFollows(id), OthersSame(id)
          PROVE  Own(ledger', r, x) - Own(ledger, r, x)
                     + (ledger'.float[r] - ledger.float[r]) + Loss(x, r) >= 0
      <3>1. \A i \in AuctionIds : i # id => f[i] = 0
        BY <2>4, StakeKept DEF OthersSame
      <3>2. Own(ledger', r, x) - Own(ledger, r, x) + f[id] >= 0
        BY <2>4 DEF MoneyFollows
      <3>3. ledger'.float[r] = ledger.float[r]
        BY <2>4 DEF MoneyFollows
      <3> HIDE DEF f
      <3>4. OverIds(f) = f[id] /\ f[id] \in Int
        BY <2>1, <3>1, OverIdsOfOne
      <3>5. Own(ledger', r, x) - Own(ledger, r, x)
                + (ledger'.float[r] - ledger.float[r]) + OverIds(f) >= 0
        BY <2>2, <3>2, <3>3, <3>4
      <3> QED
        BY <3>5 DEF f
    <2> QED
      BY <2>3, <2>4, TypeMoney, StepMoney
  <1>2. Spec => [][OnlyBuyersLose]_vars
    BY Invariance, TypeCorrect, <1>1, PTL DEF Spec
  <1> QED
    BY <1>2 DEF LosesOnlyByBuying
=============================================================================
