-------------------------- MODULE SecureTradeProofs --------------------------
(***************************************************************************)
(* Theorems about SecureTrade: the notice windows of its two delegations   *)
(* of trust, and the agreement of its indexes with its listings.           *)
(***************************************************************************)
EXTENDS SecureTradeProperties, SumsProofs

(***************************************************************************)
(* The notice windows.                                                     *)
(***************************************************************************)
LEMMA InitAuthority == Init => AuthorityInv
  <1>1. AuthorityInit => AuthorityInv
    <2> SUFFICES ASSUME AuthorityInit PROVE AuthorityInv
      OBVIOUS
    <2>1. AuthorityTypeOK /\ now # 0
      BY AuthorityAssumption DEF AuthorityInit, AuthorityTypeOK, NoProposal
    <2>2. PendingIsAnnounced
      BY DEF AuthorityInit, PendingIsAnnounced
    <2> QED
      BY <2>1, <2>2 DEF AuthorityInv
  <1> QED
    BY <1>1 DEF Init

LEMMA GrantAuthority ==
    ASSUME AuthorityInv, Grant, UNCHANGED now
    PROVE  AuthorityInv'
  <1> PICK f \in Factories :
          \/ GrantFirstFactory(f)
          \/ AnnounceFactory(f)
          \/ RevokeFactory(f)
          \/ ExecuteFactoryAuthorization(f)
          \/ CancelFactoryAuthorization(f)
    BY DEF Grant
  <1> USE AuthorityAssumption
          DEF AuthorityInv, AuthorityTypeOK, PendingIsAnnounced, Grant, resolverVars
  <1>1. CASE GrantFirstFactory(f)
    BY <1>1 DEF GrantFirstFactory
  <1>2. CASE AnnounceFactory(f)
    BY <1>2 DEF AnnounceFactory
  <1>3. CASE RevokeFactory(f)
    BY <1>3 DEF RevokeFactory
  <1>4. CASE ExecuteFactoryAuthorization(f)
    BY <1>4 DEF ExecuteFactoryAuthorization
  <1>5. CASE CancelFactoryAuthorization(f)
    BY <1>5 DEF CancelFactoryAuthorization
  <1> QED
    BY <1>1, <1>2, <1>3, <1>4, <1>5

LEMMA ResolverAuthority ==
    ASSUME AuthorityInv, Resolver, UNCHANGED now
    PROVE  AuthorityInv'
  <1> USE AuthorityAssumption
          DEF AuthorityInv, AuthorityTypeOK, PendingIsAnnounced, Resolver, grantVars
  <1>1. ASSUME NEW b \in Factories \union {NoOne}, SetFirstBcf(b)
        PROVE  AuthorityInv'
    BY <1>1 DEF SetFirstBcf
  <1>2. ASSUME NEW b \in Factories \union {NoOne}, ProposeBcf(b)
        PROVE  AuthorityInv'
    BY <1>2 DEF ProposeBcf
  <1>3. CASE ExecuteBcfChange
    BY <1>3 DEF ExecuteBcfChange, NoProposal
  <1>4. CASE CancelBcfChange
    BY <1>4 DEF CancelBcfChange, NoProposal
  <1> QED
    BY <1>1, <1>2, <1>3, <1>4

\* What every action other than the owner's trust decisions leaves alone.
LEMMA TrustUntouched ==
    ASSUME [Next]_vars
    PROVE  \/ Authority
           \/ UNCHANGED authorityVars /\ now' \in {now, now + 1}
  <1> SUFFICES ASSUME ~Authority
               PROVE  UNCHANGED authorityVars /\ now' \in {now, now + 1}
    OBVIOUS
  <1>1. CASE Creation
    <2>1. ASSUME NEW s, NEW list, NEW b, NEW e, ListTrades(s, list, b, e)
          PROVE  UNCHANGED <<authorityVars, now>>
      BY <2>1 DEF ListTrades
    <2>2. ASSUME NEW s, NEW bundle, NEW b, NEW e, CreateBatchTrade(s, bundle, b, e)
          PROVE  UNCHANGED <<authorityVars, now>>
      BY <2>2 DEF CreateBatchTrade
    <2> QED
      BY <1>1, <2>1, <2>2
      DEF Creation, CreateTrade, CreateTradeOnBehalf, CreateMultipleTrades
  <1>2. CASE Cancellation
    BY <1>2 DEF Cancellation, CancelTrades, CancelMultipleTrades, CancelBatchTrade,
                NothingSold
  <1>3. CASE Execution
    <2>1. ASSUME NEW D, NEW sale, NEW b, NEW v, Settle(D, sale, b, v)
          PROVE  UNCHANGED <<authorityVars, now>>
      BY <2>1 DEF Settle
    <2> QED
      BY <1>3, <2>1 DEF Execution, ExecuteTrades, ExecuteBatchTrade
  <1>4. CASE Owner \/ Wallets \/ Tick
    BY <1>4 DEF Owner, Wallets, Tick
  <1>5. CASE Trust
    BY <1>5 DEF Trust
  <1>6. CASE UNCHANGED vars
    BY <1>6 DEF vars
  <1> QED
    BY <1>1, <1>2, <1>3, <1>4, <1>5, <1>6 DEF Next

LEMMA NextAuthority == AuthorityInv /\ [Next]_vars => AuthorityInv'
  <1> SUFFICES ASSUME AuthorityInv, [Next]_vars PROVE AuthorityInv'
    OBVIOUS
  <1>1. CASE Authority
    BY <1>1, GrantAuthority, ResolverAuthority DEF Authority
  <1>2. CASE UNCHANGED authorityVars /\ now' \in {now, now + 1}
    BY <1>2 DEF AuthorityInv, AuthorityTypeOK, PendingIsAnnounced, authorityVars,
                grantVars, resolverVars
  <1> QED
    BY <1>1, <1>2, TrustUntouched

\* A deadline of authorizeFactory or setBcf always belongs to an announcement
\* that still stands, and lies a full timelock after it.
THEOREM AuthorityInvariance == Spec => []AuthorityInv
  <1>1. Init => AuthorityInv
    BY InitAuthority
  <1> QED
    BY <1>1, NextAuthority, PTL DEF Spec

LEMMA AuthorityStep ==
    ASSUME AuthorityInv, Authority
    PROVE  /\ \A f \in authorizedFactories' \ authorizedFactories :
                 factoryAuthorityEverGranted =>
                    announced[f] # 0 /\ now >= announced[f] + TIMELOCK
           /\ bcf' # bcf /\ bcf # NoOne =>
                 /\ proposed.at # 0
                 /\ bcf' = proposed.bcf
                 /\ now >= proposed.at + TIMELOCK
  <1> USE DEF AuthorityInv, AuthorityTypeOK, PendingIsAnnounced
  <1>1. CASE Grant
    BY <1>1 DEF Grant, GrantFirstFactory, AnnounceFactory, RevokeFactory,
                ExecuteFactoryAuthorization, CancelFactoryAuthorization, resolverVars
  <1>2. CASE Resolver
    BY <1>2 DEF Resolver, SetFirstBcf, ProposeBcf, ExecuteBcfChange, CancelBcfChange,
                grantVars
  <1> QED
    BY <1>1, <1>2 DEF Authority

\* Once any factory has been authorized, none gains authority without a full
\* timelock of public notice.
THEOREM GrantsAreNoticedHolds == Spec => GrantsAreNoticed
  <1> DEFINE Noticed ==
        \A f \in authorizedFactories' \ authorizedFactories :
           factoryAuthorityEverGranted =>
              announced[f] # 0 /\ now >= announced[f] + TIMELOCK
  <1>1. AuthorityInv /\ [Next]_vars => [Noticed]_<<authorityVars, now>>
    <2> SUFFICES ASSUME AuthorityInv, [Next]_vars PROVE Noticed
      OBVIOUS
    <2>1. CASE Authority
      BY <2>1, AuthorityStep
    <2>2. CASE UNCHANGED authorityVars
      BY <2>2 DEF authorityVars, grantVars
    <2> QED
      BY <2>1, <2>2, TrustUntouched
  <1> QED
    BY <1>1, AuthorityInvariance, PTL DEF Spec, GrantsAreNoticed

\* A resolver in use is replaced only by the one announced last, a full
\* timelock after that announcement.
THEOREM RotationsAreNoticedHolds == Spec => RotationsAreNoticed
  <1> DEFINE Noticed ==
        bcf' # bcf /\ bcf # NoOne =>
           /\ proposed.at # 0
           /\ bcf' = proposed.bcf
           /\ now >= proposed.at + TIMELOCK
  <1>1. AuthorityInv /\ [Next]_vars => [Noticed]_<<authorityVars, now>>
    <2> SUFFICES ASSUME AuthorityInv, [Next]_vars PROVE Noticed
      OBVIOUS
    <2>1. CASE Authority
      BY <2>1, AuthorityStep
    <2>2. CASE UNCHANGED authorityVars
      BY <2>2 DEF authorityVars, resolverVars
    <2> QED
      BY <2>1, <2>2, TrustUntouched
  <1> QED
    BY <1>1, AuthorityInvariance, PTL DEF Spec, RotationsAreNoticed

(***************************************************************************)
(* Listings and their indexes.                                             *)
(***************************************************************************)
listingVars == <<tradeVars, batchVars, tradeNonce, receipts>>

\* The receipts of a step all bear the nonces N.
ReceiptsFor(N) == \A r \in receipts' : r \in receipts \/ r.nonce \in N

LEMMA InitListings == Init => ListingInv
  <1> SUFFICES ASSUME Init PROVE ListingInv
    OBVIOUS
  <1> USE TradeAssumption DEF Init
  <1>1. /\ trades \in [NFTs -> Trade]
        /\ userTrades \in [Addresses -> SUBSET NFTs]
        /\ tokenTrades \in [Tokens -> SUBSET NFTs]
    BY DEF Trade, NoTrade
  <1>2. /\ batches \in [Nonces -> Batch]
        /\ userBatches \in [Addresses \union {NoOne} -> SUBSET Nonces]
        /\ itemToBatch \in [NFTs -> Nonces \union {0}]
    BY DEF Batch, NoBatch, NothingPriced
  <1>3. tradeNonce \in 0..MaxNonce
    OBVIOUS
  <1>4. /\ \A n \in NFTs : trades[n] = NoTrade /\ ~LiveTrade(n)
        /\ \A b \in Nonces : batches[b] = NoBatch /\ ~LiveBatch(b)
    BY DEF LiveTrade, LiveBatch, NoTrade, NoBatch
  <1>5. TradeIndexesAgree /\ BatchIndexesAgree /\ ListingsAreSpent
    BY <1>4 DEF TradeIndexesAgree, BatchIndexesAgree, ListingsAreSpent, OpenTrade, LiveTrade
  <1> QED
    BY <1>1, <1>2, <1>3, <1>4, <1>5 DEF ListingInv

\* Removing live single listings, and issuing receipts for them.
LEMMA RemoveStep ==
    ASSUME ListingInv, NEW D \in SUBSET NFTs, \A n \in D : LiveTrade(n),
           RemoveTrades(D), UNCHANGED <<batchVars, tradeNonce>>,
           ReceiptsFor({trades[n].nonce : n \in D})
    PROVE  ListingInv'
  <1> USE TradeAssumption
  <1>1. \A n \in NFTs : trades'[n] = IF n \in D THEN NoTrade ELSE trades[n]
    BY DEF RemoveTrades, TradesWithout
  <1>2. \A n \in NFTs : LiveTrade(n)' <=> LiveTrade(n) /\ n \notin D
    BY <1>1 DEF LiveTrade, NoTrade
  <1>3. \A n \in NFTs : OpenTrade(n)' <=> OpenTrade(n) /\ n \notin D
    BY <1>1 DEF OpenTrade, NoTrade
  <1>4. \A b \in Nonces : LiveBatch(b)' <=> LiveBatch(b)
    BY DEF LiveBatch, batchVars
  <1>5. /\ trades' \in [NFTs -> Trade]
        /\ userTrades' \in [Addresses -> SUBSET NFTs]
        /\ tokenTrades' \in [Tokens -> SUBSET NFTs]
    <2>1. NoTrade \in Trade
      BY DEF NoTrade, Trade
    <2> QED
      BY <2>1 DEF RemoveTrades, TradesWithout, UserTradesWithout, TokenTradesWithout, ListingInv
  <1>6. TradeIndexesAgree'
    <2>1. ASSUME NEW a \in Addresses
          PROVE  userTrades'[a] = {n \in NFTs : LiveTrade(n)' /\ a \in {trades'[n].seller, trades'[n].buyer}}
      BY <1>1, <1>2 DEF RemoveTrades, UserTradesWithout, ListingInv, TradeIndexesAgree
    <2>2. ASSUME NEW t \in Tokens
          PROVE  tokenTrades'[t] = {n \in NFTs : OpenTrade(n)' /\ TokenOf[n] = t}
      BY <1>3 DEF RemoveTrades, TokenTradesWithout, ListingInv, TradeIndexesAgree
    <2> QED
      BY <2>1, <2>2 DEF TradeIndexesAgree
  <1>7. ListingsAreSpent'
    <2>0. /\ batches' = batches /\ tradeNonce' = tradeNonce
          /\ trades \in [NFTs -> Trade] /\ tradeNonce \in 0..MaxNonce
      BY DEF batchVars, ListingInv
    <2>a. ASSUME NEW n \in NFTs
          PROVE  trades'[n].nonce = IF n \in D THEN 0 ELSE trades[n].nonce
      BY <1>1 DEF NoTrade
    <2>b. \A k \in 1..tradeNonce : k # 0
      BY <2>0
    <2>1. ASSUME NEW n \in NFTs, trades'[n].seller # NoOne
          PROVE  /\ trades'[n].nonce \in 1..tradeNonce
                 /\ batches[trades'[n].nonce].seller = NoOne
                 /\ \A m \in NFTs \ {n} : trades'[m].nonce # trades'[n].nonce
      <3>1. LiveTrade(n) /\ n \notin D /\ trades'[n] = trades[n]
        BY <2>1, <1>1 DEF LiveTrade, NoTrade
      <3>2. /\ trades[n].nonce \in 1..tradeNonce
            /\ batches[trades[n].nonce].seller = NoOne
            /\ \A m \in NFTs \ {n} : trades[m].nonce # trades[n].nonce
        BY <3>1 DEF ListingInv, ListingsAreSpent, LiveBatch
      <3>3. \A m \in NFTs \ {n} : trades'[m].nonce # trades[n].nonce
        BY <3>2, <2>a, <2>b
      <3> QED
        BY <3>1, <3>2, <3>3
    <2>2. \A b \in Nonces : batches[b].seller # NoOne => b <= tradeNonce
      BY DEF ListingInv, ListingsAreSpent, LiveBatch
    <2>3. ASSUME NEW r \in receipts'
          PROVE  /\ r.nonce \in 1..tradeNonce
                 /\ batches[r.nonce].seller = NoOne
                 /\ \A n \in NFTs : trades'[n].nonce # r.nonce
      <3>1. CASE r \in receipts
        <4>1. /\ r.nonce \in 1..tradeNonce
              /\ batches[r.nonce].seller = NoOne
              /\ \A n \in NFTs : trades[n].nonce # r.nonce
          BY <3>1 DEF ListingInv, ListingsAreSpent, LiveBatch
        <4> QED
          BY <4>1, <2>a, <2>b
      <3>2. ASSUME NEW m \in D, r.nonce = trades[m].nonce
            PROVE  /\ r.nonce \in 1..tradeNonce
                   /\ batches[r.nonce].seller = NoOne
                   /\ \A n \in NFTs : trades'[n].nonce # r.nonce
        <4>1. /\ trades[m].nonce \in 1..tradeNonce
              /\ batches[trades[m].nonce].seller = NoOne
              /\ \A n \in NFTs \ {m} : trades[n].nonce # trades[m].nonce
          BY <3>2 DEF ListingInv, ListingsAreSpent, LiveBatch
        <4> QED
          BY <4>1, <3>2, <2>a, <2>b
      <3> QED
        BY <3>1, <3>2 DEF ReceiptsFor
    <2> QED
      BY <2>0, <2>1, <2>2, <2>3 DEF ListingsAreSpent, LiveTrade, LiveBatch
  <1>8. \A n \in NFTs : ~LiveTrade(n)' => trades'[n] = NoTrade
    BY <1>1, <1>2 DEF ListingInv
  <1>9. BatchIndexesAgree'
    BY DEF ListingInv, BatchIndexesAgree, LiveBatch, batchVars
  <1> QED
    BY <1>5, <1>6, <1>7, <1>8, <1>9 DEF ListingInv, batchVars, LiveBatch

\* The entry of a list that remains for an NFT names that NFT.
LEMMA LastPositionNames ==
    ASSUME NEW list \in Seq(Offer), NEW n \in Listed(list)
    PROVE  /\ LastPosition(list, n) \in 1..Len(list)
           /\ list[LastPosition(list, n)].nft = n
  <1> DEFINE P == Positions(list, n)
             Back == {k \in Nat : \E i \in P : k = Len(list) - i}
  <1>1. Len(list) \in Nat /\ P \subseteq 1..Len(list) /\ P # {}
    BY DEF Positions, Listed
  <1>2. \A j \in P : Len(list) - j \in Back
    BY <1>1
  <1>3. Back \subseteq Nat /\ Back # {}
    BY <1>1, <1>2
  <1> HIDE DEF Back
  <1>4. PICK k \in Back : \A j \in Back : ~(<<j, k>> \in OpToRel(<, Nat))
    BY <1>3, NatLessThanWellFounded, WFMin
  <1>5. \A j \in Back : k <= j
    <2>1. ASSUME NEW j \in Back, j < k PROVE <<j, k>> \in OpToRel(<, Nat)
      <3>1. <<j, k>> \in Nat \X Nat
        BY <1>3
      <3> QED
        BY <2>1, <3>1 DEF OpToRel
    <2>2. \A j \in Back : ~(j < k)
      BY <2>1, <1>4, Zenon
    <2> QED
      BY <2>2, <1>3
  <1>6. PICK i \in P : k = Len(list) - i
    BY DEF Back
  <1>7. \A j \in P : j <= i
    <2> SUFFICES ASSUME NEW j \in P PROVE j <= i
      OBVIOUS
    <2>1. k <= Len(list) - j
      BY <1>2, <1>5
    <2> QED
      BY <2>1, <1>1, <1>6
  <1>8. LastPosition(list, n) \in P
    BY <1>7 DEF LastPosition
  <1> QED
    BY <1>1, <1>8 DEF Positions

\* A list of offers takes the place of the listings of the NFTs it names,
\* under nonces that were never given out.
LEMMA ListStep ==
    ASSUME ListingInv, NEW seller \in Addresses, NEW list \in Seq(Offer),
           NEW buyer \in Addresses \union {NoOne}, NEW expiry \in Nat,
           ListTrades(seller, list, buyer, expiry)
    PROVE  ListingInv'
  <1> DEFINE listed == Listed(list)
             nonce(n) == tradeNonce + LastPosition(list, n)
  <1>1. Len(list) \in Nat /\ \A i \in 1..Len(list) : list[i] \in Offer
    OBVIOUS
  <1>2. listed \subseteq NFTs
    BY <1>1 DEF Listed, Offer
  <1>3. /\ batches' = batches /\ userBatches' = userBatches /\ itemToBatch' = itemToBatch
        /\ receipts' = receipts
        /\ tradeNonce' = tradeNonce + Len(list) /\ tradeNonce + Len(list) <= MaxNonce
    BY DEF ListTrades, batchVars, moneyVars
  <1>4. /\ trades \in [NFTs -> Trade] /\ tradeNonce \in 0..MaxNonce
        /\ batches \in [Nonces -> Batch]
    BY DEF ListingInv
  <1>5. ASSUME NEW n \in listed
        PROVE  /\ trades'[n] = [seller |-> seller, buyer |-> buyer,
                    tinybarPrice |-> list[LastPosition(list, n)].tinybar,
                    lazyPrice |-> list[LastPosition(list, n)].lazy,
                    expiryTime |-> expiry, nonce |-> nonce(n)]
               /\ nonce(n) \in tradeNonce + 1 .. tradeNonce'
               /\ trades'[n] \in Trade
    <2>1. /\ LastPosition(list, n) \in 1..Len(list)
          /\ list[LastPosition(list, n)] \in Offer
      BY <1>1, LastPositionNames
    <2>2. trades'[n] = [seller |-> seller, buyer |-> buyer,
                    tinybarPrice |-> list[LastPosition(list, n)].tinybar,
                    lazyPrice |-> list[LastPosition(list, n)].lazy,
                    expiryTime |-> expiry, nonce |-> nonce(n)]
      BY <1>2 DEF ListTrades
    <2>3. nonce(n) \in tradeNonce + 1 .. tradeNonce' /\ nonce(n) \in Nat
      BY <2>1, <1>1, <1>3, <1>4
    <2> HIDE DEF nonce
    <2> QED
      BY <2>1, <2>2, <2>3 DEF Trade, Offer
  <1>a. ASSUME NEW n \in listed
        PROVE  /\ trades'[n].seller = seller /\ seller # NoOne
               /\ trades'[n].buyer = buyer
               /\ trades'[n].nonce = nonce(n)
    <2>1. seller # NoOne
      BY TradeAssumption
    <2>2. trades'[n] = [seller |-> seller, buyer |-> buyer,
                    tinybarPrice |-> list[LastPosition(list, n)].tinybar,
                    lazyPrice |-> list[LastPosition(list, n)].lazy,
                    expiryTime |-> expiry, nonce |-> nonce(n)]
      BY <1>5
    <2> HIDE DEF nonce, listed
    <2> QED
      BY <2>1, <2>2
  <1>6. \A n \in NFTs \ listed : trades'[n] = trades[n]
    BY DEF ListTrades
  <1>7. \A m, n \in listed : nonce(m) = nonce(n) => m = n
    <2> SUFFICES ASSUME NEW m \in listed, NEW n \in listed, nonce(m) = nonce(n) PROVE m = n
      OBVIOUS
    <2>1. LastPosition(list, m) \in Nat /\ LastPosition(list, n) \in Nat
      BY LastPositionNames, <1>1
    <2>2. LastPosition(list, m) = LastPosition(list, n)
      BY <2>1, <1>4
    <2>3. list[LastPosition(list, m)].nft = m /\ list[LastPosition(list, n)].nft = n
      BY LastPositionNames
    <2> QED
      BY <2>2, <2>3
  <1> HIDE DEF nonce
  <1>8. \A n \in NFTs : LiveTrade(n)' <=> n \in listed \/ LiveTrade(n)
    BY <1>a, <1>6 DEF LiveTrade
  <1>9. \A n \in NFTs : OpenTrade(n)' <=> IF n \in listed THEN buyer = NoOne ELSE OpenTrade(n)
    BY <1>a, <1>6 DEF OpenTrade
  <1>10. trades' \in [NFTs -> Trade]
    <2>1. \A n \in NFTs : trades'[n] \in Trade
      BY <1>4, <1>5, <1>6
    <2>2. trades' = [n \in NFTs |-> trades'[n]]
      BY DEF ListTrades
    <2> QED
      BY <2>1, <2>2
  <1>11. /\ userTrades' = [a \in Addresses |->
                UserTradesWithout(listed)[a] \union (IF a \in {seller, buyer} THEN listed ELSE {})]
         /\ tokenTrades' = [t \in Tokens |->
                TokenTradesWithout(listed)[t] \union
                   {n \in listed : buyer = NoOne /\ TokenOf[n] = t}]
    BY DEF ListTrades
  <1> HIDE DEF listed
  <1>12. /\ userTrades' \in [Addresses -> SUBSET NFTs]
         /\ tokenTrades' \in [Tokens -> SUBSET NFTs]
    BY <1>2, <1>11 DEF UserTradesWithout, TokenTradesWithout, ListingInv
  <1>13. TradeIndexesAgree'
    <2>1. ASSUME NEW a \in Addresses
          PROVE  userTrades'[a] = {n \in NFTs : LiveTrade(n)' /\ a \in {trades'[n].seller, trades'[n].buyer}}
      <3>1. userTrades[a] = {n \in NFTs : LiveTrade(n) /\ a \in {trades[n].seller, trades[n].buyer}}
        BY DEF ListingInv, TradeIndexesAgree
      <3>2. userTrades'[a] = (userTrades[a] \ {n \in listed : a \in {trades[n].seller, trades[n].buyer}})
                                \union (IF a \in {seller, buyer} THEN listed ELSE {})
        BY <1>11 DEF UserTradesWithout
      <3>3. \A n \in listed : trades'[n].seller = seller /\ trades'[n].buyer = buyer
        BY <1>a
      <3> QED
        BY <3>1, <3>2, <3>3, <1>2, <1>6, <1>8
    <2>2. ASSUME NEW t \in Tokens
          PROVE  tokenTrades'[t] = {n \in NFTs : OpenTrade(n)' /\ TokenOf[n] = t}
      <3>1. tokenTrades[t] = {n \in NFTs : OpenTrade(n) /\ TokenOf[n] = t}
        BY DEF ListingInv, TradeIndexesAgree
      <3>2. tokenTrades'[t] = (tokenTrades[t] \ {n \in listed : OpenTrade(n) /\ TokenOf[n] = t})
                                 \union {n \in listed : buyer = NoOne /\ TokenOf[n] = t}
        BY <1>11 DEF TokenTradesWithout
      <3> QED
        BY <3>1, <3>2, <1>2, <1>9
    <2> QED
      BY <2>1, <2>2 DEF TradeIndexesAgree
  <1>14. ListingsAreSpent'
    <2>0. \A n \in NFTs : trades'[n].nonce = IF n \in listed THEN nonce(n) ELSE trades[n].nonce
      BY <1>a, <1>6
    <2>1. \A n \in NFTs : trades[n].nonce \in 0..tradeNonce
      BY <1>4 DEF ListingInv, ListingsAreSpent, NoTrade
    <2>2. \A n \in listed : nonce(n) \in tradeNonce + 1 .. tradeNonce'
      BY <1>5
    <2>3. \A b \in Nonces : batches[b].seller # NoOne => b <= tradeNonce
      BY DEF ListingInv, ListingsAreSpent, LiveBatch
    <2>4. ASSUME NEW n \in listed
          PROVE  /\ trades'[n].nonce \in 1..tradeNonce'
                 /\ batches[trades'[n].nonce].seller = NoOne
                 /\ \A m \in NFTs \ {n} : trades'[m].nonce # trades'[n].nonce
      <3>1. trades'[n].nonce = nonce(n)
        BY <2>0, <1>2
      <3>2. nonce(n) \in 1..tradeNonce' /\ nonce(n) \in Nonces /\ ~(nonce(n) <= tradeNonce)
        <4>1. nonce(n) \in tradeNonce + 1 .. tradeNonce'
          BY <2>2
        <4>2. tradeNonce \in Nat /\ tradeNonce' \in Nat /\ tradeNonce' <= MaxNonce /\ MaxNonce \in Nat
          BY <1>1, <1>3, <1>4, TradeAssumption
        <4> QED
          BY <4>1, <4>2 DEF Nonces
      <3>3. \A m \in NFTs : trades[m].nonce # nonce(n)
        BY <2>1, <3>2, <1>4
      <3>4. \A m \in NFTs \ {n} : trades'[m].nonce # nonce(n)
        BY <2>0, <3>3, <1>7
      <3> QED
        BY <3>1, <3>2, <3>4, <2>3
    <2>5. ASSUME NEW n \in NFTs \ listed, trades[n].seller # NoOne
          PROVE  /\ trades'[n].nonce \in 1..tradeNonce'
                 /\ batches[trades'[n].nonce].seller = NoOne
                 /\ \A m \in NFTs \ {n} : trades'[m].nonce # trades'[n].nonce
      <3>1. trades'[n].nonce = trades[n].nonce
        BY <2>0
      <3>2. /\ trades[n].nonce \in 1..tradeNonce
            /\ batches[trades[n].nonce].seller = NoOne
            /\ \A m \in NFTs \ {n} : trades[m].nonce # trades[n].nonce
        BY <2>5 DEF ListingInv, ListingsAreSpent, LiveBatch, LiveTrade
      <3>3. \A m \in listed : nonce(m) # trades[n].nonce
        BY <2>2, <3>2, <1>4
      <3> QED
        BY <3>1, <3>2, <3>3, <2>0, <1>1, <1>3, <1>4
    <2>6. \A b \in Nonces : batches[b].seller # NoOne => b <= tradeNonce'
      BY <2>3, <1>1, <1>3, <1>4 DEF Nonces
    <2>7. ASSUME NEW r \in receipts
          PROVE  /\ r.nonce \in 1..tradeNonce'
                 /\ batches[r.nonce].seller = NoOne
                 /\ \A n \in NFTs : trades'[n].nonce # r.nonce
      <3>1. /\ r.nonce \in 1..tradeNonce
            /\ batches[r.nonce].seller = NoOne
            /\ \A n \in NFTs : trades[n].nonce # r.nonce
        BY DEF ListingInv, ListingsAreSpent, LiveBatch
      <3>2. \A m \in listed : nonce(m) # r.nonce
        BY <2>2, <3>1, <1>4
      <3> QED
        BY <3>1, <3>2, <2>0, <1>1, <1>3, <1>4
    <2>8. \A n \in NFTs : trades'[n].seller # NoOne => n \in listed \/ trades[n].seller # NoOne
      BY <1>6
    <2> QED
      BY <1>3, <2>4, <2>5, <2>6, <2>7, <2>8 DEF ListingsAreSpent, LiveTrade, LiveBatch
  <1>15. \A n \in NFTs : ~LiveTrade(n)' => trades'[n] = NoTrade
    BY <1>6, <1>8 DEF ListingInv
  <1>16. BatchIndexesAgree' /\ \A b \in Nonces : ~LiveBatch(b)' => batches'[b] = NoBatch
    BY <1>3 DEF ListingInv, BatchIndexesAgree, LiveBatch
  <1>17. tradeNonce' \in 0..MaxNonce
    BY <1>1, <1>3, <1>4
  <1> QED
    BY <1>3, <1>10, <1>12, <1>13, <1>14, <1>15, <1>16, <1>17 DEF ListingInv

\* A new batch has a nonce that was never given out.
LEMMA BatchCreateStep ==
    ASSUME ListingInv, NEW seller \in Addresses, NEW bundle \in Bundles,
           NEW buyer \in Addresses \union {NoOne}, NEW expiry \in Nat,
           CreateBatchTrade(seller, bundle, buyer, expiry)
    PROVE  ListingInv'
  <1> DEFINE id == tradeNonce + 1
             items == bundle.items
             price == [n \in NFTs |-> IF n \in items THEN GreaterOf(bundle.tinybar[n], 1) ELSE 0]
             lazyPrice == [n \in NFTs |-> IF n \in items THEN bundle.lazy[n] ELSE 0]
             new == [seller |-> seller, buyer |-> buyer, items |-> items,
                     tinybarPrice |-> price, lazyPrice |-> lazyPrice, expiryTime |-> expiry]
  <1>1. /\ trades' = trades /\ userTrades' = userTrades /\ tokenTrades' = tokenTrades
        /\ receipts' = receipts
        /\ tradeNonce' = id /\ id <= MaxNonce
        /\ batches' = [batches EXCEPT ![id] = new]
        /\ itemToBatch' = [n \in NFTs |-> IF n \in items THEN id ELSE itemToBatch[n]]
        /\ userBatches' = [a \in Addresses \union {NoOne} |->
              IF a \in {seller, buyer} THEN userBatches[a] \union {id} ELSE userBatches[a]]
    BY DEF CreateBatchTrade, tradeVars, moneyVars
  <1>2. /\ tradeNonce \in 0..MaxNonce /\ MaxNonce \in Nat
        /\ batches \in [Nonces -> Batch]
        /\ trades \in [NFTs -> Trade]
        /\ seller # NoOne
    BY TradeAssumption DEF ListingInv
  <1>3. id \in Nonces /\ id > tradeNonce
    BY <1>1, <1>2 DEF Nonces
  <1>4. /\ items \subseteq NFTs
        /\ price \in [NFTs -> Nat] /\ lazyPrice \in [NFTs -> Nat]
    <2>1. /\ bundle.items \subseteq NFTs
          /\ bundle.tinybar \in [NFTs -> Nat] /\ bundle.lazy \in [NFTs -> Nat]
      BY TradeAssumption
    <2> QED
      BY <2>1 DEF GreaterOf
  <1>5. new \in Batch
    <2> HIDE DEF items, price, lazyPrice
    <2> QED
      BY <1>4 DEF Batch
  <1>6. new.seller = seller /\ new.buyer = buyer /\ new.items = items
    OBVIOUS
  <1> HIDE DEF new, items, id
  <1>7. /\ batches'[id] = new
        /\ \A b \in Nonces \ {id} : batches'[b] = batches[b]
        /\ batches' \in [Nonces -> Batch]
    BY <1>1, <1>2, <1>3, <1>5
  <1>8. batches[id] = NoBatch
    BY <1>3, <1>2 DEF ListingInv, ListingsAreSpent, LiveBatch, Nonces
  <1>9. /\ userBatches' \in [Addresses \union {NoOne} -> SUBSET Nonces]
        /\ itemToBatch' \in [NFTs -> Nonces \union {0}]
    BY <1>1, <1>3 DEF ListingInv
  <1>10. BatchIndexesAgree'
    <2>1. ASSUME NEW a \in Addresses \union {NoOne}
          PROVE  userBatches'[a] = {b \in Nonces : batches'[b].seller # NoOne
                                        /\ a \in {batches'[b].seller, batches'[b].buyer}}
      <3>1. userBatches[a] = {b \in Nonces : batches[b].seller # NoOne
                                        /\ a \in {batches[b].seller, batches[b].buyer}}
        BY DEF ListingInv, BatchIndexesAgree, LiveBatch
      <3>2. userBatches'[a] = IF a \in {seller, buyer} THEN userBatches[a] \union {id} ELSE userBatches[a]
        BY <1>1
      <3>3. batches[id].seller = NoOne
        BY <1>8 DEF NoBatch
      <3>4. batches'[id].seller = seller /\ batches'[id].buyer = buyer
        BY <1>6, <1>7
      <3> QED
        BY <3>1, <3>2, <3>3, <3>4, <1>2, <1>3, <1>7
    <2>2. ASSUME NEW n \in NFTs, itemToBatch'[n] # 0
          PROVE  n \in batches'[itemToBatch'[n]].items
      <3>1. CASE n \in items
        BY <3>1, <1>1, <1>6, <1>7
      <3>2. CASE n \notin items
        <4>1. itemToBatch'[n] = itemToBatch[n] /\ itemToBatch[n] \in Nonces
          BY <3>2, <2>2, <1>1 DEF ListingInv
        <4>2. n \in batches[itemToBatch[n]].items
          BY <4>1, <2>2 DEF ListingInv, BatchIndexesAgree
        <4>3. itemToBatch[n] # id
          BY <4>2, <1>8 DEF NoBatch
        <4> QED
          BY <4>1, <4>2, <4>3, <1>7
      <3> QED
        BY <3>1, <3>2
    <2> QED
      BY <2>1, <2>2 DEF BatchIndexesAgree, LiveBatch
  <1>11. ListingsAreSpent'
    <2>0. \A k \in 1..tradeNonce : k \in 1..tradeNonce' /\ k # id /\ k \in Nonces
      BY <1>1, <1>2, <1>3 DEF id, Nonces
    <2>1. ASSUME NEW n \in NFTs, trades[n].seller # NoOne
          PROVE  /\ trades[n].nonce \in 1..tradeNonce'
                 /\ batches'[trades[n].nonce].seller = NoOne
                 /\ \A m \in NFTs \ {n} : trades[m].nonce # trades[n].nonce
      <3>1. /\ trades[n].nonce \in 1..tradeNonce
            /\ batches[trades[n].nonce].seller = NoOne
            /\ \A m \in NFTs \ {n} : trades[m].nonce # trades[n].nonce
        BY <2>1 DEF ListingInv, ListingsAreSpent, LiveBatch, LiveTrade
      <3> QED
        BY <3>1, <2>0, <1>7
    <2>2. ASSUME NEW b \in Nonces, batches'[b].seller # NoOne
          PROVE  b <= tradeNonce'
      <3>1. CASE b = id
        BY <3>1, <1>1, <1>2 DEF id
      <3>2. CASE b # id
        <4>1. b <= tradeNonce
          BY <3>2, <2>2, <1>7 DEF ListingInv, ListingsAreSpent, LiveBatch
        <4> QED
          BY <4>1, <1>1, <1>2 DEF id, Nonces
      <3> QED
        BY <3>1, <3>2
    <2>3. ASSUME NEW r \in receipts
          PROVE  /\ r.nonce \in 1..tradeNonce'
                 /\ batches'[r.nonce].seller = NoOne
                 /\ \A n \in NFTs : trades[n].nonce # r.nonce
      <3>1. /\ r.nonce \in 1..tradeNonce
            /\ batches[r.nonce].seller = NoOne
            /\ \A n \in NFTs : trades[n].nonce # r.nonce
        BY DEF ListingInv, ListingsAreSpent, LiveBatch
      <3> QED
        BY <3>1, <2>0, <1>7
    <2> QED
      BY <1>1, <2>1, <2>2, <2>3 DEF ListingsAreSpent, LiveTrade, LiveBatch
  <1>12. \A b \in Nonces : ~LiveBatch(b)' => batches'[b] = NoBatch
    <2>1. batches'[id].seller # NoOne
      BY <1>2, <1>6, <1>7
    <2> QED
      BY <2>1, <1>7 DEF ListingInv, LiveBatch
  <1>13. TradeIndexesAgree' /\ \A n \in NFTs : ~LiveTrade(n)' => trades'[n] = NoTrade
    BY <1>1 DEF ListingInv, TradeIndexesAgree, LiveTrade, OpenTrade
  <1>14. tradeNonce' \in 0..MaxNonce
    BY <1>1, <1>2 DEF id
  <1> QED
    BY <1>1, <1>7, <1>9, <1>10, <1>11, <1>12, <1>13, <1>14 DEF ListingInv

\* Cancelling or executing a live batch.
LEMMA BatchCleanupStep ==
    ASSUME ListingInv, NEW c \in Nonces, LiveBatch(c), CleanupBatchTrade(c),
           UNCHANGED <<tradeVars, tradeNonce>>, ReceiptsFor({c})
    PROVE  ListingInv'
  <1>1. /\ trades' = trades /\ userTrades' = userTrades /\ tokenTrades' = tokenTrades
        /\ tradeNonce' = tradeNonce
    BY DEF tradeVars
  <1>2. /\ tradeNonce \in 0..MaxNonce
        /\ batches \in [Nonces -> Batch]
        /\ trades \in [NFTs -> Trade]
        /\ NoBatch \in Batch
    BY DEF ListingInv, NoBatch, Batch, NothingPriced
  <1>3. /\ batches'[c] = NoBatch
        /\ \A b \in Nonces \ {c} : batches'[b] = batches[b]
        /\ batches' \in [Nonces -> Batch]
    BY <1>2 DEF CleanupBatchTrade
  <1>4. /\ userBatches' \in [Addresses \union {NoOne} -> SUBSET Nonces]
        /\ itemToBatch' \in [NFTs -> Nonces \union {0}]
    BY DEF CleanupBatchTrade, ListingInv
  <1>5. NoBatch.seller = NoOne
    BY DEF NoBatch
  <1>6. BatchIndexesAgree'
    <2>1. ASSUME NEW a \in Addresses \union {NoOne}
          PROVE  userBatches'[a] = {b \in Nonces : batches'[b].seller # NoOne
                                        /\ a \in {batches'[b].seller, batches'[b].buyer}}
      <3>1. userBatches[a] = {b \in Nonces : batches[b].seller # NoOne
                                        /\ a \in {batches[b].seller, batches[b].buyer}}
        BY DEF ListingInv, BatchIndexesAgree, LiveBatch
      <3>2. userBatches'[a] = IF a \in {batches[c].seller, batches[c].buyer}
                              THEN userBatches[a] \ {c} ELSE userBatches[a]
        BY DEF CleanupBatchTrade
      <3> QED
        BY <3>1, <3>2, <1>3, <1>5
    <2>2. ASSUME NEW n \in NFTs, itemToBatch'[n] # 0
          PROVE  n \in batches'[itemToBatch'[n]].items
      <3>1. /\ n \notin batches[c].items
            /\ itemToBatch'[n] = itemToBatch[n] /\ itemToBatch[n] \in Nonces
        BY <2>2 DEF CleanupBatchTrade, ListingInv
      <3>2. n \in batches[itemToBatch[n]].items
        BY <3>1, <2>2 DEF ListingInv, BatchIndexesAgree
      <3> QED
        BY <3>1, <3>2, <1>3
    <2> QED
      BY <2>1, <2>2 DEF BatchIndexesAgree, LiveBatch
  <1>7. ListingsAreSpent'
    <2>0. \A k \in 1..tradeNonce : k \in Nonces
      BY <1>2, TradeAssumption DEF Nonces
    <2>1. ASSUME NEW n \in NFTs, trades[n].seller # NoOne
          PROVE  /\ trades[n].nonce \in 1..tradeNonce
                 /\ batches'[trades[n].nonce].seller = NoOne
                 /\ \A m \in NFTs \ {n} : trades[m].nonce # trades[n].nonce
      <3>1. /\ trades[n].nonce \in 1..tradeNonce
            /\ batches[trades[n].nonce].seller = NoOne
            /\ \A m \in NFTs \ {n} : trades[m].nonce # trades[n].nonce
        BY <2>1 DEF ListingInv, ListingsAreSpent, LiveBatch, LiveTrade
      <3> QED
        BY <3>1, <2>0, <1>3, <1>5
    <2>2. \A b \in Nonces : batches'[b].seller # NoOne => b <= tradeNonce
      BY <1>3, <1>5 DEF ListingInv, ListingsAreSpent, LiveBatch
    <2>3. ASSUME NEW r \in receipts'
          PROVE  /\ r.nonce \in 1..tradeNonce
                 /\ batches'[r.nonce].seller = NoOne
                 /\ \A n \in NFTs : trades[n].nonce # r.nonce
      <3>1. CASE r \in receipts
        <4>1. /\ r.nonce \in 1..tradeNonce
              /\ batches[r.nonce].seller = NoOne
              /\ \A n \in NFTs : trades[n].nonce # r.nonce
          BY <3>1 DEF ListingInv, ListingsAreSpent, LiveBatch
        <4> QED
          BY <4>1, <2>0, <1>3, <1>5
      <3>2. CASE r.nonce = c
        <4>1. c <= tradeNonce /\ batches[c].seller # NoOne
          BY DEF ListingInv, ListingsAreSpent, LiveBatch
        <4>2. ASSUME NEW n \in NFTs, trades[n].nonce = c PROVE FALSE
          <5>1. CASE trades[n].seller = NoOne
            <6>1. trades[n].nonce = 0
              BY <5>1 DEF ListingInv, LiveTrade, NoTrade
            <6> QED
              BY <6>1, <4>2 DEF Nonces
          <5>2. CASE trades[n].seller # NoOne
            BY <5>2, <4>1, <4>2 DEF ListingInv, ListingsAreSpent, LiveTrade, LiveBatch
          <5> QED
            BY <5>1, <5>2
        <4>3. c \in 1..tradeNonce
          BY <4>1, <1>2 DEF Nonces
        <4> QED
          BY <3>2, <4>2, <4>3, <1>3, <1>5
      <3> QED
        BY <3>1, <3>2 DEF ReceiptsFor
    <2> QED
      BY <1>1, <2>1, <2>2, <2>3 DEF ListingsAreSpent, LiveTrade, LiveBatch
  <1>8. \A b \in Nonces : ~LiveBatch(b)' => batches'[b] = NoBatch
    BY <1>3 DEF ListingInv, LiveBatch
  <1>9. TradeIndexesAgree' /\ \A n \in NFTs : ~LiveTrade(n)' => trades'[n] = NoTrade
    BY <1>1 DEF ListingInv, TradeIndexesAgree, LiveTrade, OpenTrade
  <1> QED
    BY <1>1, <1>3, <1>4, <1>6, <1>7, <1>8, <1>9 DEF ListingInv

LEMMA ListingsUntouched ==
    ASSUME ListingInv, UNCHANGED listingVars
    PROVE  ListingInv'
  <1>1. /\ trades' = trades /\ userTrades' = userTrades /\ tokenTrades' = tokenTrades
        /\ batches' = batches /\ userBatches' = userBatches /\ itemToBatch' = itemToBatch
        /\ tradeNonce' = tradeNonce /\ receipts' = receipts
    BY DEF listingVars, tradeVars, batchVars
  <1>2. TradeIndexesAgree' /\ BatchIndexesAgree'
    BY <1>1 DEF ListingInv, TradeIndexesAgree, BatchIndexesAgree, LiveTrade, OpenTrade, LiveBatch
  <1>3. ListingsAreSpent'
    BY <1>1 DEF ListingInv, ListingsAreSpent, LiveTrade, LiveBatch
  <1> QED
    BY <1>1, <1>2, <1>3 DEF ListingInv, LiveTrade, LiveBatch

LEMMA CreationStep ==
    ASSUME ListingInv, Creation
    PROVE  ListingInv'
  <1> USE TradeAssumption
  <1>1. PICK a \in Addresses, buyer \in Buyers, expiry \in Expiries :
           \/ \E offer \in Offers :
                 \/ CreateTrade(a, offer, buyer, expiry)
                 \/ \E f \in Factories : CreateTradeOnBehalf(f, a, offer, buyer, expiry)
           \/ \E list \in Lists : CreateMultipleTrades(a, list, buyer, expiry)
           \/ \E bundle \in Bundles : CreateBatchTrade(a, bundle, buyer, expiry)
    BY DEF Creation
  <1>2. buyer \in Addresses \union {NoOne} /\ expiry \in Nat
    OBVIOUS
  <1>3. ASSUME NEW offer \in Offers, ListTrades(a, <<offer>>, buyer, expiry)
        PROVE  ListingInv'
    <2>1. <<offer>> \in Seq(Offer)
      OBVIOUS
    <2> QED
      BY <2>1, <1>2, <1>3, ListStep
  <1>4. ASSUME NEW list \in Lists, ListTrades(a, list, buyer, expiry)
        PROVE  ListingInv'
    <2>1. list \in Seq(Offer)
      OBVIOUS
    <2> QED
      BY <2>1, <1>2, <1>4, ListStep
  <1>5. ASSUME NEW bundle \in Bundles, CreateBatchTrade(a, bundle, buyer, expiry)
        PROVE  ListingInv'
    BY <1>2, <1>5, BatchCreateStep
  <1> QED
    BY <1>1, <1>3, <1>4, <1>5 DEF CreateTrade, CreateTradeOnBehalf, CreateMultipleTrades

LEMMA CancellationStep ==
    ASSUME ListingInv, Cancellation
    PROVE  ListingInv'
  <1>1. PICK a \in Addresses :
           \/ \E D \in Calls : CancelTrades(a, D) \/ CancelMultipleTrades(a, D)
           \/ \E b \in Nonces : CancelBatchTrade(a, b)
    BY DEF Cancellation
  <1>2. a # NoOne
    BY TradeAssumption
  <1>3. ASSUME NothingSold PROVE UNCHANGED <<batchVars, tradeNonce, receipts>>
    BY <1>3 DEF NothingSold, batchVars, moneyVars
  <1>4. ASSUME NEW D \in Calls, CancelTrades(a, D) PROVE ListingInv'
    <2>1. D \in SUBSET NFTs /\ \A n \in D : LiveTrade(n)
      BY DEF Calls, LiveTrade
    <2>2. RemoveTrades(D) /\ NothingSold
      BY <1>4 DEF CancelTrades
    <2> QED
      BY <2>1, <2>2, <1>3, RemoveStep DEF ReceiptsFor
  <1>5. ASSUME NEW D \in Calls, CancelMultipleTrades(a, D) PROVE ListingInv'
    <2> DEFINE his == {n \in D : trades[n].seller = a}
    <2>1. his \in SUBSET NFTs /\ \A n \in his : LiveTrade(n)
      BY <1>2 DEF Calls, LiveTrade
    <2>2. /\ trades' = TradesWithout(his) /\ userTrades' = UserTradesWithout(his)
          /\ tokenTrades' = [t \in Tokens |-> tokenTrades[t] \ {n \in his : TokenOf[n] = t}]
          /\ NothingSold
      BY <1>5 DEF CancelMultipleTrades
    <2> HIDE DEF his
    <2>3. \A t \in Tokens : \A n \in tokenTrades[t] : OpenTrade(n)
      BY DEF ListingInv, TradeIndexesAgree
    <2>4. \A t \in Tokens : tokenTrades[t] \ {n \in his : TokenOf[n] = t}
                          = tokenTrades[t] \ {n \in his : OpenTrade(n) /\ TokenOf[n] = t}
      BY <2>3
    <2>5. RemoveTrades(his)
      BY <2>2, <2>4 DEF RemoveTrades, TokenTradesWithout
    <2> QED
      BY <2>1, <2>2, <2>5, <1>3, RemoveStep DEF ReceiptsFor
  <1>6. ASSUME NEW b \in Nonces, CancelBatchTrade(a, b) PROVE ListingInv'
    <2>1. LiveBatch(b) /\ CleanupBatchTrade(b)
      BY <1>2, <1>6 DEF CancelBatchTrade, LiveBatch
    <2>2. UNCHANGED <<tradeVars, tradeNonce>> /\ ReceiptsFor({b})
      BY <1>6 DEF CancelBatchTrade, moneyVars, ReceiptsFor
    <2> QED
      BY <2>1, <2>2, BatchCleanupStep
  <1> QED
    BY <1>1, <1>4, <1>5, <1>6

\* The receipts a settlement adds are those of its sales.
LEMMA SettlementReceipts ==
    ASSUME NEW D, NEW sale, NEW buyer, NEW value, Settle(D, sale, buyer, value)
    PROVE  \A r \in receipts' : r \in receipts \/ \E n \in D : r.nonce = sale[n].nonce
  BY DEF Settle

LEMMA ExecutionStep ==
    ASSUME ListingInv, Execution
    PROVE  ListingInv'
  <1>1. PICK a \in Addresses, value \in Values :
           \/ \E D \in Calls : ExecuteTrades(a, D, value)
           \/ \E b \in Nonces : ExecuteBatchTrade(a, b, value)
    BY DEF Execution
  <1>2. ASSUME NEW D \in Calls, ExecuteTrades(a, D, value) PROVE ListingInv'
    <2>1. D \in SUBSET NFTs /\ \A n \in D : LiveTrade(n)
      BY DEF Calls, LiveTrade
    <2>2. RemoveTrades(D) /\ UNCHANGED <<batchVars, tradeNonce>>
      BY <1>2 DEF ExecuteTrades, Settle
    <2>3. ReceiptsFor({trades[n].nonce : n \in D})
      <3>1. \A n \in D : SaleOfTrade(n).nonce = trades[n].nonce
        BY DEF SaleOfTrade
      <3> DEFINE sale == [n \in D |-> SaleOfTrade(n)]
      <3>2. Settle(D, sale, a, value)
        BY <1>2 DEF ExecuteTrades
      <3>3. \A n \in D : sale[n].nonce = trades[n].nonce
        BY <3>1
      <3> HIDE DEF sale
      <3>4. \A r \in receipts' : r \in receipts \/ \E n \in D : r.nonce = sale[n].nonce
        BY <3>2, SettlementReceipts
      <3> QED
        BY <3>3, <3>4 DEF ReceiptsFor
    <2> QED
      BY <2>1, <2>2, <2>3, RemoveStep
  <1>3. ASSUME NEW b \in Nonces, ExecuteBatchTrade(a, b, value) PROVE ListingInv'
    <2> DEFINE batch == batches[b]
               rate  == IF batch.buyer # NoOne THEN 0 ELSE FeeRate(BeneficialOwner(batch.seller))
               sale  == [n \in batch.items |->
                           [seller |-> batch.seller, tinybar |-> batch.tinybarPrice[n],
                            lazy |-> batch.lazyPrice[n], nonce |-> b,
                            private |-> batch.buyer # NoOne,
                            fee |-> HbarFee(n, batch.tinybarPrice[n], rate)]]
    <2>1. LiveBatch(b) /\ CleanupBatchTrade(b) /\ UNCHANGED tradeVars
      BY <1>3 DEF ExecuteBatchTrade, LiveBatch
    <2>2. Settle(batches[b].items, sale, a, value)
      BY <1>3 DEF ExecuteBatchTrade
    <2>3. \A n \in batches[b].items : sale[n].nonce = b
      OBVIOUS
    <2> HIDE DEF sale
    <2>4. UNCHANGED tradeNonce
      BY <2>2 DEF Settle
    <2>5. \A r \in receipts' : r \in receipts \/ \E n \in batches[b].items : r.nonce = sale[n].nonce
      BY <2>2, SettlementReceipts
    <2> QED
      BY <2>1, <2>3, <2>4, <2>5, BatchCleanupStep DEF ReceiptsFor
  <1> QED
    BY <1>1, <1>2, <1>3

LEMMA NextListings ==
    ASSUME ListingInv, [Next]_vars
    PROVE  ListingInv'
  <1>1. CASE Creation
    BY <1>1, CreationStep
  <1>2. CASE Cancellation
    BY <1>2, CancellationStep
  <1>3. CASE Execution
    BY <1>3, ExecutionStep
  <1>4. CASE Owner
    <2>1. receipts' = receipts
      BY <1>4 DEF Owner, UpdateFeeRates, SetLazyCostForTrade, SetLazyBurnPercentage,
                  WithdrawPlatformFees, Receive, TierChanges, moneyVars
    <2>2. UNCHANGED <<tradeVars, batchVars, tradeNonce>>
      BY <1>4 DEF Owner
    <2> QED
      BY <2>1, <2>2, ListingsUntouched DEF listingVars
  <1>5. CASE Wallets
    BY <1>5, ListingsUntouched DEF Wallets, listingVars, moneyVars
  <1>6. CASE Trust
    BY <1>6, ListingsUntouched DEF Trust, listingVars, moneyVars
  <1>7. CASE Tick
    BY <1>7, ListingsUntouched DEF Tick, listingVars, moneyVars
  <1>8. CASE UNCHANGED vars
    BY <1>8, ListingsUntouched DEF vars, listingVars, moneyVars
  <1> QED
    BY <1>1, <1>2, <1>3, <1>4, <1>5, <1>6, <1>7, <1>8 DEF Next

\* The listings, their indexes and their nonces agree, whatever the number of
\* wallets, NFTs and listings and whatever the lists and bundles they come in.
THEOREM ListingInvariance == Spec => []ListingInv
  BY InitListings, NextListings, PTL DEF Spec

\* The indexes of single listings are exact.
THEOREM TradeIndexesAgreeHolds == Spec => []TradeIndexesAgree
  <1>1. ListingInv => TradeIndexesAgree
    BY DEF ListingInv
  <1> QED
    BY <1>1, ListingInvariance, PTL

\* The indexes of batches are exact.
THEOREM BatchIndexesAgreeHolds == Spec => []BatchIndexesAgree
  <1>1. ListingInv => BatchIndexesAgree
    BY DEF ListingInv
  <1> QED
    BY <1>1, ListingInvariance, PTL

\* An executed listing never comes back.
THEOREM ListingsAreSpentHolds == Spec => []ListingsAreSpent
  <1>1. ListingInv => ListingsAreSpent
    BY DEF ListingInv
  <1> QED
    BY <1>1, ListingInvariance, PTL

(***************************************************************************)
(* Sales.                                                                  *)
(***************************************************************************)
\* What a settlement does for each NFT it sells.
LEMMA SettlementSells ==
    ASSUME NEW D \in SUBSET NFTs, NEW sale, NEW buyer, NEW value,
           Settle(D, sale, buyer, value), NEW r \in receipts' \ receipts
    PROVE  \E n \in D :
              /\ r.nft = n /\ r.nonce = sale[n].nonce /\ r.seller = sale[n].seller
              /\ r.buyer = buyer /\ r.tinybar = sale[n].tinybar
              /\ r.private = sale[n].private
              /\ r.net = GreaterOf(sale[n].tinybar - sale[n].fee, 1)
              /\ ownerOf[n] = sale[n].seller /\ ownerOf'[n] = buyer
  <1> DEFINE net == [n \in D |-> GreaterOf(sale[n].tinybar - sale[n].fee, 1)]
  <1>1. PICK n \in D :
           r = [nft |-> n, nonce |-> sale[n].nonce, seller |-> sale[n].seller,
                buyer |-> buyer, tinybar |-> sale[n].tinybar, net |-> net[n],
                private |-> sale[n].private]
    BY DEF Settle
  <1>2. ownerOf[n] = sale[n].seller /\ ownerOf'[n] = buyer
    BY DEF Settle, OwnedAndApproved
  <1>3. net[n] = GreaterOf(sale[n].tinybar - sale[n].fee, 1)
    OBVIOUS
  <1> HIDE DEF net
  <1> QED
    BY <1>1, <1>2, <1>3

\* A batch is sold at the prices of its items.
LEMMA BatchSale ==
    ASSUME ListingInv, NEW caller, NEW b \in Nonces, NEW value,
           ExecuteBatchTrade(caller, b, value), NEW r \in receipts' \ receipts
    PROVE  /\ r.nft \in batches[b].items /\ batches[b].items \subseteq NFTs
           /\ r.nonce = b /\ r.seller = batches[b].seller /\ r.buyer = caller
           /\ r.tinybar = batches[b].tinybarPrice[r.nft]
           /\ r.private = (batches[b].buyer # NoOne)
           /\ r.net = GreaterOf(r.tinybar - HbarFee(r.nft, r.tinybar,
                         IF batches[b].buyer # NoOne THEN 0
                         ELSE FeeRate(BeneficialOwner(batches[b].seller))), 1)
           /\ ownerOf[r.nft] = r.seller /\ ownerOf'[r.nft] = r.buyer
           /\ batches[b].buyer \in {NoOne, caller}
           /\ batches[b].expiryTime = 0 \/ now <= batches[b].expiryTime
  <1> DEFINE batch == batches[b]
             rate  == IF batch.buyer # NoOne THEN 0 ELSE FeeRate(BeneficialOwner(batch.seller))
             sale  == [n \in batch.items |->
                         [seller |-> batch.seller, tinybar |-> batch.tinybarPrice[n],
                          lazy |-> batch.lazyPrice[n], nonce |-> b,
                          private |-> batch.buyer # NoOne,
                          fee |-> HbarFee(n, batch.tinybarPrice[n], rate)]]
  <1>1. batches[b].items \in SUBSET NFTs
    BY DEF ListingInv, Batch
  <1>2. Settle(batches[b].items, sale, caller, value)
    BY DEF ExecuteBatchTrade
  <1>3. \A n \in batches[b].items :
           /\ sale[n].seller = batches[b].seller /\ sale[n].nonce = b
           /\ sale[n].tinybar = batches[b].tinybarPrice[n]
           /\ sale[n].private = (batches[b].buyer # NoOne)
           /\ sale[n].fee = HbarFee(n, batches[b].tinybarPrice[n], rate)
    OBVIOUS
  <1>4. /\ batches[b].buyer \in {NoOne, caller}
        /\ batches[b].expiryTime = 0 \/ now <= batches[b].expiryTime
    BY DEF ExecuteBatchTrade
  <1> HIDE DEF sale
  <1>5. PICK n \in batches[b].items :
              /\ r.nft = n /\ r.nonce = sale[n].nonce /\ r.seller = sale[n].seller
              /\ r.buyer = caller /\ r.tinybar = sale[n].tinybar
              /\ r.private = sale[n].private
              /\ r.net = GreaterOf(sale[n].tinybar - sale[n].fee, 1)
              /\ ownerOf[n] = sale[n].seller /\ ownerOf'[n] = caller
    BY <1>1, <1>2, SettlementSells
  <1>6. r.net = GreaterOf(r.tinybar - HbarFee(r.nft, r.tinybar, rate), 1)
    BY <1>3, <1>5
  <1>7. r.private = (batches[b].buyer # NoOne)
    BY <1>3, <1>5
  <1> QED
    BY <1>1, <1>3, <1>4, <1>5, <1>6, <1>7

\* A single listing is sold at its price, to a caller it admits.
LEMMA SingleSale ==
    ASSUME NEW caller, NEW D \in Calls, NEW value,
           ExecuteTrades(caller, D, value), NEW r \in receipts' \ receipts
    PROVE  /\ r.nft \in D /\ r.nft \in NFTs
           /\ r.nonce = trades[r.nft].nonce /\ r.seller = trades[r.nft].seller
           /\ r.buyer = caller /\ r.tinybar = trades[r.nft].tinybarPrice
           /\ r.private = (trades[r.nft].buyer # NoOne)
           /\ r.net = GreaterOf(r.tinybar - HbarFee(r.nft, r.tinybar,
                         IF trades[r.nft].buyer # NoOne THEN 0
                         ELSE FeeRate(BeneficialOwner(trades[r.nft].seller))), 1)
           /\ ownerOf[r.nft] = r.seller /\ ownerOf'[r.nft] = r.buyer
           /\ trades[r.nft].buyer \in {NoOne, caller}
           /\ trades[r.nft].expiryTime = 0 \/ now <= trades[r.nft].expiryTime
  <1> DEFINE sale == [n \in D |-> SaleOfTrade(n)]
             rate(n) == IF trades[n].buyer # NoOne THEN 0
                        ELSE FeeRate(BeneficialOwner(trades[n].seller))
  <1>1. D \in SUBSET NFTs
    BY DEF Calls
  <1>2. Settle(D, sale, caller, value)
    BY DEF ExecuteTrades
  <1>3. \A n \in D :
           /\ SaleOfTrade(n).seller = trades[n].seller /\ SaleOfTrade(n).nonce = trades[n].nonce
           /\ SaleOfTrade(n).tinybar = trades[n].tinybarPrice
           /\ SaleOfTrade(n).private = (trades[n].buyer # NoOne)
           /\ SaleOfTrade(n).fee = HbarFee(n, trades[n].tinybarPrice, rate(n))
    BY DEF SaleOfTrade
  <1>4. \A n \in D : sale[n] = SaleOfTrade(n)
    OBVIOUS
  <1>5. \A n \in D :
           /\ trades[n].buyer \in {NoOne, caller}
           /\ trades[n].expiryTime = 0 \/ now <= trades[n].expiryTime
    <2> SUFFICES ASSUME NEW n \in D
                 PROVE  /\ trades[n].buyer \in {NoOne, caller}
                        /\ trades[n].expiryTime = 0 \/ now <= trades[n].expiryTime
      OBVIOUS
    <2>1. TradeValid(n, caller) /\ BeneficialOwner(caller) # BeneficialOwner(trades[n].seller)
      BY DEF ExecuteTrades
    <2>2. caller # trades[n].seller
      BY <2>1
    <2> QED
      BY <2>1, <2>2 DEF TradeValid
  <1> HIDE DEF sale
  <1>6. PICK n \in D :
              /\ r.nft = n /\ r.nonce = sale[n].nonce /\ r.seller = sale[n].seller
              /\ r.buyer = caller /\ r.tinybar = sale[n].tinybar
              /\ r.private = sale[n].private
              /\ r.net = GreaterOf(sale[n].tinybar - sale[n].fee, 1)
              /\ ownerOf[n] = sale[n].seller /\ ownerOf'[n] = caller
    BY <1>1, <1>2, SettlementSells
  <1>7. r.net = GreaterOf(r.tinybar - HbarFee(r.nft, r.tinybar, rate(r.nft)), 1)
    BY <1>3, <1>4, <1>6
  <1>8. r.private = (trades[r.nft].buyer # NoOne)
    BY <1>3, <1>4, <1>6
  <1> QED
    BY <1>1, <1>3, <1>4, <1>5, <1>6, <1>7, <1>8

\* Only executions sell.
LEMMA OnlyExecutionsSell ==
    ASSUME [Next]_vars, ~Execution
    PROVE  receipts' = receipts
  <1>1. CASE Creation
    <2>1. ASSUME NEW a, NEW list, NEW buyer, NEW expiry, ListTrades(a, list, buyer, expiry)
          PROVE  receipts' = receipts
      BY <2>1 DEF ListTrades, moneyVars
    <2>2. ASSUME NEW a, NEW bundle, NEW buyer, NEW expiry, CreateBatchTrade(a, bundle, buyer, expiry)
          PROVE  receipts' = receipts
      BY <2>2 DEF CreateBatchTrade, moneyVars
    <2> QED
      BY <1>1, <2>1, <2>2 DEF Creation, CreateTrade, CreateTradeOnBehalf, CreateMultipleTrades
  <1>2. CASE Cancellation
    BY <1>2 DEF Cancellation, CancelTrades, CancelMultipleTrades, CancelBatchTrade,
                NothingSold, moneyVars
  <1>3. CASE Owner
    BY <1>3 DEF Owner, UpdateFeeRates, SetLazyCostForTrade, SetLazyBurnPercentage,
                WithdrawPlatformFees, Receive, TierChanges, moneyVars
  <1>4. CASE Wallets \/ Trust \/ Tick \/ UNCHANGED vars
    BY <1>4 DEF Wallets, Trust, Tick, vars, moneyVars
  <1> QED
    BY <1>1, <1>2, <1>3, <1>4 DEF Next

\* Every sale is the sale of a live, unexpired listing that admits the buyer,
\* by the owner of the NFT and at the price listed.
THEOREM SoldAsListedHolds == Spec => SoldAsListed
  <1> DEFINE Sold(r) ==
          /\ ownerOf[r.nft] = r.seller /\ ownerOf'[r.nft] = r.buyer
          /\ \/ /\ trades[r.nft].nonce = r.nonce
                /\ trades[r.nft].seller = r.seller
                /\ trades[r.nft].buyer \in {NoOne, r.buyer}
                /\ trades[r.nft].expiryTime = 0 \/ now <= trades[r.nft].expiryTime
                /\ r.tinybar = trades[r.nft].tinybarPrice
             \/ /\ batches[r.nonce].seller = r.seller
                /\ r.nft \in batches[r.nonce].items
                /\ batches[r.nonce].buyer \in {NoOne, r.buyer}
                /\ batches[r.nonce].expiryTime = 0 \/ now <= batches[r.nonce].expiryTime
                /\ r.tinybar = batches[r.nonce].tinybarPrice[r.nft]
  <1>1. ListingInv /\ [Next]_vars => [\A r \in receipts' \ receipts : Sold(r)]_vars
    <2> SUFFICES ASSUME ListingInv, [Next]_vars, NEW r \in receipts' \ receipts PROVE Sold(r)
      OBVIOUS
    <2>1. Execution
      BY OnlyExecutionsSell
    <2>2. PICK a \in Addresses, value \in Values :
             \/ \E D \in Calls : ExecuteTrades(a, D, value)
             \/ \E b \in Nonces : ExecuteBatchTrade(a, b, value)
      BY <2>1 DEF Execution
    <2>3. ASSUME NEW D \in Calls, ExecuteTrades(a, D, value) PROVE Sold(r)
      BY <2>3, SingleSale
    <2>4. ASSUME NEW b \in Nonces, ExecuteBatchTrade(a, b, value) PROVE Sold(r)
      BY <2>4, BatchSale
    <2> QED
      BY <2>2, <2>3, <2>4
  <1> QED
    BY <1>1, ListingInvariance, PTL DEF Spec, SoldAsListed

LEMMA QuotientBound ==
    ASSUME NEW p \in Nat, NEW q \in Nat, q > 0
    PROVE  p \div q \in Nat /\ q * (p \div q) <= p
  OBVIOUS

LEMMA ProductMonotone ==
    ASSUME NEW p \in Nat, NEW r \in Nat, NEW s \in Nat, r <= s
    PROVE  p * r \in Nat /\ p * r <= p * s
  OBVIOUS

\* No schedule of updateFeeRates makes anybody pay more than 5 %.
RatesOK ==
    /\ feeRates \in Schedules
    /\ feeRates.base <= 500
    /\ \A k \in 1..3 : feeRates.discount[k] <= 100
    /\ tier \in [Addresses -> 0..3]

LEMMA FeeRateLimit ==
    ASSUME RatesOK, NEW a \in Addresses
    PROVE  FeeRate(a) \in 0..500
  <1>1. feeRates.base \in Nat /\ feeRates.base <= 500 /\ tier[a] \in 0..3
    BY DEF RatesOK, Schedules
  <1>2. CASE tier[a] = 0
    BY <1>1, <1>2 DEF FeeRate
  <1>3. CASE tier[a] # 0
    <2>1. feeRates.discount[tier[a]] \in Nat /\ feeRates.discount[tier[a]] <= 100
      BY <1>1, <1>3 DEF RatesOK, Schedules
    <2>2. \A base, d \in Nat : base <= 500 /\ d <= 100 => base - (base * d) \div 100 \in 0..500
      <3> SUFFICES ASSUME NEW base \in Nat, NEW d \in Nat, base <= 500, d <= 100
                   PROVE  base - (base * d) \div 100 \in 0..500
        OBVIOUS
      <3>1. base * d \in Nat /\ base * d <= base * 100
        BY ProductMonotone
      <3> QED
        BY <3>1
    <2> QED
      BY <1>1, <1>3, <2>1, <2>2 DEF FeeRate
  <1> QED
    BY <1>2, <1>3

\* The beneficial owner of a wallet is a wallet.
LEMMA BeneficialOwnerType ==
    ASSUME AuthorityInv, NEW a \in Addresses
    PROVE  BeneficialOwner(a) \in Addresses
  <1>1. bcf \in Factories \union {NoOne}
    BY DEF AuthorityInv, AuthorityTypeOK
  <1> QED
    BY <1>1, TradeAssumption DEF BeneficialOwner

\* What is left of a price after the fee at a rate of at most 5 %.
LEMMA ShareOfPrice ==
    ASSUME NEW n \in NFTs, NEW price \in Nat, NEW rate \in 0..500
    PROVE  /\ rate = 0 \/ TokenOf[n] \in ExemptTokens =>
                 GreaterOf(price - HbarFee(n, price, rate), 1) >= price
           /\ (price - GreaterOf(price - HbarFee(n, price, rate), 1)) * MAX_BPS <= price * 500
  <1> DEFINE net == GreaterOf(price - HbarFee(n, price, rate), 1)
  <1>1. MAX_BPS \in Nat /\ MAX_BPS > 500
    BY TradeAssumption
  <1>2. price * rate \in Nat /\ price * rate <= price * 500 /\ price * 500 \in Nat
    BY ProductMonotone
  <1>3. /\ HbarFee(n, price, rate) \in Nat
        /\ HbarFee(n, price, rate) * MAX_BPS <= price * 500
        /\ rate = 0 \/ TokenOf[n] \in ExemptTokens => HbarFee(n, price, rate) = 0
    <2>1. CASE TokenOf[n] \in ExemptTokens
      BY <2>1, <1>1, <1>2 DEF HbarFee
    <2>2. CASE TokenOf[n] \notin ExemptTokens
      <3>1. /\ (price * rate) \div MAX_BPS \in Nat
            /\ MAX_BPS * ((price * rate) \div MAX_BPS) <= price * rate
        BY <1>1, <1>2, QuotientBound
      <3>2. rate = 0 => (price * rate) \div MAX_BPS = 0
        BY <1>1
      <3>3. HbarFee(n, price, rate) = (price * rate) \div MAX_BPS
        BY <2>2 DEF HbarFee
      <3> QED
        BY <2>2, <3>1, <3>2, <3>3, <1>1, <1>2
    <2> QED
      BY <2>1, <2>2
  <1>4. net \in Nat /\ net >= price - HbarFee(n, price, rate)
    BY <1>3 DEF GreaterOf
  <1> HIDE DEF net
  <1>5. (price - net) * MAX_BPS <= HbarFee(n, price, rate) * MAX_BPS
    BY <1>1, <1>3, <1>4
  <1>6. /\ rate = 0 \/ TokenOf[n] \in ExemptTokens => net >= price
        /\ (price - net) * MAX_BPS <= price * 500
    BY <1>1, <1>2, <1>3, <1>4, <1>5
  <1> QED
    BY <1>6 DEF net

\* A receipt at such a rate keeps what SellersKeepTheirShare asks of it.
Kept(r) ==
    /\ r.private \/ TokenOf[r.nft] \in ExemptTokens => r.net >= r.tinybar
    /\ (r.tinybar - r.net) * MAX_BPS <= r.tinybar * 500

LEMMA ShareOfSale ==
    ASSUME NEW r, r.nft \in NFTs, r.tinybar \in Nat, NEW rate \in 0..500,
           r.net = GreaterOf(r.tinybar - HbarFee(r.nft, r.tinybar, rate), 1),
           r.private => rate = 0
    PROVE  Kept(r)
  <1>1. /\ rate = 0 \/ TokenOf[r.nft] \in ExemptTokens => r.net >= r.tinybar
        /\ (r.tinybar - r.net) * MAX_BPS <= r.tinybar * 500
    BY ShareOfPrice
  <1> QED
    BY <1>1, Zenon DEF Kept

LEMMA RatesInvariance == Spec => []RatesOK
  <1>1. Init => RatesOK
    BY TradeAssumption DEF Init, RatesOK
  <1>2. RatesOK /\ [Next]_vars => RatesOK'
    <2> SUFFICES ASSUME RatesOK, [Next]_vars PROVE RatesOK'
      OBVIOUS
    <2>1. CASE Owner
      <3>1. CASE \E s \in FeeSchedules : UpdateFeeRates(s)
        BY <3>1, TradeAssumption DEF UpdateFeeRates, RatesOK
      <3>2. CASE \E move \in TierMoves : TierChanges(move)
        BY <3>2, TradeAssumption DEF TierChanges, RatesOK
      <3>3. CASE \/ \E cost \in Costs : SetLazyCostForTrade(cost)
                 \/ \E burn \in Burns : SetLazyBurnPercentage(burn)
                 \/ \E a \in Addresses : WithdrawPlatformFees(a)
                 \/ \E a \in Addresses, amount \in Gifts : Receive(a, amount)
        BY <3>3 DEF SetLazyCostForTrade, SetLazyBurnPercentage, WithdrawPlatformFees,
                    Receive, paramVars, RatesOK
      <3> QED
        BY <2>1, <3>1, <3>2, <3>3 DEF Owner
    <2>2. CASE ~Owner
      <3>1. ASSUME NEW D, NEW sale, NEW buyer, NEW value, Settle(D, sale, buyer, value)
            PROVE  UNCHANGED paramVars
        BY <3>1 DEF Settle
      <3>2. CASE Execution
        <4>1. ASSUME NEW a, NEW D, NEW value, ExecuteTrades(a, D, value)
              PROVE  UNCHANGED paramVars
          BY <3>1, <4>1 DEF ExecuteTrades
        <4>2. ASSUME NEW a, NEW b, NEW value, ExecuteBatchTrade(a, b, value)
              PROVE  UNCHANGED paramVars
          BY <3>1, <4>2 DEF ExecuteBatchTrade
        <4>3. UNCHANGED paramVars
          BY <3>2, <4>1, <4>2 DEF Execution
        <4> QED
          BY <4>3 DEF paramVars, RatesOK
      <3>3. CASE Creation
        <4>1. ASSUME NEW a, NEW list, NEW buyer, NEW expiry, ListTrades(a, list, buyer, expiry)
              PROVE  UNCHANGED paramVars
          BY <4>1 DEF ListTrades
        <4>2. ASSUME NEW a, NEW bundle, NEW buyer, NEW expiry, CreateBatchTrade(a, bundle, buyer, expiry)
              PROVE  UNCHANGED paramVars
          BY <4>2 DEF CreateBatchTrade
        <4>3. UNCHANGED paramVars
          BY <3>3, <4>1, <4>2 DEF Creation, CreateTrade, CreateTradeOnBehalf, CreateMultipleTrades
        <4> QED
          BY <4>3 DEF paramVars, RatesOK
      <3>4. CASE Cancellation
        <4>1. UNCHANGED paramVars
          BY <3>4 DEF Cancellation, CancelTrades, CancelMultipleTrades, CancelBatchTrade,
                      NothingSold
        <4> QED
          BY <4>1 DEF paramVars, RatesOK
      <3>5. CASE Wallets \/ Trust \/ Tick \/ UNCHANGED vars
        BY <3>5 DEF Wallets, Trust, Tick, vars, paramVars, RatesOK
      <3> QED
        BY <2>2, <3>2, <3>3, <3>4, <3>5 DEF Next
    <2> QED
      BY <2>1, <2>2
  <1> QED
    BY <1>1, <1>2, PTL DEF Spec

\* Sellers get the whole price of private sales and of the house's own
\* collections, and at least 95 % of any other, whatever the owner sets.
THEOREM SellersKeepTheirShareHolds == Spec => []SellersKeepTheirShare
  <1>1. Init => SellersKeepTheirShare
    BY DEF Init, SellersKeepTheirShare
  <1>2. ASSUME SellersKeepTheirShare, ListingInv, AuthorityInv, RatesOK, [Next]_vars
        PROVE  SellersKeepTheirShare'
    <2> SUFFICES ASSUME NEW r \in receipts' \ receipts PROVE Kept(r)
      BY <1>2 DEF SellersKeepTheirShare, Kept
    <2>1. Execution
      BY <1>2, OnlyExecutionsSell
    <2>2. PICK a \in Addresses, value \in Values :
             \/ \E D \in Calls : ExecuteTrades(a, D, value)
             \/ \E b \in Nonces : ExecuteBatchTrade(a, b, value)
      BY <2>1 DEF Execution
    <2>3. ASSUME NEW D \in Calls, ExecuteTrades(a, D, value) PROVE Kept(r)
      <3> DEFINE n == r.nft
                 rate == IF trades[n].buyer # NoOne THEN 0
                         ELSE FeeRate(BeneficialOwner(trades[n].seller))
      <3>1. /\ n \in NFTs /\ n \in D /\ r.tinybar = trades[n].tinybarPrice
            /\ r.private = (trades[n].buyer # NoOne)
            /\ r.net = GreaterOf(r.tinybar - HbarFee(n, r.tinybar, rate), 1)
        BY <2>3, SingleSale
      <3>2. trades[n] \in Trade /\ trades[n].seller # NoOne
        BY <1>2, <3>1 DEF ListingInv, Calls
      <3>3. trades[n].seller \in Addresses /\ r.tinybar \in Nat
        BY <3>1, <3>2 DEF Trade
      <3>4. rate \in 0..500
        BY <1>2, <3>3, BeneficialOwnerType, FeeRateLimit
      <3>a. r.private => rate = 0
        BY <3>1, Zenon
      <3> HIDE DEF rate
      <3> QED
        BY <3>1, <3>3, <3>4, <3>a, ShareOfSale, Zenon
    <2>4. ASSUME NEW b \in Nonces, ExecuteBatchTrade(a, b, value) PROVE Kept(r)
      <3> DEFINE n == r.nft
                 rate == IF batches[b].buyer # NoOne THEN 0
                         ELSE FeeRate(BeneficialOwner(batches[b].seller))
      <3>1. /\ n \in NFTs /\ r.tinybar = batches[b].tinybarPrice[n]
            /\ r.private = (batches[b].buyer # NoOne)
            /\ r.net = GreaterOf(r.tinybar - HbarFee(n, r.tinybar, rate), 1)
        BY <1>2, <2>4, BatchSale
      <3>2. batches[b] \in Batch /\ batches[b].seller # NoOne
        BY <1>2, <2>4 DEF ListingInv, ExecuteBatchTrade
      <3>3. batches[b].seller \in Addresses /\ r.tinybar \in Nat
        BY <3>1, <3>2 DEF Batch
      <3>4. rate \in 0..500
        BY <1>2, <3>3, BeneficialOwnerType, FeeRateLimit
      <3>a. r.private => rate = 0
        BY <3>1, Zenon
      <3> HIDE DEF rate
      <3> QED
        BY <3>1, <3>3, <3>4, <3>a, ShareOfSale, Zenon
    <2> QED
      BY <2>2, <2>3, <2>4
  <1> QED
    BY <1>1, <1>2, ListingInvariance, AuthorityInvariance, RatesInvariance, PTL DEF Spec

(***************************************************************************)
(* Money.  What a settlement moves is a sum over the NFTs it sells, and    *)
(* each of them leaves the contract with its fee: it pays out at most the  *)
(* price less the fee, plus the tinybar it gets back in the second hop.    *)
(***************************************************************************)
LEMMA NFTsListed == ListsOnce(NFTSeq, NFTs)
  BY TradeAssumption DEF ListsOnce, NFTs

LEMMA TotalOverNaturals ==
    ASSUME NEW D \in SUBSET NFTs, NEW f, \A n \in D : f[n] \in Nat
    PROVE  TotalOver(D, f) \in Nat
  <1>1. [n \in NFTs |-> IF n \in D THEN f[n] ELSE 0] \in [NFTs -> Nat]
    OBVIOUS
  <1> QED
    BY <1>1, NFTsListed, SumOverOfNaturals DEF TotalOver, ListsOnce

\* What is paid out and kept is at most what comes in, when it is so for
\* each NFT, with one tinybar more for each.
LEMMA TotalOverBalance ==
    ASSUME NEW D \in SUBSET NFTs, NEW price, NEW net, NEW fee,
           \A n \in D : /\ price[n] \in Nat /\ net[n] \in Nat /\ fee[n] \in Nat
                        /\ net[n] + fee[n] <= price[n] + 1
    PROVE  /\ Cardinality(D) \in Nat
           /\ TotalOver(D, net) + TotalOver(D, fee) <= TotalOver(D, price) + Cardinality(D)
  <1> DEFINE p == [n \in NFTs |-> IF n \in D THEN price[n] ELSE 0]
             t == [n \in NFTs |-> IF n \in D THEN net[n] ELSE 0]
             e == [n \in NFTs |-> IF n \in D THEN fee[n] ELSE 0]
             c == CountOf(D, NFTs)
             out == [n \in NFTs |-> t[n] + e[n]]
             in  == [n \in NFTs |-> p[n] + c[n]]
  <1>1. /\ p \in [NFTs -> Nat] /\ t \in [NFTs -> Nat] /\ e \in [NFTs -> Nat]
        /\ c \in [NFTs -> Nat]
    BY DEF CountOf
  <1>2. \A n \in NFTs : t[n] + e[n] <= p[n] + c[n]
    BY DEF CountOf
  <1>3. /\ TotalOver(D, net) = SumOver(t, NFTSeq) /\ TotalOver(D, fee) = SumOver(e, NFTSeq)
        /\ TotalOver(D, price) = SumOver(p, NFTSeq)
    BY DEF TotalOver
  <1>4. NFTSeq \in Seq(NFTs) /\ Cardinality(D) = SumOver(c, NFTSeq)
    BY NFTsListed, CardinalityIsSum DEF ListsOnce
  <1> HIDE DEF p, t, e, c
  <1>5. out \in [NFTs -> Int] /\ in \in [NFTs -> Int] /\ \A n \in NFTs : out[n] <= in[n]
    BY <1>1, <1>2
  <1>6. TermSum(out, t, e, NFTs) /\ TermSum(in, p, c, NFTs)
    BY <1>1 DEF TermSum
  <1> HIDE DEF out, in
  <1>7. /\ SumOver(out, NFTSeq) = SumOver(t, NFTSeq) + SumOver(e, NFTSeq)
        /\ SumOver(in, NFTSeq) = SumOver(p, NFTSeq) + SumOver(c, NFTSeq)
    BY <1>4, <1>6, SumOverAdd
  <1>8. SumOver(out, NFTSeq) <= SumOver(in, NFTSeq)
    BY <1>4, <1>5, SumOverMonotone
  <1>9. SumOver(c, NFTSeq) \in Nat
    BY <1>1, <1>4, SumOverOfNaturals
  <1> QED
    BY <1>3, <1>4, <1>7, <1>8, <1>9

\* The sales that reach a settlement: nothing is owed but by a wallet, and a
\* fee is part of its price.
Sale == [seller : Addresses, tinybar : Nat, lazy : Nat, nonce : Nat,
         private : BOOLEAN, fee : Nat]

SalesOf(D, sale) ==
    /\ D \in SUBSET NFTs
    /\ \A n \in D : sale[n] \in Sale /\ sale[n].fee <= sale[n].tinybar

PricesOf(D, sale) == [n \in D |-> sale[n].tinybar]
FeesOf(D, sale)   == [n \in D |-> sale[n].fee]
LaziesOf(D, sale) == [n \in D |-> sale[n].lazy]
NetOf(D, sale)    == [n \in D |-> GreaterOf(sale[n].tinybar - sale[n].fee, 1)]
SoldBy(D, sale, a) == {n \in D : sale[n].seller = a}

LEMMA SaleTotals ==
    ASSUME NEW D, NEW sale, SalesOf(D, sale)
    PROVE  /\ Cardinality(D) \in Nat
           /\ TotalOver(D, PricesOf(D, sale)) \in Nat
           /\ TotalOver(D, FeesOf(D, sale)) \in Nat
           /\ TotalOver(D, LaziesOf(D, sale)) \in Nat
           /\ TotalOver(D, NetOf(D, sale)) \in Nat
           /\ TotalOver(D, NetOf(D, sale)) + TotalOver(D, FeesOf(D, sale)) <=
                 TotalOver(D, PricesOf(D, sale)) + Cardinality(D)
           /\ \A a : /\ TotalOver(SoldBy(D, sale, a), NetOf(D, sale)) \in Nat
                     /\ TotalOver(SoldBy(D, sale, a), LaziesOf(D, sale)) \in Nat
  <1> DEFINE price == PricesOf(D, sale)
             fee   == FeesOf(D, sale)
             lz    == LaziesOf(D, sale)
             net   == NetOf(D, sale)
  <1>1. /\ D \in SUBSET NFTs
        /\ \A n \in D : /\ sale[n].tinybar \in Nat /\ sale[n].lazy \in Nat
                        /\ sale[n].fee \in Nat /\ sale[n].fee <= sale[n].tinybar
    BY DEF SalesOf, Sale
  <1>2. \A n \in D : /\ price[n] = sale[n].tinybar /\ fee[n] = sale[n].fee
                     /\ lz[n] = sale[n].lazy
                     /\ net[n] = GreaterOf(sale[n].tinybar - sale[n].fee, 1)
    BY DEF PricesOf, FeesOf, LaziesOf, NetOf
  <1> HIDE DEF price, fee, lz, net
  <1>3. \A n \in D : /\ price[n] \in Nat /\ net[n] \in Nat /\ fee[n] \in Nat /\ lz[n] \in Nat
                     /\ net[n] + fee[n] <= price[n] + 1
    BY <1>1, <1>2 DEF GreaterOf
  <1>4. \A a : SoldBy(D, sale, a) \in SUBSET NFTs /\ SoldBy(D, sale, a) \subseteq D
    BY <1>1 DEF SoldBy
  <1>5. /\ Cardinality(D) \in Nat
        /\ TotalOver(D, net) + TotalOver(D, fee) <= TotalOver(D, price) + Cardinality(D)
    BY <1>1, <1>3, TotalOverBalance
  <1>6. /\ TotalOver(D, price) \in Nat /\ TotalOver(D, fee) \in Nat
        /\ TotalOver(D, lz) \in Nat /\ TotalOver(D, net) \in Nat
    BY <1>1, <1>3, TotalOverNaturals
  <1>7. ASSUME NEW a
        PROVE  /\ TotalOver(SoldBy(D, sale, a), net) \in Nat
               /\ TotalOver(SoldBy(D, sale, a), lz) \in Nat
    <2>1. \A n \in SoldBy(D, sale, a) : net[n] \in Nat /\ lz[n] \in Nat
      BY <1>3, <1>4
    <2> QED
      BY <1>4, <2>1, TotalOverNaturals
  <1> QED
    BY <1>5, <1>6, <1>7 DEF price, fee, lz, net

\* The balances and the history have their types.
MoneyTypeOK ==
    /\ hbar \in [Addresses -> Nat]
    /\ lazy \in [Addresses -> Nat]
    /\ vault \in Nat
    /\ totalHbarFeesCollected \in Nat
    /\ lifetimeHbarVolume \in Nat
    /\ lifetimeLazyVolume \in Nat
    /\ lazyCostForTrade \in Nat
    /\ lazyBurnPercentage \in Nat
    /\ receipts \subseteq Receipt
    /\ topUps \in Nat
    /\ withdrawn \in Nat

WellFunded == MoneyTypeOK /\ FeesAreBacked

\* A settlement leaves the contract with at least its fees more, takes from
\* the buyer no more than he has, and from nobody else anything.
LEMMA SettlementFunds ==
    ASSUME WellFunded, NEW D, NEW sale, SalesOf(D, sale), NEW buyer \in Addresses,
           NEW value \in Nat, Settle(D, sale, buyer, value)
    PROVE  WellFunded'
  <1> DEFINE due    == TotalOver(D, PricesOf(D, sale))
             paid   == TotalOver(D, NetOf(D, sale))
             fees   == TotalOver(D, FeesOf(D, sale))
             lazies == TotalOver(D, LaziesOf(D, sale))
             hops   == Cardinality(D)
             topUp  == IF vault + value - paid + hops - 1 < LOW_HBAR THEN REFILL ELSE 0
             earned(a)     == TotalOver(SoldBy(D, sale, a), NetOf(D, sale))
             earnedLazy(a) == TotalOver(SoldBy(D, sale, a), LaziesOf(D, sale))
  <1>1. /\ Covered(value, due)
        /\ hbar[buyer] >= value + hops
        /\ lazy[buyer] >= lazies
        /\ vault' = vault + topUp + value - paid + hops - Refund(value, due)
        /\ totalHbarFeesCollected' = totalHbarFeesCollected + fees
        /\ lifetimeHbarVolume' = lifetimeHbarVolume + due
        /\ lifetimeLazyVolume' = lifetimeLazyVolume + lazies
        /\ topUps' = topUps + topUp
        /\ withdrawn' = withdrawn
        /\ UNCHANGED <<lazyCostForTrade, lazyBurnPercentage>>
    BY DEF Settle, PricesOf, NetOf, FeesOf, LaziesOf, paramVars
  <1>2. /\ hbar' = [a \in Addresses |->
              hbar[a] + earned(a)
                - (IF a = buyer THEN value + hops - Refund(value, due) ELSE 0)]
        /\ lazy' = [a \in Addresses |->
              lazy[a] + earnedLazy(a) - (IF a = buyer THEN lazies ELSE 0)]
    BY DEF Settle, PricesOf, NetOf, LaziesOf, SoldBy
  <1>3. /\ hops \in Nat /\ due \in Nat /\ fees \in Nat /\ lazies \in Nat /\ paid \in Nat
        /\ paid + fees <= due + hops
        /\ \A a : earned(a) \in Nat /\ earnedLazy(a) \in Nat
    BY SaleTotals
  <1>4. receipts' \subseteq Receipt
    <2>1. receipts' = receipts \union
              {[nft |-> n, nonce |-> sale[n].nonce, seller |-> sale[n].seller,
                buyer |-> buyer, tinybar |-> sale[n].tinybar, net |-> NetOf(D, sale)[n],
                private |-> sale[n].private] : n \in D}
      BY DEF Settle, NetOf
    <2>2. ASSUME NEW n \in D
          PROVE  [nft |-> n, nonce |-> sale[n].nonce, seller |-> sale[n].seller,
                  buyer |-> buyer, tinybar |-> sale[n].tinybar, net |-> NetOf(D, sale)[n],
                  private |-> sale[n].private] \in Receipt
      <3>1. sale[n] \in Sale /\ sale[n].fee <= sale[n].tinybar /\ n \in NFTs
        BY DEF SalesOf
      <3>2. /\ sale[n].nonce \in Nat /\ sale[n].seller \in Addresses
            /\ sale[n].tinybar \in Nat /\ sale[n].private \in BOOLEAN /\ sale[n].fee \in Nat
        BY <3>1, Zenon DEF Sale
      <3>3. NetOf(D, sale)[n] \in Nat
        BY <3>1, <3>2 DEF NetOf, GreaterOf
      <3> QED
        BY <3>1, <3>2, <3>3 DEF Receipt
    <2>3. receipts \subseteq Receipt
      BY DEF WellFunded, MoneyTypeOK
    <2> QED
      BY <2>1, <2>2, <2>3
  <1>5. LOW_HBAR \in Nat /\ REFILL \in Nat
    BY TradeAssumption
  <1> HIDE DEF due, paid, fees, lazies, hops, earned, earnedLazy
  <1>6. value - Refund(value, due) = due /\ topUp \in Nat
    BY <1>1, <1>3, <1>5 DEF Covered, Refund
  <1> HIDE DEF topUp
  <1>7. /\ vault' = vault + topUp + due - paid + hops
        /\ vault \in Nat /\ withdrawn \in Nat /\ topUps \in Nat
        /\ totalHbarFeesCollected \in Nat /\ Refund(value, due) \in Nat
    BY <1>1, <1>3, <1>6 DEF WellFunded, MoneyTypeOK, Refund
  <1>8. vault' \in Nat /\ FeesAreBacked'
    BY <1>1, <1>3, <1>6, <1>7 DEF WellFunded, FeesAreBacked
  <1>9. hbar' \in [Addresses -> Nat]
    <2> SUFFICES ASSUME NEW a \in Addresses
                 PROVE  hbar[a] + earned(a)
                          - (IF a = buyer THEN value + hops - Refund(value, due) ELSE 0) \in Nat
      BY <1>2
    <2>1. hbar[a] \in Nat /\ earned(a) \in Nat
      BY <1>3 DEF WellFunded, MoneyTypeOK
    <2>2. CASE a = buyer
      BY <2>1, <2>2, <1>1, <1>3, <1>6, <1>7
    <2>3. CASE a # buyer
      BY <2>1, <2>3
    <2> QED
      BY <2>2, <2>3
  <1>10. lazy' \in [Addresses -> Nat]
    <2> SUFFICES ASSUME NEW a \in Addresses
                 PROVE  lazy[a] + earnedLazy(a) - (IF a = buyer THEN lazies ELSE 0) \in Nat
      BY <1>2
    <2>1. lazy[a] \in Nat /\ earnedLazy(a) \in Nat
      BY <1>3 DEF WellFunded, MoneyTypeOK
    <2>2. CASE a = buyer
      BY <2>1, <2>2, <1>1, <1>3
    <2>3. CASE a # buyer
      BY <2>1, <2>3
    <2> QED
      BY <2>2, <2>3
  <1>11. /\ totalHbarFeesCollected' \in Nat /\ lifetimeHbarVolume' \in Nat
         /\ lifetimeLazyVolume' \in Nat /\ topUps' \in Nat /\ withdrawn' \in Nat
         /\ lazyCostForTrade' \in Nat /\ lazyBurnPercentage' \in Nat
    BY <1>1, <1>3, <1>6 DEF WellFunded, MoneyTypeOK
  <1> QED
    BY <1>4, <1>8, <1>9, <1>10, <1>11 DEF WellFunded, MoneyTypeOK

LEMMA FeeWithinPrice ==
    ASSUME NEW n \in NFTs, NEW price \in Nat, NEW rate \in 0..500
    PROVE  HbarFee(n, price, rate) \in Nat /\ HbarFee(n, price, rate) <= price
  <1>1. MAX_BPS \in Nat /\ MAX_BPS > 500
    BY TradeAssumption
  <1>2. CASE TokenOf[n] \in ExemptTokens
    BY <1>2 DEF HbarFee
  <1>3. CASE TokenOf[n] \notin ExemptTokens
    <2> DEFINE q == (price * rate) \div MAX_BPS
    <2>1. price * rate \in Nat /\ price * rate <= price * MAX_BPS
      BY <1>1, ProductMonotone
    <2>2. q \in Nat /\ MAX_BPS * q <= price * rate
      BY <1>1, <2>1, QuotientBound
    <2>3. HbarFee(n, price, rate) = q
      BY <1>3 DEF HbarFee
    <2> HIDE DEF q
    <2>4. ASSUME q > price PROVE FALSE
      <3>1. MAX_BPS * (price + 1) <= MAX_BPS * q
        BY <1>1, <2>2, <2>4, ProductMonotone
      <3>2. MAX_BPS * (price + 1) = price * MAX_BPS + MAX_BPS
        BY <1>1
      <3>3. price * MAX_BPS \in Nat /\ MAX_BPS * q \in Nat
        BY <1>1, <2>2
      <3> QED
        BY <1>1, <2>1, <2>2, <3>1, <3>2, <3>3
    <2> QED
      BY <2>2, <2>3, <2>4
  <1> QED
    BY <1>2, <1>3

\* The listings that an execution sells are sales in that sense.
LEMMA TradesAreSales ==
    ASSUME ListingInv, AuthorityInv, RatesOK, NEW D \in Calls
    PROVE  SalesOf(D, [n \in D |-> SaleOfTrade(n)])
  <1>1. D \in SUBSET NFTs
    BY DEF Calls
  <1>2. ASSUME NEW n \in D
        PROVE  SaleOfTrade(n) \in Sale /\ SaleOfTrade(n).fee <= SaleOfTrade(n).tinybar
    <2> DEFINE rate == IF trades[n].buyer # NoOne THEN 0
                       ELSE FeeRate(BeneficialOwner(trades[n].seller))
    <2>1. n \in NFTs /\ trades[n] \in Trade /\ trades[n].seller # NoOne
      BY DEF ListingInv, Calls
    <2>2. /\ trades[n].seller \in Addresses /\ trades[n].tinybarPrice \in Nat
          /\ trades[n].lazyPrice \in Nat /\ trades[n].nonce \in Nat
      BY <2>1 DEF Trade
    <2>3. rate \in 0..500
      BY <2>2, BeneficialOwnerType, FeeRateLimit
    <2>4. SaleOfTrade(n) =
             [seller |-> trades[n].seller, tinybar |-> trades[n].tinybarPrice,
              lazy |-> trades[n].lazyPrice, nonce |-> trades[n].nonce,
              private |-> trades[n].buyer # NoOne,
              fee |-> HbarFee(n, trades[n].tinybarPrice, rate)]
      BY DEF SaleOfTrade
    <2>5. (trades[n].buyer # NoOne) \in BOOLEAN
      OBVIOUS
    <2> HIDE DEF rate
    <2>6. /\ HbarFee(n, trades[n].tinybarPrice, rate) \in Nat
          /\ HbarFee(n, trades[n].tinybarPrice, rate) <= trades[n].tinybarPrice
      BY <2>1, <2>2, <2>3, FeeWithinPrice
    <2> QED
      BY <2>2, <2>4, <2>5, <2>6 DEF Sale
  <1> QED
    BY <1>1, <1>2 DEF SalesOf

LEMMA BatchIsSales ==
    ASSUME ListingInv, AuthorityInv, RatesOK, NEW b \in Nonces, LiveBatch(b),
           NEW rate, rate = (IF batches[b].buyer # NoOne THEN 0
                             ELSE FeeRate(BeneficialOwner(batches[b].seller)))
    PROVE  SalesOf(batches[b].items,
                   [n \in batches[b].items |->
                      [seller |-> batches[b].seller, tinybar |-> batches[b].tinybarPrice[n],
                       lazy |-> batches[b].lazyPrice[n], nonce |-> b,
                       private |-> batches[b].buyer # NoOne,
                       fee |-> HbarFee(n, batches[b].tinybarPrice[n], rate)]])
  <1> DEFINE batch == batches[b]
             terms(n) == [seller |-> batch.seller, tinybar |-> batch.tinybarPrice[n],
                          lazy |-> batch.lazyPrice[n], nonce |-> b,
                          private |-> batch.buyer # NoOne,
                          fee |-> HbarFee(n, batch.tinybarPrice[n], rate)]
  <1>1. batch \in Batch /\ batch.seller # NoOne
    BY DEF ListingInv, LiveBatch
  <1>2. /\ batch.seller \in Addresses /\ batch.items \in SUBSET NFTs
        /\ batch.tinybarPrice \in [NFTs -> Nat] /\ batch.lazyPrice \in [NFTs -> Nat]
    BY <1>1 DEF Batch
  <1>3. rate \in 0..500
    BY <1>2, BeneficialOwnerType, FeeRateLimit
  <1>4. b \in Nat /\ (batch.buyer # NoOne) \in BOOLEAN
    BY TradeAssumption DEF Nonces
  <1>5. ASSUME NEW n \in batch.items
        PROVE  terms(n) \in Sale /\ terms(n).fee <= terms(n).tinybar
    <2>1. n \in NFTs /\ batch.tinybarPrice[n] \in Nat /\ batch.lazyPrice[n] \in Nat
      BY <1>2
    <2>2. /\ HbarFee(n, batch.tinybarPrice[n], rate) \in Nat
          /\ HbarFee(n, batch.tinybarPrice[n], rate) <= batch.tinybarPrice[n]
      BY <1>3, <2>1, FeeWithinPrice
    <2> HIDE DEF batch
    <2> QED
      BY <1>2, <1>4, <2>1, <2>2 DEF Sale
  <1> QED
    BY <1>2, <1>5 DEF SalesOf

LEMMA ExecutionFunds ==
    ASSUME WellFunded, ListingInv, AuthorityInv, RatesOK, Execution
    PROVE  WellFunded'
  <1>1. PICK a \in Addresses, value \in Values :
           \/ \E D \in Calls : ExecuteTrades(a, D, value)
           \/ \E b \in Nonces : ExecuteBatchTrade(a, b, value)
    BY DEF Execution
  <1>2. value \in Nat
    BY TradeAssumption
  <1>3. ASSUME NEW D \in Calls, ExecuteTrades(a, D, value) PROVE WellFunded'
    <2>1. Settle(D, [n \in D |-> SaleOfTrade(n)], a, value)
      BY <1>3 DEF ExecuteTrades
    <2> QED
      BY <1>2, <2>1, TradesAreSales, SettlementFunds
  <1>4. ASSUME NEW b \in Nonces, ExecuteBatchTrade(a, b, value) PROVE WellFunded'
    <2> DEFINE batch == batches[b]
               rate  == IF batch.buyer # NoOne THEN 0 ELSE FeeRate(BeneficialOwner(batch.seller))
               sale  == [n \in batch.items |->
                           [seller |-> batch.seller, tinybar |-> batch.tinybarPrice[n],
                            lazy |-> batch.lazyPrice[n], nonce |-> b,
                            private |-> batch.buyer # NoOne,
                            fee |-> HbarFee(n, batch.tinybarPrice[n], rate)]]
    <2>1. LiveBatch(b) /\ Settle(batch.items, sale, a, value)
      BY <1>4 DEF ExecuteBatchTrade, LiveBatch
    <2>2. SalesOf(batch.items, sale)
      BY <2>1, BatchIsSales
    <2> HIDE DEF sale
    <2> QED
      BY <1>2, <2>1, <2>2, SettlementFunds
  <1> QED
    BY <1>1, <1>3, <1>4

LEMMA ListingIsPaid ==
    ASSUME WellFunded, NEW a \in Addresses, NEW buyer, NEW amount \in Nat,
           PayForListing(a, buyer, amount)
    PROVE  lazy' \in [Addresses -> Nat]
  <1>1. lazy \in [Addresses -> Nat]
    BY DEF WellFunded, MoneyTypeOK
  <1>2. CASE DrawLazyFrom(a, amount)
    BY <1>1, <1>2 DEF DrawLazyFrom
  <1>3. CASE UNCHANGED lazy
    BY <1>1, <1>3
  <1> QED
    BY <1>2, <1>3 DEF PayForListing

LEMMA BatchCostType ==
    ASSUME WellFunded, NEW count
    PROVE  BatchTradeCost(count) \in Nat
  <1>1. lazyCostForTrade \in Nat
    BY DEF WellFunded, MoneyTypeOK
  <1>2. \A c \in Nat : c * 2 \in Nat /\ c * 3 \in Nat /\ c * 5 \in Nat
    OBVIOUS
  <1> QED
    BY <1>1, <1>2 DEF BatchTradeCost

\* When only $LAZY moves.
LEMMA OnlyLazyMoves ==
    ASSUME WellFunded, UNCHANGED <<moneyVars, paramVars>>, lazy' \in [Addresses -> Nat]
    PROVE  WellFunded'
  BY DEF WellFunded, MoneyTypeOK, FeesAreBacked, moneyVars, paramVars

LEMMA CreationFunds ==
    ASSUME WellFunded, Creation
    PROVE  WellFunded'
  <1>1. PICK a \in Addresses, buyer \in Buyers, expiry \in Expiries :
           \/ \E offer \in Offers :
                 \/ CreateTrade(a, offer, buyer, expiry)
                 \/ \E f \in Factories : CreateTradeOnBehalf(f, a, offer, buyer, expiry)
           \/ \E list \in Lists : CreateMultipleTrades(a, list, buyer, expiry)
           \/ \E bundle \in Bundles : CreateBatchTrade(a, bundle, buyer, expiry)
    BY DEF Creation
  <1>2. ASSUME NEW list, ListTrades(a, list, buyer, expiry)
        PROVE  UNCHANGED <<moneyVars, paramVars>>
    BY <1>2 DEF ListTrades
  <1>3. lazyCostForTrade \in Nat /\ lazy \in [Addresses -> Nat]
    BY DEF WellFunded, MoneyTypeOK
  <1>4. ASSUME NEW offer \in Offers, CreateTrade(a, offer, buyer, expiry) PROVE WellFunded'
    <2>1. UNCHANGED <<moneyVars, paramVars>>
      BY <1>2, <1>4 DEF CreateTrade
    <2>2. PayForListing(a, buyer, lazyCostForTrade)
      BY <1>4 DEF CreateTrade
    <2> QED
      BY <1>3, <2>1, <2>2, ListingIsPaid, OnlyLazyMoves
  <1>5. ASSUME NEW offer \in Offers, NEW f \in Factories,
               CreateTradeOnBehalf(f, a, offer, buyer, expiry)
        PROVE  WellFunded'
    <2>1. UNCHANGED <<moneyVars, paramVars>> /\ lazy' = lazy
      BY <1>2, <1>5 DEF CreateTradeOnBehalf
    <2> QED
      BY <1>3, <2>1, OnlyLazyMoves
  <1>6. ASSUME NEW list \in Lists, CreateMultipleTrades(a, list, buyer, expiry)
        PROVE  WellFunded'
    <2>1. UNCHANGED <<moneyVars, paramVars>>
      BY <1>2, <1>6 DEF CreateMultipleTrades
    <2>2. PayForListing(a, buyer, BatchTradeCost(Len(list)))
      BY <1>6 DEF CreateMultipleTrades
    <2> QED
      BY <2>1, <2>2, BatchCostType, ListingIsPaid, OnlyLazyMoves
  <1>7. ASSUME NEW bundle \in Bundles, CreateBatchTrade(a, bundle, buyer, expiry)
        PROVE  WellFunded'
    <2>1. /\ UNCHANGED <<moneyVars, paramVars>>
          /\ PayForListing(a, buyer, BatchTradeCost(Cardinality(bundle.items)))
      BY <1>7 DEF CreateBatchTrade
    <2> QED
      BY <2>1, BatchCostType, ListingIsPaid, OnlyLazyMoves
  <1> QED
    BY <1>1, <1>4, <1>5, <1>6, <1>7

LEMMA OwnerFunds ==
    ASSUME WellFunded, Owner
    PROVE  WellFunded'
  <1> USE DEF WellFunded, MoneyTypeOK, FeesAreBacked
  <1>0. lazy' = lazy
    BY DEF Owner
  <1>1. ASSUME NEW s \in FeeSchedules, UpdateFeeRates(s) PROVE WellFunded'
    BY <1>0, <1>1 DEF UpdateFeeRates, moneyVars
  <1>2. ASSUME NEW cost \in Costs, SetLazyCostForTrade(cost) PROVE WellFunded'
    BY <1>0, <1>2, TradeAssumption DEF SetLazyCostForTrade, moneyVars
  <1>3. ASSUME NEW burn \in Burns, SetLazyBurnPercentage(burn) PROVE WellFunded'
    BY <1>0, <1>3, TradeAssumption DEF SetLazyBurnPercentage, moneyVars
  <1>4. ASSUME NEW a \in Addresses, WithdrawPlatformFees(a) PROVE WellFunded'
    <2>1. FEE_BUFFER \in Nat
      BY TradeAssumption
    <2>2. /\ vault > FEE_BUFFER /\ vault' = FEE_BUFFER
          /\ hbar' = [hbar EXCEPT ![a] = @ + vault - FEE_BUFFER]
          /\ withdrawn' = withdrawn + (vault - FEE_BUFFER)
      BY <1>4 DEF WithdrawPlatformFees
    <2>3. UNCHANGED <<totalHbarFeesCollected, lifetimeHbarVolume, lifetimeLazyVolume,
                      receipts, topUps, lazyCostForTrade, lazyBurnPercentage>>
      BY <1>4 DEF WithdrawPlatformFees, paramVars
    <2>4. hbar' \in [Addresses -> Nat]
      BY <2>1, <2>2
    <2>5. withdrawn' \in Nat /\ vault' \in Nat /\ vault' + withdrawn' = vault + withdrawn
      BY <2>1, <2>2
    <2> QED
      BY <1>0, <2>3, <2>4, <2>5
  <1>5. ASSUME NEW a \in Addresses, NEW amount \in Gifts, Receive(a, amount) PROVE WellFunded'
    <2>1. amount \in Nat
      BY TradeAssumption
    <2>2. /\ hbar[a] >= amount /\ hbar' = [hbar EXCEPT ![a] = @ - amount]
          /\ vault' = vault + amount /\ topUps' = topUps + amount
      BY <1>5 DEF Receive
    <2>3. UNCHANGED <<totalHbarFeesCollected, lifetimeHbarVolume, lifetimeLazyVolume,
                      receipts, withdrawn, lazyCostForTrade, lazyBurnPercentage>>
      BY <1>5 DEF Receive, paramVars
    <2>4. hbar' \in [Addresses -> Nat]
      BY <2>1, <2>2
    <2> QED
      BY <1>0, <2>1, <2>2, <2>3, <2>4
  <1>6. ASSUME NEW move \in TierMoves, TierChanges(move) PROVE WellFunded'
    BY <1>0, <1>6 DEF TierChanges, moneyVars
  <1> QED
    BY <1>1, <1>2, <1>3, <1>4, <1>5, <1>6 DEF Owner

LEMMA InitFunds == Init => WellFunded
  BY TradeAssumption DEF Init, WellFunded, MoneyTypeOK, FeesAreBacked

LEMMA NextFunds ==
    ASSUME WellFunded, ListingInv, AuthorityInv, RatesOK, [Next]_vars
    PROVE  WellFunded'
  <1>1. CASE Cancellation
    <2>1. UNCHANGED <<moneyVars, paramVars, lazy>>
      BY <1>1 DEF Cancellation, CancelTrades, CancelMultipleTrades, CancelBatchTrade, NothingSold
    <2> QED
      BY <2>1 DEF WellFunded, MoneyTypeOK, FeesAreBacked, moneyVars, paramVars
  <1>2. CASE Wallets \/ Trust \/ Tick \/ UNCHANGED vars
    <2>1. UNCHANGED <<moneyVars, paramVars, lazy>>
      BY <1>2 DEF Wallets, Trust, Tick, vars
    <2> QED
      BY <2>1 DEF WellFunded, MoneyTypeOK, FeesAreBacked, moneyVars, paramVars
  <1> QED
    BY <1>1, <1>2, CreationFunds, ExecutionFunds, OwnerFunds DEF Next

THEOREM FundsInvariance == Spec => []WellFunded
  BY InitFunds, NextFunds, ListingInvariance, AuthorityInvariance, RatesInvariance, PTL DEF Spec

\* The contract is never spent below its fees: however often it is executed
\* from, topped up and emptied, and whatever the fees, prices and tiers.
THEOREM FeesAreBackedHolds == Spec => []FeesAreBacked
  <1>1. WellFunded => FeesAreBacked
    BY DEF WellFunded
  <1> QED
    BY <1>1, FundsInvariance, PTL

(***************************************************************************)
(* The remaining variables, and the type of them all.                      *)
(***************************************************************************)
AssetTypeOK ==
    /\ ownerOf \in [NFTs -> Addresses]
    /\ serialApproved \subseteq NFTs
    /\ operatorApproved \subseteq Addresses \X Tokens
    /\ tokens \subseteq Tokens

LEMMA SettlementAssets ==
    ASSUME AssetTypeOK, NEW D \in SUBSET NFTs, NEW sale, NEW buyer \in Addresses, NEW value,
           Settle(D, sale, buyer, value)
    PROVE  AssetTypeOK'
  <1>1. /\ ownerOf' = [n \in NFTs |-> IF n \in D THEN buyer ELSE ownerOf[n]]
        /\ serialApproved' = serialApproved \ D
        /\ operatorApproved' = operatorApproved /\ tokens' = tokens
    BY DEF Settle
  <1> QED
    BY <1>1 DEF AssetTypeOK

LEMMA TokensKnown ==
    ASSUME AssetTypeOK, NEW D \in SUBSET NFTs, UNCHANGED assetVars,
           tokens' = tokens \union {TokenOf[n] : n \in D}
    PROVE  AssetTypeOK'
  BY DEF AssetTypeOK, assetVars, Tokens

LEMMA CreationAssets ==
    ASSUME AssetTypeOK, Creation
    PROVE  AssetTypeOK'
  <1>1. PICK a \in Addresses, buyer \in Buyers, expiry \in Expiries :
           \/ \E offer \in Offers :
                 \/ CreateTrade(a, offer, buyer, expiry)
                 \/ \E f \in Factories : CreateTradeOnBehalf(f, a, offer, buyer, expiry)
           \/ \E list \in Lists : CreateMultipleTrades(a, list, buyer, expiry)
           \/ \E bundle \in Bundles : CreateBatchTrade(a, bundle, buyer, expiry)
    BY DEF Creation
  <1>2. ASSUME NEW list \in Seq(Offer), ListTrades(a, list, buyer, expiry)
        PROVE  AssetTypeOK'
    <2>1. Listed(list) \in SUBSET NFTs
      <3>1. \A i \in 1..Len(list) : list[i] \in Offer
        OBVIOUS
      <3>2. \A o \in Offer : o.nft \in NFTs
        BY DEF Offer
      <3> QED
        BY <3>1, <3>2, Zenon DEF Listed
    <2>2. UNCHANGED assetVars /\ tokens' = tokens \union {TokenOf[n] : n \in Listed(list)}
      BY <1>2 DEF ListTrades
    <2> QED
      BY <2>1, <2>2, TokensKnown
  <1>3. \A offer \in Offers : <<offer>> \in Seq(Offer)
    BY TradeAssumption
  <1>4. \A list \in Lists : list \in Seq(Offer)
    BY TradeAssumption
  <1>5. ASSUME NEW bundle \in Bundles, CreateBatchTrade(a, bundle, buyer, expiry)
        PROVE  AssetTypeOK'
    <2>1. bundle.items \in SUBSET NFTs
      BY TradeAssumption
    <2>2. UNCHANGED assetVars /\ tokens' = tokens \union {TokenOf[n] : n \in bundle.items}
      BY <1>5 DEF CreateBatchTrade
    <2> QED
      BY <2>1, <2>2, TokensKnown
  <1> QED
    BY <1>1, <1>2, <1>3, <1>4, <1>5 DEF CreateTrade, CreateTradeOnBehalf, CreateMultipleTrades

LEMMA ExecutionAssets ==
    ASSUME AssetTypeOK, ListingInv, Execution
    PROVE  AssetTypeOK'
  <1>1. PICK a \in Addresses, value \in Values :
           \/ \E D \in Calls : ExecuteTrades(a, D, value)
           \/ \E b \in Nonces : ExecuteBatchTrade(a, b, value)
    BY DEF Execution
  <1>2. ASSUME NEW D \in Calls, ExecuteTrades(a, D, value) PROVE AssetTypeOK'
    <2>1. D \in SUBSET NFTs /\ Settle(D, [n \in D |-> SaleOfTrade(n)], a, value)
      BY <1>2 DEF Calls, ExecuteTrades
    <2> QED
      BY <2>1, SettlementAssets
  <1>3. ASSUME NEW b \in Nonces, ExecuteBatchTrade(a, b, value) PROVE AssetTypeOK'
    <2>1. batches[b].items \in SUBSET NFTs
      BY DEF ListingInv, Batch
    <2>2. PICK sale : Settle(batches[b].items, sale, a, value)
      BY <1>3 DEF ExecuteBatchTrade
    <2> QED
      BY <2>1, <2>2, SettlementAssets
  <1> QED
    BY <1>1, <1>2, <1>3

LEMMA WalletAssets ==
    ASSUME AssetTypeOK, Wallets
    PROVE  AssetTypeOK'
  <1>0. tokens' = tokens
    BY DEF Wallets
  <1>1. ASSUME NEW n \in SerialApprovals, NEW ok \in BOOLEAN, ApproveSerial(n, ok)
        PROVE  AssetTypeOK'
    BY <1>0, <1>1, TradeAssumption DEF ApproveSerial, AssetTypeOK
  <1>2. ASSUME NEW p \in OperatorApprovals, NEW ok \in BOOLEAN, ApproveAll(p, ok)
        PROVE  AssetTypeOK'
    BY <1>0, <1>2, TradeAssumption DEF ApproveAll, AssetTypeOK
  <1>3. ASSUME NEW n \in NFTs, NEW to \in Addresses, TransferNFT(n, to)
        PROVE  AssetTypeOK'
    BY <1>0, <1>3 DEF TransferNFT, AssetTypeOK
  <1> QED
    BY <1>1, <1>2, <1>3 DEF Wallets

LEMMA AssetInvariance == Spec => []AssetTypeOK
  <1>1. Init => AssetTypeOK
    BY TradeAssumption DEF Init, AssetTypeOK
  <1>2. ASSUME AssetTypeOK, ListingInv, [Next]_vars PROVE AssetTypeOK'
    <2>1. CASE Cancellation
      <3>1. UNCHANGED <<assetVars, tokens>>
        BY <2>1 DEF Cancellation, CancelTrades, CancelMultipleTrades, CancelBatchTrade, NothingSold
      <3> QED
        BY <1>2, <3>1 DEF AssetTypeOK, assetVars
    <2>2. CASE Owner \/ Trust \/ Tick \/ UNCHANGED vars
      <3>1. UNCHANGED <<assetVars, tokens>>
        BY <2>2 DEF Owner, Trust, Tick, vars
      <3> QED
        BY <1>2, <3>1 DEF AssetTypeOK, assetVars
    <2> QED
      BY <1>2, <2>1, <2>2, CreationAssets, ExecutionAssets, WalletAssets DEF Next
  <1> QED
    BY <1>1, <1>2, ListingInvariance, PTL DEF Spec

\* Every variable keeps its type: no balance of a wallet, of the contract or
\* of $LAZY ever has to go below zero for a call to succeed, and no fee rate
\* passes the limits of updateFeeRates.
THEOREM TradeTypeOKHolds == Spec => []TradeTypeOK
  <1>1. ListingInv /\ RatesOK /\ WellFunded /\ AssetTypeOK => TradeTypeOK
    BY DEF ListingInv, RatesOK, WellFunded, MoneyTypeOK, AssetTypeOK, TradeTypeOK
  <1> QED
    BY <1>1, ListingInvariance, RatesInvariance, FundsInvariance, AssetInvariance, PTL
=============================================================================
