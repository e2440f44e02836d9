------------------------------- MODULE BidBook -------------------------------
(***************************************************************************)
(* BidderContractFactory, the bid book, with the BidderContract stashes     *)
(* that hold the bidders' money, the agents that may bid with it, and the   *)
(* scripts that people manage their stashes with.                           *)
(*                                                                         *)
(* A stash is a contract of its own: its owner can empty it, and detach it  *)
(* from the factory, at any time, whatever bids it has in the book.  What   *)
(* LazySecureTrade does when a stash buys is reduced to its outcome (see    *)
(* SecureTrade): an NFT for its price, all or nothing.                      *)
(***************************************************************************)
EXTENDS Sums, FiniteSets

CONSTANTS
    Users,            \* owners of stashes
    ActorSeq,         \* everyone who trades, owners included, listed once
    StashOf,          \* the address of every user's stash
    Tokens, Serials,
    BidTerms,         \* records [token, serials, hbar, lazy, expiry, floor]
    MaxBids,          \* bound on how many bids are ever made
    AskPrices,        \* [hbar, lazy] prices of listings
    Deposits,         \* amounts that go into and out of stashes
    MaxHbar, MaxLazy, \* bounds on what a stash holds
    WithdrawFloor,    \* 1 HBAR
    MaxBps, FirstPayout, Payouts, PayoutTimelock,
    Agented,          \* users who may authorize an agent
    DailyCap, PerTxCap, DayLength,
    MaxTime,          \* bound on the clock
    NoBid, NoAsk      \* what is in the registry, and on the market, otherwise

Actors == {ActorSeq[i] : i \in DOMAIN ActorSeq}
NFTs == Tokens \X Serials
Ids == 1 .. MaxBids
Addresses == Actors \cup {StashOf[u] : u \in Users}

BidRecords == [user : Users, terms : BidTerms, byAgent : BOOLEAN]
Asks == [seller : Addresses, price : AskPrices, open : BOOLEAN]

ASSUME BidBookAssumption ==
    /\ Users \subseteq Actors /\ ActorSeq \in Seq(Actors)
    /\ \A i, j \in DOMAIN ActorSeq : ActorSeq[i] = ActorSeq[j] => i = j
    /\ \A u \in Users : StashOf[u] \notin Actors
    /\ \A u, v \in Users : StashOf[u] = StashOf[v] => u = v
    /\ BidTerms \subseteq [token : Tokens, serials : SUBSET Serials, hbar : Nat, lazy : Nat,
                           expiry : Nat, floor : Nat]
    /\ MaxBids \in Nat
    /\ AskPrices \subseteq [hbar : Nat, lazy : Nat]
    /\ MaxBps \in Nat \ {0} /\ FirstPayout \in 0 .. MaxBps /\ Payouts \subseteq 0 .. MaxBps
    /\ NoBid \notin BidRecords /\ NoAsk \notin Asks
    /\ PayoutTimelock \in Nat \ {0} /\ DailyCap \in Nat /\ DayLength \in Nat \ {0}

NoEnvelope == [granted |-> FALSE, paused |-> FALSE, since |-> 0, lastResetDay |-> 0, consumed |-> 0]
NoProposal == [bps |-> 0, eta |-> 0]

VARIABLES
    now,
    registry,                 \* bidRegistry
    tokenToBids, userToBids,  \* the discovery arrays
    tokenBidIndex,            \* where a bid is in them; 0, the first place,
    userBidIndex,             \* for every bid that is not there, too
    totalBidCount,
    stash,                    \* "none", "attached", "detached"
    stashHbar, stashLazy,
    ask, holder,              \* listings on LazySecureTrade and NFTs
    factoryHbar, pendingArbProfit, pendingProtocolProfit,
    arbitragePayoutBps, proposal,
    envelope,                 \* of the user's agent
    taken,                    \* history: HBAR taken from a stash by trades
    agentTook                 \* history: the part that paid for bids of the agent

bookState == <<registry, tokenToBids, userToBids, tokenBidIndex, userBidIndex>>
fundVars == <<stashHbar, stashLazy, taken, agentTook>>
marketState == <<ask, holder>>
profitVars == <<factoryHbar, pendingArbProfit, pendingProtocolProfit>>
payoutVars == <<arbitragePayoutBps, proposal>>
bidBookVars == <<now, bookState, totalBidCount, stash, fundVars, marketState, profitVars,
                 payoutVars, envelope>>

BidBookInit ==
    /\ now = 0
    /\ registry = [id \in Ids |-> NoBid]
    /\ tokenToBids = [t \in Tokens |-> <<>>] /\ userToBids = [u \in Users |-> <<>>]
    /\ tokenBidIndex = [id \in Ids |-> 0] /\ userBidIndex = [id \in Ids |-> 0]
    /\ totalBidCount = 0
    /\ stash = [u \in Users |-> "none"]
    /\ stashHbar = [u \in Users |-> 0] /\ stashLazy = [u \in Users |-> 0]
    /\ ask = [n \in NFTs |-> NoAsk] /\ holder \in [NFTs -> Actors]
    /\ factoryHbar = 0
    /\ pendingArbProfit = [a \in Actors |-> 0] /\ pendingProtocolProfit = 0
    /\ arbitragePayoutBps = FirstPayout /\ proposal = NoProposal
    /\ envelope = [u \in Users |-> NoEnvelope]
    /\ taken = [u \in Users |-> 0] /\ agentTook = [u \in Users |-> 0]

-----------------------------------------------------------------------------
(* The book.                                                                 *)

Active(id) == registry[id] # NoBid
Expired(id) == registry[id].terms.expiry # 0 /\ now > registry[id].terms.expiry
Funded(b) == stashHbar[b.user] >= b.terms.hbar /\ stashLazy[b.user] >= b.terms.lazy

\* The last entry of an array moves to where the removed one was.
Without(array, at) ==
    [i \in 1 .. Len(array) - 1 |-> IF i = at + 1 THEN array[Len(array)] ELSE array[i]]

\* Mutant of Reindexed: the entry that moves keeps its old place.
ReindexedInPlace(array, indexOf, id) == [indexOf EXCEPT ![id] = 0]

Reindexed(array, indexOf, id) ==
    [indexOf EXCEPT ![array[Len(array)]] = indexOf[id], ![id] = 0]

CloseBid(id) ==
    LET t == registry[id].terms.token
        u == registry[id].user
    IN /\ tokenToBids' = [tokenToBids EXCEPT ![t] = Without(@, tokenBidIndex[id])]
       /\ tokenBidIndex' = Reindexed(tokenToBids[t], tokenBidIndex, id)
       /\ userToBids' = [userToBids EXCEPT ![u] = Without(@, userBidIndex[id])]
       /\ userBidIndex' = Reindexed(userToBids[u], userBidIndex, id)
       /\ registry' = [registry EXCEPT ![id] = NoBid]

\* BidderContract.createBid and, called by it, the factory's: the stash has
\* what this bid offers, whatever its other bids do.
CreateBid(u, terms, byAgent) ==
    /\ stash[u] = "attached"
    /\ terms.hbar > 0 \/ terms.lazy > 0
    /\ terms.expiry = 0 \/ terms.expiry > now
    /\ terms.floor <= terms.hbar
    /\ stashHbar[u] >= terms.hbar /\ stashLazy[u] >= terms.lazy
    /\ LET id == totalBidCount + 1
           t == terms.token
       IN /\ id \in Ids
          /\ totalBidCount' = id
          /\ registry' = [registry EXCEPT ![id] =
                             [user |-> u, terms |-> terms, byAgent |-> byAgent]]
          /\ tokenBidIndex' = [tokenBidIndex EXCEPT ![id] = Len(tokenToBids[t])]
          /\ tokenToBids' = [tokenToBids EXCEPT ![t] = Append(@, id)]
          /\ userBidIndex' = [userBidIndex EXCEPT ![id] = Len(userToBids[u])]
          /\ userToBids' = [userToBids EXCEPT ![u] = Append(@, id)]
    /\ UNCHANGED <<now, stash, fundVars, marketState, profitVars, payoutVars>>

OnlyTheBook == UNCHANGED <<now, totalBidCount, stash, fundVars, marketState, profitVars, payoutVars>>

OwnerCreatesBid(u, terms) == CreateBid(u, terms, FALSE) /\ UNCHANGED envelope

\* At the factory itself, also where the stash is detached.
CancelBid(id) == Active(id) /\ CloseBid(id) /\ OnlyTheBook /\ UNCHANGED envelope

PruneUnfundedBid(id) ==
    /\ Active(id) /\ ~Funded(registry[id])
    /\ CloseBid(id) /\ OnlyTheBook /\ UNCHANGED envelope

\* A call with several bids does what as many calls with one do.
CleanupExpiredBids(id) ==
    /\ Active(id) /\ Expired(id)
    /\ CloseBid(id) /\ OnlyTheBook /\ UNCHANGED envelope

-----------------------------------------------------------------------------
(* Agents: an envelope bounds what an agent may commit on one day.  The caps *)
(* on $LAZY work in the same way and are left out; so are the actions that   *)
(* commit nothing new, as an agent has no more power there than its owner.   *)

Day == now \div DayLength

\* Mutant of ConsumedToday: every action finds the limit untouched.
ConsumedNothing(e) == 0

\* resetIfNewDay
ConsumedToday(e) == IF Day # e.lastResetDay THEN 0 ELSE e.consumed

\* verifyAndConsume
Consume(u, amount) ==
    LET e == envelope[u]
    IN /\ e.granted /\ ~e.paused
       /\ amount <= PerTxCap
       /\ ConsumedToday(e) + amount <= DailyCap
       /\ envelope' = [envelope EXCEPT ![u] =
             [e EXCEPT !.lastResetDay = Day, !.consumed = ConsumedToday(e) + amount]]

AgentCreatesBid(u, terms) == Consume(u, terms.hbar) /\ CreateBid(u, terms, TRUE)

\* Through the stash, which must be attached; nothing is given back.
AgentCancelsBid(u, id) ==
    /\ Active(id) /\ registry[id].user = u /\ stash[u] = "attached"
    /\ Consume(u, 0) /\ CloseBid(id) /\ OnlyTheBook

OnlyTheEnvelope == UNCHANGED <<now, bookState, totalBidCount, stash, fundVars, marketState,
                               profitVars, payoutVars>>

\* At most one envelope per user is explored.
CreateEnvelope(u) ==
    /\ u \in Agented /\ stash[u] # "none" /\ envelope[u] = NoEnvelope
    /\ envelope' = [envelope EXCEPT ![u] =
          [granted |-> TRUE, paused |-> FALSE, since |-> Day, lastResetDay |-> Day, consumed |-> 0]]
    /\ OnlyTheEnvelope

PauseAgent(u) ==
    /\ envelope[u].granted
    /\ envelope' = [envelope EXCEPT ![u].paused = ~@]
    /\ OnlyTheEnvelope

-----------------------------------------------------------------------------
(* The owner's side of a stash.                                              *)

DeployStash(u) ==
    /\ stash[u] = "none"
    /\ stash' = [stash EXCEPT ![u] = "attached"]
    /\ UNCHANGED <<now, bookState, totalBidCount, fundVars, marketState, profitVars,
                   payoutVars, envelope>>

DetachFromFactory(u) ==
    /\ stash[u] = "attached"
    /\ stash' = [stash EXCEPT ![u] = "detached"]
    /\ UNCHANGED <<now, bookState, totalBidCount, fundVars, marketState, profitVars,
                   payoutVars, envelope>>

OnlyFunds == UNCHANGED <<now, bookState, totalBidCount, stash, taken, agentTook, marketState,
                         profitVars, payoutVars, envelope>>

DepositHbar(u, amount) ==
    /\ stash[u] # "none" /\ stashHbar[u] + amount <= MaxHbar
    /\ stashHbar' = [stashHbar EXCEPT ![u] = @ + amount]
    /\ UNCHANGED stashLazy /\ OnlyFunds

DepositLazy(u, amount) ==
    /\ stash[u] # "none" /\ stashLazy[u] + amount <= MaxLazy
    /\ stashLazy' = [stashLazy EXCEPT ![u] = @ + amount]
    /\ UNCHANGED stashHbar /\ OnlyFunds

WithdrawHbar(u, amount) ==
    /\ stashHbar[u] >= amount + WithdrawFloor
    /\ stashHbar' = [stashHbar EXCEPT ![u] = @ - amount]
    /\ UNCHANGED stashLazy /\ OnlyFunds

RescueHbar(u, amount) ==
    /\ stashHbar[u] >= amount
    /\ stashHbar' = [stashHbar EXCEPT ![u] = @ - amount]
    /\ UNCHANGED stashLazy /\ OnlyFunds

RescueLazy(u, amount) ==
    /\ stashLazy[u] >= amount
    /\ stashLazy' = [stashLazy EXCEPT ![u] = @ - amount]
    /\ UNCHANGED stashHbar /\ OnlyFunds

RescueNFT(u, n, to) ==
    /\ holder[n] = StashOf[u]
    /\ holder' = [holder EXCEPT ![n] = to]
    /\ UNCHANGED <<now, bookState, totalBidCount, stash, fundVars, ask, profitVars, payoutVars,
                   envelope>>

\* On LazySecureTrade: whoever holds an NFT lists it, for anyone or for one
\* buyer; a listing goes stale when the NFT goes elsewhere.
ListNFT(seller, n, price, open) ==
    /\ holder[n] = seller
    /\ ask' = [ask EXCEPT ![n] = [seller |-> seller, price |-> price, open |-> open]]
    /\ UNCHANGED <<now, bookState, totalBidCount, stash, fundVars, holder, profitVars, payoutVars,
                   envelope>>

-----------------------------------------------------------------------------
(* Executions.                                                               *)

\* Mutant of ValidForExecution: an expired bid can be executed.
ValidWhileActive(id) == Active(id) /\ stashHbar[registry[id].user] >= registry[id].terms.hbar

\* The sweep of an expired bid is undone by the revert that follows it.
ValidForExecution(id) ==
    /\ Active(id) /\ ~Expired(id)
    /\ stashHbar[registry[id].user] >= registry[id].terms.hbar

Matches(id, n) ==
    LET terms == registry[id].terms
    IN terms.token = n[1] /\ (terms.serials = {} \/ n[2] \in terms.serials)

\* A stash is stood for by its owner.
BeneficialOwner(address) ==
    IF \E u \in Users : StashOf[u] = address
    THEN CHOOSE u \in Users : StashOf[u] = address
    ELSE address

\* BidderContract.executeTrade with, for an arbitrage, arbitrageSettle: what
\* the stash of the bid pays in all, for an NFT that it gets.
StashPays(b, hbar, lazy) ==
    /\ stash[b.user] = "attached" /\ stashLazy[b.user] >= lazy
    /\ stashHbar' = [stashHbar EXCEPT ![b.user] = @ - hbar]
    /\ stashLazy' = [stashLazy EXCEPT ![b.user] = @ - lazy]
    /\ taken' = [taken EXCEPT ![b.user] = @ + hbar]
    /\ agentTook' = IF b.byAgent THEN [agentTook EXCEPT ![b.user] = @ + hbar] ELSE agentTook

Deliver(n, u) ==
    /\ holder' = [holder EXCEPT ![n] = StashOf[u]]
    /\ ask' = [ask EXCEPT ![n] = NoAsk]

\* A seller takes a bid: a listing for the stash, bought at once.
ExecuteAgainstBid(a, id, n) ==
    LET b == registry[id]
    IN /\ ValidForExecution(id) /\ Matches(id, n)
       /\ a # b.user
       /\ b.terms.hbar >= b.terms.floor
       /\ holder[n] = a
       /\ StashPays(b, b.terms.hbar, b.terms.lazy) /\ Deliver(n, b.user)
       /\ CloseBid(id)
       /\ UNCHANGED <<now, totalBidCount, stash, profitVars, payoutVars, envelope>>

\* Mutant of ProtocolCut: the arbitrageur's share is not taken off.
WholeSpread(spread) == spread

ArbCut(spread) == (spread * arbitragePayoutBps) \div MaxBps
ProtocolCut(spread) == spread - ArbCut(spread)

\* Someone matches a bid with a listing: the stash spends all it has bid, the
\* seller gets the price, and the rest is shared.
ExecuteArbitrage(a, id, n) ==
    LET b == registry[id]
        t == ask[n]
        spread == b.terms.hbar - t.price.hbar
    IN /\ ValidForExecution(id)
       /\ t # NoAsk /\ t.open /\ Matches(id, n)
       /\ a # b.user /\ a # BeneficialOwner(t.seller) /\ b.user # BeneficialOwner(t.seller)
       /\ t.price.hbar \in b.terms.floor .. b.terms.hbar
       /\ t.price.lazy <= b.terms.lazy
       /\ holder[n] = t.seller
       /\ StashPays(b, t.price.hbar + spread, t.price.lazy) /\ Deliver(n, b.user)
       /\ factoryHbar' = factoryHbar + spread
       /\ pendingArbProfit' = [pendingArbProfit EXCEPT ![a] = @ + ArbCut(spread)]
       /\ pendingProtocolProfit' = pendingProtocolProfit + ProtocolCut(spread)
       /\ CloseBid(id)
       /\ UNCHANGED <<now, totalBidCount, stash, payoutVars, envelope>>

-----------------------------------------------------------------------------
(* Profits, the owner's timelock, time.                                      *)

OnlyProfits == UNCHANGED <<now, bookState, totalBidCount, stash, fundVars, marketState, payoutVars,
                           envelope>>

ClaimArbProfit(a) ==
    /\ pendingArbProfit[a] > 0
    /\ pendingArbProfit' = [pendingArbProfit EXCEPT ![a] = 0]
    /\ factoryHbar' = factoryHbar - pendingArbProfit[a]
    /\ UNCHANGED pendingProtocolProfit /\ OnlyProfits

WithdrawProtocolProfit(amount) ==
    /\ amount \in 1 .. pendingProtocolProfit
    /\ pendingProtocolProfit' = pendingProtocolProfit - amount
    /\ factoryHbar' = factoryHbar - amount
    /\ UNCHANGED pendingArbProfit /\ OnlyProfits

OnlyPayout == UNCHANGED <<now, bookState, totalBidCount, stash, fundVars, marketState, profitVars,
                          envelope>>

SetArbitragePayoutBps(bps) ==
    /\ proposal' = [bps |-> bps, eta |-> now + PayoutTimelock]
    /\ UNCHANGED arbitragePayoutBps /\ OnlyPayout

ExecuteArbPayoutBpsChange ==
    /\ proposal.eta # 0 /\ now >= proposal.eta
    /\ arbitragePayoutBps' = proposal.bps
    /\ proposal' = NoProposal
    /\ OnlyPayout

Tick ==
    /\ now < MaxTime
    /\ now' = now + 1
    /\ UNCHANGED <<bookState, totalBidCount, stash, fundVars, marketState, profitVars, payoutVars,
                   envelope>>

-----------------------------------------------------------------------------
(* The scripts for stashes and profits: each submits one call, some after a  *)
(* look at what the call would find.                                         *)

DeployStashScript(u) == stash[u] = "none" /\ DeployStash(u)
DetachFromFactoryScript(u) == DetachFromFactory(u)
RescueHbarScript(u, amount) == RescueHbar(u, amount)
RescueLazyScript(u, amount) == RescueLazy(u, amount)
RescueNFTScript(u, n, to) == RescueNFT(u, n, to)
ClaimArbProfitScript(a) == pendingArbProfit[a] # 0 /\ ClaimArbProfit(a)

-----------------------------------------------------------------------------
Bidding(u) ==
    \/ \E terms \in BidTerms : OwnerCreatesBid(u, terms) \/ AgentCreatesBid(u, terms)
    \/ \E id \in Ids : AgentCancelsBid(u, id)
    \/ CreateEnvelope(u) \/ PauseAgent(u)

Owning(u) ==
    \/ DeployStashScript(u) \/ DetachFromFactoryScript(u)
    \/ \E amount \in Deposits :
          \/ DepositHbar(u, amount) \/ DepositLazy(u, amount)
          \/ WithdrawHbar(u, amount)
          \/ RescueHbarScript(u, amount) \/ RescueLazyScript(u, amount)
    \/ \E n \in NFTs, to \in Actors : RescueNFTScript(u, n, to)

Closing(id) == CancelBid(id) \/ PruneUnfundedBid(id) \/ CleanupExpiredBids(id)

Trading(a) ==
    \/ \E id \in Ids, n \in NFTs : ExecuteAgainstBid(a, id, n) \/ ExecuteArbitrage(a, id, n)
    \/ ClaimArbProfitScript(a)

Governing ==
    \/ \E amount \in 1 .. pendingProtocolProfit : WithdrawProtocolProfit(amount)
    \/ \E bps \in Payouts : SetArbitragePayoutBps(bps)
    \/ ExecuteArbPayoutBpsChange

BidBookNext ==
    \/ \E u \in Users : Bidding(u) \/ Owning(u)
    \/ \E id \in Ids : Closing(id)
    \/ \E a \in Actors : Trading(a)
    \/ \E seller \in Addresses, n \in NFTs, price \in AskPrices, open \in BOOLEAN :
          ListNFT(seller, n, price, open)
    \/ Governing
    \/ Tick

BidBookSpec == BidBookInit /\ [][BidBookNext]_bidBookVars

-----------------------------------------------------------------------------
(* Properties.                                                               *)

\* Two arrays and two indexes tell of every open bid where it is: a bid that
\* is closed in any of six ways moves another one, in both arrays.
ListsExactly(array, indexOf, ids) ==
    /\ \A i \in DOMAIN array : array[i] \in ids /\ indexOf[array[i]] = i - 1
    /\ \A id \in ids : indexOf[id] + 1 \in DOMAIN array /\ array[indexOf[id] + 1] = id

\* The discovery arrays list the open bids of their token or user, each once
\* and where its index says it is, so that closing a bid never removes, or
\* hides, another one.
BookIndexesAgree ==
    /\ \A t \in Tokens : ListsExactly(tokenToBids[t], tokenBidIndex,
                                      {id \in Ids : Active(id) /\ registry[id].terms.token = t})
    /\ \A u \in Users : ListsExactly(userToBids[u], userBidIndex,
                                     {id \in Ids : Active(id) /\ registry[id].user = u})

\* The factory holds the profits it owes.
ProfitsAreBacked ==
    SumOver(pendingArbProfit, ActorSeq) + pendingProtocolProfit <= factoryHbar

\* HBAR that left a stash for bids of its agent is within the agent's daily
\* limit for the days since it was authorized, whatever was bid, cancelled and
\* executed around midnight.
AgentKeepsToItsBudget ==
    \A u \in Users :
        agentTook[u] <= IF envelope[u].granted THEN DailyCap * (Day - envelope[u].since + 1) ELSE 0

\* What the discovery arrays show is an order book: bidders who read it know
\* what may be taken from them, and nothing else is.
Shown(id) == [name |-> id, user |-> registry[id].user, terms |-> registry[id].terms]
Listed == UNION {{tokenToBids[t][i] : i \in DOMAIN tokenToBids[t]} : t \in Tokens}
ShownOffers == {Shown(id) : id \in Listed}

Book == INSTANCE OrderBook WITH
    Bidders <- Users, Names <- Ids, OfferTerms <- BidTerms,
    offers <- ShownOffers, taken <- taken, now <- now

ImplementsOrderBook == Book!BookSpec
=============================================================================
