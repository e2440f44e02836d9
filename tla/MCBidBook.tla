------------------------------ MODULE MCBidBook ------------------------------
(***************************************************************************)
(* Two owners of stashes and a trader; ann has an agent.                    *)
(***************************************************************************)
EXTENDS BidBook

CONSTANTS ann, ben, cat, annStash, benStash, tok

MCUsers == {ann, ben}
MCActors == <<ann, ben, cat>>
MCStashOf == [u \in MCUsers |-> IF u = ann THEN annStash ELSE benStash]
MCTokens == {tok}
MCAgented == {ann}
MCAskPrices == {[hbar |-> 1, lazy |-> 0]}

\* One for any serial, one for a serial and for a while.
MCTerms == {[token |-> tok, serials |-> {}, hbar |-> 2, lazy |-> 0, expiry |-> 0, floor |-> 1],
            [token |-> tok, serials |-> {1}, hbar |-> 2, lazy |-> 2, expiry |-> 1, floor |-> 2]}

MCInit == BidBookInit /\ \A n \in NFTs : holder[n] = cat

\* What is explored: ben only bids HBAR, for one bid at a time, keeps his stash
\* attached and leaves arbitrage to cat; NFTs that leave a stash go back to cat,
\* and what is listed is cat's or, for anyone, ann's stash's; a new payout is
\* proposed at time 0; arbitrages, and the payout that may change under them,
\* happen where ann has no agent.
Explored ==
    /\ stashHbar[ben] <= 2 /\ stashLazy[ben] = 0 /\ stash[ben] # "detached"
    /\ \A u \in MCUsers : pendingArbProfit[u] = 0
    /\ \A n \in NFTs : holder[n] \notin MCUsers
    /\ \A n \in NFTs : \/ ask[n] = NoAsk \/ ask[n].seller = cat
                       \/ ask[n].seller = annStash /\ ask[n].open
    /\ proposal.eta <= PayoutTimelock
    /\ taken[ann] + taken[ben] <= 4
    /\ envelope[ann] # NoEnvelope =>
          /\ factoryHbar = 0 /\ proposal = NoProposal /\ arbitragePayoutBps = FirstPayout
          /\ stashLazy[ann] = 0
          /\ \A n \in NFTs : ask[n] = NoAsk /\ holder[n] # benStash

MCSpec == MCInit /\ [][BidBookNext]_bidBookVars
=============================================================================
