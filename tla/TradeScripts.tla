---------------------------- MODULE TradeScripts ----------------------------
(***************************************************************************)
(* The command-line scripts with which people trade on LazySecureTrade:     *)
(* createTrade, executeTrade, cancelTrade, cancelTrades, executeTrades,     *)
(* createMultipleTrades, createBatchTrade, executeBatchTrade,               *)
(* cancelBatchTrade and allowanceRevoker, and the four that should place,   *)
(* cancel and execute bids.  A script reads the mirror node, asks its user, *)
(* sets allowances one transaction at a time and submits one call; between  *)
(* any two of these steps everybody else goes on trading.                   *)
(*                                                                         *)
(* SecureTrade models the contract.  Here is what decides whether it        *)
(* accepts a call of a script, for the NFTs of one collection: fees, the    *)
(* one-tinybar hops and the contract's own balance are left out.            *)
(***************************************************************************)
EXTENDS MirrorReads, FiniteSets

CONSTANTS
    Accounts,         \* the wallets whose owners run scripts
    NFTs,             \* serials of one collection
    Prices,           \* <<HBAR, $LAZY>> prices entered at the prompts
    Costs,            \* values of lazyCostForTrade
    Elsewhere,        \* allowances of other tokens to the gas station
    Collectors,       \* who may get or lose the NFTs that make listing free
    GasBuffer,        \* 5 HBAR
    FirstHbar, FirstLazy, FirstOwner

ASSUME ScriptsAssumption ==
    /\ Prices \in SUBSET (Nat \X Nat) /\ Costs \in SUBSET Nat /\ GasBuffer \in Nat
    /\ FirstHbar \in [Accounts -> Nat] /\ FirstLazy \in [Accounts -> Nat]
    /\ FirstOwner \in [NFTs -> Accounts]

NoOne == "none"
NoListing == [seller |-> NoOne, buyer |-> NoOne, hbar |-> 0, lazy |-> 0]

VARIABLES
    listing,       \* allTradesMap, by NFT
    ownerOf,       \* holder of every NFT
    hbar, lazy,    \* balances
    approved,      \* who lets the contract move all their NFTs of the collection
    associated,    \* who is associated with the collection
    lazyAllowed,   \* $LAZY the gas station may draw, by account
    hopAllowed,    \* who lets the contract take its tinybar
    cost,          \* lazyCostForTrade
    holders,       \* whose advanced trades are free
    run            \* the script every account is running

marketVars == <<listing, ownerOf, hbar, lazy>>
allowanceVars == <<approved, associated, lazyAllowed, hopAllowed>>
termVars == <<cost, holders>>
scriptVars == <<listing, ownerOf, hbar, lazy, approved, associated,
                lazyAllowed, hopAllowed, cost, holders, run>>

\* hbar and lazy are what the user agreed to pay, standing what the gas station
\* could draw before; sound says, of executeTrade, that what it has read is so:
\* nobody else has changed the ledger, no other token was taken for $LAZY.
NoRun == [pc |-> "idle", nfts |-> {}, buyer |-> NoOne, price |-> <<0, 0>>,
          hbar |-> 0, lazy |-> 0, standing |-> 0, sound |-> FALSE]

ScriptsInit ==
    /\ listing = [n \in NFTs |-> NoListing] /\ ownerOf = FirstOwner
    /\ hbar = FirstHbar /\ lazy = FirstLazy
    /\ approved = {} /\ associated = {FirstOwner[n] : n \in NFTs}
    /\ lazyAllowed = [a \in Accounts |-> 0] /\ hopAllowed = {}
    /\ cost \in Costs /\ holders = {}
    /\ run = [a \in Accounts |-> NoRun]

-----------------------------------------------------------------------------
(* What the contract accepts, and does.                                      *)

\* A step of somebody else: what a running script has read may be stale now.
Disturbed(r) == [r EXCEPT !.sound = FALSE]
ChangesTheLedger(a, r) == run' = [b \in Accounts |-> IF b = a THEN r ELSE Disturbed(run[b])]
OnlyReads(a, r) == run' = [run EXCEPT ![a] = r]
End(a) == OnlyReads(a, NoRun)

Deliverable(n, seller) == ownerOf[n] = seller /\ seller \in approved

AcceptsListing(a, n, buyer, price) ==
    /\ Deliverable(n, a)
    /\ buyer = NoOne => price[1] + price[2] > 0
    /\ buyer = NoOne /\ a \notin holders =>
          cost > 0 /\ lazyAllowed[a] >= cost /\ lazy[a] >= cost

\* isTradeValid for a caller.
TradeValid(a, n) ==
    /\ listing[n].seller # NoOne
    /\ listing[n].buyer \in {NoOne, a} \/ listing[n].seller = a
    /\ Deliverable(n, listing[n].seller)

AcceptsPurchase(a, n, value) ==
    /\ TradeValid(a, n) /\ listing[n].seller # a
    /\ a \in associated /\ a \in hopAllowed
    /\ hbar[a] >= value /\ value >= listing[n].hbar
    /\ listing[n].lazy > 0 => lazy[a] >= listing[n].lazy /\ lazyAllowed[a] >= listing[n].lazy

Draw(a, amount) == lazyAllowed' = [lazyAllowed EXCEPT ![a] = @ - amount]

List(a, n, buyer, price) ==
    /\ listing' = [listing EXCEPT ![n] = [seller |-> a, buyer |-> buyer,
                                          hbar |-> price[1], lazy |-> price[2]]]
    /\ LET fee == IF buyer = NoOne /\ a \notin holders THEN cost ELSE 0
       IN lazy' = [lazy EXCEPT ![a] = @ - fee] /\ Draw(a, fee)
    /\ UNCHANGED <<ownerOf, hbar, approved, associated, hopAllowed>>

Buy(a, n) ==
    LET t == listing[n]
    IN /\ hbar' = [hbar EXCEPT ![a] = @ - t.hbar, ![t.seller] = @ + t.hbar]
       /\ lazy' = [lazy EXCEPT ![a] = @ - t.lazy, ![t.seller] = @ + t.lazy]
       /\ Draw(a, t.lazy)
       /\ ownerOf' = [ownerOf EXCEPT ![n] = a]
       /\ hopAllowed' = hopAllowed \ {a}
       /\ listing' = [listing EXCEPT ![n] = NoListing]
       /\ UNCHANGED <<approved, associated>>

\* Outside the scripts: a holder sends an NFT away, the contract's owner sets
\* the cost of a listing, an account gets or loses the NFTs that make it free.
Transfer(n, to) ==
    /\ to \in associated /\ ownerOf' = [ownerOf EXCEPT ![n] = to]
    /\ UNCHANGED <<listing, hbar, lazy, allowanceVars, termVars>>
SetCost(c) == cost' = c /\ UNCHANGED <<marketVars, allowanceVars, holders>>
HoldersChange(a) ==
    /\ holders' = IF a \in holders THEN holders \ {a} ELSE holders \cup {a}
    /\ UNCHANGED <<marketVars, allowanceVars, cost>>

Outside ==
    /\ \/ \E n \in NFTs, to \in Accounts : Transfer(n, to)
       \/ \E c \in Costs : SetCost(c)
       \/ \E a \in Collectors : HoldersChange(a)
    /\ run' = [a \in Accounts |-> Disturbed(run[a])]

-----------------------------------------------------------------------------
(* The pieces all scripts are made of.                                       *)

At(a, pc) == run[a].pc = pc
Began(a) == [NoRun EXCEPT !.standing = lazyAllowed[a]]

\* What checkMirrorAllowance may say of the $LAZY an account allows the gas
\* station, for every order in which the mirror node lists its allowances.
MirrorAllowance(a) ==
    LET ofToken(amount) == [spender |-> "LGS", amount |-> amount]
    IN {CheckMirrorAllowance(<<ofToken(lazyAllowed[a])>>, "LGS", ok) : ok \in BOOLEAN}
         \cup {CheckMirrorAllowance(<<ofToken(lazyAllowed[a]), ofToken(other)>>, "LGS", TRUE) :
                 other \in Elsewhere}

\* A balance that is null or 0 ends a script as one that is too small does.
Covers(answer, amount) == \E balance \in answer : balance # 0 /\ balance >= amount

\* Mutant of SetFTAllowance: the amount is added to what stands.
RaiseFTAllowance(a, amount) == lazyAllowed' = [lazyAllowed EXCEPT ![a] = @ + amount]

\* An approval takes the place of the one that stands, larger or smaller.
SetFTAllowance(a, amount) == lazyAllowed' = [lazyAllowed EXCEPT ![a] = amount]

\* contractExecuteFunction: the call takes effect, or is refused, and either
\* way the script ends; an answer that is lost ends it too, as a failure.
Submit(a, pc, accepted, effect) ==
    /\ At(a, pc)
    /\ \/ accepted /\ effect /\ ChangesTheLedger(a, NoRun)
       \/ UNCHANGED <<marketVars, allowanceVars>> /\ End(a)
    /\ UNCHANGED termVars

\* A question answered with no, a failed request, an exception or Ctrl-C.
Abort(a) ==
    /\ ~At(a, "idle") /\ End(a)
    /\ UNCHANGED <<marketVars, allowanceVars, termVars>>

Unchanged == UNCHANGED <<marketVars, allowanceVars, termVars>>

-----------------------------------------------------------------------------
(* createTrade.js                                                            *)

\* The answers at the prompts: a price of nothing is refused when a buyer is
\* named, and passes when none is.
EnteredPrice(buyer, price) == buyer # NoOne => price[1] + price[2] > 0

StartCreateTrade(a, n, buyer, price) ==
    /\ At(a, "idle") /\ buyer # a
    /\ \E ok \in BOOLEAN : CheckNFTOwnership(ownerOf[n], ok) = {a}
    /\ EnteredPrice(buyer, price)
    /\ LET r == [Began(a) EXCEPT !.nfts = {n}, !.buyer = buyer, !.price = price]
       IN OnlyReads(a, [r EXCEPT !.pc = IF buyer = NoOne THEN "areAdvancedTradesFree"
                                                         ELSE "setNFTAllowance"])
    /\ Unchanged

\* Two calls of the mirror node, and the summary the user confirms.
ReadCost(a) ==
    /\ At(a, "areAdvancedTradesFree")
    /\ IF a \in holders THEN OnlyReads(a, [run[a] EXCEPT !.pc = "setNFTAllowance"])
       ELSE OnlyReads(a, [run[a] EXCEPT !.pc = "setNFTAllowance", !.lazy = cost])
    /\ Unchanged

\* Its answer is printed, and FAILED goes on too.
ApproveCollection(a) ==
    /\ At(a, "setNFTAllowance")
    /\ ChangesTheLedger(a, [run[a] EXCEPT
          !.pc = IF run[a].lazy > 0 THEN "setListingAllowance" ELSE "submitListing"])
    /\ approved' \in {approved, approved \cup {a}}
    /\ UNCHANGED <<marketVars, associated, lazyAllowed, hopAllowed, termVars>>

AllowListing(a) ==
    /\ At(a, "setListingAllowance")
    /\ SetFTAllowance(a, run[a].lazy)
    /\ ChangesTheLedger(a, [run[a] EXCEPT !.pc = "submitListing"])
    /\ UNCHANGED <<marketVars, approved, associated, hopAllowed, termVars>>

SubmitListing(a) == \E n \in run[a].nfts :
    Submit(a, "submitListing", AcceptsListing(a, n, run[a].buyer, run[a].price),
           List(a, n, run[a].buyer, run[a].price))

-----------------------------------------------------------------------------
(* executeTrade.js                                                           *)

\* getTrade, for the NFT: the hash does not say which of its listings is meant.
StartExecuteTrade(a, n) ==
    /\ At(a, "idle")
    /\ listing[n].seller \notin {NoOne, a} /\ listing[n].buyer \in {NoOne, a}
    /\ OnlyReads(a, [Began(a) EXCEPT !.pc = "isTradeValid", !.nfts = {n}, !.sound = TRUE,
                        !.hbar = listing[n].hbar, !.lazy = listing[n].lazy])
    /\ Unchanged

CheckTradeValid(a) ==
    /\ At(a, "isTradeValid") /\ \A n \in run[a].nfts : TradeValid(a, n)
    /\ OnlyReads(a, [run[a] EXCEPT !.pc = IF run[a].lazy > 0 THEN "setLazyAllowance" ELSE "balance"])
    /\ Unchanged

AllowPurchase(a) ==
    /\ At(a, "setLazyAllowance")
    /\ \E ok \in BOOLEAN : Covers(CheckMirrorBalance(TRUE, lazy[a], ok), run[a].lazy)
    /\ \E allowance \in MirrorAllowance(a) :
          /\ IF allowance < run[a].lazy THEN SetFTAllowance(a, run[a].lazy)
             ELSE UNCHANGED lazyAllowed
          /\ ChangesTheLedger(a, [run[a] EXCEPT
                !.pc = "balance", !.sound = @ /\ allowance \in {lazyAllowed[a], 0}])
    /\ UNCHANGED <<marketVars, approved, associated, hopAllowed, termVars>>

CheckHbarBalance(a) ==
    /\ At(a, "balance")
    /\ \E ok \in BOOLEAN : Covers(CheckMirrorHbarBalance(hbar[a], ok), run[a].hbar + GasBuffer)
    /\ OnlyReads(a, [run[a] EXCEPT !.pc = "associate"])
    /\ Unchanged

\* The mirror node has no balance of the collection, or does not answer: then
\* it throws where the account is associated already, as in Abort.
AssociateToken(a) ==
    /\ At(a, "associate")
    /\ associated' = associated \cup {a}
    /\ ChangesTheLedger(a, [run[a] EXCEPT !.pc = "setHopAllowance"])
    /\ UNCHANGED <<marketVars, approved, lazyAllowed, hopAllowed, termVars>>

\* Mutant of AllowHop: left to the user.
AllowHopElsewhere(a) ==
    /\ At(a, "setHopAllowance")
    /\ OnlyReads(a, [run[a] EXCEPT !.pc = "submitPurchase"])
    /\ Unchanged

\* setHbarAllowance: one tinybar for the contract.
SetHopAllowance(a) == hopAllowed' = hopAllowed \cup {a}

\* Where the first page of its allowances does not show that it is allowed.
AllowHop(a) ==
    /\ At(a, "setHopAllowance")
    /\ SetHopAllowance(a)
    /\ ChangesTheLedger(a, [run[a] EXCEPT !.pc = "submitPurchase"])
    /\ UNCHANGED <<marketVars, approved, associated, lazyAllowed, termVars>>

\* With the HBAR that was read, whatever the price is by now.
SubmitPurchase(a) == \E n \in run[a].nfts :
    Submit(a, "submitPurchase", AcceptsPurchase(a, n, run[a].hbar), Buy(a, n))

-----------------------------------------------------------------------------
(* cancelTrade.js and cancelTrades.js, by seller or buyer, all or nothing.   *)

MayCancel(a, n) == a \in {listing[n].seller, listing[n].buyer}

StartCancelTrade(a, n) ==
    /\ At(a, "idle") /\ MayCancel(a, n)
    /\ OnlyReads(a, [NoRun EXCEPT !.pc = "submitCancel", !.nfts = {n}])
    /\ Unchanged

StartCancelTrades(a, D) ==
    /\ At(a, "idle") /\ D # {} /\ \A n \in D : MayCancel(a, n)
    /\ OnlyReads(a, [NoRun EXCEPT !.pc = "submitCancel", !.nfts = D])
    /\ Unchanged

CancelAll(D) ==
    /\ listing' = [n \in NFTs |-> IF n \in D THEN NoListing ELSE listing[n]]
    /\ UNCHANGED <<ownerOf, hbar, lazy, allowanceVars>>

SubmitCancel(a) ==
    Submit(a, "submitCancel", \A n \in run[a].nfts : MayCancel(a, n), CancelAll(run[a].nfts))

-----------------------------------------------------------------------------
(* Scripts that end with an exception before their first transaction.        *)

Throws(a) == At(a, "idle") /\ OnlyReads(a, [NoRun EXCEPT !.pc = "thrown"]) /\ Unchanged

\* executeTrades.js adds the price of the first trade it may execute, a
\* BigInt, to the number 0.
ExecuteTrades(a) ==
    /\ \E n \in NFTs : listing[n].seller # NoOne /\ listing[n].buyer \in {NoOne, a}
    /\ Throws(a)

\* createMultipleTrades.js and createBatchTrade.js ask for the details of their
\* first token and leave out the environment, so that there is no token.
CreateMultipleTrades(a) == Throws(a)
CreateBatchTrade(a) == Throws(a)

\* executeBatchTrade.js and cancelBatchTrade.js take the items of a batch for
\* its expiry time, and throw as they print the date.
ExecuteBatchTrade(a) == Throws(a)
CancelBatchTrade(a) == Throws(a)

\* createBid.js, cancelBid.js, executeAgainstBid.js and executeArbitrage.js
\* leave out the last arguments of the bid book's functions, among them the
\* agent's authority, and their call cannot be encoded.
CreateBid(a) == Throws(a)
CancelBid(a) == Throws(a)
ExecuteAgainstBid(a) == Throws(a)
ExecuteArbitrage(a) == Throws(a)

-----------------------------------------------------------------------------
(* allowanceRevoker.js sends its approvals without waiting for them, and the *)
(* process may be gone before they are sent.                                 *)

RevokeTokenAllowances(a) ==
    /\ At(a, "idle")
    /\ lazyAllowed' \in {lazyAllowed, [lazyAllowed EXCEPT ![a] = 0]}
    /\ ChangesTheLedger(a, [NoRun EXCEPT !.pc = "revokeHbar"])
    /\ UNCHANGED <<marketVars, approved, associated, hopAllowed, termVars>>

RevokeHbarAllowances(a) ==
    /\ At(a, "revokeHbar")
    /\ hopAllowed' \in {hopAllowed, hopAllowed \ {a}}
    /\ ChangesTheLedger(a, NoRun)
    /\ UNCHANGED <<marketVars, approved, associated, lazyAllowed, termVars>>

-----------------------------------------------------------------------------
Creating(a) ==
    \/ \E n \in NFTs, buyer \in Accounts \cup {NoOne}, price \in Prices :
          StartCreateTrade(a, n, buyer, price)
    \/ ReadCost(a) \/ ApproveCollection(a) \/ AllowListing(a) \/ SubmitListing(a)

Executing(a) ==
    \/ \E n \in NFTs : StartExecuteTrade(a, n)
    \/ CheckTradeValid(a) \/ AllowPurchase(a) \/ CheckHbarBalance(a)
    \/ AssociateToken(a) \/ AllowHop(a) \/ SubmitPurchase(a)

Cancelling(a) ==
    \/ \E n \in NFTs : StartCancelTrade(a, n)
    \/ \E D \in SUBSET NFTs : StartCancelTrades(a, D)
    \/ SubmitCancel(a)

Broken(a) == ExecuteTrades(a) \/ CreateMultipleTrades(a) \/ CreateBatchTrade(a)
               \/ ExecuteBatchTrade(a) \/ CancelBatchTrade(a)
               \/ CreateBid(a) \/ CancelBid(a) \/ ExecuteAgainstBid(a) \/ ExecuteArbitrage(a)

Revoking(a) == RevokeTokenAllowances(a) \/ RevokeHbarAllowances(a)

ScriptsNext ==
    \/ Outside
    \/ \E a \in Accounts : Creating(a) \/ Executing(a) \/ Cancelling(a)
                             \/ Broken(a) \/ Revoking(a) \/ Abort(a)

ScriptsSpec == ScriptsInit /\ [][ScriptsNext]_scriptVars

-----------------------------------------------------------------------------
(* Properties.                                                               *)

\* A script never costs its user more than the user agreed to: in HBAR the
\* price that was shown, in $LAZY the amount that was shown or, where the
\* listing, the cost or the exemption has changed since, what the user had
\* left allowed to the gas station before the script began.
SpendsWhatWasConfirmed ==
    [][\A a \in Accounts : run[a].pc # "idle" /\ run'[a].pc = "idle" =>
          /\ hbar[a] - hbar'[a] <= run[a].hbar
          /\ lazy[a] - lazy'[a] <= GreaterOf(run[a].lazy, run[a].standing)]_scriptVars

\* Where what executeTrade has read is still so, its checks and allowances are
\* enough: the contract accepts the purchase it submits.
ChecksSuffice ==
    \A a \in Accounts : \A n \in run[a].nfts :
        run[a].pc = "submitPurchase" /\ run[a].sound => AcceptsPurchase(a, n, run[a].hbar)
=============================================================================
