# Verification project for the Lazy Superheroes trading contracts

This directory holds TLA+ models of the Solidity contracts under
`src/contracts/` and of the JavaScript programs under `src/scripts/` and
`src/utils/` that people and cron jobs use them with, the TLC configurations
that check them on small instances, and TLAPS proofs of the properties that
matter most for every instance. Every definition is translated from the source;
`PROJECT.json` maps each one to the lines it stands for.

## 1. The system

The contracts run on Hedera. NFTs and fungible tokens are native HTS tokens
moved through a system contract; `$LAZY` and HBAR are the two payment rails.
A transaction is atomic and every entry point that moves value is
`nonReentrant`, so nothing interleaves *inside* a call. What interleaves is the
order of whole transactions of sellers, bidders, stash owners, agents,
permissionless keepers and the contract owner, and the clock.

Around the contracts run short-lived Node programs without any state of their
own but a database row: cron jobs that copy event logs into tables, a job that
computes a rebate epoch, and the command-line scripts people trade with. They
see the ledger through a mirror node, which lags behind it, and between any two
of their steps the ledger, or another copy of the same program, moves on; they
can be killed, their requests can fail, and their answers can be lost.

| Component (source) | State | Operations | Talks to |
|---|---|---|---|
| **Auction house** `EnglishAuction.sol` | auction records by (seller, nonce), two pull queues, accrued fees, tunables, pause flag, factory pointer with a 48 h timelock | create, cancel, bid, buy-now, settle, deliver, claim, fee withdrawal, setters, factory rotation | HTS (escrow of NFTs and fungibles), the factory (who owns a stash), LSHTierLib (fee tier), wallets (pushes that may fail) |
| **NFT mover** `TokenStakerV2.sol` | none of its own | `moveNFTs`: one tinybar against a serial, paid by whoever receives it | HTS |
| **Bid book and stash factory** `BidderContractFactory.sol` | a registry of bids and two discovery arrays (by token, by user) with an index each, stash-to-owner map, arbitrage profits, timelocked settings | create / cancel / prune / clean up / execute bids, arbitrage, profit withdrawal | stashes, secure trade |
| **Stash** `BidderContract.sol` | balances, token associations, spender permissions | deposits, withdrawals with a one-HBAR floor, bid settlement, arbitrage settlement, detachment | factory, auction house, secure trade |
| **Agent envelopes** `AgentEnvelopeLib.sol` | per-agent amount, counter and daily window | verify-and-consume | stash, factory |
| **Secure trade** `LazySecureTrade.sol` | one trade per serial, batches, an index of a serial's batch, authorised factories, fees | create, cancel, execute, batch, cleanup, factory authorisation (48 h), fee withdrawal | stash, factory, gas station |
| **Rebate pool** `LazyRebatePool.sol`, with `computeRebateEpoch.js` | epochs with a Merkle root, allocated and claimed totals, one outstanding total, the claim window | settle an epoch, claim, recycle an expired epoch, window, signer, rescue | `$LAZY`; the ops script that computes an epoch |
| **Delegate registry** `LazyDelegateRegistry.sol` | wallet and serial delegations with reverse indexes | delegate, revoke, re-delegate | tier library |
| **VIP subscription** `VIPSubscription.sol` | tier and expiry per account, consumed references, locked serials | purchase, grant, extend, upgrade | gas station |
| **Gas station** `LazyGasStation.sol` | three role sets | refill, pay out and draw `$LAZY` with a burn share | all of the above |
| **Tier library** `LSHTierLib.sol`, **rebate weights** `LSHRebateMultipliers.sol` | none | pure lookups | registry, staking |
| **Event scanners** `secureTradeEventScanner.js`, `bidderFactoryEventScanner.js`, `getLiveTradesFromEvents.js` | a cursor and rows in Directus tables; in memory, what the running scan has read | read a log from the cursor, upload rows, mark bids and trades, save the cursor | mirror node, database |
| **Rebate epoch** `computeRebateEpoch.js` | memory of one run | staking history, filter, units, allocation, Merkle tree | mirror node; the pool verifies its proofs |
| **Trade scripts** `scripts/interactions/*.js` | memory of one run | read, ask, set allowances, submit one call | mirror node, secure trade, gas station, bid book |
| **Deployment scripts** `deployLazySecureTrade.js`, `deployLazyGasStation.js`, `deployBidderContractFactory.js`, `configureLST-LGS.js`, `libraryLinking.js` | `.env`, which the operator edits; memory of one run | make contracts in order, reuse what `.env` has, link libraries, admit the trade contract to the gas station | ledger, the operator |
| **Factory multisig scripts** `setupFactoryMultisig.js`, `multisigFactoryOps.js` | `.env`; memory of one run | create a threshold account, hand the factory over, propose and apply payouts, withdraw profit, transfer ownership | ledger, the coordinator's package, the bid book's owner functions |
| **Ledger and mirror helpers** `hederaHelpers.js`, `hederaMirrorHelpers.js`, `solidityHelpers.js` | none | lists split into transactions; pages of answers put together; event decoding | ledger, mirror node |

What is hard here: one commingled balance per rail behind escrow, bids,
refunds and fees; pushes that fail in the middle of a settlement; extension,
expiry and timelock boundaries; ownership that is resolved through a factory
which can be rotated; records that outlive their settlement; bid indexes that
are repaired by swap-and-pop; stash funds promised to several bids; daily
budgets that reset at midnight. Off the chain: a crash between writing rows and
saving a cursor, a failed request that is only printed, two cron processes over
one cursor, a transaction out of several that is refused, and a check that is
stale when the call it was made for arrives.
`PROJECT.json` lists each hazard at its line with the properties that cover it.

What makes each component correct:

* auction house: escrow matches the live records, the books balance on both
  rails, nobody pays more than a sale they won, every auction ends and every
  bundle and refund leaves;
* bid book: both arrays list exactly the active bids, a bid is executed at
  most once and takes what it bids, profits withdrawn were earned;
* stash: what it pays was promised by its owner and is never below its floor;
* envelopes: no sequence of trades spends more than a window allows;
* secure trade: the indexes list exactly the live listings, a listing executes
  at most once and as listed, sellers are paid by buyers and keep their share,
  and no grant of trust is instant after the first;
* rebate pool: the books agree with what claimants hold, and the balance
  covers what unexpired epochs still owe;
* event scanners: every row was announced and is closed only by what was said
  later, a saved cursor skips nothing, and what was announced does get stored;
* rebate epoch: units follow the time staked, and every allocation has a leaf
  whose proof the pool accepts;
* trade scripts: nobody pays more than was confirmed or stood allowed, and a
  call whose checks still hold is accepted;
* helpers: what they tell their callers is what the ledger did or the mirror
  showed;
* deployment: whatever runs stop half-way, contracts that were told of each other
  were told the same token, creator and gas station;
* multisig: one run of an operation has one effect;
* registry: the forward and reverse indexes agree;
* timelocks: a rotation is announced 48 hours before it applies.

## 2. Modules

| Module | What it is |
|---|---|
| `Sums` | sums of integers as recursive functions (no RECURSIVE operator, so that modules using it can be proved about) |
| `AuctionLedger` | the money of the auction house: balance, wallets, pull queues and accrued fees per rail, as operators from a ledger to a ledger |
| `EnglishAuction` | the state machine of `EnglishAuction.sol`: one action per entry point |
| `EnglishAuctionProperties` | its type invariant, safety invariants, action properties, liveness, and the statements of two comments |
| `EnglishAuctionProofs` | the lifecycle and custody theorems, those about money, and their lemmas |
| `MCEnglishAuction` | concrete accounts, serials, listings and ledgers for TLC |
| `RebatePool` | the state machine of `LazyRebatePool.sol` and its properties |
| `SumsProofs` | facts about sums (type, update of one term, bounds, monotonicity, addition) and the two forms of induction that the other proofs share |
| `RebatePoolProofs` | the rebate pool's inductive invariant and theorems |
| `MCRebatePool` | claimants and staking units for TLC |
| `TradeAuthority` | the two timelocked delegations of trust in `LazySecureTrade.sol`: authorized factories and the resolver of stashes, with their properties |
| `SecureTrade` | the state machine of `LazySecureTrade.sol`, which extends `TradeAuthority` with listings, batches, executions, fees and the world around them |
| `SecureTradeProperties` | its type invariant, safety invariants, one action property, the inductive invariant of listings, and the statement of a document |
| `SecureTradeProofs` | notice windows, listings and indexes, sales, the seller's share, and the contract's money |
| `MCSecureTrade` | wallets, a stash, NFTs, prices and fee schedules for TLC |
| `OrderBook` | the abstract specification of a bid book: offers are posted, withdrawn, or filled before they lapse for what they offer, and nothing else takes a bidder's money |
| `BidBook` | the state machine of `BidderContractFactory.sol` with the stashes, the agents and the scripts that manage stashes, and its properties |
| `BidBookProofs` | the arrays and indexes, backed profits, agents' budgets, and that `BidBook` implements `OrderBook` |
| `MCBidBook` | two stashes, an agent and a trader for TLC |
| `TradeScanner` | `secureTradeEventScanner.js` over the trade log, and the live view of `getLiveTradesFromEvents.js` |
| `BidScanner` | `bidderFactoryEventScanner.js`: processes that scan one log with one cursor |
| `EventScanners` | the two scanners together, and what both their tables must say |
| `ScannerProofs` | cursors never pass what is not in the tables, rows tell the chain, the live view is exact |
| `RebateEpoch` | the phases of `computeRebateEpoch.js` and its Merkle tree |
| `RebateEpochProofs` | units are the time staked, and every leaf of a tree is proved |
| `MCEventScanners` | the three jobs that read logs, on small logs, one per behaviour |
| `LedgerHelpers` | the helpers of `hederaHelpers.js` that submit a list in several transactions, and the fee they offer |
| `MirrorReads` | the readers of `hederaMirrorHelpers.js` and `solidityHelpers.js`: pages, failed requests, decoded events |
| `HelperCalls` | a call of any of them, given by a list and what the network makes of it |
| `TradeScripts` | the trade scripts, step by step, with the contract reduced to whether it accepts a call |
| `Deployment` | the runs that put the contracts on the network, step by step, with the operator's `.env` between them |
| `FactoryMultisig` | the hand-over of the bid factory to a threshold account and the operations signed for it |
| `DelegateRegistry` | the state machine of `LazyDelegateRegistry.sol`: delegations of wallets and of serials, their indexes, and sales it is not told of |
| `ScriptsProofs` | that contracts of different runs agree, only an effect nobody heard of is repeated, the registry's lists are exact, nobody pays more than he confirmed, and helpers tell what the ledger did and holds |
| `MCTradeScripts` | a seller, a buyer, lists of lengths around the batch limits, an empty and a grown `.env`, two signers, and owners who delegate, for TLC |

`EnglishAuction` extends `AuctionLedger`, which extends `Sums`, as `RebatePool`,
`SecureTrade`, `BidBook` and `RebateEpoch` do; `TradeScripts` extends
`MirrorReads`. `BidBook` instantiates `OrderBook` with its refinement mapping.

### How the auction model follows the contract

* An auction id is `<<seller, nonce>>`. The contract hashes the pair; the hash
  is taken to be injective. `AuctionStorage` is split into `terms` (the fields
  fixed at creation) and `state`, `closeAt`, `highBid`, `highBidder`.
  `delete auctions[id]` is `DeleteRecord`, which blanks all of them; state
  `None` covers both "never created" and "deleted", as it does in storage.
* A reverted transaction is an action that is not enabled. That includes the
  release of a bundle to a claimant that is not associated with its tokens or
  has granted no allowance for the custody hop: the claimant simply tries
  later.
* `_payOrQueue` is the only call whose failure the code absorbs. Which pushes
  fail is chosen per settlement from `MayRefuse[rail]` (a contract without
  `receive`, an account not associated with `$LAZY`); a push larger than the
  balance fails as well.
* A bundle is a sequence of serials and an amount of fungibles. The fungible is
  `$LAZY`, because that is the one that shares a balance with bids and refunds.
  Token association and the fee check on fungible items can only revert.
* Royalties are the schedule HTS reports, converted to basis points, capped at
  100 % each, once per collection. The `$LAZY` and HBAR amounts of the model
  are in the hundreds and thousands, so the divisions round as in the code; the
  casts to `uint96` cannot truncate below the supply of either token.
* The factory is what `EnglishAuction` reads of it: `stashOwnerOf`, with the
  caller itself when it is no stash or the call fails.
* The owner's setters take their arguments from small sets; `transferOwnership`
  is not modelled because nothing else depends on who the owner is.
* Wallets and `ledger.float` are bookkeeping of the model. The float is the
  part of the balance that belongs to nobody: the HBAR that the deploy script
  sends for custody hops (`deployEnglishAuction.js:105`) and donations.

### How the rebate model follows the contract

* An epoch's fields `merkleRoot`, `totalAllocated`, `totalClaimed` and
  `settledAt` are one function each. A Merkle root is the function from
  claimants to amounts that it commits to, 0 where there is no leaf; a proof
  verifies exactly for a leaf. The root of no leaves is `bytes32(0)`, as the
  script submits it, and such an epoch counts as not settled.
* `SettleEpoch` takes what `computeRebateEpoch.js` computes: shares in
  proportion to the staking units, rounded down, and their sum. The signer is
  taken to submit what the script computed; a signer that publishes a total
  that is not the sum of its leaves is outside the model.
* Solidity's checked subtractions are guards (`Unreserved`, `CoversClaim`,
  `CanRecycle`): where one would go below zero the call reverts. The early
  return of `recycleExpiredEpoch` changes nothing and is no action.
* `wallet` is what HTS says a claimant has drawn. `rescued` and `lengthened`
  are bookkeeping of the model: what the owner has rescued, and whether it has
  ever made the claim window longer.

### How the trade model follows the contract

* A single listing is keyed by its NFT: the contract's key is the hash of token
  and serial, taken to be injective. A batch's key is the nonce it consumed; the
  hash adds the seller and the timestamp to the same nonce, which is unique.
  `delete` of a mapping entry is `NoTrade` or `NoBatch`.
* A list of identifiers without repetition is a set of NFTs; `CancelTrades` and
  `ExecuteTrades` stand for the single calls too, which do the same to one
  element (the earlier test of `msg.value` in `executeTrade` is the one
  `_refundExcessHbar` repeats). A list of new listings keeps its order, because
  the same NFT may occur twice and the last entry wins.
* `Settle` is everything an execution does: the two hops of each NFT, the price
  less the fee to the seller but at least one tinybar, one tinybar back from the
  buyer for the custody hop, the `$LAZY` leg, the refund, and the gas station's
  50 tinybar when the contract is down to fewer than 20. Each item lowers the
  contract's HBAR or leaves it as it was, so it is lowest before the last hop;
  and after a top-up the items for nothing, at most 22, cannot use 50, so there
  is one top-up in a call.
* NFTs stay with their sellers, so the world around the contract matters:
  owners approve and revoke, one by one or for a whole collection, and transfer
  their NFTs at any time, and a transfer clears the serial's approval. The
  HBAR and `$LAZY` allowances that only make a call revert are taken to be
  given.
* LSH tiers and the fee schedule change at any time; fees are computed from
  what they are at execution, as in the code.
* `receipts`, `topUps`, `withdrawn`, `announced` and `proposed` are bookkeeping
  of the model: sales by NFT (`TradeCompleted`, `BatchTradeExecuted`), HBAR given
  to the contract, HBAR taken out, and the announcements that still stand.
* Left out: `retrieveLazy`, the same NFT twice in one batch, and repeated
  identifiers in one call of `executeTrades` or `cancelTrades`.

### How the bid book follows the contracts

* A bid's id is the counter of bids instead of its hash; `MaxBids` bounds it. The
  registry, the two arrays and the two indexes are those of the contract,
  with positions counted from 0 and the index of a removed bid reset to 0, the
  position of the first bid, as `delete` leaves it. `CloseBid` is
  `_closeBid`; the six ways to close a bid all use it.
* `ValidForExecution` is `_validateBidForExecution`. The sweep of an expired bid
  inside it is undone by the revert that follows, so that an execution of an
  expired bid is no action. `cleanupExpiredBids` skips what is not expired and
  closes the rest one by one, so a call does what several calls with one bid do.
* What `LazySecureTrade` does when a stash buys is reduced to its outcome: an
  NFT for its price, all or nothing (`SecureTrade` models the steps).
  Platform fees, which come out of the seller's part, and the one-tinybar hops
  are left out.
* A stash is `none`, `attached` or `detached`, its balances are the owner's to
  move at any time, and detaching does not touch the book.
* `Consume` is `verifyAndConsume` for HBAR. One envelope per user is explored;
  the caps on `$LAZY` (the same code), expiry, the list of allowed actions,
  rotation and cancellation of an envelope are left out. An agent's actions that
  commit nothing new are left out where the owner has the same action.
* `taken` and `agentTook` are bookkeeping of the model: what executions have
  taken from a stash, and the part for bids that its agent placed.
* Each script for stashes (`deployStash.js`, `detachFromFactory.js`, the three
  rescues, `claimArbProfit.js`) is an action: the look it takes first and the
  one call it submits.

### How the event scanners follow their scripts

* A position in a log stands for a consensus timestamp. The cursor is the row
  `lastTimestamp`; `job` and `scan` are the memory of a process, lost when it
  ends, whether by an exception, a crash or `process.exit`.
* An entry is what distinguishes the scripts' branches: whether it has data,
  whether the scanner's interface decodes it, and what it announces. `wire`
  says which form of events the deployed factory emits: `agentFields`, those
  of this repository, or `plain`, those the scanner declares.
* The trade contract lists in two ways. `ChainList` is a listing that is announced
  (`createTrade`, `createTradeOnBehalf`); `ChainListUnannounced` is one item of
  `createMultipleTrades`, which takes a nonce and replaces an older listing, whose
  cancellation it logs, but logs nothing of the new one. A batch trade takes its
  nonce from the same counter. The items of one `createMultipleTrades` are steps of
  their own: the mirror may show them to the scanner a page at a time.
* The scanner's map is keyed by the NFT and compares no nonces. A completion or
  cancellation therefore closes the listing of that NFT which was announced last,
  although a silent one may have taken its place: create a trade, list the same NFT
  by `createMultipleTrades`, sell it, and a scan that reads all three entries stores
  the first listing as cancelled *and* completed. `TablesTellTheChain` does not deny
  this. It says what remains true: a row is a listing that was announced; a mark on
  it comes from an entry after its announcement and before any later announcement of
  the NFT, with its own nonce or a higher one (`ToldClosed`); and a listing whose row
  is marked is open no more. `LiveViewIsExact` is about announced trades for the
  same reason. That the silent listing exists at all contradicts a document
  (section 5).
* Every request that can fail does so on a branch of its action, bounded by
  `MaxTradeFaults` and `MaxBidFaults`. What the code does then differs by call:
  it exits, or prints the error and goes on. `swallowed` and `lossless` are
  bookkeeping of the model that say whether a write was lost in that way.
* `markTradeAsCompletedOrCancelledInDb` is called without `await` and always
  throws (section 5); `MarkRejects` ends the process at whichever step the
  rejection arrives, and never does where the process ends first.
* Addresses are resolved to account ids by requests that are retried until they
  succeed; formatting and the columns that only repeat the event are left out.

### How the rebate epoch follows its script

* The staking contract is external: one holder per NFT at a time. `stakedFor`
  counts, second by second, the time inside the window; it is the reference
  that the script's reconstruction from the log is compared with.
* `Weighted` is kept in weighted seconds and divided once; the script adds
  quotients in floating point and takes the floor, so an exact integer may come
  out one too low (`Snapped`).
* Hashing is symbolic: `HashPair` sorts its arguments, so a pair is the set of
  its halves. Collisions are outside the model.

### How the trade scripts follow theirs

* Each read that a later step relies on, each approval and the final call is an
  action. A read is of the ledger as it is at that action; as nothing forces the
  next action to follow soon, everything that can change in between does, which
  includes what a lagging mirror node would miss.
* The contract is reduced to `AcceptsListing`, `AcceptsPurchase` and `MayCancel`
  with their effects. Fees, the tinybar hops and the contract's balance are in
  `SecureTrade`.
* `sound` says, of a buyer's run, that nobody else has changed the ledger since
  its first read and that no other token's allowance was taken for `$LAZY`
  (`checkMirrorAllowance` does not look at the token); `standing` is what the
  gas station could draw before the run. Both are bookkeeping of the model.
* `Submit` has the outcomes accepted, refused, and accepted with the answer
  lost. `Abort` is a question answered with no, an exception or Ctrl-C.
* Nine scripts end with an exception before their first transaction (section 5)
  and are modelled as that.

### How the helpers follow theirs

* A helper that submits in several transactions is a function of what becomes of
  them: which the network has *applied*, for which `execute` returned (*reached*), and
  for which `getReceipt` did (*heard*). The three sets are unrelated, so a transaction
  may be applied although its caller sees an exception. It returns what has been
  applied and what it answers. Which helper catches what `getReceipt` throws, and what
  it then returns, is translated for each; none catches what `execute` throws.
* Consequently an applied batch whose answer is lost is reported as `FAILED`, or
  thrown, and a caller cannot tell it from one that was refused. `HelpersNeverMislead`
  says how far the answers can be trusted: SUCCESS means that everything was
  applied, anything else that a prefix was, and, only when no answer to an
  applied transaction was lost, that the prefix is not the whole.
* `mintNFT` creates the token by a transaction of its own, item 0 of what it does.
* A reader of the mirror node is a function of the list the node holds and of
  whether, or at which page, a request fails. `MirrorPage` is the node's page.
* `MaxTxFee` keeps the SDK's behaviour that the script works around: the low 32
  bits of a fee are taken as a signed number.

### How the deployment and multisig models follow their scripts

* A contract is its kind and the contracts its constructor, or the linker, was
  given; its number is its id. `Steps` and `Uses` are the order and the
  constructor arguments in the scripts; `Needs` what a script refuses to start
  without.
* `Deploy` is `contractDeployFunction`, or `mintLazy` for the token: it makes the
  contract and the run hears of it, or does not and ends. A declined prompt, an
  exception and Ctrl-C are `EndScript`, which is possible at every step.
* The operator copies every id that a run printed into `.env` and deletes none;
  `.env` starts empty, or with the token and its creator, which are older
  than these contracts. The tokens of the Lazy Superheroes are present.
* A script without a registry gives the constructor a placeholder; the model
  gives it nothing. Verification on Sourcify is left out.
* A threshold account is its keys and its threshold. The coordinator is external:
  it executes and says so, executes and throws, or throws. Signing by hand is
  a transaction of its own whatever the coordinator has done.
* The factory is reduced to its owner, its profit and its proposed payout, with
  operations on amounts of one; `BidBook` has the rest.

### How the delegate registry follows its contract

* `registry` is the contract's storage for serials under its own names. As in the
  contract, the serials a wallet delegates and those delegated to it stand in one
  list, under the hash of wallet and token.
* `delegateNFTs` and `revokeDelegateNFTs` take a sequence of lists, each a token and
  its serials, in a single transaction that takes effect for all of them or none;
  with one list they are `delegateNFT` and `revokeDelegateNFT`. Lists may be empty or
  hold a serial twice, and the delegate may be nobody, the owner himself, or the one
  the serial has.
* `ChangesHands` is a sale: `ownerOf` changes and the registry does not. The fields
  `last`, `renewed` and `zeroed` are history and have no counterpart in the code.
* `total` may go below nothing in the model, where the contract's checked subtraction
  would revert; `ListsAgree` says that it does not.

Definitions introduced as "Mutant of X" are X with a bug somebody could plausibly write.
They are used by nothing else; each shows that a property notices that bug.

## 3. Runs

Bounds are CONSTANTS of the model: `MaxNonce` auctions per seller, the last
creation time `LastListing`, the last time `MaxTime`, and `MaxFloat`; for the
rebate pool `MaxEpochs`, `MaxFunding` and `MaxTime`; for the trades `MaxNonce`
listings, `MaxTopUps` of gifts and `MaxTime`; for the bid book `MaxBids`,
`MaxHbar`, `MaxLazy` and `MaxTime`; for the scanners the lengths of the logs,
the faults, `MaxTradeNonce`, `MaxUnannounced` (nonces of
which the trade log says nothing: silent listings and batch trades) and `MaxClock`; for the scripts `MaxContracts` ever made and
`MaxAccounts` with a threshold key, and for the registry `MaxDelegated`.

| Run | Instance | Question |
|---|---|---|
| `EA_core` | alice's painting for HBAR (reserve, buy-now, sniping), bob's sculpture with 500 `$LAZY` for `$LAZY` (royalties above 100 %, buy-now below start price); carol may refuse HBAR; 81 014 states | do the books stay exact whatever the order of bids, settlements, refused pushes, deliveries, claims and withdrawals? |
| `EA_owner` | the auction of alice's stash `vault`, relisted by bob if he wins; two factories, one of which does not know the stash; fee, bounty and default setters; 1 346 670 states | do custody, standing bids and the fee cap survive factory rotation and setters between the steps of an auction? |
| `EA_live` | one auction, pausing and unpausing, carol refusing pushes, shorter limits, donations, withdrawals, repeated snipes; 64 696 states | does bidding only ratchet up to its cap, does every auction end, every bundle leave and every refund get paid? |
| `RP_pool` | two claimants with equal, unequal or no units, three epochs, funding up to 8, a window of 1 or 2, rescues of 3, the signer disabled and restored; 973 656 states | do the books agree whatever is claimed, recycled, revived and rescued, and is what claimable epochs owe reserved while the window is not lengthened? |
| `RP_doc_strand` | the same without rescues | a comment compared with the code (section 5) |
| `ST_market` | two people; an ordinary NFT approved by operator and one of the house's collections approved by serial; three listings, single, in lists (both NFTs, or the same twice) or in a batch, open or for bob, with and without expiry; msg.value of 0 or 2000; 1 488 128 states | do indexes, nonces, fees and what is sold stay exact while the NFTs move outside the contract? |
| `ST_owner` | ann's stash with one NFT, a factory to grant and revoke and to resolve with, a timelock of 1; fee schedules above, at and within the limits, a listing cost of 0, a burn of 101 %, a change of tier, gifts and withdrawals; 3 326 064 states | is every grant of trust after the first announced for a full timelock, and does everybody keep his share whatever the owner does? |
| `ST_doc_self` | as `ST_market` | a sentence of SECURITY.md compared with the code (section 5) |
| `BB_book` | two stashes, a bid for any serial without expiry and one for a serial with expiry, three bids in all, an agent with a limit of 3 a day and 2 an action, an arbitrageur, two days; 619 128 states | do arrays and indexes agree, are profits held and budgets kept, and do bidders see an order book that takes nothing else from them? |
| `SC_scan` | a trade log of 4, a bid log of 3 with both forms of events and two processes, a staking log of 3 in 4 seconds, one fault each, one listing that is not announced; 1 316 871 states | are rows what the chain announced, closed only by what it said later, does a cursor skip nothing, does every bid get stored, do units follow stake time, does every leaf prove? |
| `SC_doc_bids` | a bid log of 2 from the factory of this repository, no faults | a document compared with the code (section 5) |
| `TS_scripts` | a seller and a buyer, one NFT, prices with and without `$LAZY`, a changing listing cost; lists of 1 to 21 items; three pages; ten contracts; two signers, two threshold accounts and a profit of 2; two owners and a third wallet with two serials of one collection; 2 464 880 states | does anybody pay more than was confirmed or stood allowed, do checks that still hold suffice, do helpers and readers tell the truth, do contracts of different runs agree, is an operation repeated that was heard of, and does a delegated NFT obey its owner's delegate only, with lists that agree? |

Why the bounds are enough: two auctions with different rails, tiers, royalty
schedules and sellers make every pair of obligations meet in the shared
balances; times 1 to 3 or 4 with a duration of 1 and a cap of 2 let an auction
be sniped to its cap, close and be settled while the other is still open; bid
amounts below, at and above reserve and buy-now reach every branch of
`_placeBid` and `_settleInternal`. Three epochs on funds for two let one epoch
expire and be recycled while a second is being claimed and a third is settled
from what was freed; five instants with windows of 1 and 2 let a recycled epoch
become claimable again and expire again. Three listings of two NFTs let an NFT be
listed, replaced and listed again, or be in two batches and a listing at once;
two instants with an expiry at the first let a listing expire. In `ST_owner`
three instants and a timelock of 1 let a grant be announced, announced again or
revoked before its deadline, and fall due.

Three bids of two users on one token let a bid that is first, last or between
others be closed in every way, in both arrays; funds for two bids let a bid
lose its funding to another; two days and a limit that is not a multiple of a
bid let a budget be exhausted, reset and exhausted again. `BB_book` explores what
`Explored` of `MCBidBook` describes: states outside it are checked but not
continued, which leaves the agent and the arbitrageur in separate parts of the
state space; the theorems of section 4 have no such restriction. In `SC_scan`
every behaviour has traffic on one contract and runs one of the jobs, which share
no state; the second process of the bid scanner is limited to a log of
`MaxOverlapLog` entries, long enough for it to reread the cursor the first is about
to overwrite (the theorem on `NothingIsSkipped` has any number of both). A log
of 4 with a page of 3 lets a trade be listed, relisted, with or without a word, and
closed and the live view end its page; three nonces of which one is taken silently let
a silent listing come before, between and after announced ones; three staking events let an NFT change hands inside a window
that a stay begins before and ends after. Trees of up to 7 leaves have every
shape of odd layers up to three levels. The lists that `TS_scripts`
hands to the helpers, in states of their own before anything else is done, end
just before, at and just after a full batch of 10 and of 20, with every set of
transactions applied, reached and heard of, and one more for the token that is minted; the logs and pages that it reads back are all those of
four events, and of up to three pages. The five sides of `TS_scripts` share no
state and each behaviour is of one of them. Ten contracts are enough for a full
deployment with every kind but the ones another run reuses, and for two trade
contracts and two gas stations with a factory; with a profit of 2 a withdrawal can
be paid twice. In the registry two serials that change hands between two owners,
delegated one by one or together, to the other owner, to a third or to nobody, let a
delegation outlive a sale, come back to life with the NFT, be replaced by the buyer,
and empty a list that another serial still needs. Everything there is kept per
collection, so one is enough.

The auction, rebate and bid book runs do not check for deadlock: at the last
time with everything collected the model has nothing left to do.

**Fairness.** `FairSpec` of the auction assumes weak fairness of the clock, of `settle` by
somebody (permissionless, pays a bounty), of delivery (permissionless) and of
each account's `claim`. Nothing is assumed of bidders, sellers or the owner,
who may pause for ever. `claim` is assumed to be able to succeed: an account
that refuses pushes for ever keeps its entry, which is its own loss.

`MCSpec` of `MCEventScanners` assumes weak fairness of each process of the bid
scanner, which cron starts again every two minutes, and of the mirror node
catching up. Nothing is assumed of the contracts' users, and a fault can strike
any step while the bound on faults allows it. `BidsGetStored` makes its two
exceptions explicit: a request whose failure the script swallows, and an event
it cannot decode, which stops it for ever.

## 4. Proofs

All safety and action properties of the passing runs are proved, for all values of
the constants that satisfy the named assumptions.

`EnglishAuctionProofs` proves (accounts are distinct, listings and inputs well
typed; the contract's address and `address(0)` are not accounts) that `Custody`,
`StandingBid` and `Claimant` are invariants and that every step satisfies
`BiddingRatchet` and `SerialsGoToTheClaimant`.

None of the three invariants is inductive alone. `Custody` needs `Records`:
a new auction's id is fresh because live ids have spent nonces, so creation
cannot overwrite a live record and orphan its serials. `Claimant` needs
`StandingBid`: a winner at settlement has a positive bid because an open
auction has a bidder exactly when it has a bid, which in turn needs the start
price to be positive (`Records`). `IInv` is their conjunction with the types of
the fields involved; TLC checks two of the three in `EA_owner`. The proof has one lemma per
kind of transaction: creation, a standing bid, a settlement, a release, and the
transactions that touch no record; the theorems combine them. The two action
properties follow from `IInv` and one lemma on what a step can do to a record.

Its second part is about money: `TypeOK` with the ledger's part, `Solvent`,
`FeeIsBounded` and `LosesOnlyByBuying`. It assumes in addition that the contract
starts with nothing owed and an HBAR float of one tinybar per serial there is
(`DeployAssumption`, what `deployEnglishAuction.js:105` pays for). `Solvent` says that
the balance covers what is owed even while hops are lent out, and does not carry
itself: a payout must be known to be covered before it is made, by a balance that
other auctions share. `MoneyInv` says instead that the books *balance*, as an
equation per rail between sums over all auctions; that one hop is lent for every
serial in custody, which needs that no bundle lists a serial twice; and that the
float covers every serial. Each ledger operation is shown to touch one account on
one rail, a settlement is a list of them (the royalty loop is a recursive function, and its
lemma is by induction over the list), and the sums over auctions move in one
term. `LosesOnlyByBuying` follows action by action from what an account owns, in
its wallet and in its queue, and its stakes.

`RebatePoolProofs` proves for any claimants, number of epochs, allocations,
windows and amounts that `Books`, `Reserved` and `ClaimsStayReserved` are
invariants, and that `NobodyIsStranded`, which `RP_doc_strand` refutes, does
hold as long as the window is not lengthened and nothing is rescued. The
inductive invariant `RebateInv` adds two facts. `Blank`: an epoch number not
yet used has empty books and no claim flags, so settling it adds exactly its
total to the sum over all epochs. `Intact`: while the window has not been
lengthened, a claimable epoch's `totalAllocated` is still the sum of its
leaves, because an epoch is only recycled after it expires and an expired epoch
stays expired; with `Books` this makes its unclaimed part equal to its undrawn
leaves, and the sum over epochs bounds each of them. `SumsProofs` supplies the
arithmetic: a sum is the last value of a recursive function, so each fact is an
induction on prefixes, carried out through a lemma about sets that contain 0
and successors (derived from the well-foundedness of the naturals).

`SecureTradeProofs` proves for any wallets, NFTs, factories, timelock, lists,
bundles, schedules and number of listings:

* `AuthorityInv`, and from it that every step satisfies `GrantsAreNoticed` and
  `RotationsAreNoticed`. A deadline alone does not show when it was announced;
  the invariant ties each one to the announcement that still stands.
* `ListingInv`, and from it `TradeIndexesAgree`, `BatchIndexesAgree` and
  `ListingsAreSpent`. The indexes are repaired from the fields of the old
  listing, so they are exact only if a blank listing has left nothing behind
  and a live one has the seller and buyer it is indexed under. Nonces are
  spent only if batches and listings draw on one counter and none is ahead of
  it. There is one lemma for removing a set of listings, one for listing, and one
  each for creating and closing a batch; cancelling in three ways and executing
  in two are instances of these. That a list's last entry wins needs a maximum,
  taken from the well-foundedness of the naturals.
* that every step satisfies `SoldAsListed`, from a lemma per kind of sale;
* `SellersKeepTheirShare`, from the limits on the fee schedule (`RatesOK`) and a
  bound on the quotient that is the fee;
* `FeesAreBacked` and `TradeTypeOK`. They are inductive only together
  (`WellFunded`): that the contract's HBAR never goes below zero is what makes
  a settlement payable, and that fees stay backed is why it does not. The lemma
  about a settlement adds up a sale over the set of NFTs sold: prices are net
  amounts and fees, the hops are as many as the NFTs, and the refund is what the
  buyer sent beyond that.

`ScannerProofs` is about both scanners. For the bid scanner it proves, for any bids, any
number of processes, any log and any number of crashes and failed requests, that
the types hold (`BidScannerTypes`) and that `NothingIsSkipped` does. It is not
inductive: the cursor is written from the memory of a process whose scan began
long ago, while others write too. `SkipInv` adds that every scan is *sound*:
everything below where it started is recorded, and what it has read since is in
its memory until it is uploaded, and in the tables from then on. A process that
could not read the cursor starts at 0 and may later move the cursor back; that
repeats entries but skips none, which is why soundness speaks of the scan's own
start and not of the cursor. `BidRowsInv` says of rows, and of what a scan holds
for them, that the factory's log said it.

For the trade scanner `TradeScanInv` has a part for each thing that exists at a
time. `ChainSound`: in the log announced nonces rise; what closes a trade has the
nonce of its NFT's last announced listing, or a higher one, of a silent listing
(`Covers`); and what the contract has open is what its log has opened and not closed
since, or was never announced (`OpenAt`). `ReadingSound`: the map of a scan holds,
once, the last announced listing of every NFT listed since the cursor, with marks that
the log bears out. `UploadSound`: what is about to be uploaded is newer than every
row, which is why the filter on the highest stored nonce drops nothing, although batch
trades and silent listings leave gaps in the nonces. `KeepsAll`, while no scan has
saved its cursor without its writes: every announced listing up to the cursor is a row,
is in the upload, or was replaced by a later one. From these follow
`TablesTellTheChain`, with `BidRowsInv`, and `LosslessScansKeepEveryTrade`. That a marked row is
not open needs both halves of `ChainSound`: its listing was closed, or replaced by the
silent one that was. `LiveViewIsExact` is an induction along the log over the map that
the view builds from it.

`RebateEpochProofs` proves for any stakers, NFTs, multipliers, minimum stay, pool and
window of positive length:

* `UnitsMatchStakeTime`. The script rebuilds a history of every NFT from the log, and
  the reference counts seconds while they pass, so neither says anything of the other
  step by step. `EpochInv` says that there is a list of histories, one for every
  beginning of the log, each the `Extend` of the one before; that the last tells
  exactly the seconds counted so far, whoever has the NFT now; and that the
  script's own history is the one at its position. Entries after the window, which the query leaves out,
  change no second in it, so what the script has when it stops reading is what the
  whole log tells, provided the window has passed. Filtering only takes away,
  weighting is monotone, and the floor of the quotient loses less than one; a
  rounding below an exact quotient loses one more.
* `EveryAllocationIsClaimable`. Rounding down keeps the sum of the shares within the
  pool. For the tree, `buildTree` yields layers each of which is `Up` of the one
  below, and stops at a root because a layer of more than one node shrinks.
  Along the path of a leaf, what the pool computes from the hashes collected so far
  is the node above the leaf in the layer reached; a node without a sibling moves
  up as it is and adds no hash. This holds for a list of leaves of any length and
  content, of which `SmallTreesProveEveryLeaf` is an instance.

`BidBookProofs` proves for any users, tokens, serials, bids and prices:

* `BookInv` (types, ids not used before are blank) and from it
  `BookIndexesAgree`. Swap-and-pop moves the last entry and then clears the index
  of the removed one; that both orders of the two writes are right when they
  are the same entry, and that the last entry belongs to the same token or user,
  rests on three lemmas about one array and its index: unchanged, appended to,
  removed from.
* `BidBookImplementsOrderBook`: the offers an observer reads from the arrays,
  what has been taken and the clock form an `OrderBook`. Every action is of
  one of four kinds, by what it does to the registry: it leaves the book, creates
  a bid, closes one, or fills one; each maps to an abstract step or a stutter.
  That a close removes exactly its offer needs `BookInv`, as the mapping is
  through the arrays and not the registry.
* `ProfitsAreBacked`, from types and the sum lemmas; the split of a spread adds
  up because the protocol's share is what the arbitrageur's leaves.
* `AgentKeepsToItsBudget`, from `BudgetInv`: what was taken for an agent's bids
  plus what its open bids still promise is at most the daily limit for each
  finished day since the grant plus what was consumed on the last one. Executing
  moves an amount from promised to taken; cancelling drops it and gives nothing
  back; a new day adds a limit.

`ScriptsProofs` is about what `TS_scripts` runs side by side.

* `DeploymentsAgree`, for any number of runs and contracts.
  It is not inductive, as a new contract is told what the *run* holds, part of
  which comes from `.env` and part from this run. `DeploymentInv` says that the ids of
  each of the two are *wired*: what one of them stands for was told exactly what the
  others stand for. Overlaying `.env` with what a run printed keeps this only
  because a run never holds another token, creator or gas station than the one
  `.env` offers (`SameAsEnv`), and because whatever is wired to something names it
  (`WiredNames`); `Reached` says how far a run has come, hence what is
  there when a constructor asks for it. One lemma per action.
* `RepeatsOnlyTheUnheard`, for any signers, thresholds, accounts and profits. The
  invariant ties `applied` and `unheard` to the point where the job is, and a second
  effect of `transferOwnership` to an account that still owns the factory after
  the first, which only a transfer to itself leaves.
* `RegistryAgrees`, for any wallets, collections, serials and lists of them.
  `RegistryInv` says of the storage (`Sound`) that a delegated serial is on the lists
  of both its sides and on no others, and that the total counts it, with the
  exceptions that the property makes: renewals, and delegations to nobody. A call works
  through its lists serial by serial, so the lemmas are about one serial, and a call is
  an induction over its list that keeps `Sound` and follows what stood last.
* `ChecksSuffice` and `SpendsWhatWasConfirmed`, for any accounts, prices, costs and
  balances. `ScriptsInv` says what each step of a running script has established:
  while nobody else has changed the ledger, what it has checked or set so far
  still stands (`Checked`), and the gas station may draw no more than the script
  confirmed or than it could before (`WithinStanding`).
* `HelpersNeverMislead`, for lists and logs of any length and any sizes of a batch and
  a page (`HelpersAssumption`: they are positive), of the specification `ProbeSpec` of one
  call, whatever is applied, reached and heard of. The batches of a list and the pages of
  an answer are both its `Parts`; their concatenation is a fold, so that the first `m` of them put together are the
  list up to where the `m`-th ends is an induction over the definition of the fold. The
  last batch ends where the list does by the bounds of a quotient that is rounded up, a
  list without items being the one case where batches and pages differ. What
  is applied ends before the first batch without a receipt or, when only its answer was
  lost, after it; so it is a prefix, a success is complete, and as no batch is empty a
  complete list without a success means a lost answer. A minted token and its serials are
  two lists one after the other. Fees are checked up to the 1000 HBAR of `FeesAreAccepted`.

The named assumptions are those of the modules: stashes have addresses of their
own that differ from the actors', the actors are listed once, amounts are naturals,
payouts are at most `MaxBps`, a day and a timelock are positive.

The lists, logs and trees of these modules are recursive functions with numbers as
arguments, so that what they compute can be proved by induction on the
naturals. An induction is stated of a set that holds 0 and successors
(`InductiveSet`), as the library's theorems take an operator that the installed
provers cannot instantiate; and a recursive definition is a `CHOOSE`, so each
proof first exhibits a function that satisfies the equation (`RecursionExists`).

Only model-checked:

* liveness (`OpenAuctionsEnd`, `SettledBundlesLeave`, `RefundsArePaid`,
  `BidsGetStored`): it rests on fairness and ENABLED, which are out of the
  prover's reach.

## 5. Disagreements between comments and code

* `SECURITY.md:178` says "Execution: Buyers only (sellers cannot execute their own
  trades)". `_executeTrade` enforces this for single listings, through the
  beneficial owner; `executeBatchTrade` does not, and a seller can execute his
  own open batch, which leaves a sale to himself in the volume and the events
  (`ST_doc_self`). `README.md:114` says that only the seller can cancel; the code
  lets the buyer too, which agrees with `SECURITY.md:179`.
* `LazyRebatePool.sol:270` says that allocating only against unreserved funds
  means that overlapping epochs cannot strand later claimers.
  `recycleExpiredEpoch` frees an epoch for good, but `claim` judges expiry by
  the window of the moment: after `setEpochClaimWindowSeconds` lengthens the
  window, the leaves of a recycled epoch can be drawn again, and a claimer of a
  later epoch finds `totalOutstanding` and the balance used up
  (`RP_doc_strand`; the theorem `NobodyIsStrandedUnlessLengthened` says that
  nothing else does this).
* `docs/DIRECTUS-MIGRATION-v0.3.md:51` says that the table caches the bids of
  `BidCreated` events. The scanner's interface (`bidderFactoryEventScanner.js:194`
  and following) lacks the agent's fields that `BidderContractFactory.sol:195` and
  the following events have, so their topics differ; `parseLog` answers null, reading
  its name throws, and the scan exits without saving its cursor, at every run
  (`SC_doc_bids`).

Found by reading; no run checks these on their own:

* `OFF_CHAIN_CACHING_STRATEGY.md:351` says that whenever a trade exists for an NFT and
  a new one is created, the contract always emits `TradeCancelled` followed by
  `TradeCreated`. `createMultipleTrades` (line 690) lists through
  `_validateAndCreateTrade`, which emits the cancellation (line 1980); only
  `_createTradeInternal` emits `TradeCreated` (line 462). A cache built from the log
  loses the NFT although it is for sale. `ChainListUnannounced` does this, and
  `TablesTellTheChain` and `LiveViewIsExact` say what is left (section 2).
* `EnglishAuction.sol:190` says that the VIP tier counts towards the fee
  discount once `vipSubscription` is set. Nothing reads that variable.
* `EnglishAuction.sol:714` says that the contract funds the custody hop of a
  delivery, so the claimant needs no allowance. `_releaseBundle` debits the
  claimant, as its own comment explains.
* `secureTradeEventScanner.js:344` takes `.data` of an answer that is a plain
  array, so a completion or cancellation of a trade of an earlier scan, which the
  comment at 231-232 says is marked in the database, never is, and the
  rejection ends the process. The model does this; `TablesTellTheChain` holds
  because a row that is not marked claims nothing. A completion that follows a silent
  relisting in the same scan is written on the row of the wrong listing (section 2).
* `scripts/interactions/README.md:106,131,168,205` describe scripts that always
  throw: `executeTrades.js`, `createMultipleTrades.js`, `createBatchTrade.js`,
  `executeBatchTrade.js` and `cancelBatchTrade.js`, and the four bid scripts,
  which omit the agent's arguments.
* `createTrade.js:167` asks for a positive price exactly when a buyer is named,
  where a gift is allowed, and lets a price of nothing pass when none is.
* `checkMirrorAllowance` does not look at the token of an allowance, so another
  token's can be taken for `$LAZY`; `getDecodedEventsFromMirror` returns no
  event at all when one of them is unknown.
* `multisigFactoryOps.js:212` falls back to signing by hand after whatever the
  coordinator throws, with a new transaction id; a withdrawal that took effect
  without the answer arriving is then paid again. `RepeatsOnlyTheUnheard` says that
  this is the only case.
* `deployLazySecureTrade.js` takes an existing gas station whether or not `.env`
  has the token it was told: an `.env` with a station but without the token and
  its creator leads to a trade contract on another token than its station's. The
  model's `.env` never loses an id, so that this is outside its initial states.
* `LSHTierLib.sol:67` says that the highest tier the user qualifies for is returned;
  an NFT he holds wins over a better one delegated to him.
* `LazyDelegateRegistry.sol`: delegating a serial again to the delegate it has drops the
  collection from the delegate's list when it was his only one (line 245), so that
  `getSerialsDelegatedTo` answers nothing and the tier library loses the tier. A delegation
  to nobody is never taken off `totalSerialsDelegated`, and may stay in the seller's list
  after a sale. `RegistryAgrees` makes exactly these exceptions. `delegateWalletTo`
  leaves the wallet in the list of the delegate it had before; `getSerialsDelegatedTo` also
  counts serials the wallet has itself delegated, and delegations whose owner has sold.
  `getSerialsDelegatedToRange` fails for every offset but 0 (line 530 writes past the
  end of its result).
* `LazySecureTrade.sol:1517`: after a timelocked rotation to no resolver the next `setBcf`
  is an initial wiring again, and instant. `RotationsAreNoticed` is about rotations
  away from a resolver.
* `README.md:205` and `docs/v0.3-integration-guide.md:263` say that an expired bid
  is marked when somebody tries to execute it. The mark is undone by the revert
  that follows.

## 6. Not modelled, and the plan

Not modelled: views, most events, token association, gas limits and the
50-subcall ceiling, vendored HTS wrappers, token creation and test doubles;
the deployment scripts of the auction house, the rebate pool and the VIP
subscription, and the scripts that submit one configuration call and keep nothing;
read-only scripts; the SDK's typed wrappers; `VIPSubscription`, the roles of `LazyGasStation`, and the lookups of `LSHTierLib`
and `LSHRebateMultipliers`, which the models take as inputs. Of components that
are modelled in part, `PROJECT.json` names what is left out: in the bid book the
timelocked changes of the trade contract's address and of the agents' tier
limits; of envelopes the caps on `$LAZY`, expiry, allowed actions, rotation and
cancellation; of a stash its associations, spender permissions and own listings;
of the helpers account creation, address formatting and transaction parsing.

Order of the work ahead:

1. an abstract specification of what an auction promises, and `EnglishAuction`
   shown to implement it, step by step, from `IInv` and `MoneyInv`;
2. a timelock specification that the 48-hour rotations implement, with
   `TradeAuthority`, the auction house's resolver and the bid book's payout as its
   first instances;
3. for the trades, the left-out repetitions;
4. `VIPSubscription`, `GasStation`.
