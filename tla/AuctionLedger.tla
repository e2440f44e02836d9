--------------------------- MODULE AuctionLedger ---------------------------
(***************************************************************************)
(* The money of EnglishAuction.sol: what the contract holds on each rail,  *)
(* what it owes through its two pull queues, what it has kept as fees, and *)
(* the wallets of the accounts that deal with it.                          *)
(*                                                                         *)
(* Each operator takes a ledger and returns the ledger one transfer or one *)
(* queue entry later, so that the payment loop of a settlement is a fold   *)
(* of these operators in the order the code makes its calls.               *)
(***************************************************************************)
EXTENDS Sums

CONSTANTS
    AccountSeq,     \* every account that deals with the auction house, in
                    \* some order (sums over accounts run along it)
    MayRefuse       \* MayRefuse[r]: the accounts a push on rail r can fail
                    \* for (a contract that rejects HBAR, an account not
                    \* associated with $LAZY)

Rails == {"HBAR", "LAZY"}

Accounts == {AccountSeq[k] : k \in 1..Len(AccountSeq)}

ASSUME AccountsAssumption ==
    /\ AccountSeq \in Seq(Accounts)
    /\ AccountSeq # <<>>
    /\ \A i, j \in 1..Len(AccountSeq) : AccountSeq[i] = AccountSeq[j] => i = j
    /\ MayRefuse \in [Rails -> SUBSET Accounts]

(***************************************************************************)
(* held       the contract's own balance                                   *)
(* wallet     the accounts' balances                                       *)
(* claimable  claimableHbar and claimableLazy                              *)
(* accrued    protocolFeesAccrued                                          *)
(* float      bookkeeping only: the part of held that is nobody's, the     *)
(*            deploy-time HBAR float and donations through receive()       *)
(***************************************************************************)
Ledger == [held      : [Rails -> Nat],
           wallet    : [Rails -> [Accounts -> Nat]],
           claimable : [Rails -> [Accounts -> Nat]],
           accrued   : [Rails -> Nat],
           float     : [Rails -> Nat]]

\* msg.value or transferFrom: the account pays the contract.
PayIn(L, r, x, amount) ==
    [L EXCEPT !.held[r] = @ + amount, !.wallet[r][x] = @ - amount]

\* A push that succeeded: the contract pays the account.
PayOut(L, r, x, amount) ==
    [L EXCEPT !.held[r] = @ - amount, !.wallet[r][x] = @ + amount]

\* _queueRefund
QueueRefund(L, r, x, amount) == [L EXCEPT !.claimable[r][x] = @ + amount]

\* _payOrQueue: a push fails when the payee refuses it or the balance is short.
PayOrQueue(L, r, x, amount, refusing) ==
    IF x \in refusing \/ L.held[r] < amount
    THEN QueueRefund(L, r, x, amount)
    ELSE PayOut(L, r, x, amount)

\* protocolFeesAccrued[payment] += fee
AccrueFee(L, r, fee) == [L EXCEPT !.accrued[r] = @ + fee]

\* claim: the whole queue entry is paid out and zeroed.
PullClaim(L, r, x) ==
    [PayOut(L, r, x, L.claimable[r][x]) EXCEPT !.claimable[r][x] = 0]

\* What the contract owes through its pull queues on rail r.
Queued(L, r) == SumOver(L.claimable[r], AccountSeq)
=============================================================================
