---------------------------- MODULE LedgerHelpers ----------------------------
(***************************************************************************)
(* The helpers of utils/hederaHelpers.js that split a list of any length    *)
(* into transactions of bounded size and submit them one after the other.   *)
(*                                                                         *)
(* A submission is given by `net`, what becomes of its transactions by      *)
(* number: the set of those the ledger has applied, of those whose execute  *)
(* returned, and of those whose receipt arrived.  The three are unrelated:  *)
(* a transaction may be applied although execute or getReceipt threw.       *)
(* Every helper returns what the ledger has applied and what it tells its   *)
(* caller: "SUCCESS", "FAILED" for any other answer, or "thrown".           *)
(***************************************************************************)
EXTENDS Integers, SequencesExt

CONSTANTS
    TransferBatch,     \* 10 NFTs in one transfer
    AllowanceBatch     \* 20 allowances in one approval

Answers == {"SUCCESS", "FAILED", "thrown"}

\* Mutant of Batches: a last batch that is not full is forgotten.
FullBatches(items, size) ==
    [b \in 1 .. Len(items) \div size |-> SubSeq(items, (b - 1) * size + 1, b * size)]

\* The outer and inner loops: from every multiple of the size, that many items
\* or what is left of them.
Batches(items, size) ==
    [b \in 1 .. (Len(items) + size - 1) \div size |->
        SubSeq(items, (b - 1) * size + 1,
               IF b * size < Len(items) THEN b * size ELSE Len(items))]

\* Its receipt says SUCCESS: whatever else befalls a transaction, execute or
\* getReceipt throws, because it was refused or because no answer came.
Confirmed(b, net) == b \in net.applied /\ b \in net.reached /\ b \in net.heard

FirstUnconfirmed(batches, net) ==
    CHOOSE b \in 1 .. Len(batches) + 1 :
        /\ b <= Len(batches) => ~Confirmed(b, net)
        /\ \A earlier \in 1 .. b - 1 : Confirmed(earlier, net)

\* Up to the first transaction that is not confirmed, which may have been
\* applied all the same.  No helper catches what execute throws; `refusal` is
\* what it makes of what getReceipt throws.
SubmitInOrder(batches, net, refusal) ==
    LET stop == FirstUnconfirmed(batches, net)
        last == IF stop <= Len(batches) /\ stop \in net.applied THEN stop ELSE stop - 1
    IN [applied |-> FlattenSeq(SubSeq(batches, 1, last)),
        answer  |-> IF stop > Len(batches) THEN "SUCCESS"
                    ELSE IF stop \in net.reached THEN refusal ELSE "thrown"]

\* One transaction for the whole list.
SubmitAtOnce(items, net, refusal) == SubmitInOrder(<<items>>, net, refusal)

\* getReceipt throws when the network refused the transaction, and when its
\* answer is lost: these helpers do not catch it.
SendNFT(serials, net) == SubmitInOrder(Batches(serials, TransferBatch), net, "thrown")
SendNFTDefeatRoyalty(serials, net) == SubmitAtOnce(serials, net, "thrown")
SendNFTWithAllowance(serials, net) == SubmitAtOnce(serials, net, "thrown")
AssociateTokens(tokens, net) == SubmitAtOnce(tokens, net, "thrown")

\* These catch it, print it and answer "FAILED".
SetNFTAllowanceAll(tokens, net) ==
    SubmitInOrder(Batches(tokens, AllowanceBatch), net, "FAILED")
ClearNFTAllowances(list, net) ==
    SubmitInOrder(Batches(list, AllowanceBatch), net, "FAILED")
ClearHbarAllowances(list, net) ==
    SubmitInOrder(Batches(list, AllowanceBatch), net, "FAILED")

\* An allowance named twice is cleared once, where it was named first.
FirstMentions(list) ==
    LET unique[k \in 0 .. Len(list)] ==
            IF k = 0 THEN <<>>
            ELSE LET before == unique[k-1]
                 IN IF Contains(before, list[k]) THEN before ELSE Append(before, list[k])
    IN unique[Len(list)]
ClearFTAllowances(list, net) ==
    SubmitInOrder(Batches(FirstMentions(list), AllowanceBatch), net, "FAILED")

\* These catch it and then take the status of the receipt they have not got.
SetNFTAllowance(spenders, serials, net) ==
    IF Len(spenders) # Len(serials) THEN [applied |-> <<>>, answer |-> "FAILED"]
    ELSE SubmitAtOnce([i \in DOMAIN serials |-> <<serials[i], spenders[i]>>], net, "thrown")

\* What becomes of the transactions after the first.
AfterTheFirst(net) == [fate \in DOMAIN net |-> {b - 1 : b \in net[fate]}]

\* The token, item 0, is created by a transaction of its own; its first serials
\* are then minted ten by ten, each batch with a receipt of its own.
MintNFT(count, net) ==
    LET create == SubmitAtOnce(<<0>>, net, "thrown")
        mint == SubmitInOrder(Batches([i \in 1 .. count |-> i], TransferBatch),
                              AfterTheFirst(net), "thrown")
    IN IF create.answer # "SUCCESS" THEN create
       ELSE [applied |-> create.applied \o mint.applied, answer |-> mint.answer]

\* resolveMaxTxFeeHbar.  The SDK takes the low 32 bits of a fee in tinybars for
\* a signed number and refuses a negative one; as a HBAR is 2^8 * 390625
\* tinybars, the sign is that of the low 24 bits of so many.
DefaultFee == 50
RefusedBySDK(hbars) == (hbars * 390625) % 2^24 >= 2^23
MaxTxFee(configured) ==
    LET want == IF configured = 0 THEN DefaultFee ELSE configured
    IN IF RefusedBySDK(want) THEN DefaultFee ELSE want

-----------------------------------------------------------------------------
\* SUCCESS means that every item was applied, exactly once and in order.  After
\* any other answer a prefix of the list is applied and stays so; it may be the
\* whole list, but only when the answer to a transaction that was applied has
\* been lost.  No transaction exceeds the network's limit.  Lists may be shorter,
\* equal to and longer than a batch.
NoAnswerLost(net) == net.applied \subseteq net.reached \cap net.heard

TellsTheTruth(result, items, net) ==
    /\ result.answer = "SUCCESS" => result.applied = items
    /\ IsPrefix(result.applied, items)
    /\ NoAnswerLost(net) /\ result.applied = items => result.answer = "SUCCESS"

HelpersTellTheTruth(n, net) ==
    LET items == [i \in 1 .. n |-> i]
        twice == items \o items
    IN /\ \A size \in {TransferBatch, AllowanceBatch} :
             \A b \in DOMAIN Batches(items, size) : Len(Batches(items, size)[b]) \in 1 .. size
       /\ TellsTheTruth(SendNFT(items, net), items, net)
       /\ TellsTheTruth(MintNFT(n, net), <<0>> \o items, net)
       /\ TellsTheTruth(SetNFTAllowanceAll(items, net), items, net)
       /\ TellsTheTruth(ClearNFTAllowances(items, net), items, net)
       /\ TellsTheTruth(ClearHbarAllowances(items, net), items, net)
       /\ TellsTheTruth(ClearFTAllowances(twice, net), items, net)

\* No configured fee, and no fall-back, is one that the SDK refuses.
FeesAreAccepted == \A configured \in 0 .. 1000 : ~RefusedBySDK(MaxTxFee(configured))
=============================================================================
