--------------------------- MODULE FactoryMultisig ---------------------------
(***************************************************************************)
(* Handing the bid factory over to an account with a threshold key          *)
(* (setupFactoryMultisig), and what its owner does from then on             *)
(* (multisigFactoryOps).  An operation is signed through a coordinator, and *)
(* when that throws, by hand, as a transaction of its own; before the       *)
(* hand-over the operator's one key will do.                                *)
(*                                                                         *)
(* BidBook has the factory's profits and payouts; here are only the calls   *)
(* its owner makes, with amounts of one.                                    *)
(***************************************************************************)
EXTENDS Naturals, Sequences, FiniteSets

CONSTANTS
    Signers,         \* who may hold a key; the operator is one of them
    FirstProfit,     \* pendingProtocolProfit at the hand-over
    MaxAccounts      \* bound on the accounts that are created

ASSUME MultisigAssumption == FirstProfit \in Nat /\ MaxAccounts \in Nat

operator == 0     \* the factory's first owner; the accounts are 1, 2, ...
someoneElse == MaxAccounts + 1

VARIABLES
    accounts,     \* threshold accounts on the network
    known,        \* those whose number the operator has been told
    config,       \* FACTORY_MULTISIG_ACCOUNT_ID, or operator if it is not set
    owner,        \* the factory's owner
    profit,       \* pendingProtocolProfit
    payout,       \* the proposed payout: "none", "waiting" or "due"
    job           \* the script that runs

contractVars == <<owner, profit, payout>>
multisigVars == <<accounts, known, config, owner, profit, payout, job>>

\* applied counts how often the operation took effect; unheard: the coordinator
\* threw although the transaction it had sent took effect.
NoJob == [pc |-> "idle", account |-> operator, op |-> [name |-> "none"],
          applied |-> 0, unheard |-> FALSE]

MultisigInit ==
    /\ accounts = <<>> /\ known = {} /\ config = operator /\ owner = operator
    /\ profit = FirstProfit /\ payout = "none" /\ job = NoJob

Operations ==
    [name : {"withdrawProtocolProfit", "setArbitragePayoutBps"}]
        \cup [name : {"transferOwnership"}, to : {operator, someoneElse} \cup known]

-----------------------------------------------------------------------------
(* The factory.                                                              *)

AcceptsCall(op, sender) ==
    sender = owner /\ (op.name = "withdrawProtocolProfit" => profit > 0)

Call(op) ==
    CASE op.name = "withdrawProtocolProfit" ->
           profit' = profit - 1 /\ UNCHANGED <<owner, payout>>
      [] op.name = "setArbitragePayoutBps" ->
           payout' = "waiting" /\ UNCHANGED <<owner, profit>>
      [] op.name = "transferOwnership" ->
           owner' = op.to /\ UNCHANGED <<profit, payout>>

TimelockElapses ==
    /\ payout = "waiting" /\ payout' = "due"
    /\ UNCHANGED <<accounts, known, config, owner, profit, job>>

\* --apply-arb-bps: anybody may, once the timelock is over.
ApplyArbBps ==
    /\ job = NoJob /\ payout = "due" /\ payout' = "none"
    /\ UNCHANGED <<accounts, known, config, owner, profit, job>>

-----------------------------------------------------------------------------
(* setupFactoryMultisig.                                                     *)

\* The operator's key and others; a threshold between 1 and their number.  The
\* network creates the account, and the script hears of it or ends.
CreateAccount(keys, threshold) ==
    /\ job = NoJob /\ Len(accounts) < MaxAccounts
    /\ operator \in keys /\ threshold \in 1 .. Cardinality(keys)
    /\ accounts' = Append(accounts, [keys |-> keys, threshold |-> threshold])
    /\ \/ /\ known' = known \cup {Len(accounts) + 1}
          /\ job' = [NoJob EXCEPT !.pc = "transfer", !.account = Len(accounts) + 1]
       \/ UNCHANGED <<known, job>>
    /\ UNCHANGED <<config, contractVars>>

\* Confirmed with yes, and signed by the operator alone.
TransferToMultisig ==
    LET op == [name |-> "transferOwnership", to |-> job.account]
    IN /\ job.pc = "transfer"
       /\ IF AcceptsCall(op, operator) THEN Call(op) ELSE UNCHANGED contractVars
       /\ job' = NoJob
       /\ UNCHANGED <<accounts, known, config>>

\* The operator edits .env, as he was told to or otherwise.
Configure ==
    /\ job = NoJob
    /\ config' \in known \cup {operator}
    /\ UNCHANGED <<accounts, known, job, contractVars>>

-----------------------------------------------------------------------------
(* multisigFactoryOps.                                                       *)

\* The operation of the command line, and the way it is signed: with the
\* coordinator if its package is installed, by hand if not; with the operator's
\* key if no account is configured.
StartOperation(op, installed) ==
    /\ job = NoJob
    /\ job' = [NoJob EXCEPT !.op = op, !.account = config,
                  !.pc = CASE config = operator -> "alone"
                           [] config # operator /\ installed -> "coordinated"
                           [] OTHER -> "byHand"]
    /\ UNCHANGED <<accounts, known, config, contractVars>>

\* The transaction of this run, and where the script goes on.
TakesEffect(pc, unheard) ==
    /\ AcceptsCall(job.op, job.account) /\ Call(job.op)
    /\ job' = [job EXCEPT !.pc = pc, !.applied = @ + 1, !.unheard = unheard]
HasNone(pc) == job' = [job EXCEPT !.pc = pc] /\ UNCHANGED contractVars

\* Mutant of Coordinate: signed by hand whatever the coordinator answers.
CoordinateTwice ==
    /\ job.pc = "coordinated"
    /\ TakesEffect("byHand", FALSE) \/ HasNone("byHand")
    /\ UNCHANGED <<accounts, known, config>>

\* orchestrator.execute: it takes effect and says so; it takes effect and
\* throws; it throws because signatures are missing or the call is refused.
Coordinate ==
    /\ job.pc = "coordinated"
    /\ TakesEffect("done", FALSE) \/ TakesEffect("byHand", TRUE) \/ HasNone("byHand")
    /\ UNCHANGED <<accounts, known, config>>

\* manualMultisigExecute: a new transaction, which counts if enough of those
\* asked have signed.
SignByHand(signers) ==
    LET account == accounts[job.account]
    IN /\ job.pc = "byHand"
       /\ IF /\ Cardinality(signers \cap account.keys) >= account.threshold
             /\ AcceptsCall(job.op, job.account)
          THEN TakesEffect("done", job.unheard)
          ELSE HasNone("done")
       /\ UNCHANGED <<accounts, known, config>>

SignAlone ==
    /\ job.pc = "alone"
    /\ IF AcceptsCall(job.op, operator) THEN TakesEffect("done", FALSE) ELSE HasNone("done")
    /\ UNCHANGED <<accounts, known, config>>

\* The script ends: its work is done, a prompt is declined, it is killed.
EndJob ==
    /\ job # NoJob /\ job' = NoJob
    /\ UNCHANGED <<accounts, known, config, contractVars>>

Operating ==
    \/ TimelockElapses \/ ApplyArbBps \/ TransferToMultisig \/ Configure
    \/ \E keys \in SUBSET Signers, threshold \in 1 .. Cardinality(Signers) :
          CreateAccount(keys, threshold)
    \/ \E op \in Operations, installed \in BOOLEAN : StartOperation(op, installed)
    \/ Coordinate \/ SignAlone \/ EndJob
    \/ \E signers \in SUBSET Signers : SignByHand(signers)

MultisigSpec == MultisigInit /\ [][Operating]_multisigVars

-----------------------------------------------------------------------------
\* The fall-back to signing by hand is a second transaction.  Still one run has
\* its effect at most once, unless the coordinator threw after the first one
\* took effect: then a withdrawal may be paid twice, but ownership never moves
\* twice, for the account that would have to sign has lost it.
RepeatsOnlyTheUnheard ==
    /\ job.applied > 1 => job.unheard /\ job.applied = 2
    /\ job.applied > 1 /\ job.op.name = "transferOwnership" => job.op.to = job.account

=============================================================================
