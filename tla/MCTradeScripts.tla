--------------------------- MODULE MCTradeScripts ---------------------------
(***************************************************************************)
(* Two people with a script each and one NFT; or one of them gives a helper *)
(* a long list, or reads one back; or the operator deploys the contracts;   *)
(* or he hands the bid factory over and works with it; or the two delegate  *)
(* NFTs to each other and to a third.  The five have no state in common,    *)
(* and a behaviour is one of them.                                          *)
(***************************************************************************)
EXTENDS TradeScripts, HelperCalls, Deployment, FactoryMultisig, DelegateRegistry

CONSTANTS ann, bob, cid

MCAccounts == {ann, bob}
MCCollectors == {ann}
MCPrices == {<<0, 0>>, <<0, 1>>, <<1, 2>>}
MCHbar == [a \in MCAccounts |-> IF a = bob THEN 2 ELSE 0]
MCLazy == [a \in MCAccounts |-> IF a = bob THEN 2 ELSE 1]
MCOwner == [n \in NFTs |-> ann]
MCWallets == {ann, bob, cid}
\* None of them, one, both, and one twice.
MCSerials == {<<>>, <<1>>, <<2>>, <<1, 2>>, <<1, 1>>}
MCLists == [token : Collections, serials : MCSerials]

\* Lists around the ends of batches, and up to three pages.
MCLengths == {1, 9, 10, 11, 19, 20, 21}
MCReadLengths == 0 .. 3 * MirrorPage
MCLogs == [1 .. 4 -> [name : {"a", "b"}, known : BOOLEAN, data : BOOLEAN]]

\* Ann sells and bob buys; what is sold may come back to ann.
Scripts ==
    \/ Outside
    \/ Creating(ann) \/ Executing(bob) \/ Broken(ann)
    \/ Revoking(bob) \/ \E a \in Accounts : Cancelling(a) \/ Abort(a)

\* Ann and bob own the NFTs in turn and delegate them to bob, to cid, who owns
\* none, or to nobody; and ann may make cid the delegate of her wallet.
Delegating ==
    \/ \E w \in Accounts, d \in {bob, cid, Nobody}, list \in MCLists : delegateNFTs(w, d, <<list>>)
    \/ \E w \in Accounts, list \in MCLists : revokeDelegateNFTs(w, <<list>>)
    \/ \E x \in Items, w \in Accounts : ChangesHands(x, w)
    \/ delegateWalletTo(ann, cid)
    \/ revokeDelegateWallet(ann)

mcVars == <<scriptVars, probe, deploymentVars, multisigVars, registryVars>>

MCInit ==
    /\ ScriptsInit /\ probe = NoProbe /\ DeploymentInit /\ MultisigInit
    /\ RegistryInit /\ holder = [x \in Items |-> ann]

\* Which of the five has not begun.
Unscripted == ScriptsInit
Undeployed == DeploymentInit /\ made = <<>>
Unowned == MultisigInit
Undelegated == RegistryInit /\ holder = [x \in Items |-> ann]

MCNext ==
    \/ /\ probe = NoProbe /\ Undeployed /\ Unowned /\ Undelegated /\ Scripts
       /\ UNCHANGED <<probe, deploymentVars, multisigVars, registryVars>>
    \/ /\ Unscripted /\ Undeployed /\ Unowned /\ Undelegated /\ Probing
       /\ UNCHANGED <<scriptVars, deploymentVars, multisigVars, registryVars>>
    \/ /\ Unscripted /\ probe = NoProbe /\ Unowned /\ Undelegated /\ Deploying
       /\ UNCHANGED <<scriptVars, probe, multisigVars, registryVars>>
    \/ /\ Unscripted /\ probe = NoProbe /\ Undeployed /\ Undelegated /\ Operating
       /\ UNCHANGED <<scriptVars, probe, deploymentVars, registryVars>>
    \/ /\ Unscripted /\ probe = NoProbe /\ Undeployed /\ Unowned /\ Delegating
       /\ UNCHANGED <<scriptVars, probe, deploymentVars, multisigVars>>

MCSpec == MCInit /\ [][MCNext]_mcVars

=============================================================================
