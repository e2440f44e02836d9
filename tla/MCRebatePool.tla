--------------------------- MODULE MCRebatePool ---------------------------
(***************************************************************************)
(* A finite instance of RebatePool: two claimants, three epochs, and a     *)
(* claim window that the owner shortens and lengthens.                     *)
(***************************************************************************)
EXTENDS RebatePool

CONSTANTS ann, ben

MCClaimantSeq == <<ann, ben>>

\* Equal units; units that leave a remainder; no eligible staker.
MCUnits == {[u \in Claimants |-> 1],
            [u \in Claimants |-> IF u = ann THEN 2 ELSE 1],
            [u \in Claimants |-> 0]}
MCEqualUnits == {[u \in Claimants |-> 1]}
=============================================================================
