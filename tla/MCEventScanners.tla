-------------------------- MODULE MCEventScanners --------------------------
(***************************************************************************)
(* The jobs that read an event log from the mirror node, on small logs: the *)
(* two scanners and the computation of a rebate epoch.  They read different *)
(* contracts and write different tables, so every behaviour has traffic on  *)
(* one contract and runs one of the jobs.                                   *)
(***************************************************************************)
EXTENDS EventScanners, RebateEpoch, FiniteSets, TLC

CONSTANTS k1, k2, b1, b2, s1, s2, ann, ben, nft1, nft2

MCKeys == {k1, k2}
MCBids == {b1, b2}
MCOneScan == {s1}
MCTwoScans == {s1, s2}
MCBothWires == {"plain", "agentFields"}
MCThisFactory == {"agentFields"}

MCStakers == <<ann, ben>>
MCStakeNFTs == <<nft1, nft2>>
MCCollections == (nft1 :> "mutant") @@ (nft2 :> "gen2")

MCInit == TradeScannerInit /\ BidScannerInit /\ EpochInit

\* How many of the nonces the log says nothing of.
MaxUnannounced == 1
InNonceBound ==
    tradeNonce <= Cardinality({j \in DOMAIN tradeLog : tradeLog[j].kind = "created"}) + MaxUnannounced

\* The factory's form makes no difference to the other two jobs.
TradeSide ==
    /\ BidScannerInit /\ EpochInit /\ wire \in MCThisFactory
    /\ TradeChain \/ TradeScan
    /\ InNonceBound'
    /\ UNCHANGED <<bidVars, epochVars>>

EpochSide ==
    /\ TradeScannerInit /\ BidScannerInit /\ wire \in MCThisFactory
    /\ EpochNext
    /\ UNCHANGED <<tradeVars, bidVars>>

\* The second process scans only while the log is short.
MaxOverlapLog == 1
InOverlapBound ==
    Len(bidLog) > MaxOverlapLog => \A i \in Scans \ {s1} : scan[i].pc = "idle"

BidSide(A) ==
    /\ TradeScannerInit /\ EpochInit
    /\ A /\ InOverlapBound'
    /\ UNCHANGED <<tradeVars, epochVars>>

MCNext == TradeSide \/ EpochSide \/ BidSide(BidScannerNext)

\* cron starts the bid scanner again and again, and the mirror node catches up.
BidStep(i) == BidSide(ScanStep(i))
MirrorStep == BidSide(MirrorCatchesUp)

MCVars == <<tradeVars, bidVars, epochVars>>

MCSpec == /\ MCInit /\ [][MCNext]_MCVars
          /\ \A i \in Scans : WF_MCVars(BidStep(i))
          /\ WF_MCVars(MirrorStep)

=============================================================================
