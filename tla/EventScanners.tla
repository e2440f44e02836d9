---------------------------- MODULE EventScanners ----------------------------
(***************************************************************************)
(* The two scanners side by side.  They read the logs of different         *)
(* contracts and write different tables of one database, so each runs as   *)
(* if it were alone.                                                       *)
(***************************************************************************)
EXTENDS TradeScanner, BidScanner

EventScannersSpec == TradeScannerSpec /\ BidScannerSpec

\* The tables of secureTradeEventScanner.js and bidderFactoryEventScanner.js
\* hold listings and bids that their contract has announced.  What a row says
\* became of a bid was announced of that very bid, and of a listing was
\* announced of it or of one that silently replaced it, after it and before any
\* other of the same NFT; no listing is stored twice.
TablesTellTheChain == TradeRowsTellTheChain /\ BidRowsTellTheChain
=============================================================================
