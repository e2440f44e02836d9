SPECIFICATION MCSpec
CONSTANTS
  k1 = k1
  k2 = k2
  b1 = b1
  b2 = b2
  s1 = s1
  s2 = s2
  ann = ann
  ben = ben
  nft1 = nft1
  nft2 = nft2
  StakerSeq <- MCStakers
  NFTSeq <- MCStakeNFTs
  CollectionOf <- MCCollections
  EpochStart = 1
  EpochEnd = 4
  MinStake = 2
  PoolBalance = 100
  MaxClock = 4
  MaxStakeEvents = 3
  MaxLeaves = 7
  Keys <- MCKeys
  MaxTradeEvents = 4
  MaxTradeNonce = 3
  TradeLogPage = 3
  MaxTradeFaults = 1
  Bids <- MCBids
  Scans <- MCTwoScans
  Wires <- MCBothWires
  MaxBidEvents = 3
  MaxBidFaults = 1
INVARIANT TablesTellTheChain
INVARIANT LosslessScansKeepEveryTrade
INVARIANT LiveViewIsExact
INVARIANT NothingIsSkipped
INVARIANT UnitsMatchStakeTime
INVARIANT EveryAllocationIsClaimable
PROPERTY BidsGetStored
CHECK_DEADLOCK FALSE
