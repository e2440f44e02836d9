SPECIFICATION MCSpec
CONSTANTS
  k1 = k1
  k2 = k2
  b1 = b1
  b2 = b2
  s1 = s1
  s2 = s2
  ann = ann
  ben = ben
  nft1 = nft1
  nft2 = nft2
  StakerSeq <- MCStakers
  NFTSeq <- MCStakeNFTs
  CollectionOf <- MCCollections
  EpochStart = 1
  EpochEnd = 4
  MinStake = 2
  PoolBalance = 100
  MaxClock = 0
  MaxStakeEvents = 0
  MaxLeaves = 7
  Keys <- MCKeys
  MaxTradeEvents = 1
  MaxTradeNonce = 1
  TradeLogPage = 3
  MaxTradeFaults = 0
  Bids <- MCBids
  Scans <- MCOneScan
  Wires <- MCThisFactory
  MaxBidEvents = 2
  MaxBidFaults = 0
PROPERTY BidsAreCached
CHECK_DEADLOCK FALSE
