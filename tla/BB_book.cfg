\* Bids of two stashes, their owners, an agent, a seller who may be an
\* arbitrageur, and time.
SPECIFICATION MCSpec
CONSTANTS
  ann = ann
  ben = ben
  cat = cat
  annStash = annStash
  benStash = benStash
  tok = tok
  NoBid = NoBid
  NoAsk = NoAsk
  Users <- MCUsers
  ActorSeq <- MCActors
  StashOf <- MCStashOf
  Tokens <- MCTokens
  Serials = {1}
  BidTerms <- MCTerms
  MaxBids = 3
  AskPrices <- MCAskPrices
  Deposits = {2}
  MaxHbar = 4
  MaxLazy = 2
  WithdrawFloor = 1
  MaxBps = 2
  FirstPayout = 1
  Payouts = {2}
  PayoutTimelock = 1
  Agented <- MCAgented
  DailyCap = 3
  PerTxCap = 2
  DayLength = 1
  MaxTime = 2
CONSTRAINT Explored
INVARIANT BookIndexesAgree
INVARIANT ProfitsAreBacked
INVARIANT AgentKeepsToItsBudget
PROPERTY ImplementsOrderBook
CHECK_DEADLOCK FALSE
