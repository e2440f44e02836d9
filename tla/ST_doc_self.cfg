\* SECURITY.md says that sellers cannot execute their own trades.
CONSTANTS
    ann = ann
    bob = bob
    annStash = annStash
    plain = plain
    house = house
    fac1 = fac1
    fac2 = fac2
    NoOne = NoOne
    Factories = {}
    TIMELOCK = 2
    StartTime = 1
    MaxTime = 2
    AddressSeq <- MCAddressSeq
    NFTSeq <- MCNFTSeq
    TokenOf <- MCTokenOf
    ExemptTokens = {house}
    StashOwner <- MCStashOwner
    Offers <- MCCheapOffers
    Lists <- MCLists
    Bundles <- MCBundles
    Expiries = {0, 1}
    Buyers = {NoOne, bob}
    Values = {0, 2000}
    FeeSchedules = {}
    Costs = {}
    Burns = {}
    TierMoves = {}
    Gifts = {}
    InitialOwners <- MCOwners
    SerialApprovals = {2}
    OperatorApprovals <- MCOperators
    InitialCost = 1
    InitialBurn = 25
    InitialSchedule <- MCSchedule
    InitialTier <- MCTier
    InitialHbar <- MCHbar
    InitialLazy <- MCLazy
    SMALL_BATCH = 1
    LARGE_BATCH = 2
    MAX_BATCH = 22
    MAX_EXECUTE = 5
    MAX_BPS = 10000
    LOW_HBAR = 20
    REFILL = 50
    FEE_BUFFER = 50
    MaxNonce = 3
    MaxTopUps = 0
SPECIFICATION Spec
INVARIANT SellersDoNotBuy
