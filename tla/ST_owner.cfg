\* Trust and money: the owner grants factories, changes the resolver, the
\* fees and the prices, and withdraws, around one NFT that a wallet or its
\* stash lists.
CONSTANTS
    ann = ann
    bob = bob
    annStash = annStash
    plain = plain
    house = house
    fac1 = fac1
    fac2 = fac2
    NoOne = NoOne
    Factories = {fac1}
    TIMELOCK = 1
    StartTime = 1
    MaxTime = 3
    AddressSeq <- MCAddressSeqWithStash
    NFTSeq <- MCOneNFTSeq
    TokenOf <- MCTokenOf
    ExemptTokens = {house}
    StashOwner <- MCStashOwner
    Offers <- MCOffers
    Lists = {}
    Bundles = {}
    Expiries = {0}
    Buyers = {NoOne}
    Values = {1000}
    FeeSchedules <- MCSchedules
    Costs = {0}
    Burns = {101}
    TierMoves <- MCTierMoves
    Gifts = {60}
    InitialOwners <- MCStashOwns
    SerialApprovals = {}
    OperatorApprovals <- MCStashOperator
    InitialCost = 1
    InitialBurn = 25
    InitialSchedule <- MCSchedule
    InitialTier <- MCTier
    InitialHbar <- MCHbar
    InitialLazy <- MCLazy
    SMALL_BATCH = 1
    LARGE_BATCH = 2
    MAX_BATCH = 22
    MAX_EXECUTE = 5
    MAX_BPS = 10000
    LOW_HBAR = 20
    REFILL = 50
    FEE_BUFFER = 50
    MaxNonce = 1
    MaxTopUps = 60
SPECIFICATION Spec
INVARIANTS SellersKeepTheirShare
PROPERTIES GrantsAreNoticed RotationsAreNoticed
