\* Two auctions of two sellers on two rails: every way the money can go.
CONSTANTS
    alice = alice
    bob = bob
    carol = carol
    vault = vault
    n1 = n1
    n2 = n2
    painting = painting
    sculpture = sculpture
    factory = factory
    factory2 = factory2
    NoAccount = NoAccount
    EA = EA
    NoBcf = NoBcf
    AccountSeq <- MCAccountSeq
    MayRefuse <- MCMayRefuse
    Tokens <- MCTokens
    NFTs <- MCNFTs
    TokenOf <- MCTokenOf
    RoyaltyFees <- MCRoyaltyFees
    Bcfs = {}
    StashOwnerOf <- MCIdentity
    LshTierOf <- MCLshTier
    TIMELOCK_WINDOW = 2
    Listings <- MCListings
    BidAmounts = {1000, 2000, 3500}
    PauseChoices = {}
    VipChoices = {}
    FeeChoices = {}
    DefaultChoices = {}
    LimitChoices = {}
    WithdrawChoices = {20}
    DonationChoices = {}
    InitialNFTOwner <- MCNFTOwner
    InitialLedger <- MCLedger
    InitialConfig <- MCConfig
    MaxFloat = 3
    MaxNonce = 1
    LastListing = 3
    MaxTime = 3
SPECIFICATION Spec
INVARIANTS TypeOK Solvent
PROPERTIES LosesOnlyByBuying
CHECK_DEADLOCK FALSE
