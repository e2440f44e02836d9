\* A stash's auction and its relisting under factory rotation and the owner's setters.
CONSTANTS
    alice = alice
    bob = bob
    carol = carol
    vault = vault
    n1 = n1
    n2 = n2
    painting = painting
    sculpture = sculpture
    factory = factory
    factory2 = factory2
    NoAccount = NoAccount
    EA = EA
    NoBcf = NoBcf
    AccountSeq <- MCStashSeq
    MayRefuse <- MCRefuseNone
    Tokens <- MCTokens
    NFTs <- MCNFTs
    TokenOf <- MCTokenOf
    RoyaltyFees <- MCStashRoyaltyFees
    Bcfs = {factory, factory2}
    StashOwnerOf <- MCStashes
    LshTierOf <- MCLshTier
    TIMELOCK_WINDOW = 1
    Listings <- MCRelist
    BidAmounts = {1000, 3500}
    PauseChoices = {}
    VipChoices = {TRUE}
    FeeChoices = {500, 1100}
    DefaultChoices <- MCDefaults
    LimitChoices = {}
    WithdrawChoices = {}
    DonationChoices = {}
    InitialNFTOwner <- MCStashNFTOwner
    InitialLedger <- MCLedger
    InitialConfig <- MCConfig
    MaxFloat = 3
    MaxNonce = 1
    LastListing = 3
    MaxTime = 3
SPECIFICATION Spec
INVARIANTS Custody StandingBid
PROPERTIES SerialsGoToTheClaimant FeeIsBounded
CHECK_DEADLOCK FALSE
