\* One auction under pauses, refused pushes, donations, withdrawals and repeated snipes.
CONSTANTS
    alice = alice
    bob = bob
    carol = carol
    vault = vault
    n1 = n1
    n2 = n2
    painting = painting
    sculpture = sculpture
    factory = factory
    factory2 = factory2
    NoAccount = NoAccount
    EA = EA
    NoBcf = NoBcf
    AccountSeq <- MCAccountSeq
    MayRefuse <- MCMayRefuse
    Tokens <- MCTokens
    NFTs <- MCNFTs
    TokenOf <- MCTokenOf
    RoyaltyFees <- MCRoyaltyFees
    Bcfs = {}
    StashOwnerOf <- MCIdentity
    LshTierOf <- MCLshTier
    TIMELOCK_WINDOW = 2
    Listings <- MCPaintings
    BidAmounts = {1000, 2000, 2500}
    PauseChoices = {TRUE, FALSE}
    VipChoices = {}
    FeeChoices = {}
    DefaultChoices = {}
    LimitChoices <- MCLimits
    WithdrawChoices = {30}
    DonationChoices = {1}
    InitialNFTOwner <- MCNFTOwner
    InitialLedger <- MCLedger
    InitialConfig <- MCConfig
    MaxFloat = 3
    MaxNonce = 1
    LastListing = 1
    MaxTime = 4
SPECIFICATION FairSpec
PROPERTIES BiddingRatchet OpenAuctionsEnd SettledBundlesLeave RefundsArePaid
CHECK_DEADLOCK FALSE
