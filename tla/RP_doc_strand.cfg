\* A comment says that overlapping epochs cannot strand later claimers.
CONSTANTS
    ann = ann
    ben = ben
    ClaimantSeq <- MCClaimantSeq
    UnitChoices <- MCEqualUnits
    ShareChoices = {4}
    FundAmounts = {4}
    RescueAmounts = {}
    WindowChoices = {1, 2}
    SignerChoices = {}
    InitialWindow = 1
    MIN_WINDOW = 1
    MAX_WINDOW = 2
    MaxEpochs = 3
    MaxFunding = 8
    MaxTime = 5
SPECIFICATION Spec
INVARIANT NobodyIsStranded
CHECK_DEADLOCK FALSE
