\* Three epochs on one balance, with claims, recycling, windows and rescues.
CONSTANTS
    ann = ann
    ben = ben
    ClaimantSeq <- MCClaimantSeq
    UnitChoices <- MCUnits
    ShareChoices = {4}
    FundAmounts = {4}
    RescueAmounts = {3}
    WindowChoices = {1, 2}
    SignerChoices = {TRUE, FALSE}
    InitialWindow = 1
    MIN_WINDOW = 1
    MAX_WINDOW = 2
    MaxEpochs = 3
    MaxFunding = 8
    MaxTime = 5
SPECIFICATION Spec
INVARIANTS Books Reserved ClaimsStayReserved
CHECK_DEADLOCK FALSE
