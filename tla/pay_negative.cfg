\* Two producers, one of which registers again after it was voted for while
\* it was out of the race.
CONSTANTS
    BPs = {b1, b2}
    InitialSupply = 800
    MaxSupply = 940
    Year1Bps = 1000
    HalvingYears = 1
    Day = 1
    YearLength = 1
    Votes = {1, 3}
    Fees = {}
    Gains = {10000}
    VestPeriods = {2}
    Vesting = {FALSE}
    MaxYear = 0
    MaxBlocks = 1
    MaxMinted = 81
    MaxRevenue = 0
    MaxBurned = 0
SPECIFICATION Spec
INVARIANT
    PayoutNeverNegative
