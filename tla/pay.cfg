\* Two producers that share the buckets, in and out of probation, while the
\* vesting of bonuses is off.  A tranche is 16 SIKA: 3 per block, 9 per vote.
CONSTANTS
    BPs = {b1, b2}
    InitialSupply = 160
    MaxSupply = 188
    Year1Bps = 1000
    HalvingYears = 1
    Day = 1
    YearLength = 1
    Votes <- VotesOfEitherSign
    Fees = {}
    Gains = {10000}
    VestPeriods = {2}
    Vesting = {FALSE}
    MaxYear = 0
    MaxBlocks = 2
    MaxMinted = 1
    MaxRevenue = 0
    MaxBurned = 0
SPECIFICATION Spec
INVARIANTS
    TypeOK
    BlocksCovered
    IssuedWithinSchedule
SYMMETRY Symmetry
VIEW PayView
