\* One producer over two years: daily refills by governance that halve and end at the ceiling,
\* burns that make room below it, and a bonus that vests over two ticks, is
\* topped up, released and forfeited.
CONSTANTS
    BPs = {b1}
    InitialSupply = 80
    MaxSupply = 94
    Year1Bps = 1000
    HalvingYears = 1
    Day = 1
    YearLength = 1
    Votes = {1}
    Fees = {4}
    Gains = {5000, 10000}
    VestPeriods = {2}
    Vesting = {TRUE}
    MaxYear = 1
    MaxBlocks = 0
    MaxMinted = 16
    MaxRevenue = 4
    MaxBurned = 1
SPECIFICATION Spec
INVARIANTS
    SupplyCapped
    EscrowBacksVests
    ReleasedOnSchedule
SYMMETRY Symmetry
