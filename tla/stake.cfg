CONSTANTS
    ama = ama
    kofi = kofi
    esi = esi
    Users = {ama, kofi, esi}
    Stakers = {ama, kofi}
    Traders = {esi}
    Wealth <- Means
    Escrow = 1
    RamFeeBps = 5000
    Symbols = {"SIKA", "CUSD"}
    Relay = 8
    Bytes = 11
    Quote = 1
    Stakes <- UnitStakes
    Unstakes <- MixedUnstakes
    Amounts = {1}
    Payments = {4}
    ByteCounts = {5}
    Windows = {1}
    MaxBandwidth = 1
    MaxForeign = 1
    MaxPool = 2
    Savings = {0, 1}
SPECIFICATION Spec
INVARIANTS
    TypeOK
    VotingStakeAddsUp
    CustodyAddsUp
    RamPaysItself
PROPERTIES
    SharePriceNeverFalls
    RefundsCooledDown
