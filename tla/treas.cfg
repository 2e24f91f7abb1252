CONSTANTS
    ama = ama
    gh = gh
    us = us
    Locals = {"CGHS"}
    FxScale = 2
    MaxAge = 0
    Rates = {1}
    TTLs = {0, 1}
    Reps = {ama}
    BoostCap = 1
    Boosts = {0, 1, 2}
    Deposits = {1}
    MaxFunded = 1
    Markets = {gh, us}
    Owners = {ama}
    Rex <- Shares
    Others = 1
    Policies = {TRUE}
    Licensed = {gh}
    ParamSets <- Settings
    Menus <- MenuChoices
    Fees = {2}
    Subsidies = {1}
    MaxFees = 2
    MaxReserve = 1
SPECIFICATION TreasSpec
VIEW TreasView
INVARIANTS
    TreasTypeOK
    BooksAddUp
    CountedOnce
