CONSTANTS
    Symbols = {cghs, cgold}
    Holders = {"sika.issue", "eosio", kofi}
    Tokens = {cghs}
    Auditors = {ada}
    MonthlyAttest = 0
    AnnualAudit = 1
    MaxSupplies = {2}
    Reserves = {0, 2}
    Quantities = {1}
SPECIFICATION Spec
INVARIANTS
    TypeOK
    SupplyAddsUp
PROPERTIES
    MintsAreBacked
    ImplementsLifecycle
    StaleIsPaused
