\* Four accounts for two seats; a proposal can outlive the playoff that unseats a
\* Guardian who approved it, and its id can be used again after a cancellation.
CONSTANTS
    a1 = a1
    a2 = a2
    a3 = a3
    a4 = a4
    Accounts = {a1, a2, a3, a4}
    Seats = 2
    Threshold = 2
    RoundSize <- Playoff
    RoundTime = 1
    CycleTime = 1
    Lifetimes = {1, 4}
    MaxId = 0
    MaxTally = 1
SPECIFICATION Spec
SYMMETRY Symmetry
INVARIANTS
    TypeOK
    NoElectionInTerm
    LaterRoundsCountAfresh
    ExecutedByQuorum
PROPERTY
    TermsAreFull
