\* A candidate collects a vote, the playoff begins again, and the candidate runs
\* again with the row it has.  Three accounts suffice.
CONSTANTS
    a1 = a1
    a2 = a2
    a3 = a3
    Accounts = {a1, a2, a3}
    Seats = 2
    Threshold = 2
    RoundSize <- Playoff
    RoundTime = 1
    CycleTime = 1
    Lifetimes = {1}
    MaxId = 0
    MaxTally = 1
SPECIFICATION Spec
SYMMETRY Symmetry
INVARIANT
    RoundsCountAfresh
