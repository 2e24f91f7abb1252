\* Two producers that stake and vote for each other, directly or by way of a
\* Representative, fall below the stake floor, are swept and register again.
\* What a year weighs doubles once.
CONSTANTS
    NoProxy = NoProxy
    Accounts = {b1, b2}
    BPs = {b1, b2}
    Reps = {b1}
    StakeFloor = 1
    MaxSlate = 2
    TopCount = 1
    Window = 1
    YearFactor <- PowersOfTwo
    Attestations = {}
    Watched = {}
    Leaving = {b2}
    Deltas <- UnitDeltas
    Stakes <- UnitStakes
    MaxYear = 1
SPECIFICATION Spec
INVARIANTS
    TypeOK
    VotesAddUp
    ProxiesAddUp
    VotesBackedByStake
PROPERTY
    SweepClearsVotes
VIEW ElectionView
