\* A Representative that votes for a producer, and a follower.
CONSTANTS
    NoProxy = NoProxy
    Accounts = {b1, b2}
    BPs = {b1}
    Reps = {b1}
    StakeFloor = 1
    MaxSlate = 1
    TopCount = 1
    Window = 1
    YearFactor <- PowersOfTwo
    Attestations = {}
    Watched = {}
    Leaving = {}
    Deltas = {1}
    Stakes <- SmallStakes
    MaxYear = 0
SPECIFICATION Spec
INVARIANT
    FollowersCount
