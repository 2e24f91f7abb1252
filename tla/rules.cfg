\* Three producers compete for two top ranks and both must approve; the windows
\* are one tick long and a collected id is used again by a second proposal.
CONSTANTS
    b1 = b1
    b2 = b2
    b3 = b3
    BPs = {b1, b2, b3}
    TopCount = 2
    Threshold = 2
    VetoWindow = 1
    Lifetime = 1
    Retention = 1
    MaxVotes = 1
    MaxId = 0
    MaxSerial = 2
    MaxTime = 4
SPECIFICATION Spec
SYMMETRY Symmetry
INVARIANTS
    TypeOK
    ExecutionWasEarned
    VetoIsFinal
    DispatchedAtMostOnce
PROPERTY
    ImplementsLifecycle
