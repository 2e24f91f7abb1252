\* One producer, every mix of attested violations, windows of two ticks.
CONSTANTS
    BPs = {b1}
    Window = 2
    Attestations = {
        {}, {"UPTIME_BELOW_FLOOR"}, {"NO_PUBLIC_RPC"}, {"MISSED_UPGRADE"},
        {"UPTIME_BELOW_FLOOR", "NO_PUBLIC_RPC"}, {"UPTIME_BELOW_FLOOR", "MISSED_UPGRADE"},
        {"NO_PUBLIC_RPC", "MISSED_UPGRADE"},
        {"UPTIME_BELOW_FLOOR", "NO_PUBLIC_RPC", "MISSED_UPGRADE"} }
    Watched = {b1}
    Leaving = {b1}
SPECIFICATION FairSpec
INVARIANTS
    TypeOK
    WithdrawnHoldsNoVest
PROPERTIES
    RemovalEarned
    PersistentFailureIsWithdrawn
    OverdueIssueIsRecorded
