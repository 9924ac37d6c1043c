\* One event, two replicas, a crash and two leases lapsing under slow owners.
SPECIFICATION FairSpec
CONSTANTS
    Rows = {e1}
    Relays = {relayA, relayB}
    NoRelay = NoRelay
    NoRow = NoRow
    MaxAttempts = 3
    BatchSize = 1
    MaxCrashes = 1
    MaxLapses = 2
INVARIANTS
    PublishedIsInStream
    CopiesWithinAttempts
    ExclusiveUnlessLapsed
PROPERTIES
    TerminalUnlessLapsed
    EventuallySettled
