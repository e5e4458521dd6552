SPECIFICATION FairSpec
CONSTANTS
    Procs = {p1, p2}
    Writes = {w1}
    EventsPerWrite = 3
    MaxAttempts = 2
    RelayBatch = 2
    MaxCrashes = 2
    MaxMarkFaults = 1
PROPERTIES
    CommittedIsSentUnlessDropped
    ImplementsAtLeastOnce
CHECK_DEADLOCK FALSE
