SPECIFICATION FairSpec
CONSTANTS
    Screens = {s1, s2}
    MaxChanges = 1
    MaxTroubles = 2
    MaxRequests = 2
INVARIANTS
    NothingIsMissed
PROPERTIES
    EventuallyCurrent
