SPECIFICATION FairSpec
CONSTANTS
    Rows = {m1, m2}
    Senders = {s1, s2}
    Batch = 2
    Lanes = 1
    MaxAttempts = 2
    MaxTroubles = 2
INVARIANTS
    RepeatsWereRecovered
    HistoryIsTrue
PROPERTIES
    EveryMessageEnds
CHECK_DEADLOCK FALSE
