SPECIFICATION FairSyncSpec
CONSTANTS
    LastDay = 2
    Values = {v1, v2}
    FirstValue = v1
    Reads = {q1}
    Incidents = {"refused", "unanswered", "rejected", "database", "crash", "event", "list"}
    MaxChanges = 2
    MaxSwitches = 2
    MaxTroubles = 1
INVARIANTS
    NothingForgotten
    RecordedIsThere
PROPERTIES
    EverythingArrives
CHECK_DEADLOCK FALSE
