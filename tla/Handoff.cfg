SPECIFICATION Spec
CONSTANTS
    MaxMessages = 2
    MaxProposals = 2
    MaxRequests = 2
    MaxStaff = 2
    MaxTroubles = 1
INVARIANTS
    RequestsAreConfirmed
    StaffAreNotSpokenOver
PROPERTIES
    ToldOnceAfterTheTurn
    EveryMessageIsSeen
CHECK_DEADLOCK FALSE
