SPECIFICATION Spec
CONSTANTS
    A = A
    B = B
    r1 = r1
    r2 = r2
    k1 = k1
    k2 = k2
    t1 = t1
    t2 = t2
    Res = {r1, r2}
    Room = {k1, k2}
    RoomType = {A, B}
    Nights = {1, 2}
    Tx = {t1, t2}
    None = None
    Req <- MCReq
    Rank <- MCRank
    Jobs <- MCJobs
    Hotels <- MCHotels
    MaxAttempts = 2
SYMMETRY Symmetry
INVARIANTS
    DeadlockNeedsForeignRoom
PROPERTIES
    ChecksHold
    OverbookingIsAllowed
    UnlockedLossIsKnown
    RequestOpensOnce
    NoLostUpdate
