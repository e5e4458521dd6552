SPECIFICATION FairSmall
CONSTANTS
    request = request
    grant1 = grant1
    p1 = p1
    p2 = p2
    Events = {e1}
    Deliveries = {request, relay, grant1, grant2}
    Resumes = {grant1, grant2}
    Procs = {p1, p2}
    Background = FALSE
    MaxConcurrent = 1
    MaxQueued = 1
    OnOverflow = {"fallback"}
    Skippable = {}
    Gated = {e1}
    Parts = 2
    Attempts = 2
    MayFail = {"markProcessed", "requestApproval"}
    MaxFaults = 1
    MaxCrashes = 1
    GrantMayFail = {"claim", "abandon"}
INVARIANTS
    GrantedWorkOnce
    RefusedIsClosed
PROPERTIES
    GrantedIsDone
    DueIsSettled
CHECK_DEADLOCK FALSE
