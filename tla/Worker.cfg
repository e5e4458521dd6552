SPECIFICATION FairSmall
CONSTANTS
    e1 = e1
    e2 = e2
    request = request
    relay = relay
    again = again
    resume = resume
    Events = {e1, e2}
    Deliveries = {request, relay, again, resume}
    Resumes = {resume}
    Procs = {p1}
    Background = TRUE
    MaxConcurrent = 1
    MaxQueued = 1
    OnOverflow = {"fallback", "skip"}
    Skippable = {e1}
    Gated = {e2}
    Parts = 2
    Attempts = 2
    MayFail = {"isProcessed", "markProcessed", "logActivity", "createManualTask"}
    MaxFaults = 2
    MaxCrashes = 1
INVARIANTS
    ProcessedIsHandled
    RepeatsArePaidFor
PROPERTIES
    JobsEnd
CHECK_DEADLOCK FALSE
