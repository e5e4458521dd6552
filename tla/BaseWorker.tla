----------------------------- MODULE BaseWorker -----------------------------
(***************************************************************************)
(* shared/actor-kit/base-worker.js, as it runs for one actor on the server *)
(* processes that share its ProcessedEvent table.  Every delivery of an    *)
(* event is a job <<event, delivery>>.  A job awaits the database between  *)
(* its steps, so jobs of one process interleave, and so do processes.      *)
(*                                                                         *)
(* A foreground actor handles a delivery at once; a background actor has a *)
(* pool of slots and a bounded in-memory queue per process.  Deliveries in *)
(* Resumes are calls of handle() with an approval.  Activity log entries   *)
(* written under #safely and afterFallback change none of this state and   *)
(* are left out; the one entry whose failure reaches the catch block is    *)
(* the step "log".                                                         *)
(*                                                                         *)
(* A handler calls services that commit one transaction after the other    *)
(* (billing-worker/index.js:88-99, housekeeping-worker/index.js:139-168)   *)
(* and may throw between them; a retry starts again from the first.  What  *)
(* a service does with a repeated call is modelled in its own module.      *)
(***************************************************************************)
EXTENDS Naturals, Sequences, FiniteSets

CONSTANTS
    Events,         \* events the actor handles
    Deliveries,     \* deliveries an event may have (request, relay, ...)
    Resumes,        \* those that continue an approved job
    Procs,          \* server processes
    Background,     \* manifest.background given?
    MaxConcurrent,  \* background.maxConcurrent
    MaxQueued,      \* background.maxQueued
    OnOverflow,     \* background.onOverflow, "fallback" or "skip": the policies in play
    Skippable,      \* events for which skipWhenDisabled() holds
    Gated,          \* events whose handler calls ctx.requireApproval
    Parts,          \* transactions a handler commits, one after the other
    Attempts,       \* manifest.retry.attempts
    MayFail,        \* dependency calls that may fail
    MaxFaults,      \* bound on failing calls
    MaxCrashes      \* bound on process crashes

Calls == {"isProcessed", "isEnabled", "markProcessed", "logActivity",
          "createManualTask", "requestApproval"}

ASSUME WorkerAssumption ==
    /\ IsFiniteSet(Events) /\ IsFiniteSet(Deliveries)
    /\ Resumes \subseteq Deliveries
    /\ Background \in BOOLEAN
    /\ MaxConcurrent \in Nat \ {0}
    /\ MaxQueued \in Nat \ {0}
    /\ OnOverflow \subseteq {"fallback", "skip"} /\ OnOverflow # {}
    /\ Skippable \subseteq Events
    /\ Gated \subseteq Events
    /\ Parts \in Nat \ {0}
    /\ Attempts \in Nat \ {0}
    /\ MayFail \subseteq Calls
    /\ MaxFaults \in Nat
    /\ MaxCrashes \in Nat

Jobs == Events \X Deliveries

VARIABLES
    pc,         \* where each job is
    at,         \* process that runs it
    try,        \* handler attempt
    part,       \* transactions this attempt has committed
    queue,      \* per process: #queue
    running,    \* per process: #running
    processed,  \* events with a ProcessedEvent row
    effects,    \* how often each part of the handler's work was committed
    tasks,      \* manual tasks opened
    skipped,    \* events skipped: actor off, or queue full and onOverflow = skip
    enabled,    \* ActorSetting.enabled
    faults,     \* failed calls so far
    crashes,    \* crashes so far
    torn,       \* per event: attempts that failed after committing a part
    crossed,    \* per event: deliveries that came while an earlier one was at work
    taskless    \* events whose manual task could not be written after an error

jobs == <<pc, at, try, part>>
pool == <<queue, running>>
incidents == <<faults, crashes, torn, crossed, taskless>>
vars == <<jobs, pool, processed, effects, tasks, skipped, enabled, incidents>>

\* Steps of handle(), those of #overflow, and the rest.
HandleSteps   == {"check", "gate", "run", "mark", "log", "ask", "askLog", "offTask",
                  "offMark", "skipMark", "errTask", "errMark", "end"}
OverflowSteps == {"ovCheck", "ovTask", "ovMark"}
Steps == HandleSteps \cup OverflowSteps \cup {"absent", "queued", "done", "lost"}

Active(j)   == pc[j] \notin {"absent", "done", "lost"}
Resuming(j) == j[2] \in Resumes

\* Jobs that go through the pool: a resumed job calls handle() directly.
Pooled(j) == Background /\ ~Resuming(j)
Slots(p)  == {j \in Jobs : Pooled(j) /\ at[j] = p /\ pc[j] \in HandleSteps}

TypeOK ==
    /\ pc \in [Jobs -> Steps]
    /\ at \in [Jobs -> Procs]
    /\ try \in [Jobs -> 1 .. Attempts]
    /\ part \in [Jobs -> 0 .. Parts]
    /\ queue \in [Procs -> Seq(Jobs)]
    /\ running \in [Procs -> Nat]
    /\ processed \subseteq Events
    /\ effects \in [Events -> [1 .. Parts -> Nat]]
    /\ tasks \in [Events -> Nat]
    /\ skipped \subseteq Events
    /\ enabled \in BOOLEAN
    /\ faults \in Nat
    /\ crashes \in Nat
    /\ torn \in [Events -> Nat]
    /\ crossed \in [Events -> Nat]
    /\ taskless \subseteq Events

\* A process that has just started, whatever is delivered to it.
Started ==
    /\ at \in [Jobs -> Procs]
    /\ try = [j \in Jobs |-> 1]
    /\ part = [j \in Jobs |-> 0]
    /\ queue = [p \in Procs |-> <<>>]
    /\ running = [p \in Procs |-> 0]
    /\ processed = {}
    /\ effects = [e \in Events |-> [i \in 1 .. Parts |-> 0]]
    /\ tasks = [e \in Events |-> 0]
    /\ skipped = {}
    /\ enabled = TRUE
    /\ faults = 0
    /\ crashes = 0
    /\ torn = [e \in Events |-> 0]
    /\ crossed = [e \in Events |-> 0]
    /\ taskless = {}

Init == Started /\ pc = [j \in Jobs |-> "absent"]

-----------------------------------------------------------------------------
(* bind(), #enqueue, #start and the release of a slot *)

Goto(j, step) == pc' = [pc EXCEPT ![j] = step]

Arrives(j) ==
    /\ pc[j] = "absent"
    /\ Resuming(j) => j[1] \in Gated
    /\ crossed' = IF \E k \in Jobs : k[1] = j[1] /\ Active(k)
                  THEN [crossed EXCEPT ![j[1]] = @ + 1] ELSE crossed
    /\ UNCHANGED <<at, try, part, processed, effects, tasks, enabled, faults, crashes, torn,
                   taskless>>

\* A foreground actor handles the event at once.
Handle(j) ==
    /\ Arrives(j)
    /\ ~Pooled(j)
    /\ Goto(j, "check")
    /\ UNCHANGED <<pool, skipped>>

\* A slot is free: #start.
EnqueueStarts(j) ==
    /\ Arrives(j)
    /\ Pooled(j)
    /\ running[at[j]] < MaxConcurrent
    /\ Goto(j, "check")
    /\ running' = [running EXCEPT ![at[j]] = @ + 1]
    /\ UNCHANGED <<queue, skipped>>

EnqueueWaits(j) ==
    /\ Arrives(j)
    /\ Pooled(j)
    /\ running[at[j]] >= MaxConcurrent
    /\ Len(queue[at[j]]) < MaxQueued
    /\ Goto(j, "queued")
    /\ queue' = [queue EXCEPT ![at[j]] = Append(@, j)]
    /\ UNCHANGED <<running, skipped>>

\* The queue is full: the event goes to the staff or is skipped.
EnqueueOverflows(j) ==
    /\ Arrives(j)
    /\ Pooled(j)
    /\ running[at[j]] >= MaxConcurrent
    /\ Len(queue[at[j]]) >= MaxQueued
    /\ \/ "skip" \in OnOverflow /\ Goto(j, "done") /\ skipped' = skipped \cup {j[1]}
       \/ "fallback" \in OnOverflow /\ Goto(j, "ovCheck") /\ UNCHANGED skipped
    /\ UNCHANGED pool

\* Mutant: the slot is released and the head of the queue is left waiting.
ReleaseOnly(j) ==
    /\ pc[j] = "end"
    /\ Goto(j, "done")
    /\ running' = [running EXCEPT ![at[j]] = @ - 1]
    /\ UNCHANGED <<at, try, part, queue, processed, effects, tasks, skipped, enabled,
                   incidents>>

\* The finally block of #start: the slot goes to the head of the queue.
Release(j) ==
    LET p == at[j]
    IN  /\ pc[j] = "end"
        /\ \/ /\ queue[p] = <<>>
              /\ Goto(j, "done")
              /\ running' = [running EXCEPT ![p] = @ - 1]
              /\ UNCHANGED queue
           \/ /\ queue[p] # <<>>
              /\ pc' = [pc EXCEPT ![j] = "done", ![Head(queue[p])] = "check"]
              /\ queue' = [queue EXCEPT ![p] = Tail(@)]
              /\ UNCHANGED running
        /\ UNCHANGED <<at, try, part, processed, effects, tasks, skipped, enabled, incidents>>

-----------------------------------------------------------------------------
(* handle() *)

\* handle() returns: a pooled job still holds its slot.
Returns(j) == Goto(j, IF Pooled(j) THEN "end" ELSE "done")

Check(j) ==
    /\ pc[j] = "check"
    /\ IF j[1] \in processed THEN Returns(j)
       ELSE Goto(j, IF Resuming(j) THEN "run" ELSE "gate")
    /\ UNCHANGED <<at, try, part, pool, processed, effects, tasks, skipped, enabled, incidents>>

Gate(j) ==
    /\ pc[j] = "gate"
    /\ Goto(j, IF enabled THEN "run"
               ELSE IF j[1] \in Skippable THEN "skipMark" ELSE "offTask")
    /\ UNCHANGED <<at, try, part, pool, processed, effects, tasks, skipped, enabled, incidents>>

\* The handler commits its next transaction: only an approved job does gated work.
HandlerCommits(j) ==
    /\ pc[j] = "run"
    /\ j[1] \in Gated => Resuming(j)
    /\ part[j] < Parts
    /\ part' = [part EXCEPT ![j] = @ + 1]
    /\ effects' = [effects EXCEPT ![j[1]][part[j] + 1] = @ + 1]
    /\ UNCHANGED <<pc, at, try, pool, processed, tasks, skipped, enabled, incidents>>

\* #runWithRetry is over: its attempt is a local of the call.
LeavesRetry(j, step) ==
    /\ Goto(j, step)
    /\ try' = [try EXCEPT ![j] = 1]
    /\ part' = [part EXCEPT ![j] = 0]

\* The handler returns.
HandlerSucceeds(j) ==
    /\ pc[j] = "run"
    /\ part[j] = Parts
    /\ LeavesRetry(j, "mark")
    /\ UNCHANGED <<at, pool, processed, effects, tasks, skipped, enabled, incidents>>

\* The attempt ends in an error: what it committed stays committed.
AttemptBreaks(j) ==
    /\ pc[j] = "run"
    /\ torn' = IF part[j] > 0 THEN [torn EXCEPT ![j[1]] = @ + 1] ELSE torn
    /\ UNCHANGED <<at, pool, processed, effects, tasks, skipped, enabled, faults, crashes,
                   crossed, taskless>>

\* A transient error: the whole handler runs again, at most Attempts times in all.
HandlerFails(j) ==
    /\ AttemptBreaks(j)
    /\ \/ /\ try[j] < Attempts
          /\ try' = [try EXCEPT ![j] = @ + 1]
          /\ part' = [part EXCEPT ![j] = 0]
          /\ UNCHANGED pc
       \/ try[j] = Attempts /\ LeavesRetry(j, "errTask")

\* error.retryable = false.
HandlerRefuses(j) == AttemptBreaks(j) /\ LeavesRetry(j, "errTask")

\* ApprovalRequired; asking again in an approved job is an error.
HandlerAsks(j) ==
    /\ AttemptBreaks(j)
    /\ j[1] \in Gated
    /\ LeavesRetry(j, IF Resuming(j) THEN "errTask" ELSE "ask")

\* #sendToApproval: requestApproval answered, then the activity entry.
Ask(j) ==
    /\ pc[j] = "ask"
    /\ Goto(j, "askLog")
    /\ UNCHANGED <<at, try, part, pool, processed, effects, tasks, skipped, enabled, incidents>>

\* Mutant: a handler that ran is not recorded.
MarkForgotten(j) ==
    /\ pc[j] \in {"mark", "offMark", "errMark", "ovMark", "skipMark"}
    /\ \/ pc[j] = "mark" /\ Goto(j, "log")
       \/ pc[j] \in {"offMark", "errMark", "skipMark"} /\ Returns(j)
       \/ pc[j] = "ovMark" /\ Goto(j, "done")
    /\ skipped' = IF pc[j] = "skipMark" THEN skipped \cup {j[1]} ELSE skipped
    /\ UNCHANGED <<at, try, part, pool, processed, effects, tasks, enabled, incidents>>

\* markProcessed, after the work, after a manual task, or for skipped work.
Mark(j) ==
    /\ pc[j] \in {"mark", "offMark", "errMark", "ovMark", "skipMark"}
    /\ \/ pc[j] = "mark" /\ Goto(j, "log")
       \/ pc[j] \in {"offMark", "errMark", "skipMark"} /\ Returns(j)
       \/ pc[j] = "ovMark" /\ Goto(j, "done")
    /\ processed' = processed \cup {j[1]}
    /\ skipped' = IF pc[j] = "skipMark" THEN skipped \cup {j[1]} ELSE skipped
    /\ UNCHANGED <<at, try, part, pool, effects, tasks, enabled, incidents>>

\* The last activity entry of a job that worked or asked.
Log(j) ==
    /\ pc[j] \in {"log", "askLog"}
    /\ Returns(j)
    /\ UNCHANGED <<at, try, part, pool, processed, effects, tasks, skipped, enabled, incidents>>

\* #overflow looks for the ProcessedEvent row like handle() does.
OverflowCheck(j) ==
    /\ pc[j] = "ovCheck"
    /\ Goto(j, IF j[1] \in processed THEN "done" ELSE "ovTask")
    /\ UNCHANGED <<at, try, part, pool, processed, effects, tasks, skipped, enabled, incidents>>

AfterTask == [offTask |-> "offMark", errTask |-> "errMark", ovTask |-> "ovMark"]

\* Mutant: the event goes on to be marked and no task is opened.
FallbackWithoutTask(j) ==
    /\ pc[j] \in DOMAIN AfterTask
    /\ Goto(j, AfterTask[pc[j]])
    /\ UNCHANGED <<at, try, part, pool, processed, effects, tasks, skipped, enabled, incidents>>

\* #fallbackToManualTask.
Fallback(j) ==
    /\ pc[j] \in DOMAIN AfterTask
    /\ Goto(j, AfterTask[pc[j]])
    /\ tasks' = [tasks EXCEPT ![j[1]] = @ + 1]
    /\ UNCHANGED <<at, try, part, pool, processed, effects, skipped, enabled, incidents>>

-----------------------------------------------------------------------------
(* Faults *)

CallAt(step) ==
    CASE step \in {"check", "ovCheck"} -> "isProcessed"
      [] step = "gate" -> "isEnabled"
      [] step \in {"mark", "offMark", "skipMark", "errMark", "ovMark"} -> "markProcessed"
      [] step \in {"log", "askLog"} -> "logActivity"
      [] step = "ask" -> "requestApproval"
      [] step \in {"offTask", "errTask", "ovTask"} -> "createManualTask"
      [] OTHER -> "none"

\* A dependency call fails.  Before the catch block: the work goes to the
\* staff; in it, and in #overflow, the rest is attempted or given up (#safely).
CallFails(j) ==
    /\ CallAt(pc[j]) \in MayFail
    /\ faults < MaxFaults
    /\ faults' = faults + 1
    /\ \/ pc[j] = "errTask" /\ Goto(j, "errMark")
       \/ pc[j] = "errMark" /\ Returns(j)
       \/ pc[j] \in OverflowSteps /\ Goto(j, "done")
       \/ pc[j] \notin OverflowSteps \cup {"errTask", "errMark"} /\ Goto(j, "errTask")
    /\ taskless' = IF pc[j] = "errTask" THEN taskless \cup {j[1]} ELSE taskless
    /\ UNCHANGED <<at, try, part, pool, processed, effects, tasks, skipped, enabled, crashes,
                   torn, crossed>>

\* The process dies: its jobs and its queue were in memory.
Crash(p) ==
    /\ crashes < MaxCrashes
    /\ crashes' = crashes + 1
    /\ LET dies(j) == at[j] = p /\ Active(j)
       IN  /\ pc' = [j \in Jobs |-> IF dies(j) THEN "lost" ELSE pc[j]]
           /\ try' = [j \in Jobs |-> IF dies(j) THEN 1 ELSE try[j]]
           /\ part' = [j \in Jobs |-> IF dies(j) THEN 0 ELSE part[j]]
    /\ queue' = [queue EXCEPT ![p] = <<>>]
    /\ running' = [running EXCEPT ![p] = 0]
    /\ UNCHANGED <<at, processed, effects, tasks, skipped, enabled, faults, torn, crossed,
                   taskless>>

\* A manager switches the actor on or off (modules/actors).
Toggle ==
    /\ enabled' = ~enabled
    /\ UNCHANGED <<jobs, pool, processed, effects, tasks, skipped, incidents>>

-----------------------------------------------------------------------------
Deliver(j) ==
    \/ Handle(j) \/ EnqueueStarts(j) \/ EnqueueWaits(j) \/ EnqueueOverflows(j)

\* The steps a started job owes, but for Ask, which needs the approval queue.
Work(j) ==
    \/ Check(j) \/ Gate(j) \/ HandlerCommits(j) \/ HandlerSucceeds(j) \/ HandlerFails(j)
    \/ HandlerRefuses(j) \/ HandlerAsks(j) \/ Mark(j) \/ Log(j) \/ OverflowCheck(j) \/ Fallback(j) \/ Release(j)

Next ==
    \/ \E j \in Jobs : Deliver(j) \/ Work(j) \/ Ask(j) \/ CallFails(j)
    \/ \E p \in Procs : Crash(p)
    \/ Toggle

Spec == Init /\ [][Next]_vars

\* While a job is at work, some job goes on: awaits are answered, and a handler
\* that fails is retried a bounded number of times.
GoesOn == WF_vars(\E j \in Jobs : Work(j) \/ Ask(j))

-----------------------------------------------------------------------------
(* Properties *)

\* The counter of a process is the number of jobs that hold one of its slots.
SlotsCounted(p) == running[p] = Cardinality(Slots(p))

WithinLimits(p) ==
    /\ running[p] <= MaxConcurrent
    /\ Len(queue[p]) <= MaxQueued
    /\ queue[p] # <<>> => running[p] = MaxConcurrent

\* The queue holds exactly the waiting jobs of its process, each once.
QueueExact(p) ==
    /\ \A j \in Jobs :
          (pc[j] = "queued" /\ at[j] = p) <=> \E i \in 1 .. Len(queue[p]) : queue[p][i] = j
    /\ \A i, k \in 1 .. Len(queue[p]) : queue[p][i] = queue[p][k] => i = k

\* The pool of a process never exceeds its limits, its counter is the number
\* of jobs that hold a slot, the queue holds exactly the waiting jobs, each
\* once, and nobody waits while a slot is free.
PoolInv == \A p \in Procs : SlotsCounted(p) /\ WithinLimits(p) /\ QueueExact(p)

WorkDone(e) == \A i \in 1 .. Parts : effects[e][i] > 0
Handled(e)  == WorkDone(e) \/ tasks[e] > 0 \/ e \in skipped

\* An event is recorded as processed only when the whole of its work was done,
\* or it was handed to the staff or skipped on purpose: the record shuts out
\* every later delivery, so work left half done by a failing handler must be in
\* front of the staff.  The one gap is a manual task that could not be written
\* in the catch block of handle(), which goes on to record the event.
ProcessedIsHandled == \A e \in processed : Handled(e) \/ e \in taskless

\* Incidents that may cost an event a repeated outcome.
Paid(e) == crashes + faults + torn[e] + crossed[e]

\* A part of the work is committed again, or handed out beside what was
\* committed, only for a reason that can be named: a crash, a failed bookkeeping
\* call, an attempt of the handler that failed after committing something, or a
\* delivery that came while an earlier one was at work; one extra outcome each.
RepeatsArePaidFor ==
    \A e \in Events, i \in 1 .. Parts : effects[e][i] + tasks[e] <= 1 + Paid(e)

\* The worker comes to rest: whatever is delivered, whatever fails or dies, no
\* job is left waiting for a slot that is free or for an answer.
JobsEnd == []<>(\A j \in Jobs : ~Active(j))
=============================================================================
