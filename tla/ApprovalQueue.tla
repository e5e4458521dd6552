---------------------------- MODULE ApprovalQueue ----------------------------
(***************************************************************************)
(* The approval queue (modules/approvals) composed with an actor whose     *)
(* handler needs an approval before it works.  A request is a row of       *)
(* Approval with its PendingAction, one per actor and event, so both are   *)
(* named by the event.  Deliveries in Resumes are the copies in which the  *)
(* bus delivers approval.granted; each is claimed before the actor sees it.*)
(* Every database statement of a delivery is a step; a decision and an     *)
(* expiry are transactions under the row's lock, hence one step each.      *)
(*                                                                         *)
(* Left out: alerts, audit rows, activity entries, lists and the summary   *)
(* cache, and the four-eyes rule, which only narrows who may decide.       *)
(***************************************************************************)
EXTENDS BaseWorker

CONSTANT GrantMayFail   \* statements of a resume that may fail

GrantCalls == {"claim", "createManualTask", "abandon"}

ASSUME ApprovalAssumption == GrantMayFail \subseteq GrantCalls

VARIABLES
    status,      \* per event: status of its Approval, "none" before the request
    due,         \* requests whose expiresAt has passed
    resumed,     \* requests with PendingAction.resumedAt set
    grant,       \* per delivery of approval.granted: where resumeGrantedApproval is
    registered   \* per process: is the actor in actorRegistry?

queueVars == <<status, due, resumed>>
approvalVars == <<status, due, resumed, grant, registered>>
allVars == <<vars, approvalVars>>

Grants == {j \in Jobs : Resuming(j)}

ApprovalTypeOK ==
    /\ TypeOK
    /\ status \in [Events -> {"none", "PENDING", "GRANTED", "DENIED", "EXPIRED"}]
    /\ due \subseteq Events
    /\ resumed \subseteq Events
    /\ grant \in [Grants -> {"absent", "found", "claimed", "handed", "gone", "goneMark",
                             "ended", "lost"}]
    /\ registered \in [Procs -> BOOLEAN]

InitApprovals ==
    /\ Init
    /\ status = [e \in Events |-> "none"]
    /\ due = {}
    /\ resumed = {}
    /\ grant = [j \in Grants |-> "absent"]
    /\ registered = [p \in Procs |-> TRUE]

-----------------------------------------------------------------------------
(* The actor's side *)

\* The actor's process only binds its handler while it knows the actor.
DeliverEvent(j) ==
    /\ ~Resuming(j)
    /\ registered[at[j]]
    /\ Deliver(j)
    /\ UNCHANGED approvalVars

\* requestApproval: one request per actor and event, an existing one is kept.
RequestApproval(j) ==
    /\ Ask(j)
    /\ status' = [status EXCEPT ![j[1]] = IF @ = "none" THEN "PENDING" ELSE @]
    /\ UNCHANGED <<due, resumed, grant, registered>>

-----------------------------------------------------------------------------
(* Decisions and expiry *)

\* expiresAt passes.
FallsDue(e) ==
    /\ status[e] = "PENDING"
    /\ due' = due \cup {e}
    /\ UNCHANGED <<vars, status, resumed, grant, registered>>

\* decideApproval: a refusal closes the actor's job in the same transaction.
Decide(e) ==
    /\ status[e] = "PENDING"
    /\ e \notin due
    /\ \E decision \in {"GRANTED", "DENIED"} :
          /\ status' = [status EXCEPT ![e] = decision]
          /\ processed' = IF decision = "DENIED" THEN processed \cup {e} ELSE processed
    /\ UNCHANGED <<jobs, pool, effects, tasks, skipped, enabled, incidents, due, resumed, grant,
                   registered>>

\* Mutant: the expired request is not closed for the actor.
ExpireOnly(e) ==
    /\ status[e] = "PENDING"
    /\ e \in due
    /\ status' = [status EXCEPT ![e] = "EXPIRED"]
    /\ UNCHANGED <<vars, due, resumed, grant, registered>>

\* Mutant: the scan compares expiresAt the wrong way round.
ExpireEarly(e) ==
    /\ status[e] = "PENDING"
    /\ e \notin due
    /\ status' = [status EXCEPT ![e] = "EXPIRED"]
    /\ processed' = processed \cup {e}
    /\ UNCHANGED <<jobs, pool, effects, tasks, skipped, enabled, incidents, due, resumed, grant,
                   registered>>

\* expireIfDue and expireApprovals: both close the actor's job.
Expire(e) ==
    /\ status[e] = "PENDING"
    /\ e \in due
    /\ status' = [status EXCEPT ![e] = "EXPIRED"]
    /\ processed' = processed \cup {e}
    /\ UNCHANGED <<jobs, pool, effects, tasks, skipped, enabled, incidents, due, resumed, grant,
                   registered>>

-----------------------------------------------------------------------------
(* resumeGrantedApproval, for one delivery of approval.granted *)

GrantTo(j, step) == grant' = [grant EXCEPT ![j] = step]

\* claimPendingAction reads a granted request that nobody resumed.
GrantArrives(j) ==
    /\ grant[j] = "absent"
    /\ status[j[1]] = "GRANTED"
    /\ GrantTo(j, IF j[1] \in resumed THEN "ended" ELSE "found")
    /\ UNCHANGED <<vars, queueVars, registered>>

\* Mutant: the claim does not ask again whether somebody resumed.
ClaimAgain(j) ==
    /\ grant[j] = "found"
    /\ GrantTo(j, "claimed")
    /\ resumed' = resumed \cup {j[1]}
    /\ UNCHANGED <<vars, status, due, registered>>

\* The conditional update: one delivery wins.
Claim(j) ==
    /\ grant[j] = "found"
    /\ GrantTo(j, IF j[1] \in resumed THEN "ended" ELSE "claimed")
    /\ resumed' = resumed \cup {j[1]}
    /\ UNCHANGED <<vars, status, due, registered>>

\* Mutant: the claim is taken back when the actor is not registered.
ResumeOrRelease(j) ==
    /\ grant[j] = "claimed"
    /\ \/ /\ registered[at[j]]
          /\ Handle(j)
          /\ GrantTo(j, "handed")
          /\ UNCHANGED resumed
       \/ /\ ~registered[at[j]]
          /\ GrantTo(j, "ended")
          /\ resumed' = resumed \ {j[1]}
          /\ UNCHANGED vars
    /\ UNCHANGED <<status, due, registered>>

\* The claimed job goes to the actor's handle(), or is given to the staff.
Resume(j) ==
    /\ grant[j] = "claimed"
    /\ \/ registered[at[j]] /\ Handle(j) /\ GrantTo(j, "handed")
       \/ ~registered[at[j]] /\ GrantTo(j, "gone") /\ UNCHANGED vars
    /\ UNCHANGED <<queueVars, registered>>

\* The actor is not registered: manual task, then markPendingActionAbandoned.
TaskForGone(j) ==
    /\ grant[j] = "gone"
    /\ GrantTo(j, "goneMark")
    /\ tasks' = [tasks EXCEPT ![j[1]] = @ + 1]
    /\ UNCHANGED <<jobs, pool, processed, effects, skipped, enabled, incidents,
                   queueVars, registered>>

Abandon(j) ==
    /\ grant[j] = "goneMark"
    /\ GrantTo(j, "ended")
    /\ processed' = processed \cup {j[1]}
    /\ UNCHANGED <<jobs, pool, effects, tasks, skipped, enabled, incidents, queueVars,
                   registered>>

\* A statement fails: the bus logs the error and the delivery is over.
GrantFails(j) ==
    /\ \/ grant[j] \in {"absent", "found"} /\ "claim" \in GrantMayFail
       \/ grant[j] = "gone" /\ "createManualTask" \in GrantMayFail
       \/ grant[j] = "goneMark" /\ "abandon" \in GrantMayFail
    /\ status[j[1]] = "GRANTED"
    /\ faults < MaxFaults
    /\ faults' = faults + 1
    /\ GrantTo(j, "ended")
    /\ UNCHANGED <<jobs, pool, processed, effects, tasks, skipped, enabled, crashes, torn,
                   crossed, taskless, queueVars, registered>>

-----------------------------------------------------------------------------
(* Processes *)

CrashProcess(p) ==
    /\ Crash(p)
    /\ grant' = [j \in Grants |->
                   IF at[j] = p /\ grant[j] \in {"found", "claimed", "gone", "goneMark"}
                   THEN "lost" ELSE grant[j]]
    /\ UNCHANGED <<queueVars, registered>>

\* A process restarts with a version that no longer has the actor.
Unregister(p) ==
    /\ registered[p]
    /\ \A j \in Jobs : at[j] = p => ~Active(j)
    /\ \A j \in Grants : at[j] = p => grant[j] \in {"absent", "handed", "ended", "lost"}
    /\ registered' = [registered EXCEPT ![p] = FALSE]
    /\ UNCHANGED <<vars, queueVars, grant>>

-----------------------------------------------------------------------------
JobStep(j)   == Work(j) /\ UNCHANGED approvalVars
GrantStep(j) == Claim(j) \/ Resume(j) \/ TaskForGone(j) \/ Abandon(j)

NextApprovals ==
    \/ \E j \in Jobs : DeliverEvent(j) \/ JobStep(j) \/ RequestApproval(j)
    \/ \E j \in Jobs : CallFails(j) /\ UNCHANGED approvalVars
    \/ \E j \in Grants : GrantArrives(j) \/ GrantStep(j) \/ GrantFails(j)
    \/ \E e \in Events : FallsDue(e) \/ Decide(e) \/ Expire(e)
    \/ \E p \in Procs : CrashProcess(p) \/ Unregister(p)
    \/ Toggle /\ UNCHANGED approvalVars

SpecApprovals == InitApprovals /\ [][NextApprovals]_allVars

\* Jobs and resumes at work keep running; the expiry job runs every minute;
\* the outbox delivers a committed approval.granted at least once.
KeptGoing ==
    /\ \A j \in Jobs : WF_allVars(JobStep(j) \/ RequestApproval(j))
    /\ \A j \in Grants : WF_allVars(GrantStep(j))
    /\ \A e \in Events : WF_allVars(Expire(e))
    /\ \A e \in Events : WF_allVars(\E j \in Grants : j[1] = e /\ GrantArrives(j))

-----------------------------------------------------------------------------
(* Properties *)

\* approval.js, service.js: work that needs an approval is done only under a grant
\* that a delivery claimed, and by that delivery alone, however often the news of the
\* grant comes and whoever handles the event meanwhile: a part is committed again only
\* when an attempt of that very job failed after committing something.
GrantedWorkOnce ==
    \A e \in Gated, i \in 1 .. Parts :
        /\ effects[e][i] > 0 => status[e] = "GRANTED" /\ e \in resumed
        /\ effects[e][i] <= 1 + torn[e]

\* A refused or expired request is closed for its actor for good: the event
\* counts as processed and no part of the work is ever done.
RefusedIsClosed ==
    \A e \in Gated :
        status[e] \in {"DENIED", "EXPIRED"} =>
            e \in processed /\ \A i \in 1 .. Parts : effects[e][i] = 0

\* A decision is never changed, and a request that fell due is not granted.
DecisionIsFinal ==
    [][\A e \in Events :
          /\ status[e] \in {"GRANTED", "DENIED", "EXPIRED"} => status'[e] = status[e]
          /\ e \in due /\ status'[e] = "GRANTED" => status[e] = "GRANTED"]_allVars

\* Granted work is done by the actor or given to the staff, unless a process
\* dies or a bookkeeping call fails on the way.
GrantedIsDone ==
    \A e \in Events :
        status[e] = "GRANTED" ~> (WorkDone(e) \/ tasks[e] > 0 \/ crashes + faults > 0)

\* A request that fell due does not stay open.
DueIsSettled == \A e \in Events : (e \in due) ~> (status[e] # "PENDING")

=============================================================================
