----------------------------- MODULE StayRooms -----------------------------
(***************************************************************************)
(* The front desk, the rooms and the cleaning tasks of one business day.   *)
(*                                                                         *)
(* Each operation is one transaction that holds the reservation and its    *)
(* room locked from its checks to its commit, so it is one step here.  The *)
(* room itself is told afterwards: room-worker and housekeeping-worker     *)
(* handle the committed events one by one, in any order (a failed dispatch *)
(* is sent again later), possibly again after a crash, or not at all when  *)
(* the actor is off or its handler fails for good and the staff get a      *)
(* manual task.                                                            *)
(*                                                                         *)
(* Left out: fees, folios, identities and versions, which guard these      *)
(* steps further; room blocks, capacities and overbooking (Inventory);     *)
(* guests who arrive days late; requests, assignment, the deep cleaning of *)
(* a room that is unblocked, and the start of a task, which only marks the *)
(* room as being cleaned.                                                  *)
(***************************************************************************)
EXTENDS Naturals

CONSTANTS
    Stays,     \* reservations of the day: arrivals and guests in house
    Rooms,
    None,      \* no room
    MaxSteps   \* bound: steps of people, runs of the job, events that come again

ASSUME StayAssumption ==
    /\ None \notin Rooms
    /\ MaxSteps \in Nat

\* DIRTY stands for CLEANING too: neither is ready for a guest.
Statuses == {"DIRTY", "CLEAN", "INSPECTED"}
Cleanings == {"STAYOVER", "CHECKOUT_CLEAN", "DEEP_CLEAN"}
Fields == {"occupancy", "housekeeping", "task"}

\* The events of the two workers; a handler writes the fields named.
RoomEvents == {"checked_in", "checked_out", "check_in_reverted", "check_out_reverted"}
CleaningEvents == {"completed", "passed", "failed"}
TaskEvents == {"open_checkout_clean", "cancel_checkout_clean"}

Writes(event) ==
    CASE event = "checked_out"            -> {"occupancy", "housekeeping"}
      [] event \in RoomEvents \ {"checked_out"} -> {"occupancy"}
      [] event \in CleaningEvents         -> {"housekeeping"}
      [] event \in TaskEvents             -> {"task"}

News == [event : RoomEvents \union CleaningEvents \union TaskEvents,
         room : Rooms, newest : SUBSET Fields]

VARIABLES
    stay,          \* the reservations
    occupancy,     \* Room.occupancy
    housekeeping,  \* Room.housekeepingStatus
    openTask,      \* the type of the room's open cleaning task, or "NONE"
    toInspect,     \* types of the room's finished cleanings nobody has inspected
    tasked,        \* rooms with a cleaning task of today, whatever became of it
    planned,       \* rooms the stay-over job has read and not yet locked
    news,          \* committed events a worker has still to handle
    steps,         \* steps taken, for the bound
    current,       \* current[r]: fields last written by the newest fact about them
    dirt,          \* what the room really looks like since a guest left it
    shared         \* rooms a guest was moved into while another was inside

roomVars == <<occupancy, housekeeping>>
taskVars == <<openTask, toInspect, tasked, planned>>
vars == <<stay, roomVars, taskVars, news, steps, current, dirt, shared>>

Stay == [status : {"CONFIRMED", "CHECKED_IN", "CHECKED_OUT"},
         room : Rooms \union {None},
         tonight : BOOLEAN,     \* checkOut is after the business day
         cameToday : BOOLEAN]   \* checkedInAt is today

Inside(r) == {g \in Stays : stay[g].status = "CHECKED_IN" /\ stay[g].room = r}

AtMostOne(guests) == \A g, h \in guests : g = h

\* consumesInventory of a stay that has the room tonight.
Booked(r) == {g \in Stays : /\ stay[g].status \in {"CONFIRMED", "CHECKED_IN"}
                            /\ stay[g].room = r /\ stay[g].tonight}

\* The morning: every room has been cleaned, guests of last night are in
\* their rooms, and no two stays have one room for the same night.
Init ==
    /\ stay \in [Stays -> {s \in Stay : /\ s.status # "CHECKED_OUT" /\ ~s.cameToday
                                        /\ s.status = "CONFIRMED" => s.tonight
                                        /\ s.status = "CHECKED_IN" => s.room # None}]
    /\ \A r \in Rooms : AtMostOne(Inside(r)) /\ AtMostOne(Booked(r))
    /\ occupancy = [r \in Rooms |-> IF Inside(r) = {} THEN "VACANT" ELSE "OCCUPIED"]
    /\ housekeeping = [r \in Rooms |-> "CLEAN"]
    /\ openTask = [r \in Rooms |-> "NONE"]
    /\ toInspect = [r \in Rooms |-> {}]
    /\ tasked = {} /\ planned = {} /\ news = {} /\ steps = 0 /\ shared = {}
    /\ current = [r \in Rooms |-> Fields]
    /\ dirt = [r \in Rooms |-> "NONE"]

-----------------------------------------------------------------------------
(* A new fact about a room makes what is under way about the same fields old. *)

Step == steps < MaxSteps /\ steps' = steps + 1

Outdated(r, fs) == {[m EXCEPT !.newest = IF m.room = r THEN @ \ fs ELSE @] : m \in news}

\* The events of a step on room r are committed with it.
Tell(r, events) ==
    LET fs == UNION {Writes(e) : e \in events}
    IN  /\ Step
        /\ news' = Outdated(r, fs) \union
                   {[event |-> e, room |-> r, newest |-> Writes(e)] : e \in events}
        /\ current' = [current EXCEPT ![r] = @ \ fs]

\* A person or the step itself writes the fields of the room.
Wrote(r, fs) == news' = Outdated(r, fs) /\ current' = [current EXCEPT ![r] = @ \union fs]

-----------------------------------------------------------------------------
(* Front desk *)

NoOccupant(g, r) == Inside(r) \subseteq {g}            \* findOccupant
NoConflict(g, r) == Booked(r) \subseteq {g}            \* roomConflictForStay

\* Mutant: nobody looks whether the last guest has left.
CheckInOver(g, r) ==
    /\ stay[g].status = "CONFIRMED" /\ stay[g].tonight
    /\ NoConflict(g, r)
    /\ stay' = [stay EXCEPT ![g] = [@ EXCEPT !.status = "CHECKED_IN", !.room = r,
                                             !.cameToday = TRUE]]
    /\ Tell(r, {"checked_in"})
    /\ UNCHANGED <<roomVars, taskVars, dirt, shared>>

\* The guest arrives and gets the room of the reservation or another one.  A
\* room that is not ready is accepted by the receptionist or the call fails.
CheckIn(g, r) ==
    /\ stay[g].status = "CONFIRMED" /\ stay[g].tonight
    /\ NoOccupant(g, r) /\ NoConflict(g, r)
    /\ stay' = [stay EXCEPT ![g] = [@ EXCEPT !.status = "CHECKED_IN", !.room = r,
                                             !.cameToday = TRUE]]
    /\ Tell(r, {"checked_in"})
    /\ UNCHANGED <<roomVars, taskVars, dirt, shared>>

\* departurePlan: a guest who leaves early gives the nights from today back,
\* but a stay has one night at least.
CheckOut(g) ==
    LET r == stay[g].room
    IN  /\ stay[g].status = "CHECKED_IN"
        /\ stay' = [stay EXCEPT ![g] = [@ EXCEPT !.status = "CHECKED_OUT",
                                                 !.tonight = @ /\ stay[g].cameToday]]
        /\ Tell(r, {"checked_out", "open_checkout_clean"})
        /\ dirt' = [dirt EXCEPT ![r] = "LEFT"]
        /\ UNCHANGED <<roomVars, taskVars, shared>>

RevertCheckIn(g) ==
    /\ stay[g].status = "CHECKED_IN" /\ stay[g].cameToday
    /\ stay' = [stay EXCEPT ![g] = [@ EXCEPT !.status = "CONFIRMED", !.cameToday = FALSE]]
    /\ Tell(stay[g].room, {"check_in_reverted"})
    /\ UNCHANGED <<roomVars, taskVars, dirt, shared>>

\* The guest is back in the room as it was left; a checkout cleaning that is
\* owed to it is no longer.
RevertCheckOut(g) ==
    LET r == stay[g].room
    IN  /\ stay[g].status = "CHECKED_OUT"
        /\ NoOccupant(g, r)
        /\ stay[g].tonight => NoConflict(g, r)
        /\ stay' = [stay EXCEPT ![g] = [@ EXCEPT !.status = "CHECKED_IN"]]
        /\ Tell(r, {"check_out_reverted", "cancel_checkout_clean"})
        /\ dirt' = [dirt EXCEPT ![r] = IF @ = "NONE" THEN @ ELSE "USED"]
        /\ UNCHANGED <<roomVars, taskVars, shared>>

\* changeRoom of a guest in house: the nights from today must be free in the
\* other room; both rooms are written in the same transaction.
ChangeRoom(g, r) ==
    LET old == stay[g].room
    IN  /\ stay[g].status = "CHECKED_IN" /\ stay[g].tonight /\ r # old
        /\ NoConflict(g, r)
        /\ Step
        /\ stay' = [stay EXCEPT ![g].room = r]
        /\ occupancy' = [occupancy EXCEPT ![old] = "VACANT", ![r] = "OCCUPIED"]
        /\ housekeeping' = [housekeeping EXCEPT ![old] = "DIRTY"]
        /\ news' = {[m EXCEPT !.newest = CASE m.room = old -> @ \ {"occupancy", "housekeeping"}
                                           [] m.room = r   -> @ \ {"occupancy"}
                                           [] OTHER        -> @] : m \in news}
        /\ current' = [current EXCEPT ![old] = @ \union {"occupancy", "housekeeping"},
                                      ![r] = @ \union {"occupancy"}]
        /\ dirt' = [dirt EXCEPT ![old] = IF @ = "NONE" THEN "USED" ELSE @]
        /\ shared' = IF Inside(r) = {} THEN shared ELSE shared \union {r}
        /\ UNCHANGED taskVars

-----------------------------------------------------------------------------
(* Housekeeping *)

\* A person sets the status by hand: the supervisor's approval is given only
\* to a room that reads clean.
SetHousekeepingStatus(r, s) ==
    /\ s # housekeeping[r]
    /\ s = "INSPECTED" => housekeeping[r] = "CLEAN"
    /\ Step
    /\ housekeeping' = [housekeeping EXCEPT ![r] = s]
    /\ Wrote(r, {"housekeeping"})
    /\ dirt' = [dirt EXCEPT ![r] = IF s \in {"CLEAN", "INSPECTED"} THEN "NONE" ELSE @]
    /\ UNCHANGED <<stay, occupancy, taskVars, shared>>

Open(r, type) ==
    /\ openTask' = [openTask EXCEPT ![r] = type]
    /\ tasked' = tasked \union {r}

CreateTask(r, type) ==
    /\ openTask[r] = "NONE"
    /\ Step
    /\ Open(r, type)
    /\ UNCHANGED <<stay, roomVars, toInspect, planned, news, current, dirt, shared>>

\* PENDING and IN_PROGRESS allow the same steps, so a task is open or not.
CompleteTask(r) ==
    /\ openTask[r] # "NONE"
    /\ openTask' = [openTask EXCEPT ![r] = "NONE"]
    /\ toInspect' = [toInspect EXCEPT ![r] = @ \union {openTask[r]}]
    /\ Tell(r, {"completed"})
    /\ dirt' = [dirt EXCEPT ![r] = "NONE"]
    /\ UNCHANGED <<stay, roomVars, tasked, planned, shared>>

InspectionPassed(r, type) ==
    /\ type \in toInspect[r]
    /\ toInspect' = [toInspect EXCEPT ![r] = @ \ {type}]
    /\ Tell(r, {"passed"})
    /\ UNCHANGED <<stay, roomVars, openTask, tasked, planned, dirt, shared>>

\* The follow-up is opened in the same transaction; the database allows one
\* open cleaning task per room.
InspectionFailed(r, type) ==
    /\ type \in toInspect[r] /\ openTask[r] = "NONE"
    /\ toInspect' = [toInspect EXCEPT ![r] = @ \ {type}]
    /\ Open(r, type)
    /\ Tell(r, {"failed"})
    /\ dirt' = [dirt EXCEPT ![r] = IF @ = "NONE" THEN "USED" ELSE @]
    /\ UNCHANGED <<stay, roomVars, planned, shared>>

\* The supervisor cancels a task: the cleaning is not owed any more.
CancelTask(r) ==
    /\ openTask[r] # "NONE"
    /\ Step
    /\ openTask' = [openTask EXCEPT ![r] = "NONE"]
    /\ dirt' = [dirt EXCEPT ![r] = IF @ = "LEFT" THEN "USED" ELSE @]
    /\ UNCHANGED <<stay, roomVars, toInspect, tasked, planned, news, current, shared>>

\* The stay-over job reads stays and tasks without a lock ...
PlanStayovers ==
    LET plan == {r \in Rooms \ tasked : /\ openTask[r] = "NONE"
                                        /\ \E g \in Inside(r) : stay[g].tonight}
    IN  /\ planned = {} /\ plan # {}
        /\ Step
        /\ planned' = plan
        /\ UNCHANGED <<stay, roomVars, openTask, toInspect, tasked, news, current, dirt, shared>>

\* ... and locks the rooms, where it looks at the tasks again, not at the stays.
InsertStayovers ==
    LET rs == {r \in planned \ tasked : openTask[r] = "NONE"}
    IN  /\ planned # {}
        /\ planned' = {}
        /\ openTask' = [r \in Rooms |-> IF r \in rs THEN "STAYOVER" ELSE openTask[r]]
        /\ tasked' = tasked \union rs
        /\ UNCHANGED <<stay, roomVars, toInspect, news, steps, current, dirt, shared>>

-----------------------------------------------------------------------------
(* The workers *)

\* The event is marked processed, or the process dies before that and the
\* event comes again; by then others may have worked on the tasks.
Handled(m) ==
    /\ m \in news
    /\ \/ news' = news \ {m} /\ UNCHANGED steps
       \/ news' = (news \ {m}) \union {[m EXCEPT !.newest = @ \ {"task"}]} /\ Step
    /\ current' = [current EXCEPT ![m.room] = (@ \ Writes(m.event)) \union m.newest]

\* Mutant: a departure leaves the room's status as it is.
HandleStayEventVacant(m) ==
    /\ m.event \in RoomEvents
    /\ Handled(m)
    /\ occupancy' = [occupancy EXCEPT ![m.room] =
                       IF m.event \in {"checked_in", "check_out_reverted"}
                       THEN "OCCUPIED" ELSE "VACANT"]
    /\ UNCHANGED <<stay, housekeeping, taskVars, dirt, shared>>

\* Mutant: a reverted check-in leaves the room occupied.
HandleStayEventOnce(m) ==
    /\ m.event \in RoomEvents
    /\ Handled(m)
    /\ occupancy' = [occupancy EXCEPT ![m.room] =
                       IF m.event = "checked_out" THEN "VACANT" ELSE "OCCUPIED"]
    /\ housekeeping' = [housekeeping EXCEPT ![m.room] =
                          IF m.event = "checked_out" THEN "DIRTY" ELSE @]
    /\ UNCHANGED <<stay, taskVars, dirt, shared>>

HandleStayEvent(m) ==
    /\ m.event \in RoomEvents
    /\ Handled(m)
    /\ occupancy' = [occupancy EXCEPT ![m.room] =
                       IF m.event \in {"checked_in", "check_out_reverted"}
                       THEN "OCCUPIED" ELSE "VACANT"]
    /\ housekeeping' = [housekeeping EXCEPT ![m.room] =
                          IF m.event = "checked_out" THEN "DIRTY" ELSE @]
    /\ UNCHANGED <<stay, taskVars, dirt, shared>>

StatusAfter == [completed |-> "CLEAN", passed |-> "INSPECTED", failed |-> "DIRTY"]

HandleCleaningEvent(m) ==
    /\ m.event \in CleaningEvents
    /\ Handled(m)
    /\ housekeeping' = [housekeeping EXCEPT ![m.room] = StatusAfter[m.event]]
    /\ UNCHANGED <<stay, occupancy, taskVars, dirt, shared>>

\* Mutant: an open task of any type is left as it is.
OpenCheckoutCleanOrLeave(m) ==
    /\ m.event = "open_checkout_clean"
    /\ Handled(m)
    /\ IF openTask[m.room] = "NONE"
       THEN Open(m.room, "CHECKOUT_CLEAN")
       ELSE UNCHANGED <<openTask, tasked>>
    /\ UNCHANGED <<stay, roomVars, toInspect, planned, dirt, shared>>

\* createSystemCleaningTask: no second open task, but a stay-over cleaning
\* becomes the checkout cleaning; a deep cleaning stays one.
OpenCheckoutClean(m) ==
    /\ m.event = "open_checkout_clean"
    /\ Handled(m)
    /\ IF openTask[m.room] = "NONE"
       THEN Open(m.room, "CHECKOUT_CLEAN")
       ELSE /\ openTask' = [openTask EXCEPT ![m.room] = IF @ = "STAYOVER" THEN "CHECKOUT_CLEAN" ELSE @]
            /\ UNCHANGED tasked
    /\ UNCHANGED <<stay, roomVars, toInspect, planned, dirt, shared>>

CancelCheckoutClean(m) ==
    /\ m.event = "cancel_checkout_clean"
    /\ Handled(m)
    /\ openTask' = [openTask EXCEPT ![m.room] = IF @ = "CHECKOUT_CLEAN" THEN "NONE" ELSE @]
    /\ UNCHANGED <<stay, roomVars, toInspect, tasked, planned, dirt, shared>>

\* The actor is off or its handler fails for good: a manual task for the staff.
GivenToStaff(m) ==
    /\ m \in news
    /\ news' = news \ {m}
    /\ UNCHANGED <<stay, roomVars, taskVars, steps, current, dirt, shared>>

FrontDesk ==
    \E g \in Stays :
        \/ CheckOut(g) \/ RevertCheckIn(g) \/ RevertCheckOut(g)
        \/ \E r \in Rooms : CheckIn(g, r) \/ ChangeRoom(g, r)

Housekeeping ==
    \/ \E r \in Rooms :
          \/ \E s \in Statuses : SetHousekeepingStatus(r, s)
          \/ CompleteTask(r) \/ CancelTask(r)
          \/ \E type \in Cleanings :
                CreateTask(r, type) \/ InspectionPassed(r, type) \/ InspectionFailed(r, type)
    \/ PlanStayovers \/ InsertStayovers

Worker ==
    \E m \in news : \/ HandleStayEvent(m) \/ HandleCleaningEvent(m)
                    \/ OpenCheckoutClean(m) \/ CancelCheckoutClean(m) \/ GivenToStaff(m)

Next == FrontDesk \/ Housekeeping \/ Worker

Spec == Init /\ [][Next]_vars

-----------------------------------------------------------------------------
(* Properties *)

StayTypeOK ==
    /\ stay \in [Stays -> Stay]
    /\ occupancy \in [Rooms -> {"VACANT", "OCCUPIED"}]
    /\ housekeeping \in [Rooms -> Statuses]
    /\ openTask \in [Rooms -> Cleanings \union {"NONE"}]
    /\ toInspect \in [Rooms -> SUBSET Cleanings]
    /\ tasked \subseteq Rooms /\ planned \subseteq Rooms
    /\ news \subseteq News
    /\ steps \in 0 .. MaxSteps
    /\ current \in [Rooms -> SUBSET Fields]
    /\ dirt \in [Rooms -> {"NONE", "USED", "LEFT"}]
    /\ shared \subseteq Rooms

\* Two guests are inside one room only if one of them was moved there while
\* the other had not left: check-in and its reverts never do it.
OnlyMovesShare == \A r \in Rooms \ shared : AtMostOne(Inside(r))

\* When the newest fact about a room's occupancy is the last one written, the
\* room reads occupied exactly when a guest is inside.
OccupancyFollows ==
    \A r \in Rooms \ shared :
        "occupancy" \in current[r] => (occupancy[r] = "OCCUPIED" <=> Inside(r) # {})

\* When the newest fact about its status is the last one written, a room that
\* reads clean has been cleaned since the last guest left it.
CleanIsClean ==
    \A r \in Rooms : housekeeping[r] = "CLEAN" /\ dirt[r] # "NONE"
                        => "housekeeping" \notin current[r]

\* housekeeping-worker: once a departure has been handled, and no later fact
\* about the room's tasks is under way, a checkout (or a deep) cleaning is open until
\* the room is cleaned, the task cancelled or the guest back.
DepartureIsCleaned ==
    \A r \in Rooms : dirt[r] = "LEFT" /\ "task" \in current[r]
                        => openTask[r] \in {"CHECKOUT_CLEAN", "DEEP_CLEAN"}

=============================================================================
