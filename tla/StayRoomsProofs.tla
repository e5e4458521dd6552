-------------------------- MODULE StayRoomsProofs --------------------------
(* What a room and its cleaning task say of the guests, for any number of   *)
(* reservations, rooms and steps.                                           *)
EXTENDS StayRooms, TLAPS

Arriving == {"checked_in", "check_out_reverted"}

\* Whoever is or was in house has a room.
Placed == \A g \in Stays : stay[g].status # "CONFIRMED" => stay[g].room \in Rooms

\* An event under way that is the newest fact about a field will write what
\* is true of its room.
TrueOf(m) ==
    /\ m.newest \subseteq Writes(m.event)
    /\ "occupancy" \in m.newest /\ m.room \notin shared
         => (m.event \in Arriving <=> Inside(m.room) # {})
    /\ "housekeeping" \in m.newest /\ m.event = "completed" => dirt[m.room] = "NONE"
    /\ "task" \in m.newest /\ m.event = "cancel_checkout_clean" => dirt[m.room] # "LEFT"

NewsTrue == \A m \in news : TrueOf(m)

DayInv ==
    /\ StayTypeOK
    /\ Placed
    /\ NewsTrue
    /\ OnlyMovesShare
    /\ OccupancyFollows
    /\ CleanIsClean
    /\ DepartureIsCleaned

-----------------------------------------------------------------------------
(* Events and what they write *)

Events == RoomEvents \union CleaningEvents \union TaskEvents

LEMMA WritesOf ==
    /\ Writes("checked_in") = {"occupancy"}
    /\ Writes("check_in_reverted") = {"occupancy"}
    /\ Writes("check_out_reverted") = {"occupancy"}
    /\ Writes("checked_out") = {"occupancy", "housekeeping"}
    /\ \A e \in CleaningEvents : Writes(e) = {"housekeeping"}
    /\ \A e \in TaskEvents : Writes(e) = {"task"}
BY DEF Writes, RoomEvents, CleaningEvents, TaskEvents

LEMMA WritesFields == \A e \in Events : Writes(e) \in SUBSET Fields
BY WritesOf DEF Events, RoomEvents, Fields

\* What a step that tells of room r leaves of the events under way.
Aged(m, r, fs) ==
    \E n \in news : /\ m.event = n.event /\ m.room = n.room
                    /\ m.newest \subseteq n.newest
                    /\ m.room = r => m.newest \intersect fs = {}

LEMMA OutdatedNews ==
    ASSUME StayTypeOK, NEW r \in Rooms, NEW fs
    PROVE  /\ Outdated(r, fs) \subseteq News
           /\ \A m \in Outdated(r, fs) : Aged(m, r, fs)
<1> SUFFICES ASSUME NEW n \in news,
                    NEW m, m = [n EXCEPT !.newest = IF n.room = r THEN @ \ fs ELSE @]
             PROVE  m \in News /\ Aged(m, r, fs)
  BY DEF Outdated
<1>1. n \in News
  BY DEF StayTypeOK
<1> QED
  BY <1>1 DEF News, Aged

LEMMA TellNews ==
    ASSUME StayTypeOK, NEW r \in Rooms, NEW E \in SUBSET Events, NEW fs,
           fs = UNION {Writes(e) : e \in E}, Tell(r, E)
    PROVE  /\ news' \subseteq News
           /\ \A m \in news' : \/ /\ m.room = r /\ m.event \in E
                                  /\ m.newest = Writes(m.event)
                               \/ Aged(m, r, fs)
           /\ current' = [current EXCEPT ![r] = @ \ fs]
           /\ current' \in [Rooms -> SUBSET Fields]
           /\ steps' \in 0 .. MaxSteps
<1>1. /\ news' = Outdated(r, fs) \union
                   {[event |-> e, room |-> r, newest |-> Writes(e)] : e \in E}
      /\ current' = [current EXCEPT ![r] = @ \ fs]
      /\ steps < MaxSteps /\ steps' = steps + 1
  BY DEF Tell, Step
<1>2. \A e \in E : [event |-> e, room |-> r, newest |-> Writes(e)] \in News
  BY WritesFields DEF News, Events
<1>3. steps' \in 0 .. MaxSteps
  BY <1>1, StayAssumption DEF StayTypeOK
<1>4. current' \in [Rooms -> SUBSET Fields]
  BY <1>1 DEF StayTypeOK
<1>5. \A m \in news' : \/ m \in Outdated(r, fs)
                       \/ m.room = r /\ m.event \in E /\ m.newest = Writes(m.event)
  BY <1>1
<1> QED
  BY <1>1, <1>2, <1>3, <1>4, <1>5, OutdatedNews

\* What handling an event leaves under way, and whose word then counts.
LEMMA HandledNews ==
    ASSUME StayTypeOK, NEW m \in news, Handled(m)
    PROVE  /\ news' \subseteq News
           /\ \A k \in news' : Aged(k, m.room, {})
           /\ current' = [current EXCEPT ![m.room] = (@ \ Writes(m.event)) \union m.newest]
           /\ current' \in [Rooms -> SUBSET Fields]
           /\ steps' \in 0 .. MaxSteps
<1>0. m \in News
  BY DEF StayTypeOK
<1> DEFINE again == [m EXCEPT !.newest = @ \ {"task"}]
<1>1. again \in News /\ Aged(again, m.room, {})
  BY <1>0 DEF News, Aged
<1>2. news' \subseteq news \union {again}
  BY DEF Handled
<1>3. \A k \in news : k \in News /\ Aged(k, m.room, {})
  BY DEF StayTypeOK, Aged
<1>4. steps' \in 0 .. MaxSteps
  BY StayAssumption DEF Handled, Step, StayTypeOK
<1>5. current' = [current EXCEPT ![m.room] = (@ \ Writes(m.event)) \union m.newest]
  BY DEF Handled
<1>6. current' \in [Rooms -> SUBSET Fields]
  BY <1>0, <1>5 DEF StayTypeOK, News
<1> HIDE DEF again
<1> QED
  BY <1>1, <1>2, <1>3, <1>4, <1>5, <1>6

-----------------------------------------------------------------------------
(* Types *)

LEMMA DayInit == Init => DayInv
<1> SUFFICES ASSUME Init PROVE DayInv
  OBVIOUS
<1>1. StayTypeOK
  BY StayAssumption DEF Init, StayTypeOK, Statuses
<1>2. Placed
  BY <1>1 DEF Init, Placed, StayTypeOK, Stay
<1>3. NewsTrue /\ OnlyMovesShare /\ OccupancyFollows /\ CleanIsClean /\ DepartureIsCleaned
  BY DEF Init, NewsTrue, OnlyMovesShare, OccupancyFollows, CleanIsClean, DepartureIsCleaned
<1> QED
  BY <1>1, <1>2, <1>3 DEF DayInv

LEMMA StayStep == StayTypeOK /\ Placed /\ [Next]_vars => StayTypeOK' /\ Placed'
<1> SUFFICES ASSUME StayTypeOK, Placed, [Next]_vars PROVE StayTypeOK' /\ Placed'
  OBVIOUS
<1> USE DEF StayTypeOK, Placed, roomVars, taskVars
<1>1. ASSUME NEW g \in Stays, NEW r \in Rooms, CheckIn(g, r) PROVE StayTypeOK' /\ Placed'
  <2>1. /\ news' \subseteq News /\ current' \in [Rooms -> SUBSET Fields]
        /\ steps' \in 0 .. MaxSteps
    BY <1>1, TellNews DEF CheckIn, Events, RoomEvents
  <2> QED
    BY <1>1, <2>1 DEF CheckIn, Stay
<1>2. ASSUME NEW g \in Stays, CheckOut(g) PROVE StayTypeOK' /\ Placed'
  <2>0. stay[g].room \in Rooms
    BY <1>2 DEF CheckOut
  <2>1. /\ news' \subseteq News /\ current' \in [Rooms -> SUBSET Fields]
        /\ steps' \in 0 .. MaxSteps
    BY <1>2, <2>0, TellNews DEF CheckOut, Events, RoomEvents, TaskEvents
  <2>2. stay' \in [Stays -> Stay] /\ \A h \in Stays : stay'[h].room = stay[h].room
    <3>1. stay[g] \in Stay /\ (stay[g].tonight /\ stay[g].cameToday) \in BOOLEAN
      OBVIOUS
    <3> QED
      BY <1>2, <3>1 DEF CheckOut, Stay
  <2>3. dirt' \in [Rooms -> {"NONE", "USED", "LEFT"}]
    BY <1>2 DEF CheckOut
  <2>4. \A h \in Stays : h # g => stay'[h] = stay[h]
    BY <1>2 DEF CheckOut
  <2> QED
    BY <1>2, <2>0, <2>1, <2>2, <2>3, <2>4 DEF CheckOut
<1>3. ASSUME NEW g \in Stays, RevertCheckIn(g) PROVE StayTypeOK' /\ Placed'
  <2>0. stay[g].room \in Rooms
    BY <1>3 DEF RevertCheckIn
  <2>1. /\ news' \subseteq News /\ current' \in [Rooms -> SUBSET Fields]
        /\ steps' \in 0 .. MaxSteps
    BY <1>3, <2>0, TellNews DEF RevertCheckIn, Events, RoomEvents
  <2> QED
    BY <1>3, <2>0, <2>1 DEF RevertCheckIn, Stay
<1>4. ASSUME NEW g \in Stays, RevertCheckOut(g) PROVE StayTypeOK' /\ Placed'
  <2>0. stay[g].room \in Rooms
    BY <1>4 DEF RevertCheckOut
  <2>1. /\ news' \subseteq News /\ current' \in [Rooms -> SUBSET Fields]
        /\ steps' \in 0 .. MaxSteps
    BY <1>4, <2>0, TellNews DEF RevertCheckOut, Events, RoomEvents, TaskEvents
  <2>2. stay' \in [Stays -> Stay] /\ \A h \in Stays : stay'[h].room = stay[h].room
    BY <1>4 DEF RevertCheckOut, Stay
  <2>3. dirt' \in [Rooms -> {"NONE", "USED", "LEFT"}]
    BY <1>4 DEF RevertCheckOut
  <2>4. \A h \in Stays : h # g => stay'[h] = stay[h]
    BY <1>4 DEF RevertCheckOut
  <2> QED
    BY <1>4, <2>0, <2>1, <2>2, <2>3, <2>4 DEF RevertCheckOut
<1>5. ASSUME NEW g \in Stays, NEW r \in Rooms, ChangeRoom(g, r) PROVE StayTypeOK' /\ Placed'
  <2>0. stay[g].room \in Rooms
    BY <1>5 DEF ChangeRoom
  <2>1. news' \subseteq News
    <3> SUFFICES ASSUME NEW m \in news
                 PROVE  [m EXCEPT !.newest =
                            CASE m.room = stay[g].room -> @ \ {"occupancy", "housekeeping"}
                              [] m.room = r            -> @ \ {"occupancy"}
                              [] OTHER                 -> @] \in News
      BY <1>5 DEF ChangeRoom
    <3> QED
      BY DEF News
  <2>2. steps' \in 0 .. MaxSteps
    BY <1>5, StayAssumption DEF ChangeRoom, Step
  <2>3. current' \in [Rooms -> SUBSET Fields]
    BY <1>5 DEF ChangeRoom, Fields
  <2> QED
    BY <1>5, <2>0, <2>1, <2>2, <2>3 DEF ChangeRoom, Stay, Statuses
<1>6. ASSUME NEW r \in Rooms, NEW s \in Statuses, SetHousekeepingStatus(r, s)
      PROVE  StayTypeOK' /\ Placed'
  <2>1. news' \subseteq News
    BY <1>6, OutdatedNews DEF SetHousekeepingStatus, Wrote
  <2>2. steps' \in 0 .. MaxSteps
    BY <1>6, StayAssumption DEF SetHousekeepingStatus, Step
  <2>3. current' \in [Rooms -> SUBSET Fields]
    BY <1>6 DEF SetHousekeepingStatus, Wrote, Fields
  <2> QED
    BY <1>6, <2>1, <2>2, <2>3 DEF SetHousekeepingStatus
<1>7. ASSUME NEW r \in Rooms, NEW type \in Cleanings, CreateTask(r, type)
      PROVE  StayTypeOK' /\ Placed'
  BY <1>7, StayAssumption DEF CreateTask, Open, Step
<1>8. ASSUME NEW r \in Rooms, CompleteTask(r) PROVE StayTypeOK' /\ Placed'
  <2>1. /\ news' \subseteq News /\ current' \in [Rooms -> SUBSET Fields]
        /\ steps' \in 0 .. MaxSteps
    BY <1>8, TellNews DEF CompleteTask, Events, CleaningEvents
  <2> QED
    BY <1>8, <2>1 DEF CompleteTask
<1>9. ASSUME NEW r \in Rooms, NEW type \in Cleanings, InspectionPassed(r, type)
      PROVE  StayTypeOK' /\ Placed'
  <2>1. /\ news' \subseteq News /\ current' \in [Rooms -> SUBSET Fields]
        /\ steps' \in 0 .. MaxSteps
    BY <1>9, TellNews DEF InspectionPassed, Events, CleaningEvents
  <2> QED
    BY <1>9, <2>1 DEF InspectionPassed
<1>10. ASSUME NEW r \in Rooms, NEW type \in Cleanings, InspectionFailed(r, type)
       PROVE  StayTypeOK' /\ Placed'
  <2>1. /\ news' \subseteq News /\ current' \in [Rooms -> SUBSET Fields]
        /\ steps' \in 0 .. MaxSteps
    BY <1>10, TellNews DEF InspectionFailed, Events, CleaningEvents
  <2> QED
    BY <1>10, <2>1 DEF InspectionFailed, Open
<1>11. ASSUME NEW r \in Rooms, CancelTask(r) PROVE StayTypeOK' /\ Placed'
  BY <1>11, StayAssumption DEF CancelTask, Step
<1>12. CASE PlanStayovers
  BY <1>12, StayAssumption DEF PlanStayovers, Step
<1>13. CASE InsertStayovers
  BY <1>13 DEF InsertStayovers, Cleanings
<1>14. ASSUME NEW m \in news, HandleStayEvent(m) PROVE StayTypeOK' /\ Placed'
  <2>1. /\ news' \subseteq News /\ current' \in [Rooms -> SUBSET Fields]
        /\ steps' \in 0 .. MaxSteps
    BY <1>14, HandledNews DEF HandleStayEvent
  <2> QED
    BY <1>14, <2>1 DEF HandleStayEvent, Statuses
<1>15. ASSUME NEW m \in news, HandleCleaningEvent(m) PROVE StayTypeOK' /\ Placed'
  <2>1. /\ news' \subseteq News /\ current' \in [Rooms -> SUBSET Fields]
        /\ steps' \in 0 .. MaxSteps
    BY <1>15, HandledNews DEF HandleCleaningEvent
  <2>2. StatusAfter[m.event] \in Statuses
    BY <1>15 DEF HandleCleaningEvent, CleaningEvents, StatusAfter, Statuses
  <2> QED
    BY <1>15, <2>1, <2>2 DEF HandleCleaningEvent
<1>16. ASSUME NEW m \in news, OpenCheckoutClean(m) PROVE StayTypeOK' /\ Placed'
  <2>1. /\ news' \subseteq News /\ current' \in [Rooms -> SUBSET Fields]
        /\ steps' \in 0 .. MaxSteps
    BY <1>16, HandledNews DEF OpenCheckoutClean
  <2>2. m.room \in Rooms
    BY DEF News
  <2> QED
    BY <1>16, <2>1, <2>2 DEF OpenCheckoutClean, Open, Cleanings
<1>17. ASSUME NEW m \in news, CancelCheckoutClean(m) PROVE StayTypeOK' /\ Placed'
  <2>1. /\ news' \subseteq News /\ current' \in [Rooms -> SUBSET Fields]
        /\ steps' \in 0 .. MaxSteps
    BY <1>17, HandledNews DEF CancelCheckoutClean
  <2> QED
    BY <1>17, <2>1 DEF CancelCheckoutClean, Cleanings
<1>18. ASSUME NEW m \in news, GivenToStaff(m) PROVE StayTypeOK' /\ Placed'
  BY <1>18 DEF GivenToStaff
<1>19. CASE UNCHANGED vars
  BY <1>19 DEF vars
<1> QED
  BY <1>1, <1>2, <1>3, <1>4, <1>5, <1>6, <1>7, <1>8, <1>9, <1>10, <1>11, <1>12, <1>13,
     <1>14, <1>15, <1>16, <1>17, <1>18, <1>19
  DEF Next, FrontDesk, Housekeeping, Worker

-----------------------------------------------------------------------------
(* Truth *)

RoomsTrue ==
    NewsTrue /\ OnlyMovesShare /\ OccupancyFollows /\ CleanIsClean /\ DepartureIsCleaned

\* An event that was true stays true if the step about room r took from it
\* the fields it changed the truth about.
LEMMA AgedTrue ==
    ASSUME StayTypeOK, NewsTrue, NEW r, NEW fs, NEW m, Aged(m, r, fs),
           \A q \in Rooms : (q # r \/ "occupancy" \notin fs) /\ q \notin shared'
               => q \notin shared /\ (Inside(q)' # {} <=> Inside(q) # {}),
           \A q \in Rooms : (q # r \/ "housekeeping" \notin fs) /\ dirt[q] = "NONE"
               => dirt'[q] = "NONE",
           \A q \in Rooms : (q # r \/ "task" \notin fs) /\ dirt'[q] = "LEFT"
               => dirt[q] = "LEFT"
    PROVE  TrueOf(m)'
<1>1. PICK n \in news : /\ m.event = n.event /\ m.room = n.room
                        /\ m.newest \subseteq n.newest
                        /\ m.room = r => m.newest \intersect fs = {}
  BY DEF Aged
<1>2. n.room \in Rooms /\ TrueOf(n)
  BY DEF StayTypeOK, News, NewsTrue
<1>3. m.newest \subseteq Writes(m.event)
  BY <1>1, <1>2 DEF TrueOf
<1>4. ASSUME "occupancy" \in m.newest, m.room \notin shared'
      PROVE  m.event \in Arriving <=> Inside(m.room)' # {}
  <2>1. m.room # r \/ "occupancy" \notin fs
    BY <1>1, <1>4
  <2> QED
    BY <1>1, <1>2, <1>4, <2>1 DEF TrueOf
<1>5. ASSUME "housekeeping" \in m.newest, m.event = "completed"
      PROVE  dirt'[m.room] = "NONE"
  <2>1. m.room # r \/ "housekeeping" \notin fs
    BY <1>1, <1>5
  <2> QED
    BY <1>1, <1>2, <1>5, <2>1 DEF TrueOf
<1>6. ASSUME "task" \in m.newest, m.event = "cancel_checkout_clean"
      PROVE  dirt'[m.room] # "LEFT"
  <2>1. m.room # r \/ "task" \notin fs
    BY <1>1, <1>6
  <2> QED
    BY <1>1, <1>2, <1>6, <2>1 DEF TrueOf
<1> QED
  BY <1>3, <1>4, <1>5, <1>6 DEF TrueOf, Writes

\* A step that changes no reservation leaves everybody where they are.
LEMMA SameInside == UNCHANGED stay => \A q : Inside(q)' = Inside(q)
BY DEF Inside

\* The worker's events of a step that changes no reservation.
LEMMA HandledTrue ==
    ASSUME DayInv, NEW m \in news, Handled(m), UNCHANGED <<stay, dirt, shared>>
    PROVE  NewsTrue'
<1> SUFFICES ASSUME NEW k \in news' PROVE TrueOf(k)'
  BY DEF NewsTrue
<1>1. Aged(k, m.room, {})
  BY HandledNews DEF DayInv
<1> QED
  BY <1>1, SameInside, AgedTrue DEF DayInv

LEMMA TruthStep == DayInv /\ [Next]_vars => RoomsTrue'
<1> SUFFICES ASSUME DayInv, [Next]_vars PROVE RoomsTrue'
  OBVIOUS
<1>t. StayTypeOK' /\ Placed'
  BY StayStep DEF DayInv
<1> USE DEF DayInv, RoomsTrue, roomVars, taskVars
<1>1. ASSUME NEW g \in Stays, NEW r \in Rooms, CheckIn(g, r) PROVE RoomsTrue'
  <2>0. \A q \in Rooms : Inside(q)' = IF q = r THEN {g} ELSE Inside(q)
    BY <1>1, <1>t DEF CheckIn, NoOccupant, Inside, StayTypeOK, Stay
  <2>1. /\ \A m \in news' : \/ m.room = r /\ m.event = "checked_in" /\ m.newest = {"occupancy"}
                            \/ Aged(m, r, {"occupancy"})
        /\ current' = [current EXCEPT ![r] = @ \ {"occupancy"}]
    <3> DEFINE fs == {"occupancy"}
    <3>1. fs = UNION {Writes(e) : e \in {"checked_in"}}
      BY WritesOf
    <3>2. {"checked_in"} \in SUBSET Events
      BY DEF Events, RoomEvents
    <3>3. Tell(r, {"checked_in"})
      BY <1>1 DEF CheckIn
    <3> HIDE DEF fs
    <3>4. /\ \A m \in news' : \/ m.room = r /\ m.event = "checked_in"
                                 /\ m.newest = Writes(m.event)
                              \/ Aged(m, r, fs)
          /\ current' = [current EXCEPT ![r] = @ \ fs]
      BY <3>1, <3>2, <3>3, TellNews
    <3> QED
      BY <3>4, WritesOf DEF fs
  <2>2. NewsTrue'
    <3> SUFFICES ASSUME NEW m \in news' PROVE TrueOf(m)'
      BY DEF NewsTrue
    <3>1. CASE m.room = r /\ m.event = "checked_in" /\ m.newest = {"occupancy"}
      BY <2>0, <3>1, WritesOf DEF TrueOf, Arriving, Writes
    <3>2. CASE Aged(m, r, {"occupancy"})
      BY <1>1, <2>0, <3>2, AgedTrue DEF CheckIn
    <3> QED
      BY <2>1, <3>1, <3>2
  <2>3. OnlyMovesShare'
    BY <1>1, <2>0 DEF CheckIn, OnlyMovesShare, AtMostOne
  <2>4. OccupancyFollows'
    BY <1>1, <2>0, <2>1 DEF CheckIn, OccupancyFollows, StayTypeOK
  <2>5. CleanIsClean' /\ DepartureIsCleaned'
    BY <1>1, <2>1 DEF CheckIn, CleanIsClean, DepartureIsCleaned, StayTypeOK
  <2> QED
    BY <2>2, <2>3, <2>4, <2>5
<1>2. ASSUME NEW g \in Stays, CheckOut(g) PROVE RoomsTrue'
  <2> DEFINE fs == {"occupancy", "housekeeping", "task"}
  <2>r. PICK r \in Rooms : r = stay[g].room /\ g \in Inside(r)
    BY <1>2 DEF CheckOut, Placed, Inside
  <2>i. \A q \in Rooms : Inside(q)' = Inside(q) \ {g}
    BY <1>2, <1>t, <2>r DEF CheckOut, Inside, StayTypeOK, Stay
  <2>0. /\ \A q \in Rooms : q # r => Inside(q)' = Inside(q)
        /\ r \notin shared => Inside(r)' = {}
    <3>1. \A q \in Rooms : q # r => g \notin Inside(q)
      BY <2>r DEF Inside
    <3>2. r \notin shared => Inside(r) = {g}
      BY <2>r DEF OnlyMovesShare, AtMostOne
    <3> QED
      BY <2>r, <2>i, <3>1, <3>2 DEF Inside
  <2>1. /\ \A m \in news' : \/ m.room = r /\ m.event = "checked_out"
                               /\ m.newest = {"occupancy", "housekeeping"}
                            \/ m.room = r /\ m.event = "open_checkout_clean"
                               /\ m.newest = {"task"}
                            \/ Aged(m, r, fs)
        /\ current' = [current EXCEPT ![r] = @ \ fs]
    <3>1. fs = UNION {Writes(e) : e \in {"checked_out", "open_checkout_clean"}}
      BY WritesOf DEF TaskEvents
    <3>2. {"checked_out", "open_checkout_clean"} \in SUBSET Events
      BY DEF Events, RoomEvents, TaskEvents
    <3>3. Tell(r, {"checked_out", "open_checkout_clean"})
      BY <1>2, <2>r DEF CheckOut
    <3> HIDE DEF fs
    <3>4. /\ \A m \in news' : \/ m.room = r /\ m.event \in {"checked_out", "open_checkout_clean"}
                                 /\ m.newest = Writes(m.event)
                              \/ Aged(m, r, fs)
          /\ current' = [current EXCEPT ![r] = @ \ fs]
      BY <3>1, <3>2, <3>3, TellNews
    <3> QED
      BY <3>4, WritesOf DEF TaskEvents
  <2>d. dirt' = [dirt EXCEPT ![r] = "LEFT"] /\ UNCHANGED <<roomVars, taskVars, shared>>
    BY <1>2, <2>r DEF CheckOut
  <2>2. NewsTrue'
    <3> SUFFICES ASSUME NEW m \in news' PROVE TrueOf(m)'
      BY DEF NewsTrue
    <3>1. CASE /\ m.room = r /\ m.event = "checked_out"
               /\ m.newest = {"occupancy", "housekeeping"}
      <4>1. m.newest = Writes(m.event) /\ m.event \notin Arriving
        BY <3>1, WritesOf DEF Arriving
      <4>2. m.room \notin shared' => Inside(m.room)' = {}
        BY <2>0, <2>d, <3>1 DEF Inside
      <4> QED
        BY <3>1, <4>1, <4>2 DEF TrueOf
    <3>2. CASE m.room = r /\ m.event = "open_checkout_clean" /\ m.newest = {"task"}
      BY <3>2, WritesOf DEF TrueOf, TaskEvents
    <3>3. CASE Aged(m, r, fs)
      <4>1. \A q \in Rooms : q # r => dirt'[q] = dirt[q]
        BY <2>d
      <4> QED
        BY <2>0, <2>d, <3>3, <4>1, AgedTrue
    <3> QED
      BY <2>1, <3>1, <3>2, <3>3
  <2>3. OnlyMovesShare'
    BY <2>i, <2>d DEF OnlyMovesShare, AtMostOne
  <2>4. OccupancyFollows'
    BY <2>r, <2>0, <2>1, <2>d DEF OccupancyFollows, StayTypeOK
  <2>5. CleanIsClean' /\ DepartureIsCleaned'
    BY <2>r, <2>1, <2>d DEF CleanIsClean, DepartureIsCleaned, StayTypeOK
  <2> QED
    BY <2>2, <2>3, <2>4, <2>5
<1>3. ASSUME NEW g \in Stays, RevertCheckIn(g) PROVE RoomsTrue'
  <2>r. PICK r \in Rooms : r = stay[g].room /\ g \in Inside(r)
    BY <1>3 DEF RevertCheckIn, Placed, Inside
  <2>i. \A q \in Rooms : Inside(q)' = Inside(q) \ {g}
    BY <1>3, <1>t, <2>r DEF RevertCheckIn, Inside, StayTypeOK, Stay
  <2>0. /\ \A q \in Rooms : q # r => Inside(q)' = Inside(q)
        /\ r \notin shared => Inside(r)' = {}
    <3>1. \A q \in Rooms : q # r => g \notin Inside(q)
      BY <2>r DEF Inside
    <3>2. r \notin shared => Inside(r) = {g}
      BY <2>r DEF OnlyMovesShare, AtMostOne
    <3> QED
      BY <2>r, <2>i, <3>1, <3>2 DEF Inside
  <2>1. /\ \A m \in news' : \/ m.room = r /\ m.event = "check_in_reverted"
                               /\ m.newest = {"occupancy"}
                            \/ Aged(m, r, {"occupancy"})
        /\ current' = [current EXCEPT ![r] = @ \ {"occupancy"}]
    <3> DEFINE fs == {"occupancy"}
    <3>1. fs = UNION {Writes(e) : e \in {"check_in_reverted"}}
      BY WritesOf
    <3>2. {"check_in_reverted"} \in SUBSET Events
      BY DEF Events, RoomEvents
    <3>3. Tell(r, {"check_in_reverted"})
      BY <1>3, <2>r DEF RevertCheckIn
    <3> HIDE DEF fs
    <3>4. /\ \A m \in news' : \/ m.room = r /\ m.event = "check_in_reverted"
                                 /\ m.newest = Writes(m.event)
                              \/ Aged(m, r, fs)
          /\ current' = [current EXCEPT ![r] = @ \ fs]
      BY <2>r, <3>1, <3>2, <3>3, TellNews
    <3> QED
      BY <3>4, WritesOf DEF fs
  <2>d. UNCHANGED <<roomVars, taskVars, dirt, shared>>
    BY <1>3, <2>r DEF RevertCheckIn
  <2>2. NewsTrue'
    <3> SUFFICES ASSUME NEW m \in news' PROVE TrueOf(m)'
      BY DEF NewsTrue
    <3>1. CASE m.room = r /\ m.event = "check_in_reverted" /\ m.newest = {"occupancy"}
      <4>1. m.newest = Writes(m.event) /\ m.event \notin Arriving
        BY <3>1, WritesOf DEF Arriving
      <4>2. m.room \notin shared' => Inside(m.room)' = {}
        BY <2>0, <2>d, <3>1 DEF Inside
      <4> QED
        BY <3>1, <4>1, <4>2 DEF TrueOf
    <3>2. CASE Aged(m, r, {"occupancy"})
      BY <2>0, <2>d, <3>2, AgedTrue
    <3> QED
      BY <2>1, <3>1, <3>2
  <2>3. OnlyMovesShare'
    BY <2>i, <2>d DEF OnlyMovesShare, AtMostOne
  <2>4. OccupancyFollows'
    BY <2>r, <2>0, <2>1, <2>d DEF OccupancyFollows, StayTypeOK
  <2>5. CleanIsClean' /\ DepartureIsCleaned'
    BY <2>1, <2>d DEF CleanIsClean, DepartureIsCleaned, StayTypeOK
  <2> QED
    BY <2>2, <2>3, <2>4, <2>5
<1>4. ASSUME NEW g \in Stays, RevertCheckOut(g) PROVE RoomsTrue'
  <2> DEFINE fs == {"occupancy", "task"}
  <2>r. PICK r \in Rooms : r = stay[g].room
    BY <1>4 DEF RevertCheckOut, Placed
  <2>0. \A q \in Rooms : Inside(q)' = IF q = r THEN {g} ELSE Inside(q)
    BY <1>4, <1>t, <2>r DEF RevertCheckOut, NoOccupant, Inside, StayTypeOK, Stay
  <2>1. /\ \A m \in news' : \/ m.room = r /\ m.event = "check_out_reverted"
                               /\ m.newest = {"occupancy"}
                            \/ m.room = r /\ m.event = "cancel_checkout_clean"
                               /\ m.newest = {"task"}
                            \/ Aged(m, r, fs)
        /\ current' = [current EXCEPT ![r] = @ \ fs]
    <3>1. fs = UNION {Writes(e) : e \in {"check_out_reverted", "cancel_checkout_clean"}}
      BY WritesOf DEF TaskEvents
    <3>2. {"check_out_reverted", "cancel_checkout_clean"} \in SUBSET Events
      BY DEF Events, RoomEvents, TaskEvents
    <3>3. Tell(r, {"check_out_reverted", "cancel_checkout_clean"})
      BY <1>4, <2>r DEF RevertCheckOut
    <3> HIDE DEF fs
    <3>4. /\ \A m \in news' : \/ m.room = r /\ m.event \in {"check_out_reverted", "cancel_checkout_clean"}
                                 /\ m.newest = Writes(m.event)
                              \/ Aged(m, r, fs)
          /\ current' = [current EXCEPT ![r] = @ \ fs]
      BY <3>1, <3>2, <3>3, TellNews
    <3> QED
      BY <3>4, WritesOf DEF TaskEvents
  <2>d. /\ dirt' = [dirt EXCEPT ![r] = IF @ = "NONE" THEN @ ELSE "USED"]
        /\ UNCHANGED <<roomVars, taskVars, shared>>
    BY <1>4, <2>r DEF RevertCheckOut
  <2>e. /\ \A q \in Rooms : dirt[q] = "NONE" => dirt'[q] = "NONE"
        /\ \A q \in Rooms : q # r => dirt'[q] = dirt[q]
        /\ dirt'[r] # "LEFT"
    BY <2>r, <2>d DEF StayTypeOK
  <2>2. NewsTrue'
    <3> SUFFICES ASSUME NEW m \in news' PROVE TrueOf(m)'
      BY DEF NewsTrue
    <3>1. CASE m.room = r /\ m.event = "check_out_reverted" /\ m.newest = {"occupancy"}
      BY <2>r, <2>0, <2>d, <3>1, WritesOf DEF TrueOf, Arriving
    <3>2. CASE m.room = r /\ m.event = "cancel_checkout_clean" /\ m.newest = {"task"}
      BY <2>e, <3>2, WritesOf DEF TrueOf, TaskEvents
    <3>3. CASE Aged(m, r, fs)
      BY <2>0, <2>d, <2>e, <3>3, AgedTrue
    <3> QED
      BY <2>1, <3>1, <3>2, <3>3
  <2>3. OnlyMovesShare'
    BY <2>0, <2>d DEF OnlyMovesShare, AtMostOne
  <2>4. OccupancyFollows'
    BY <2>r, <2>0, <2>1, <2>d DEF OccupancyFollows, StayTypeOK
  <2>5. CleanIsClean'
    BY <2>r, <2>1, <2>d, <2>e DEF CleanIsClean, StayTypeOK
  <2>6. DepartureIsCleaned'
    BY <2>r, <2>1, <2>d, <2>e DEF DepartureIsCleaned, StayTypeOK
  <2> QED
    BY <2>2, <2>3, <2>4, <2>5, <2>6
<1>5. ASSUME NEW g \in Stays, NEW r \in Rooms, ChangeRoom(g, r) PROVE RoomsTrue'
  <2>r. PICK old \in Rooms : old = stay[g].room /\ g \in Inside(old) /\ r # old
    BY <1>5 DEF ChangeRoom, Placed, Inside
  <2>i. \A q \in Rooms : Inside(q)' = IF q = r THEN Inside(q) \union {g} ELSE Inside(q) \ {g}
    BY <1>5, <1>t, <2>r DEF ChangeRoom, Inside, StayTypeOK, Stay
  <2>0. /\ \A q \in Rooms : q \notin {r, old} => Inside(q)' = Inside(q)
        /\ old \notin shared => Inside(old)' = {}
        /\ Inside(r)' # {}
        /\ Inside(r) = {} => Inside(r)' = {g}
    <3>1. \A q \in Rooms : q # old => g \notin Inside(q)
      BY <2>r DEF Inside
    <3>2. old \notin shared => Inside(old) = {g}
      BY <2>r DEF OnlyMovesShare, AtMostOne
    <3> QED
      BY <2>r, <2>i, <3>1, <3>2 DEF Inside
  <2>d. /\ occupancy' = [occupancy EXCEPT ![old] = "VACANT", ![r] = "OCCUPIED"]
        /\ housekeeping' = [housekeeping EXCEPT ![old] = "DIRTY"]
        /\ current' = [current EXCEPT ![old] = @ \union {"occupancy", "housekeeping"},
                                      ![r] = @ \union {"occupancy"}]
        /\ dirt' = [dirt EXCEPT ![old] = IF @ = "NONE" THEN "USED" ELSE @]
        /\ shared' = IF Inside(r) = {} THEN shared ELSE shared \union {r}
        /\ UNCHANGED taskVars
    BY <1>5, <2>r DEF ChangeRoom
  <2>n. \A m \in news' :
          \E n \in news : /\ m.event = n.event /\ m.room = n.room
                          /\ m.newest \subseteq n.newest
                          /\ m.room = old => m.newest \intersect {"occupancy", "housekeeping"} = {}
                          /\ m.room = r => m.newest \intersect {"occupancy"} = {}
    <3> SUFFICES ASSUME NEW n \in news,
                        NEW m, m = [n EXCEPT !.newest =
                            CASE n.room = old -> @ \ {"occupancy", "housekeeping"}
                              [] n.room = r   -> @ \ {"occupancy"}
                              [] OTHER        -> @]
                 PROVE  /\ m.event = n.event /\ m.room = n.room
                        /\ m.newest \subseteq n.newest
                        /\ m.room = old => m.newest \intersect {"occupancy", "housekeeping"} = {}
                        /\ m.room = r => m.newest \intersect {"occupancy"} = {}
      BY <1>5, <2>r DEF ChangeRoom
    <3>1. n \in News
      BY DEF StayTypeOK
    <3> QED
      BY <2>r, <3>1 DEF News
  <2>2. NewsTrue'
    <3> SUFFICES ASSUME NEW m \in news' PROVE TrueOf(m)'
      BY DEF NewsTrue
    <3>1. PICK n \in news :
             /\ m.event = n.event /\ m.room = n.room /\ m.newest \subseteq n.newest
             /\ m.room = old => m.newest \intersect {"occupancy", "housekeeping"} = {}
             /\ m.room = r => m.newest \intersect {"occupancy"} = {}
      BY <2>n
    <3>2. n.room \in Rooms /\ TrueOf(n)
      BY DEF StayTypeOK, News, NewsTrue
    <3>3. ASSUME "occupancy" \in m.newest, m.room \notin shared'
          PROVE  m.event \in Arriving <=> Inside(m.room)' # {}
      <4>1. m.room \notin {r, old} /\ m.room \notin shared
        BY <2>d, <3>1, <3>3
      <4> QED
        BY <2>0, <3>1, <3>2, <3>3, <4>1 DEF TrueOf
    <3>4. ASSUME "housekeeping" \in m.newest, m.event = "completed"
          PROVE  dirt'[m.room] = "NONE"
      BY <2>d, <3>1, <3>2, <3>4 DEF TrueOf, StayTypeOK
    <3>5. ASSUME "task" \in m.newest, m.event = "cancel_checkout_clean"
          PROVE  dirt'[m.room] # "LEFT"
      BY <2>d, <3>1, <3>2, <3>5 DEF TrueOf, StayTypeOK
    <3> QED
      BY <3>1, <3>2, <3>3, <3>4, <3>5 DEF TrueOf
  <2>3. OnlyMovesShare'
    BY <2>i, <2>0, <2>d DEF OnlyMovesShare, AtMostOne
  <2>4. OccupancyFollows'
    BY <2>r, <2>0, <2>d DEF OccupancyFollows, StayTypeOK
  <2>5. CleanIsClean'
    BY <2>r, <2>d DEF CleanIsClean, StayTypeOK
  <2>6. DepartureIsCleaned'
    BY <2>r, <2>d DEF DepartureIsCleaned, StayTypeOK
  <2> QED
    BY <2>2, <2>3, <2>4, <2>5, <2>6
<1>6. ASSUME NEW r \in Rooms, NEW s \in Statuses, SetHousekeepingStatus(r, s)
      PROVE  RoomsTrue'
  <2>d. /\ housekeeping' = [housekeeping EXCEPT ![r] = s]
        /\ current' = [current EXCEPT ![r] = @ \union {"housekeeping"}]
        /\ dirt' = [dirt EXCEPT ![r] = IF s \in {"CLEAN", "INSPECTED"} THEN "NONE" ELSE @]
        /\ UNCHANGED <<stay, occupancy, taskVars, shared>>
    BY <1>6 DEF SetHousekeepingStatus, Wrote
  <2>2. NewsTrue'
    <3> SUFFICES ASSUME NEW m \in news' PROVE TrueOf(m)'
      BY DEF NewsTrue
    <3>1. Aged(m, r, {"housekeeping"})
      BY <1>6, OutdatedNews DEF SetHousekeepingStatus, Wrote
    <3>2. \A q \in Rooms : dirt'[q] = "NONE" \/ dirt'[q] = dirt[q]
      BY <2>d DEF StayTypeOK
    <3> QED
      BY <2>d, <3>1, <3>2, SameInside, AgedTrue
  <2>3. OnlyMovesShare' /\ OccupancyFollows'
    BY <2>d DEF OnlyMovesShare, AtMostOne, OccupancyFollows, Inside, StayTypeOK
  <2>4. CleanIsClean'
    BY <2>d DEF CleanIsClean, StayTypeOK
  <2>5. DepartureIsCleaned'
    BY <2>d DEF DepartureIsCleaned, StayTypeOK
  <2> QED
    BY <2>2, <2>3, <2>4, <2>5
<1>7. ASSUME NEW r \in Rooms, NEW type \in Cleanings, CreateTask(r, type) PROVE RoomsTrue'
  <2>1. NewsTrue' /\ OnlyMovesShare' /\ OccupancyFollows' /\ CleanIsClean'
    BY <1>7 DEF CreateTask, NewsTrue, TrueOf, OnlyMovesShare, AtMostOne, OccupancyFollows,
       CleanIsClean, Inside
  <2>2. DepartureIsCleaned'
    BY <1>7 DEF CreateTask, Open, DepartureIsCleaned, StayTypeOK
  <2> QED
    BY <2>1, <2>2
<1>8. ASSUME NEW r \in Rooms, CompleteTask(r) PROVE RoomsTrue'
  <2> DEFINE fs == {"housekeeping"}
  <2>1. /\ \A m \in news' : \/ m.room = r /\ m.event = "completed" /\ m.newest = fs
                            \/ Aged(m, r, fs)
        /\ current' = [current EXCEPT ![r] = @ \ fs]
    <3>1. fs = UNION {Writes(e) : e \in {"completed"}} /\ Writes("completed") = fs
      BY WritesOf DEF CleaningEvents
    <3>2. {"completed"} \in SUBSET Events
      BY DEF Events, CleaningEvents
    <3>3. Tell(r, {"completed"})
      BY <1>8 DEF CompleteTask
    <3> HIDE DEF fs
    <3>4. /\ \A m \in news' : \/ m.room = r /\ m.event \in {"completed"}
                                 /\ m.newest = Writes(m.event)
                              \/ Aged(m, r, fs)
          /\ current' = [current EXCEPT ![r] = @ \ fs]
      BY <3>1, <3>2, <3>3, TellNews
    <3> QED
      BY <3>1, <3>4
  <2>d. /\ dirt' = [dirt EXCEPT ![r] = "NONE"] /\ openTask' = [openTask EXCEPT ![r] = "NONE"]
        /\ UNCHANGED <<stay, roomVars, shared>>
    BY <1>8 DEF CompleteTask
  <2>e. \A q \in Rooms : dirt'[q] = IF q = r THEN "NONE" ELSE dirt[q]
    BY <2>d DEF StayTypeOK
  <2>2. NewsTrue'
    <3> SUFFICES ASSUME NEW m \in news' PROVE TrueOf(m)'
      BY DEF NewsTrue
    <3>1. CASE m.room = r /\ m.event = "completed" /\ m.newest = fs
      <4>1. m.newest = Writes(m.event)
        BY <3>1, WritesOf DEF CleaningEvents
      <4> QED
        BY <2>e, <3>1, <4>1 DEF TrueOf
    <3>2. CASE Aged(m, r, fs)
      BY <2>d, <2>e, <3>2, SameInside, AgedTrue
    <3> QED
      BY <2>1, <3>1, <3>2
  <2>3. OnlyMovesShare' /\ OccupancyFollows'
    BY <2>1, <2>d DEF OnlyMovesShare, AtMostOne, OccupancyFollows, Inside, StayTypeOK
  <2>4. CleanIsClean' /\ DepartureIsCleaned'
    BY <2>1, <2>d, <2>e DEF CleanIsClean, DepartureIsCleaned, StayTypeOK
  <2> QED
    BY <2>2, <2>3, <2>4
<1>9. ASSUME NEW r \in Rooms, NEW type \in Cleanings, InspectionPassed(r, type)
      PROVE  RoomsTrue'
  <2> DEFINE fs == {"housekeeping"}
  <2>1. /\ \A m \in news' : \/ m.room = r /\ m.event = "passed" /\ m.newest = fs
                            \/ Aged(m, r, fs)
        /\ current' = [current EXCEPT ![r] = @ \ fs]
    <3>1. fs = UNION {Writes(e) : e \in {"passed"}} /\ Writes("passed") = fs
      BY WritesOf DEF CleaningEvents
    <3>2. {"passed"} \in SUBSET Events
      BY DEF Events, CleaningEvents
    <3>3. Tell(r, {"passed"})
      BY <1>9 DEF InspectionPassed
    <3> HIDE DEF fs
    <3>4. /\ \A m \in news' : \/ m.room = r /\ m.event \in {"passed"}
                                 /\ m.newest = Writes(m.event)
                              \/ Aged(m, r, fs)
          /\ current' = [current EXCEPT ![r] = @ \ fs]
      BY <3>1, <3>2, <3>3, TellNews
    <3> QED
      BY <3>1, <3>4
  <2>d. UNCHANGED <<stay, roomVars, openTask, dirt, shared>>
    BY <1>9 DEF InspectionPassed
  <2>e. \A q \in Rooms : dirt'[q] = dirt[q]
    BY <2>d DEF StayTypeOK
  <2>2. NewsTrue'
    <3> SUFFICES ASSUME NEW m \in news' PROVE TrueOf(m)'
      BY DEF NewsTrue
    <3>1. CASE m.room = r /\ m.event = "passed" /\ m.newest = fs
      <4>1. m.newest = Writes(m.event)
        BY <3>1, WritesOf DEF CleaningEvents
      <4> QED
        BY <3>1, <4>1 DEF TrueOf
    <3>2. CASE Aged(m, r, fs)
      BY <2>d, <2>e, <3>2, SameInside, AgedTrue
    <3> QED
      BY <2>1, <3>1, <3>2
  <2>3. OnlyMovesShare' /\ OccupancyFollows'
    BY <2>1, <2>d DEF OnlyMovesShare, AtMostOne, OccupancyFollows, Inside, StayTypeOK
  <2>4. CleanIsClean' /\ DepartureIsCleaned'
    BY <2>1, <2>d, <2>e DEF CleanIsClean, DepartureIsCleaned, StayTypeOK
  <2> QED
    BY <2>2, <2>3, <2>4
<1>10. ASSUME NEW r \in Rooms, NEW type \in Cleanings, InspectionFailed(r, type)
      PROVE  RoomsTrue'
  <2> DEFINE fs == {"housekeeping"}
  <2>1. /\ \A m \in news' : \/ m.room = r /\ m.event = "failed" /\ m.newest = fs
                            \/ Aged(m, r, fs)
        /\ current' = [current EXCEPT ![r] = @ \ fs]
    <3>1. fs = UNION {Writes(e) : e \in {"failed"}} /\ Writes("failed") = fs
      BY WritesOf DEF CleaningEvents
    <3>2. {"failed"} \in SUBSET Events
      BY DEF Events, CleaningEvents
    <3>3. Tell(r, {"failed"})
      BY <1>10 DEF InspectionFailed
    <3> HIDE DEF fs
    <3>4. /\ \A m \in news' : \/ m.room = r /\ m.event \in {"failed"}
                                 /\ m.newest = Writes(m.event)
                              \/ Aged(m, r, fs)
          /\ current' = [current EXCEPT ![r] = @ \ fs]
      BY <3>1, <3>2, <3>3, TellNews
    <3> QED
      BY <3>1, <3>4
  <2>d. /\ openTask[r] = "NONE" /\ openTask' = [openTask EXCEPT ![r] = type]
        /\ dirt' = [dirt EXCEPT ![r] = IF @ = "NONE" THEN "USED" ELSE @]
        /\ UNCHANGED <<stay, roomVars, shared>>
    BY <1>10 DEF InspectionFailed, Open
  <2>e. \A q \in Rooms : /\ dirt'[q] = "LEFT" => dirt[q] = "LEFT"
                        /\ q # r => dirt'[q] = dirt[q]
    BY <2>d DEF StayTypeOK
  <2>2. NewsTrue'
    <3> SUFFICES ASSUME NEW m \in news' PROVE TrueOf(m)'
      BY DEF NewsTrue
    <3>1. CASE m.room = r /\ m.event = "failed" /\ m.newest = fs
      <4>1. m.newest = Writes(m.event)
        BY <3>1, WritesOf DEF CleaningEvents
      <4> QED
        BY <3>1, <4>1 DEF TrueOf
    <3>2. CASE Aged(m, r, fs)
      BY <2>d, <2>e, <3>2, SameInside, AgedTrue
    <3> QED
      BY <2>1, <3>1, <3>2
  <2>3. OnlyMovesShare' /\ OccupancyFollows'
    BY <2>1, <2>d DEF OnlyMovesShare, AtMostOne, OccupancyFollows, Inside, StayTypeOK
  <2>4. CleanIsClean' /\ DepartureIsCleaned'
    BY <2>1, <2>d, <2>e DEF CleanIsClean, DepartureIsCleaned, StayTypeOK
  <2> QED
    BY <2>2, <2>3, <2>4
<1>11. ASSUME NEW r \in Rooms, CancelTask(r) PROVE RoomsTrue'
  <2>d. /\ dirt' = [dirt EXCEPT ![r] = IF @ = "LEFT" THEN "USED" ELSE @]
        /\ openTask' = [openTask EXCEPT ![r] = "NONE"]
        /\ UNCHANGED <<stay, roomVars, news, current, shared>>
    BY <1>11 DEF CancelTask
  <2>e. \A q \in Rooms : /\ dirt'[q] = "NONE" <=> dirt[q] = "NONE"
                         /\ dirt'[q] = "LEFT" => dirt[q] = "LEFT" /\ q # r
    BY <2>d DEF StayTypeOK
  <2>2. NewsTrue'
    <3>1. \A m \in news : m.room \in Rooms
      BY DEF StayTypeOK, News
    <3> QED
      BY <2>d, <2>e, <3>1 DEF NewsTrue, TrueOf, Inside
  <2>3. OnlyMovesShare' /\ OccupancyFollows'
    BY <2>d DEF OnlyMovesShare, AtMostOne, OccupancyFollows, Inside
  <2>4. CleanIsClean' /\ DepartureIsCleaned'
    BY <2>d, <2>e DEF CleanIsClean, DepartureIsCleaned, StayTypeOK
  <2> QED
    BY <2>2, <2>3, <2>4
<1>12. CASE PlanStayovers
  BY <1>12 DEF PlanStayovers, NewsTrue, TrueOf, OnlyMovesShare, AtMostOne, OccupancyFollows,
     CleanIsClean, DepartureIsCleaned, Inside
<1>13. CASE InsertStayovers
  <2>1. NewsTrue' /\ OnlyMovesShare' /\ OccupancyFollows' /\ CleanIsClean'
    BY <1>13 DEF InsertStayovers, NewsTrue, TrueOf, OnlyMovesShare, AtMostOne, OccupancyFollows,
       CleanIsClean, Inside
  <2>2. DepartureIsCleaned'
    BY <1>13 DEF InsertStayovers, DepartureIsCleaned, StayTypeOK
  <2> QED
    BY <2>1, <2>2
<1>14. ASSUME NEW m \in news, HandleStayEvent(m) PROVE RoomsTrue'
  <2>h. /\ Handled(m) /\ m.event \in RoomEvents /\ m \in News /\ TrueOf(m)
        /\ UNCHANGED <<stay, taskVars, dirt, shared>>
    BY <1>14 DEF HandleStayEvent, StayTypeOK, NewsTrue
  <2>0. /\ m.room \in Rooms /\ "occupancy" \in Writes(m.event)
        /\ "housekeeping" \in Writes(m.event) => m.event = "checked_out"
        /\ "task" \notin Writes(m.event)
    BY <2>h, WritesOf DEF News, RoomEvents
  <2>1. current' = [current EXCEPT ![m.room] = (@ \ Writes(m.event)) \union m.newest]
    BY <2>h, HandledNews
  <2>2. NewsTrue'
    BY <2>h, HandledTrue
  <2>3. OnlyMovesShare'
    BY <2>h DEF OnlyMovesShare, AtMostOne, Inside
  <2>4. OccupancyFollows'
    <3>1. "occupancy" \in m.newest /\ m.room \notin shared
            => (m.event \in Arriving <=> Inside(m.room) # {})
      BY <2>h DEF TrueOf
    <3>2. occupancy' = [occupancy EXCEPT ![m.room] =
                          IF m.event \in Arriving THEN "OCCUPIED" ELSE "VACANT"]
      BY <1>14 DEF HandleStayEvent, Arriving
    <3> QED
      BY <2>h, <2>0, <2>1, <3>1, <3>2 DEF OccupancyFollows, Inside, StayTypeOK
  <2>5. CleanIsClean'
    <3>1. housekeeping' = [housekeeping EXCEPT ![m.room] =
                             IF m.event = "checked_out" THEN "DIRTY" ELSE @]
      BY <1>14 DEF HandleStayEvent
    <3>2. m.newest \subseteq Writes(m.event)
      BY <2>h DEF TrueOf
    <3> QED
      BY <2>h, <2>0, <2>1, <3>1, <3>2 DEF CleanIsClean, StayTypeOK
  <2>6. DepartureIsCleaned'
    <3>1. m.newest \subseteq Writes(m.event)
      BY <2>h DEF TrueOf
    <3> QED
      BY <2>h, <2>0, <2>1, <3>1 DEF DepartureIsCleaned, StayTypeOK
  <2> QED
    BY <2>2, <2>3, <2>4, <2>5, <2>6
<1>15. ASSUME NEW m \in news, HandleCleaningEvent(m) PROVE RoomsTrue'
  <2>h. /\ Handled(m) /\ m.event \in CleaningEvents /\ m \in News /\ TrueOf(m)
        /\ UNCHANGED <<stay, occupancy, taskVars, dirt, shared>>
    BY <1>15 DEF HandleCleaningEvent, StayTypeOK, NewsTrue
  <2>0. m.room \in Rooms /\ Writes(m.event) = {"housekeeping"} /\ m.newest \subseteq {"housekeeping"}
    BY <2>h, WritesOf DEF News, TrueOf
  <2>1. current' = [current EXCEPT ![m.room] = (@ \ Writes(m.event)) \union m.newest]
    BY <2>h, HandledNews
  <2>2. NewsTrue'
    BY <2>h, HandledTrue
  <2>3. OnlyMovesShare' /\ OccupancyFollows' /\ DepartureIsCleaned'
    BY <2>h, <2>0, <2>1
    DEF OnlyMovesShare, AtMostOne, OccupancyFollows, DepartureIsCleaned, Inside, StayTypeOK
  <2>4. CleanIsClean'
    <3>1. "housekeeping" \in m.newest /\ m.event = "completed" => dirt[m.room] = "NONE"
      BY <2>h DEF TrueOf
    <3>2. housekeeping' = [housekeeping EXCEPT ![m.room] = StatusAfter[m.event]]
      BY <1>15 DEF HandleCleaningEvent
    <3>3. StatusAfter[m.event] = "CLEAN" => m.event = "completed"
      BY <2>h DEF StatusAfter, CleaningEvents
    <3> QED
      BY <2>h, <2>0, <2>1, <3>1, <3>2, <3>3 DEF CleanIsClean, StayTypeOK
  <2> QED
    BY <2>2, <2>3, <2>4
<1>16. ASSUME NEW m \in news, OpenCheckoutClean(m) PROVE RoomsTrue'
  <2>h. /\ Handled(m) /\ m.event \in TaskEvents /\ m \in News /\ TrueOf(m)
        /\ UNCHANGED <<stay, roomVars, dirt, shared>>
    BY <1>16 DEF OpenCheckoutClean, StayTypeOK, NewsTrue, TaskEvents
  <2>0. m.room \in Rooms /\ Writes(m.event) = {"task"} /\ m.newest \subseteq {"task"}
    BY <2>h, WritesOf DEF News, TrueOf
  <2>1. current' = [current EXCEPT ![m.room] = (@ \ Writes(m.event)) \union m.newest]
    BY <2>h, HandledNews
  <2>2. NewsTrue'
    BY <2>h, HandledTrue
  <2>3. OnlyMovesShare' /\ OccupancyFollows' /\ CleanIsClean'
    BY <2>h, <2>0, <2>1
    DEF OnlyMovesShare, AtMostOne, OccupancyFollows, CleanIsClean, Inside, StayTypeOK
  <2>4. DepartureIsCleaned'
    <3>1. openTask' = [openTask EXCEPT ![m.room] =
                           IF @ \in {"NONE", "STAYOVER"} THEN "CHECKOUT_CLEAN" ELSE @]
      BY <1>16, <2>0 DEF OpenCheckoutClean, Open, StayTypeOK
    <3>2. openTask[m.room] \in {"NONE", "STAYOVER", "CHECKOUT_CLEAN", "DEEP_CLEAN"}
      BY <2>0 DEF StayTypeOK, Cleanings
    <3> QED
      BY <2>h, <2>0, <2>1, <3>1, <3>2 DEF DepartureIsCleaned, StayTypeOK
  <2> QED
    BY <2>2, <2>3, <2>4
<1>17. ASSUME NEW m \in news, CancelCheckoutClean(m) PROVE RoomsTrue'
  <2>h. /\ Handled(m) /\ m.event = "cancel_checkout_clean" /\ m \in News /\ TrueOf(m)
        /\ openTask' = [openTask EXCEPT ![m.room] = IF @ = "CHECKOUT_CLEAN" THEN "NONE" ELSE @]
        /\ UNCHANGED <<stay, roomVars, dirt, shared>>
    BY <1>17 DEF CancelCheckoutClean, StayTypeOK, NewsTrue
  <2>0. m.room \in Rooms /\ Writes(m.event) = {"task"} /\ m.newest \subseteq {"task"}
    BY <2>h, WritesOf DEF News, TrueOf, TaskEvents
  <2>1. current' = [current EXCEPT ![m.room] = (@ \ Writes(m.event)) \union m.newest]
    BY <2>h, HandledNews
  <2>2. NewsTrue'
    BY <2>h, HandledTrue
  <2>3. OnlyMovesShare' /\ OccupancyFollows' /\ CleanIsClean'
    BY <2>h, <2>0, <2>1
    DEF OnlyMovesShare, AtMostOne, OccupancyFollows, CleanIsClean, Inside, StayTypeOK
  <2>4. DepartureIsCleaned'
    <3>1. "task" \in m.newest => dirt[m.room] # "LEFT"
      BY <2>h DEF TrueOf
    <3> QED
      BY <2>h, <2>0, <2>1, <3>1 DEF DepartureIsCleaned, StayTypeOK
  <2> QED
    BY <2>2, <2>3, <2>4
<1>18. ASSUME NEW m \in news, GivenToStaff(m) PROVE RoomsTrue'
  BY <1>18 DEF GivenToStaff, NewsTrue, TrueOf, OnlyMovesShare, AtMostOne, OccupancyFollows,
     CleanIsClean, DepartureIsCleaned, Inside
<1>19. CASE UNCHANGED vars
  BY <1>19 DEF vars, NewsTrue, TrueOf, OnlyMovesShare, AtMostOne, OccupancyFollows,
     CleanIsClean, DepartureIsCleaned, Inside
<1> QED
  BY <1>1, <1>2, <1>3, <1>4, <1>5, <1>6, <1>7, <1>8, <1>9, <1>10, <1>11, <1>12, <1>13,
     <1>14, <1>15, <1>16, <1>17, <1>18, <1>19
  DEF Next, FrontDesk, Housekeeping, Worker

\* The inductive invariant holds in every reachable state.
THEOREM DayInvariant == Spec => []DayInv
<1>1. DayInv /\ [Next]_vars => DayInv'
  BY StayStep, TruthStep DEF DayInv, RoomsTrue
<1> QED
  BY <1>1, DayInit, PTL DEF Spec

\* The reservations, rooms, tasks and events of the day keep their types.
THEOREM StayTypeCorrect == Spec => []StayTypeOK
<1>1. DayInv => StayTypeOK
  BY DEF DayInv
<1> QED
  BY <1>1, DayInvariant, PTL

\* Checking in, checking out and taking either back never put two guests into
\* a room; only a move in house does.
THEOREM CheckInNeverShares == Spec => []OnlyMovesShare
<1>1. DayInv => OnlyMovesShare
  BY DEF DayInv
<1> QED
  BY <1>1, DayInvariant, PTL

\* room-worker: whatever the order its events come in, an occupancy written
\* by the newest of them is right.
THEOREM OccupancyIsRight == Spec => []OccupancyFollows
<1>1. DayInv => OccupancyFollows
  BY DEF DayInv
<1> QED
  BY <1>1, DayInvariant, PTL

\* A room whose status was written by the newest fact about it reads clean
\* only if it is.
THEOREM CleanRoomsAreClean == Spec => []CleanIsClean
<1>1. DayInv => CleanIsClean
  BY DEF DayInv
<1> QED
  BY <1>1, DayInvariant, PTL

\* housekeeping-worker: a departure that has been handled keeps its checkout
\* cleaning open until somebody ends the need for it.
THEOREM DeparturesAreCleaned == Spec => []DepartureIsCleaned
<1>1. DayInv => DepartureIsCleaned
  BY DEF DayInv
<1> QED
  BY <1>1, DayInvariant, PTL
=============================================================================
