--------------------------- MODULE InventoryProofs ---------------------------
(* For any hotel, any calls and any number of them at once: what a call has *)
(* found free under its locks is free when it writes, but for the known     *)
(* cases that are left to the database; no lost update; a request opens its *)
(* reservation once; no deadlock but between calls that open a reservation  *)
(* in a room of another type; and no night of a type below zero but by a    *)
(* call that may overbook or one of the known calls that lose a type they   *)
(* have not locked.  The argument is about locks: a call holds the rows it  *)
(* writes, or, for a new row, the row of its type; what is held exists and  *)
(* is written by its holder alone; a room that is held takes no guest of    *)
(* another call; and what a check left of a type is left while its row is   *)
(* held.                                                                    *)
EXTENDS Inventory, FiniteSetTheorems, WellFoundedInduction, TLAPS

Active == {"retry", "first", "check", "place", "write"}

\* A call that has begun is one of the given calls.
JobSound(t) ==
    tx[t].at \in Active =>
        /\ tx[t].job \in Jobs
        /\ tx[t].job.op # "CancelGroup" => tx[t].rs = tx[t].job.rs
        /\ \A f \in tx[t].form : f[1] \in FormRow(tx[t].job)

Claims(t, l) == held[l] = t \/ l \in tx[t].want

\* Operations that lock reservations before anything else.
ReservationFirst ==
    {"Assign", "AutoAssign", "Unassign", "Update", "Cancel", "CancelGroup", "Reinstate"}

\* Where a call may hold and wait for which rows, and in which order.
LocksSound(t) ==
    /\ tx[t].at \in {"idle", "retry", "done"} => \A l \in Row : ~ Claims(t, l)
    /\ tx[t].at = "first" /\ tx[t].job.op \in ReservationFirst
           => \A l \in Row : Claims(t, l) => l \in Res
    /\ tx[t].at = "first" /\ tx[t].job.op = "Create"
           => \A l \in Row : Claims(t, l) => \E r \in tx[t].rs : l = Req[r].type
    /\ tx[t].at = "check" => \A l \in Row : Claims(t, l) => l \in Res \union RoomType

InOrder(t) ==
    ForeignCreate(t) \/ \A l \in Row : \A m \in tx[t].want : held[l] = t => Rank[l] <= Rank[m]

\* A call that has checked holds what it will write, and its form is current.
WriteSound(t) ==
    /\ tx[t].at = "first" /\ tx[t].job.op = "Create"
           => \A r \in tx[t].rs : Claims(t, Req[r].type)
    /\ tx[t].at \in {"place", "write"} /\ tx[t].job.op = "Create"
           => \A r \in tx[t].rs : held[Req[r].type] = t /\ res[r].status = "NONE"
    /\ tx[t].at \in {"check", "place", "write"}
           => /\ tx[t].job.op # "Create" => \A l \in Written(tx[t].job, tx[t].rs) : held[l] = t
              /\ tx[t].job.op # "CreateRoom"
              /\ ~ Stale(t)

CallSound(t) == JobSound(t) /\ LocksSound(t) /\ InOrder(t) /\ WriteSound(t)

\* No room is given to two open reservations on one night, or to a guest while
\* it is blocked: what the database sees to at every commit.
RoomsKeptApart == DbAccepts(res, blocks)

HeldExists == \A l \in Row : held[l] # None => RowExists(l)

IInv == TypeOK /\ RoomsKeptApart /\ HeldExists /\ \A t \in Tx : CallSound(t)

-----------------------------------------------------------------------------
(* Types *)

LEMMA JobFacts ==
    \A j \in Jobs : j \in Job /\ Complete(j)
BY InventoryAssumption

LEMMA NoJobIsJob == NoJob \in Job
<1>1. PICK ty \in RoomType : TRUE
  BY InventoryAssumption
<1>2. [op |-> "Create", rs |-> {}, room |-> None, type |-> ty, nights |-> {},
       kind |-> "OUT_OF_ORDER", allowOverbooking |-> FALSE, fitsCapacity |-> FALSE] \in Job
  BY DEF Job, Ops
<1> QED
  BY <1>2 DEF NoJob

LEMMA NoCallIsCall ==
    ASSUME NEW step \in Steps
    PROVE  NoCall(step) \in Call
BY NoJobIsJob DEF NoCall, Call

LEMMA FinishTypes ==
    ASSUME TypeOK, NEW t \in Tx, Finish(t)
    PROVE  tx' \in [Tx -> Call] /\ held' \in [Row -> Tx \union {None}]
<1>1. NoCall("done") \in Call
  BY NoCallIsCall DEF Steps
<1> QED
  BY <1>1 DEF TypeOK, Finish, Released

LEMMA CommitTypes ==
    ASSUME TypeOK, NEW t \in Tx, NEW rm, NEW rv, NEW bl, Commit(t, rm, rv, bl),
           rm \in [Room -> RoomType \union {"ABSENT", "DELETED"}],
           rv \in [Res -> Reservation], bl \subseteq Block
    PROVE  TypeOK'
<1>1. Finish(t)
  BY DEF Commit
<1>2. tx' \in [Tx -> Call] /\ held' \in [Row -> Tx \union {None}]
  BY <1>1, FinishTypes
<1>3. version' \in [Room \union Res -> Nat]
  BY DEF Commit, TypeOK
<1>4. unlockedLoss' \in BOOLEAN
  BY DEF Commit, TypeOK
<1>5. /\ room' \in [Room -> RoomType \union {"ABSENT", "DELETED"}]
      /\ res' \in [Res -> Reservation] /\ blocks' \subseteq Block
  BY DEF Commit, TypeOK
<1> QED
  BY <1>2, <1>3, <1>4, <1>5 DEF TypeOK

LEMMA RefuseTypes ==
    ASSUME TypeOK, NEW t \in Tx, Refuse(t)
    PROVE  TypeOK'
<1>1. Finish(t)
  BY DEF Refuse
<1> QED
  BY <1>1, FinishTypes DEF Refuse, TypeOK

LEMMA GoOnTypes ==
    ASSUME TypeOK, NEW t \in Tx, NEW step \in Steps, NEW want \in SUBSET Row, GoOn(t, step, want)
    PROVE  TypeOK'
<1>1. tx[t] \in Call
  BY DEF TypeOK
<1>2. [tx[t] EXCEPT !.at = step, !.want = want] \in Call
  BY <1>1 DEF Call
<1>3. tx' = [tx EXCEPT ![t] = [tx[t] EXCEPT !.at = step, !.want = want]]
  BY DEF GoOn, TypeOK
<1>4. tx' \in [Tx -> Call]
  BY <1>2, <1>3 DEF TypeOK
<1> QED
  BY <1>4 DEF GoOn, TypeOK

LEMMA FirstRowsAreRows ==
    ASSUME TypeOK, NEW j \in Jobs, j.op \in ReadsRoomFirst => room[j.room] \in RoomType
    PROVE  FirstRows(j) \subseteq Row /\ (j.op = "CancelGroup" => FirstRows(j) \subseteq Res)
<1>1. j \in Job /\ Complete(j)
  BY JobFacts
<1>2. /\ j.op \in Ops /\ j.rs \subseteq Res /\ j.type \in RoomType
      /\ j.op \in ReadsRoomFirst \union {"Unblock"} => j.room \in Room
  BY <1>1 DEF Job, Complete, ReadsRoomFirst
<1>3. \A r \in j.rs : Req[r].type \in RoomType
  BY <1>2, InventoryAssumption
<1> QED
  BY <1>2, <1>3 DEF FirstRows, Row, ReadsRoomFirst, Ops

LEMMA FormRows ==
    ASSUME NEW j \in Jobs
    PROVE  FormRow(j) \subseteq Room \union Res /\ (FormRow(j) # {} => FormRow(j) \subseteq Written(j, j.rs))
<1>1. j \in Job /\ Complete(j)
  BY JobFacts
<1> QED
  BY <1>1 DEF FormRow, Written, Job, Complete

LEMMA BeginTypes ==
    ASSUME TypeOK, \A u \in Tx : JobSound(u), NEW t \in Tx, Begin(t)
    PROVE  TypeOK'
<1>1. PICK j \in Jobs :
        /\ tx[t].at = "idle" \/ (tx[t].at = "retry" /\ j = tx[t].job)
        /\ IF ~ Found(j)
           THEN tx' = [tx EXCEPT ![t] = NoCall("done")]
           ELSE tx' = [tx EXCEPT ![t] =
                    [at |-> "first", job |-> j, want |-> FirstRows(j),
                     rs |-> IF j.op = "CancelGroup" THEN FirstRows(j) ELSE j.rs,
                     seen |-> IF j.op \in ReadsRoomFirst THEN room[j.room] ELSE "ABSENT",
                     form |-> IF tx[t].at = "retry" THEN tx[t].form
                              ELSE {<<l, version[l]>> : l \in FormRow(j)},
                     drop |-> FALSE, attempt |-> tx[t].attempt]]
        /\ UNCHANGED <<room, version, res, blocks, held, unlockedLoss>>
  BY DEF Begin
<1>2. CASE ~ Found(j)
  BY <1>1, <1>2, NoCallIsCall DEF TypeOK, Steps
<1>3. CASE Found(j)
  <2>1. FirstRows(j) \subseteq Row /\ (j.op = "CancelGroup" => FirstRows(j) \subseteq Res)
    BY <1>3, FirstRowsAreRows DEF Found
  <2>2. j \in Job /\ j.rs \subseteq Res
    BY JobFacts DEF Job
  <2>3. tx[t].form \subseteq (Room \union Res) \X Nat /\ tx[t].attempt \in Nat
    BY DEF TypeOK, Call
  <2>4. {<<l, version[l]>> : l \in FormRow(j)} \subseteq (Room \union Res) \X Nat
    BY FormRows DEF TypeOK
  <2>5. (IF j.op \in ReadsRoomFirst THEN room[j.room] ELSE "ABSENT") \in RoomType \union {"ABSENT", "DELETED"}
    BY <1>3 DEF Found
  <2> DEFINE c == [at |-> "first", job |-> j, want |-> FirstRows(j),
                   rs |-> IF j.op = "CancelGroup" THEN FirstRows(j) ELSE j.rs,
                   seen |-> IF j.op \in ReadsRoomFirst THEN room[j.room] ELSE "ABSENT",
                   form |-> IF tx[t].at = "retry" THEN tx[t].form
                            ELSE {<<l, version[l]>> : l \in FormRow(j)},
                   drop |-> FALSE, attempt |-> tx[t].attempt]
  <2>6. c \in Call
    BY <2>1, <2>2, <2>3, <2>4, <2>5 DEF Call, Steps
  <2>7. tx' = [tx EXCEPT ![t] = c]
    BY <1>1, <1>3
  <2>8. tx' \in [Tx -> Call]
    BY <2>6, <2>7 DEF TypeOK
  <2> QED
    BY <1>1, <2>8 DEF TypeOK
<1> QED
  BY <1>2, <1>3

\* What a call that is ready for a step has: its arguments, and its record.
LEMMA ReadyCall ==
    ASSUME TypeOK, NEW t \in Tx, JobSound(t), NEW step \in Active, NEW ops, Ready(t, step, ops)
    PROVE  /\ tx[t].at = step /\ tx[t].want = {} /\ tx[t].job.op \in ops
           /\ tx[t].job \in Jobs /\ tx[t].job \in Job /\ Complete(tx[t].job)
           /\ tx[t].rs \subseteq Res /\ tx[t].seen \in RoomType \union {"ABSENT", "DELETED"}
           /\ tx[t].job.op # "CancelGroup" => tx[t].rs = tx[t].job.rs
BY JobFacts DEF Ready, JobSound, TypeOK, Call

LEMMA LockTypes ==
    ASSUME TypeOK, NEW t \in Tx, LockRow(t) \/ DeadlockAbort(t)
    PROVE  TypeOK'
<1>0. tx[t] \in Call
  BY DEF TypeOK
<1>1. CASE LockRow(t)
  <2>1. PICK l \in tx[t].want :
          /\ held' = IF RowExists(l) THEN [held EXCEPT ![l] = t] ELSE held
          /\ tx' = [tx EXCEPT ![t].want = @ \ {l}]
          /\ UNCHANGED <<room, version, res, blocks, unlockedLoss>>
    BY <1>1 DEF LockRow
  <2>2. [tx[t] EXCEPT !.want = tx[t].want \ {l}] \in Call
    BY <1>0 DEF Call
  <2>3. tx' \in [Tx -> Call]
    BY <2>1, <2>2 DEF TypeOK
  <2>4. held' \in [Row -> Tx \union {None}]
    BY <2>1 DEF TypeOK
  <2> QED
    BY <2>1, <2>3, <2>4 DEF TypeOK
<1>2. CASE DeadlockAbort(t)
  <2>1. CASE tx[t].attempt < MaxAttempts
    <3>1. /\ tx' = [tx EXCEPT ![t].at = "retry", ![t].want = {}, ![t].attempt = @ + 1]
          /\ held' = Released(t)
      BY <1>2, <2>1 DEF DeadlockAbort
    <3>2. \A n \in Nat : [tx[t] EXCEPT !.at = "retry", !.want = {}, !.attempt = n] \in Call
      BY <1>0 DEF Call, Steps
    <3>5. tx[t].attempt + 1 \in Nat
      BY <1>0 DEF Call
    <3>3. tx' \in [Tx -> Call]
      BY <3>1, <3>2, <3>5 DEF TypeOK
    <3>4. held' \in [Row -> Tx \union {None}]
      BY <3>1 DEF TypeOK, Released
    <3> QED
      BY <1>2, <3>3, <3>4 DEF TypeOK, DeadlockAbort
  <2>2. CASE ~ tx[t].attempt < MaxAttempts
    <3>1. Finish(t)
      BY <1>2, <2>2 DEF DeadlockAbort
    <3> QED
      BY <1>2, <3>1, FinishTypes DEF TypeOK, DeadlockAbort
  <2> QED
    BY <2>1, <2>2
<1> QED
  BY <1>1, <1>2

LEMMA PlaceTypes ==
    ASSUME TypeOK, NEW t \in Tx, NEW k \in Room, NEW more \in SUBSET Row, ReadRoomThenLock(t, k, more)
    PROVE  TypeOK'
<1>1. CASE room[k] \notin RoomType
  BY <1>1, RefuseTypes DEF ReadRoomThenLock
<1>2. CASE room[k] \in RoomType
  <2>1. /\ tx' = [tx EXCEPT ![t].at = "place", ![t].seen = room[k], ![t].want = {room[k], k} \union more]
        /\ UNCHANGED <<room, version, res, blocks, held, unlockedLoss>>
    BY <1>2 DEF ReadRoomThenLock
  <2>2. [tx[t] EXCEPT !.at = "place", !.seen = room[k], !.want = {room[k], k} \union more] \in Call
    BY <1>2 DEF Call, Steps, TypeOK, Row
  <2>3. tx' \in [Tx -> Call]
    BY <2>1, <2>2 DEF TypeOK
  <2> QED
    BY <2>1, <2>3 DEF TypeOK
<1> QED
  BY <1>1, <1>2

LEMMA OpenedTypes ==
    ASSUME TypeOK, NEW rs
    PROVE  Opened(rs) \in [Res -> Reservation]
BY InventoryAssumption DEF Opened, TypeOK, Reservation

LEMMA ReservationTypes ==
    ASSUME TypeOK, NEW r \in Res
    PROVE  /\ \A k \in Room \union {None} : [res EXCEPT ![r].room = k] \in [Res -> Reservation]
           /\ \A v \in Reservation : [res EXCEPT ![r] = v] \in [Res -> Reservation]
           /\ res[r].type \in RoomType /\ res[r].room \in Room \union {None}
BY DEF TypeOK, Reservation

LEMMA CreateTypes ==
    ASSUME TypeOK, NEW t \in Tx, JobSound(t), CreateCheck(t) \/ PlaceCheck(t) \/ CreateWrite(t)
    PROVE  TypeOK'
<1> DEFINE j == tx[t].job
<1>1. CASE CreateCheck(t)
  <2>1. Ready(t, "first", {"Create"})
    BY <1>1 DEF CreateCheck
  <2>2. j \in Job
    BY <2>1, ReadyCall DEF Active
  <2>3. \/ Refuse(t) \/ GoOn(t, "write", {})
        \/ j.room # None /\ ReadRoomThenLock(t, j.room, {})
    BY <1>1 DEF CreateCheck
  <2>4. j.room # None => j.room \in Room
    BY <2>2 DEF Job
  <2> QED
    BY <2>3, <2>4, RefuseTypes, GoOnTypes, PlaceTypes DEF Steps
<1>2. CASE PlaceCheck(t)
  BY <1>2, RefuseTypes, GoOnTypes DEF PlaceCheck, Steps
<1>3. CASE CreateWrite(t)
  <2>1. Ready(t, "write", {"Create"})
    BY <1>3 DEF CreateWrite
  <2>2. j \in Job
    BY <2>1, ReadyCall DEF Active
  <2> DEFINE rv == [r \in Res |-> IF r \in tx[t].rs THEN [Opened(tx[t].rs)[r] EXCEPT !.room = j.room]
                                 ELSE Opened(tx[t].rs)[r]]
  <2>3. Commit(t, room, rv, blocks)
    BY <1>3 DEF CreateWrite
  <2>4. j.room \in Room \union {None}
    BY <2>2 DEF Job
  <2>5. rv \in [Res -> Reservation]
    BY <2>4, OpenedTypes DEF Reservation
  <2> HIDE DEF rv
  <2> QED
    BY <2>3, <2>5, CommitTypes DEF TypeOK
<1> QED
  BY <1>1, <1>2, <1>3

LEMMA GoOnWithRoomTypes ==
    ASSUME TypeOK, NEW t \in Tx, NEW r \in Res, NEW drop \in BOOLEAN, GoOnWithRoom(t, r, drop)
    PROVE  TypeOK'
<1> DEFINE want == IF drop THEN {} ELSE {res[r].room} \ {None}
<1>1. tx[t] \in Call /\ want \subseteq Row
  BY ReservationTypes DEF TypeOK, Row
<1> HIDE DEF want
<1>2. [tx[t] EXCEPT !.at = "write", !.drop = drop, !.want = want] \in Call
  BY <1>1 DEF Call, Steps
<1>3. tx' = [tx EXCEPT ![t] = [tx[t] EXCEPT !.at = "write", !.drop = drop, !.want = want]]
  BY DEF GoOnWithRoom, TypeOK, want
<1>4. tx' \in [Tx -> Call]
  BY <1>2, <1>3 DEF TypeOK
<1> QED
  BY <1>4 DEF GoOnWithRoom, TypeOK

LEMMA PlacingTypes ==
    ASSUME TypeOK, NEW t \in Tx, JobSound(t),
           AssignRead(t) \/ AssignWrite(t) \/ UnassignRead(t) \/ UnassignWrite(t)
    PROVE  TypeOK'
<1> DEFINE j == tx[t].job
<1>1. CASE AssignRead(t)
  <2>1. Ready(t, "first", {"Assign", "AutoAssign"})
    BY <1>1 DEF AssignRead
  <2>2. j.room \in Room /\ tx[t].rs \subseteq Res
    BY <2>1, ReadyCall DEF Active, Complete
  <2>3. PICK r \in tx[t].rs : Refuse(t) \/ ReadRoomThenLock(t, j.room, {res[r].room} \ {None})
    BY <1>1 DEF AssignRead
  <2>4. {res[r].room} \ {None} \subseteq Row
    BY <2>2, ReservationTypes DEF Row
  <2> QED
    BY <2>2, <2>3, <2>4, RefuseTypes, PlaceTypes
<1>2. CASE AssignWrite(t)
  <2>1. Ready(t, "write", {"Assign", "AutoAssign"})
    BY <1>2 DEF AssignWrite
  <2>2. j.room \in Room /\ tx[t].rs \subseteq Res
    BY <2>1, ReadyCall DEF Active, Complete
  <2>3. PICK r \in tx[t].rs : Commit(t, room, [res EXCEPT ![r].room = j.room], blocks)
    BY <1>2 DEF AssignWrite
  <2> QED
    BY <2>2, <2>3, ReservationTypes, CommitTypes DEF TypeOK
<1>3. CASE UnassignRead(t)
  <2>1. Ready(t, "first", {"Unassign"})
    BY <1>3 DEF UnassignRead
  <2>2. tx[t].rs \subseteq Res
    BY <2>1, ReadyCall DEF Active
  <2>3. PICK r \in tx[t].rs : Refuse(t) \/ (res[r].room # None /\ GoOn(t, "write", {res[r].room}))
    BY <1>3 DEF UnassignRead
  <2>4. res[r].room # None => {res[r].room} \subseteq Row
    BY <2>2, ReservationTypes DEF Row
  <2> QED
    BY <2>3, <2>4, RefuseTypes, GoOnTypes DEF Steps
<1>4. CASE UnassignWrite(t)
  <2>1. Ready(t, "write", {"Unassign"})
    BY <1>4 DEF UnassignWrite
  <2>2. tx[t].rs \subseteq Res
    BY <2>1, ReadyCall DEF Active
  <2>3. PICK r \in tx[t].rs : Commit(t, room, [res EXCEPT ![r].room = None], blocks)
    BY <1>4 DEF UnassignWrite
  <2> QED
    BY <2>2, <2>3, ReservationTypes, CommitTypes DEF TypeOK
<1> QED
  BY <1>1, <1>2, <1>3, <1>4

LEMMA ChangingTypes ==
    ASSUME TypeOK, NEW t \in Tx, JobSound(t), UpdateRead(t) \/ UpdateCheck(t) \/ UpdateWrite(t)
    PROVE  TypeOK'
<1> DEFINE j == tx[t].job
<1>1. ASSUME NEW step \in {"first", "check", "write"}, Ready(t, step, {"Update"})
      PROVE  j \in Job /\ tx[t].rs \subseteq Res
  BY <1>1, ReadyCall DEF Active
<1>2. ASSUME NEW r \in Res, j \in Job
      PROVE  [Changed(r, j) EXCEPT !.room = IF tx[t].drop THEN None ELSE @] \in Reservation
  <2>1. res[r] \in Reservation /\ j.type \in RoomType /\ j.nights \subseteq Nights
    BY <1>2 DEF TypeOK, Job
  <2>2. Changed(r, j) \in Reservation
    BY <2>1 DEF Changed, Reservation
  <2>3. Changed(r, j).room \in Room \union {None}
    BY <2>2 DEF Reservation
  <2> QED
    BY <2>2, <2>3 DEF Reservation
<1>3. CASE UpdateRead(t)
  <2>1. j \in Job /\ tx[t].rs \subseteq Res
    BY <1>1, <1>3 DEF UpdateRead
  <2>2. PICK r \in tx[t].rs :
          Refuse(t) \/ GoOn(t, "check", {}) \/ GoOn(t, "check", {res[r].type, j.type})
    BY <1>3 DEF UpdateRead
  <2>3. {res[r].type, j.type} \subseteq Row
    BY <2>1, ReservationTypes DEF Row, Job
  <2> QED
    BY <2>2, <2>3, RefuseTypes, GoOnTypes DEF Steps
<1>4. CASE UpdateCheck(t)
  <2>1. j \in Job /\ tx[t].rs \subseteq Res
    BY <1>1, <1>4 DEF UpdateCheck
  <2>2. PICK r \in tx[t].rs : Refuse(t) \/ \E drop \in BOOLEAN : GoOnWithRoom(t, r, drop)
    BY <1>4 DEF UpdateCheck
  <2> QED
    BY <2>1, <2>2, RefuseTypes, GoOnWithRoomTypes
<1>5. CASE UpdateWrite(t)
  <2>1. j \in Job /\ tx[t].rs \subseteq Res
    BY <1>1, <1>5 DEF UpdateWrite
  <2>2. PICK r \in tx[t].rs :
          Commit(t, room, [res EXCEPT ![r] = [Changed(r, j) EXCEPT
                                                  !.room = IF tx[t].drop THEN None ELSE @]], blocks)
    BY <1>5 DEF UpdateWrite
  <2> QED
    BY <1>2, <2>1, <2>2, ReservationTypes, CommitTypes DEF TypeOK
<1> QED
  BY <1>3, <1>4, <1>5

LEMMA ClosingTypes ==
    ASSUME TypeOK, NEW t \in Tx, JobSound(t),
           CancelRead(t) \/ CancelWrite(t) \/ ReinstateRead(t) \/ ReinstateCheck(t) \/ ReinstateWrite(t)
    PROVE  TypeOK'
<1>1. CASE CancelRead(t)
  BY <1>1, RefuseTypes, GoOnTypes DEF CancelRead, Steps
<1>2. CASE CancelWrite(t)
  <2> DEFINE rv == [r \in Res |-> IF r \in tx[t].rs THEN [res[r] EXCEPT !.status = "CLOSED"] ELSE res[r]]
  <2>1. Commit(t, room, rv, blocks)
    BY <1>2 DEF CancelWrite
  <2>2. rv \in [Res -> Reservation]
    BY DEF TypeOK, Reservation
  <2> HIDE DEF rv
  <2> QED
    BY <2>1, <2>2, CommitTypes DEF TypeOK
<1>3. ASSUME NEW step \in {"first", "check", "write"}, Ready(t, step, {"Reinstate"})
      PROVE  tx[t].rs \subseteq Res
  BY <1>3, ReadyCall DEF Active
<1>4. CASE ReinstateRead(t)
  <2>1. tx[t].rs \subseteq Res
    BY <1>3, <1>4 DEF ReinstateRead
  <2>2. PICK r \in tx[t].rs : Refuse(t) \/ GoOn(t, "check", {res[r].type})
    BY <1>4 DEF ReinstateRead
  <2>3. {res[r].type} \subseteq Row
    BY <2>1, ReservationTypes DEF Row
  <2> QED
    BY <2>2, <2>3, RefuseTypes, GoOnTypes DEF Steps
<1>5. CASE ReinstateCheck(t)
  <2>1. tx[t].rs \subseteq Res
    BY <1>3, <1>5 DEF ReinstateCheck
  <2>2. PICK r \in tx[t].rs : Refuse(t) \/ \E drop \in BOOLEAN : GoOnWithRoom(t, r, drop)
    BY <1>5 DEF ReinstateCheck
  <2> QED
    BY <2>1, <2>2, RefuseTypes, GoOnWithRoomTypes
<1>6. CASE ReinstateWrite(t)
  <2>1. tx[t].rs \subseteq Res
    BY <1>3, <1>6 DEF ReinstateWrite
  <2>2. PICK r \in tx[t].rs :
          Commit(t, room, [res EXCEPT ![r].status = "OPEN",
                                      ![r].room = IF tx[t].drop THEN None ELSE @], blocks)
    BY <1>6 DEF ReinstateWrite
  <2> DEFINE rv == [res EXCEPT ![r].status = "OPEN", ![r].room = IF tx[t].drop THEN None ELSE @]
  <2>3. res[r] \in Reservation
    BY <2>1 DEF TypeOK
  <2>4. [[res[r] EXCEPT !.status = "OPEN"] EXCEPT !.room = IF tx[t].drop THEN None ELSE @] \in Reservation
    BY <2>3 DEF Reservation
  <2>5. rv = [res EXCEPT ![r] = [[res[r] EXCEPT !.status = "OPEN"] EXCEPT !.room = IF tx[t].drop THEN None ELSE @]]
    BY <2>1 DEF TypeOK
  <2>6. rv \in [Res -> Reservation]
    BY <2>4, <2>5 DEF TypeOK
  <2> HIDE DEF rv
  <2>7. Commit(t, room, rv, blocks)
    BY <2>2 DEF rv
  <2> QED
    BY <2>6, <2>7, CommitTypes DEF TypeOK
<1> QED
  BY <1>1, <1>2, <1>4, <1>5, <1>6

LEMMA RoomTypes ==
    ASSUME TypeOK, NEW t \in Tx, JobSound(t),
           \/ BlockCheck(t) \/ BlockWrite(t) \/ UnblockCheck(t) \/ UnblockWrite(t)
           \/ ChangeTypeCheck(t) \/ ChangeTypeWrite(t)
           \/ DeleteRoomCheck(t) \/ DeleteRoomWrite(t) \/ CreateRoomWrite(t)
    PROVE  TypeOK'
<1> DEFINE j == tx[t].job
<1>1. CASE BlockCheck(t) \/ UnblockCheck(t) \/ ChangeTypeCheck(t) \/ DeleteRoomCheck(t)
  BY <1>1, RefuseTypes, GoOnTypes DEF BlockCheck, UnblockCheck, ChangeTypeCheck, DeleteRoomCheck, Steps
<1>2. CASE BlockWrite(t)
  <2>1. Ready(t, "write", {"Block"}) /\ Commit(t, room, res, blocks \union {NewBlock(j)})
    BY <1>2 DEF BlockWrite
  <2>2. j \in Job /\ j.room \in Room
    BY <2>1, ReadyCall DEF Active, Complete
  <2>3. NewBlock(j) \in Block
    BY <2>2 DEF NewBlock, Block, Job
  <2> QED
    BY <2>1, <2>3, CommitTypes DEF TypeOK
<1>3. CASE UnblockWrite(t)
  BY <1>3, CommitTypes DEF UnblockWrite, TypeOK
<1>4. CASE ChangeTypeWrite(t) \/ CreateRoomWrite(t)
  <2>1. \/ Ready(t, "write", {"ChangeType"}) /\ Commit(t, [room EXCEPT ![j.room] = j.type], res, blocks)
        \/ Refuse(t)
        \/ Ready(t, "first", {"CreateRoom"}) /\ Commit(t, [room EXCEPT ![j.room] = j.type], res, blocks)
    BY <1>4 DEF ChangeTypeWrite, CreateRoomWrite
  <2>2. Ready(t, "write", {"ChangeType"}) \/ Ready(t, "first", {"CreateRoom"}) => j \in Job
    BY ReadyCall DEF Active
  <2>3. j \in Job => [room EXCEPT ![j.room] = j.type] \in [Room -> RoomType \union {"ABSENT", "DELETED"}]
    BY DEF Job, TypeOK
  <2> QED
    BY <2>1, <2>2, <2>3, RefuseTypes, CommitTypes DEF TypeOK
<1>5. CASE DeleteRoomWrite(t)
  <2>1. Commit(t, WithoutRoom(j.room), res, {b \in blocks : b.room # j.room})
    BY <1>5 DEF DeleteRoomWrite
  <2>2. WithoutRoom(j.room) \in [Room -> RoomType \union {"ABSENT", "DELETED"}]
    BY DEF WithoutRoom, TypeOK
  <2> QED
    BY <2>1, <2>2, CommitTypes DEF TypeOK
<1> QED
  BY <1>1, <1>2, <1>3, <1>4, <1>5

LEMMA StepTypes ==
    ASSUME TypeOK, \A u \in Tx : JobSound(u), [Next]_vars
    PROVE  TypeOK'
<1>1. ASSUME NEW t \in Tx, Step(t) PROVE TypeOK'
  BY <1>1, LockTypes, CreateTypes, PlacingTypes, ChangingTypes, ClosingTypes, RoomTypes DEF Step
<1>2. CASE UNCHANGED vars
  BY <1>2 DEF vars, TypeOK
<1> QED
  BY <1>1, <1>2, BeginTypes DEF Next, AllDone

-----------------------------------------------------------------------------
(* Calls that do not move *)

Quiet == UNCHANGED <<room, version, res, blocks, unlockedLoss>>

\* Call t commits: it writes the rows it is known to write, and ends.
Writes(t) ==
    /\ \/ tx[t].at = "write"
       \/ tx[t].at = "first" /\ tx[t].job.op = "CreateRoom" /\ room[tx[t].job.room] = "ABSENT"
    /\ Finish(t)
    /\ DbAccepts(res', blocks')
    /\ \A l \in Room \union Res : l \notin Written(tx[t].job, tx[t].rs) => version'[l] = version[l]
    /\ \A r \in Res : r \notin Written(tx[t].job, tx[t].rs) => res'[r] = res[r]
    /\ \A k \in Room : k \notin Written(tx[t].job, tx[t].rs) => room'[k] = room[k]

\* The moves of the others leave a call its rows.
LEMMA OneCallMoves ==
    ASSUME TypeOK, NEW t \in Tx, Begin(t) \/ Step(t), NEW u \in Tx, u # t
    PROVE  tx'[u] = tx[u] /\ \A l \in Row : held'[l] = u <=> held[l] = u
<1> USE DEF TypeOK
<1>0. None \notin Tx
  BY InventoryAssumption
<1>1. ASSUME Finish(t) PROVE tx'[u] = tx[u] /\ \A l \in Row : held'[l] = u <=> held[l] = u
  BY <1>0, <1>1 DEF Finish, Released
<1>2. ASSUME NEW step, NEW want, GoOn(t, step, want)
      PROVE  tx'[u] = tx[u] /\ \A l \in Row : held'[l] = u <=> held[l] = u
  BY <1>2 DEF GoOn
<1>3. ASSUME NEW k, NEW more, ReadRoomThenLock(t, k, more)
      PROVE  tx'[u] = tx[u] /\ \A l \in Row : held'[l] = u <=> held[l] = u
  BY <1>1, <1>3 DEF ReadRoomThenLock, Refuse
<1>4. ASSUME NEW r, NEW drop, GoOnWithRoom(t, r, drop)
      PROVE  tx'[u] = tx[u] /\ \A l \in Row : held'[l] = u <=> held[l] = u
  BY <1>4 DEF GoOnWithRoom
<1>5. CASE Begin(t)
  BY <1>5 DEF Begin
<1>6. CASE LockRow(t)
  BY <1>0, <1>6 DEF LockRow
<1>7. CASE DeadlockAbort(t)
  BY <1>0, <1>1, <1>7 DEF DeadlockAbort, Released
<1>8. ASSUME NEW rm, NEW rv, NEW bl, Refuse(t) \/ Commit(t, rm, rv, bl)
      PROVE  tx'[u] = tx[u] /\ \A l \in Row : held'[l] = u <=> held[l] = u
  BY <1>1, <1>8 DEF Refuse, Commit
<1> QED
  BY <1>2, <1>3, <1>4, <1>5, <1>6, <1>7, <1>8
  DEF Step, CreateCheck, PlaceCheck, CreateWrite, AssignRead, AssignWrite, UnassignRead, UnassignWrite,
      UpdateRead, UpdateCheck, UpdateWrite, CancelRead, CancelWrite, ReinstateRead, ReinstateCheck,
      ReinstateWrite, BlockCheck, BlockWrite, UnblockCheck, UnblockWrite, ChangeTypeCheck,
      ChangeTypeWrite, DeleteRoomCheck, DeleteRoomWrite, CreateRoomWrite

\* A call that does not move stays sound while nobody writes what it relies on.
LEMMA OthersKeep ==
    ASSUME NEW u \in Tx, CallSound(u), tx'[u] = tx[u], \A l \in Row : held'[l] = u <=> held[l] = u,
           tx[u].want \subseteq Row, \A r \in Res : Req[r].type \in Row,
           tx[u].rs \subseteq Res,
           tx[u].at \in Active => Written(tx[u].job, tx[u].rs) \subseteq Row,
           tx[u].at \in {"place", "write"} /\ tx[u].job.op = "Create"
               => \A r \in tx[u].rs : res'[r] = res[r],
           tx[u].at \in {"check", "place", "write"} => \A f \in tx[u].form : version'[f[1]] = version[f[1]]
    PROVE  CallSound(u)'
<1>1. JobSound(u)'
  BY DEF CallSound, JobSound
<1>2. \A l \in Row : Claims(u, l)' <=> Claims(u, l)
  BY DEF Claims
<1>3. LocksSound(u)'
  BY <1>2 DEF CallSound, LocksSound
<1>4. ForeignCreate(u)' <=> ForeignCreate(u)
  BY DEF ForeignCreate
<1>5. InOrder(u)'
  BY <1>4 DEF CallSound, InOrder
<1>6. tx[u].at \in {"check", "place", "write"} /\ ~ Stale(u) => ~ Stale(u)'
  BY DEF Stale
<1>7. WriteSound(u)'
  BY <1>2, <1>6 DEF CallSound, WriteSound, Active
<1> QED
  BY <1>1, <1>3, <1>5, <1>7 DEF CallSound

-----------------------------------------------------------------------------
(* Calls that move *)

LEMMA EndSound ==
    ASSUME TypeOK, NEW t \in Tx, Finish(t)
    PROVE  CallSound(t)'
<1>1. tx'[t] = NoCall("done") /\ \A l \in Row : held'[l] # t
  BY InventoryAssumption DEF Finish, Released, TypeOK
<1>2. tx'[t].at = "done" /\ tx'[t].want = {}
  BY <1>1 DEF NoCall
<1> QED
  BY <1>1, <1>2 DEF CallSound, JobSound, LocksSound, InOrder, WriteSound, Claims, Active

LEMMA BeginSound ==
    ASSUME TypeOK, NEW t \in Tx, CallSound(t), Begin(t)
    PROVE  CallSound(t)' /\ Quiet
<1>1. PICK j \in Jobs :
        /\ tx[t].at = "idle" \/ (tx[t].at = "retry" /\ j = tx[t].job)
        /\ \/ tx'[t] = NoCall("done")
           \/ /\ j.op \in ReadsRoomFirst => room[j.room] \in RoomType
              /\ tx'[t] = [at |-> "first", job |-> j, want |-> FirstRows(j),
                     rs |-> IF j.op = "CancelGroup" THEN FirstRows(j) ELSE j.rs,
                     seen |-> IF j.op \in ReadsRoomFirst THEN room[j.room] ELSE "ABSENT",
                     form |-> IF tx[t].at = "retry" THEN tx[t].form
                              ELSE {<<l, version[l]>> : l \in FormRow(j)},
                     drop |-> FALSE, attempt |-> tx[t].attempt]
        /\ UNCHANGED <<room, version, res, blocks, held, unlockedLoss>>
  BY DEF Begin, TypeOK, Found
<1>2. \A l \in Row : ~ Claims(t, l) /\ held'[l] # t
  BY <1>1 DEF CallSound, LocksSound, Claims
<1>3. CASE tx'[t] = NoCall("done")
  BY <1>1, <1>2, <1>3 DEF NoCall, CallSound, JobSound, LocksSound, InOrder, WriteSound, Claims, Active, Quiet
<1>4. CASE tx'[t] # NoCall("done")
  <2>1. /\ tx'[t].at = "first" /\ tx'[t].job = j /\ tx'[t].want = FirstRows(j)
        /\ tx'[t].rs = (IF j.op = "CancelGroup" THEN FirstRows(j) ELSE j.rs)
        /\ tx'[t].form = IF tx[t].at = "retry" THEN tx[t].form ELSE {<<l, version[l]>> : l \in FormRow(j)}
        /\ j.op \in ReadsRoomFirst => room[j.room] \in RoomType
    BY <1>1, <1>4
  <2>2. \A f \in tx'[t].form : f[1] \in FormRow(j)
    BY <1>1, <2>1 DEF CallSound, JobSound, Active
  <2>3. JobSound(t)'
    BY <2>1, <2>2 DEF JobSound
  <2>4. j \in Job /\ j.rs \subseteq Res
    BY JobFacts DEF Job
  <2>5. j.op \in ReservationFirst => FirstRows(j) \subseteq Res
    BY <2>4 DEF FirstRows, ReservationFirst
  <2>6. j.op = "Create" => FirstRows(j) = {Req[r].type : r \in j.rs}
    BY DEF FirstRows
  <2>7. LocksSound(t)'
    BY <1>2, <2>1, <2>5, <2>6 DEF LocksSound, Claims
  <2>8. InOrder(t)'
    BY <1>2 DEF InOrder
  <2>9. WriteSound(t)'
    BY <2>1, <2>6 DEF WriteSound, Claims
  <2> QED
    BY <1>1, <2>3, <2>7, <2>8, <2>9 DEF CallSound, Quiet
<1> QED
  BY <1>3, <1>4

LEMMA LockSound ==
    ASSUME TypeOK, HeldExists, NEW t \in Tx, CallSound(t), LockRow(t)
    PROVE  CallSound(t)' /\ Quiet /\ HeldExists'
<1>1. PICK l \in tx[t].want :
        /\ \A m \in tx[t].want : Rank[l] <= Rank[m]
        /\ held[l] \in {None, t}
        /\ held' = IF RowExists(l) THEN [held EXCEPT ![l] = t] ELSE held
        /\ tx' = [tx EXCEPT ![t].want = @ \ {l}]
        /\ UNCHANGED <<room, version, res, blocks, unlockedLoss>>
  BY DEF LockRow
<1>2. tx[t].want \subseteq Row /\ tx[t].rs \subseteq Res /\ tx[t] \in Call
  BY DEF TypeOK, Call
<1>3. /\ tx'[t].at = tx[t].at /\ tx'[t].job = tx[t].job /\ tx'[t].rs = tx[t].rs
      /\ tx'[t].form = tx[t].form /\ tx'[t].seen = tx[t].seen /\ tx'[t].want = tx[t].want \ {l}
  BY <1>1, <1>2 DEF TypeOK, Call
<1>4. \A m \in Row : held'[m] = t => held[m] = t \/ m = l
  BY <1>1, <1>2 DEF TypeOK
<1>5. \A m \in Row : Claims(t, m)' => Claims(t, m)
  BY <1>1, <1>3, <1>4 DEF Claims
<1>6. \A m \in Row : held[m] = t => held'[m] = t
  BY <1>1, <1>2 DEF TypeOK
<1>7. \A r \in Res : Req[r].type \in Row /\ RowExists(Req[r].type)
  BY InventoryAssumption DEF RowExists, Row
<1>8. \A m \in Row : Claims(t, m) /\ RowExists(m) => Claims(t, m)'
  BY <1>1, <1>2, <1>3, <1>6 DEF Claims, TypeOK
<1>9. JobSound(t)' /\ LocksSound(t)'
  BY <1>3, <1>5 DEF CallSound, JobSound, LocksSound
<1>10. InOrder(t)'
  BY <1>1, <1>2, <1>3, <1>4 DEF CallSound, InOrder, ForeignCreate
<1>11. Stale(t)' <=> Stale(t)
  BY <1>1, <1>3 DEF Stale
<1>12. tx[t].at = "first" /\ tx[t].job.op = "Create" => \A r \in tx[t].rs : Claims(t, Req[r].type)'
  BY <1>2, <1>7, <1>8 DEF CallSound, WriteSound
<1>13. tx[t].at \in {"place", "write"} /\ tx[t].job.op = "Create"
          => \A r \in tx[t].rs : held'[Req[r].type] = t /\ res'[r].status = "NONE"
  BY <1>1, <1>2, <1>6, <1>7 DEF CallSound, WriteSound
<1>14. \A m \in Written(tx[t].job, tx[t].rs) : held[m] = t => held'[m] = t
  BY <1>1, <1>2 DEF TypeOK
<1>15. WriteSound(t)'
  BY <1>3, <1>11, <1>12, <1>13, <1>14 DEF CallSound, WriteSound
<1>16. \A m \in Row : RowExists(m)' <=> RowExists(m)
  BY <1>1 DEF RowExists
<1>17. HeldExists'
  BY <1>1, <1>2, <1>16 DEF HeldExists, TypeOK
<1> QED
  BY <1>1, <1>9, <1>10, <1>15, <1>17 DEF CallSound, Quiet

\* What is released stops being held; what is still held exists as before.
LEMMA ReleaseExists ==
    ASSUME TypeOK, HeldExists, Quiet, \A l \in Row : held'[l] \in {None, held[l]}
    PROVE  HeldExists'
<1>1. \A l \in Row : RowExists(l)' <=> RowExists(l)
  BY DEF RowExists, Quiet
<1> QED
  BY <1>1 DEF HeldExists

LEMMA RefuseSound ==
    ASSUME TypeOK, HeldExists, NEW t \in Tx, Refuse(t)
    PROVE  CallSound(t)' /\ Quiet /\ HeldExists'
<1>1. Finish(t) /\ Quiet
  BY DEF Refuse, Quiet
<1>2. \A l \in Row : held'[l] \in {None, held[l]}
  BY <1>1 DEF Finish, Released
<1> QED
  BY <1>1, <1>2, EndSound, ReleaseExists

LEMMA DeadlockSound ==
    ASSUME TypeOK, HeldExists, NEW t \in Tx, CallSound(t), DeadlockAbort(t)
    PROVE  CallSound(t)' /\ Quiet /\ HeldExists'
<1>1. Quiet
  BY DEF DeadlockAbort, Quiet
<1>2. CASE Finish(t)
  <2>1. \A l \in Row : held'[l] \in {None, held[l]}
    BY <1>2 DEF Finish, Released
  <2> QED
    BY <1>1, <1>2, <2>1, EndSound, ReleaseExists
<1>3. CASE ~ Finish(t)
  <2>1. /\ tx' = [tx EXCEPT ![t].at = "retry", ![t].want = {}, ![t].attempt = @ + 1]
        /\ held' = Released(t)
    BY <1>3 DEF DeadlockAbort
  <2>2. \A l \in Row : held'[l] \in {None, held[l]} /\ held'[l] # t
    BY <2>1, InventoryAssumption DEF Released
  <2>3. PICK S \in SUBSET Tx : t \in S /\ WaitCycle(S)
    BY DEF DeadlockAbort
  <2>4. PICK u \in S : WaitsFor(t, u)
    BY <2>3 DEF WaitCycle
  <2>5. PICK l \in tx[t].want : l \in Row
    BY <2>4 DEF WaitsFor, TypeOK, Call
  <2>6. tx[t].at \notin {"idle", "done", "retry"}
    BY <2>5 DEF CallSound, LocksSound, Claims
  <2>7. tx[t] \in Call /\ tx[t].at \in Active
    BY <2>6 DEF TypeOK, Call, Steps, Active
  <2>8. /\ tx'[t].at = "retry" /\ tx'[t].want = {} /\ tx'[t].job = tx[t].job
        /\ tx'[t].rs = tx[t].rs /\ tx'[t].form = tx[t].form
    BY <2>1, <2>7 DEF TypeOK, Call
  <2>9. JobSound(t)'
    BY <2>7, <2>8 DEF CallSound, JobSound
  <2>10. LocksSound(t)' /\ InOrder(t)' /\ WriteSound(t)'
    BY <2>2, <2>8 DEF LocksSound, InOrder, WriteSound, Claims
  <2> QED
    BY <1>1, <2>2, <2>9, <2>10, ReleaseExists DEF CallSound
<1> QED
  BY <1>2, <1>3

\* A call goes on to a step at which it holds what it will write.
LEMMA AdvanceSound ==
    ASSUME TypeOK, HeldExists, NEW t \in Tx, CallSound(t), NEW c,
           UNCHANGED <<room, version, res, blocks, held, unlockedLoss>>,
           tx' = [tx EXCEPT ![t] = c],
           tx[t].at \in {"first", "check", "place"}, c.at \in {"check", "place", "write"},
           c.job = tx[t].job, c.rs = tx[t].rs, c.form = tx[t].form,
           c.at # "place" \/ c.job.op # "Create" \/ c.seen \in {Req[r].type : r \in c.rs}
               => \A l \in Row : \A m \in c.want : held[l] = t => Rank[l] <= Rank[m],
           c.at = "check" => c.want \subseteq RoomType /\ \A l \in Row : held[l] = t => l \in Res,
           c.job.op = "Create"
               => c.at # "check" /\ \A r \in c.rs : held[Req[r].type] = t /\ res[r].status = "NONE",
           c.job.op # "Create" => \A l \in Written(c.job, c.rs) : held[l] = t,
           c.job.op # "CreateRoom", ~ Stale(t)
    PROVE  CallSound(t)' /\ Quiet /\ HeldExists'
<1>1. tx'[t] = c
  BY DEF TypeOK
<1>2. JobSound(t)'
  BY <1>1 DEF CallSound, JobSound, Active
<1>3. LocksSound(t)'
  BY <1>1 DEF LocksSound, Claims
<1>4. InOrder(t)'
  BY <1>1 DEF InOrder, ForeignCreate
<1>5. ~ Stale(t)'
  BY <1>1 DEF Stale
<1>6. WriteSound(t)'
  BY <1>1, <1>5 DEF WriteSound
<1>7. HeldExists' /\ Quiet
  BY ReleaseExists DEF Quiet
<1> QED
  BY <1>2, <1>3, <1>4, <1>6, <1>7 DEF CallSound

LEMMA GoOnSound ==
    ASSUME TypeOK, HeldExists, NEW t \in Tx, CallSound(t), NEW step \in {"check", "write"}, NEW want,
           GoOn(t, step, want), tx[t].at \in {"first", "check", "place"},
           \A l \in Row : \A m \in want : held[l] = t => Rank[l] <= Rank[m],
           step = "check" => want \subseteq RoomType /\ \A l \in Row : held[l] = t => l \in Res,
           tx[t].job.op = "Create"
               => step # "check" /\ \A r \in tx[t].rs : held[Req[r].type] = t /\ res[r].status = "NONE",
           tx[t].job.op # "Create" => \A l \in Written(tx[t].job, tx[t].rs) : held[l] = t,
           tx[t].job.op # "CreateRoom", ~ Stale(t)
    PROVE  CallSound(t)' /\ Quiet /\ HeldExists'
<1> DEFINE c == [tx[t] EXCEPT !.at = step, !.want = want]
<1>1. tx[t] \in Call
  BY DEF TypeOK
<1>2. /\ c.at = step /\ c.want = want /\ c.job = tx[t].job /\ c.rs = tx[t].rs
      /\ c.form = tx[t].form
  BY <1>1 DEF Call
<1>3. tx' = [tx EXCEPT ![t] = c] /\ UNCHANGED <<room, version, res, blocks, held, unlockedLoss>>
  BY DEF GoOn, TypeOK
<1> HIDE DEF c
<1> QED
  BY <1>2, <1>3, AdvanceSound

\* The order of the ranks between kinds of rows.
LEMMA Ranks ==
    /\ \A l \in Row : Rank[l] \in Nat
    /\ \A l \in Res, m \in RoomType \union Room : Rank[l] <= Rank[m]
    /\ \A l \in RoomType, m \in Room : Rank[l] <= Rank[m]
    /\ \A l, m \in Row : Rank[l] = Rank[m] => l = m
<1>1. \A l \in Row : Rank[l] \in Nat
  BY InventoryAssumption
<1>2. PICK ty \in RoomType : TRUE
  BY InventoryAssumption
<1>3. \A l \in Res : Rank[l] < Rank[ty]
  BY InventoryAssumption
<1>4. \A m \in Room : Rank[ty] < Rank[m]
  BY InventoryAssumption
<1>5. \A l \in Res, m \in Room : Rank[l] <= Rank[m]
  BY <1>1, <1>3, <1>4 DEF Row
<1>6. \A l \in Res, m \in RoomType : Rank[l] <= Rank[m]
  BY <1>1, InventoryAssumption DEF Row
<1>7. \A l \in RoomType, m \in Room : Rank[l] <= Rank[m]
  BY <1>1, InventoryAssumption DEF Row
<1>8. \A l, m \in Row : Rank[l] = Rank[m] => l = m
  BY InventoryAssumption
<1> QED
  BY <1>1, <1>5, <1>6, <1>7, <1>8

LEMMA GoOnWithRoomSound ==
    ASSUME TypeOK, HeldExists, NEW t \in Tx, CallSound(t), NEW r \in Res, NEW drop,
           GoOnWithRoom(t, r, drop), tx[t].at = "check", tx[t].want = {},
           tx[t].job.op \in {"Update", "Reinstate"}
    PROVE  CallSound(t)' /\ Quiet /\ HeldExists'
<1> DEFINE want == IF drop THEN {} ELSE {res[r].room} \ {None}
           c == [tx[t] EXCEPT !.at = "write", !.drop = drop, !.want = want]
<1>1. tx[t] \in Call
  BY DEF TypeOK
<1>2. /\ c.at = "write" /\ c.want = want /\ c.job = tx[t].job /\ c.rs = tx[t].rs
      /\ c.form = tx[t].form
  BY <1>1 DEF Call
<1>3. tx' = [tx EXCEPT ![t] = c] /\ UNCHANGED <<room, version, res, blocks, held, unlockedLoss>>
  BY DEF GoOnWithRoom, TypeOK
<1>4. want \subseteq Room
  BY ReservationTypes
<1>5. \A l \in Row : held[l] = t => l \in Res \union RoomType
  BY DEF CallSound, LocksSound, Claims
<1>6. \A l \in Row : \A m \in want : held[l] = t => Rank[l] <= Rank[m]
  BY <1>4, <1>5, Ranks DEF Row
<1>7. \A l \in Written(tx[t].job, tx[t].rs) : held[l] = t
  BY DEF CallSound, WriteSound
<1>8. ~ Stale(t)
  BY DEF CallSound, WriteSound
<1> HIDE DEF c, want
<1> QED
  BY <1>2, <1>3, <1>6, <1>7, <1>8, AdvanceSound

LEMMA NoForm ==
    ASSUME TypeOK, NEW t \in Tx, CallSound(t), tx[t].at \in Active, FormRow(tx[t].job) = {}
    PROVE  ~ Stale(t)
BY DEF CallSound, JobSound, Stale

\* What the calls of one operation hold when their first rows are locked.
LEMMA FirstLocks ==
    ASSUME TypeOK, NEW t \in Tx, CallSound(t), tx[t].at = "first", tx[t].want = {}
    PROVE  /\ tx[t].job.op \in ReservationFirst => \A l \in Row : held[l] = t => l \in Res
           /\ tx[t].job.op = "Create" => \A r \in tx[t].rs : held[Req[r].type] = t
           /\ tx[t].job.op = "Create" => \A l \in Row : held[l] = t => \E r \in tx[t].rs : l = Req[r].type
BY DEF CallSound, LocksSound, WriteSound, Claims

\* The shape of a step that the following lemmas establish for every action.
StepSound(t) == CallSound(t)' /\ Quiet /\ HeldExists'

LEMMA CreateSound ==
    ASSUME TypeOK, HeldExists, NEW t \in Tx, CallSound(t), CreateCheck(t)
    PROVE  StepSound(t)
<1> DEFINE j == tx[t].job
           rs == tx[t].rs
<1>1. Ready(t, "first", {"Create"})
  BY DEF CreateCheck
<1>2. /\ tx[t].at = "first" /\ tx[t].want = {} /\ j.op = "Create" /\ j \in Job /\ Complete(j)
      /\ rs = j.rs /\ rs \subseteq Res
  BY <1>1, ReadyCall DEF CallSound, Active
<1>3. ~ Stale(t)
  BY <1>2, NoForm DEF FormRow, Active
<1>4. /\ \A r \in rs : held[Req[r].type] = t
      /\ \A l \in Row : held[l] = t => \E r \in rs : l = Req[r].type
  BY <1>2, FirstLocks
<1>5. CASE Refuse(t)
  BY <1>5, RefuseSound DEF StepSound
<1>6. CASE ~ Refuse(t)
  <2>1. /\ \A r \in rs : res[r].status = "NONE"
        /\ \/ j.room = None /\ GoOn(t, "write", {})
           \/ j.room # None /\ ReadRoomThenLock(t, j.room, {})
    BY <1>2, <1>6 DEF CreateCheck
  <2>2. CASE j.room = None /\ GoOn(t, "write", {})
    BY <1>2, <1>3, <1>4, <2>1, <2>2, GoOnSound DEF StepSound
  <2>3. CASE j.room # None /\ ReadRoomThenLock(t, j.room, {})
    <3> DEFINE k == j.room
               c == [tx[t] EXCEPT !.at = "place", !.seen = room[k], !.want = {room[k], k}]
    <3>1. k \in Room /\ \E r \in Res : rs = {r}
      BY <1>2, <2>3 DEF Job, Complete
    <3>2. room[k] \in RoomType
      BY <1>6, <2>3 DEF ReadRoomThenLock
    <3>3. tx' = [tx EXCEPT ![t] = c] /\ UNCHANGED <<room, version, res, blocks, held, unlockedLoss>>
      BY <2>3, <3>2 DEF ReadRoomThenLock, TypeOK
    <3>4. tx[t] \in Call
      BY DEF TypeOK
    <3>5. /\ c.at = "place" /\ c.seen = room[k] /\ c.want = {room[k], k} /\ c.job = j
          /\ c.rs = rs /\ c.form = tx[t].form
      BY <3>4 DEF Call
    <3> HIDE DEF c
    <3>6. c.seen \in {Req[r].type : r \in c.rs}
            => \A l \in Row : \A m \in c.want : held[l] = t => Rank[l] <= Rank[m]
      <4>1. ASSUME c.seen \in {Req[r].type : r \in c.rs}, NEW l \in Row, held[l] = t
            PROVE  l = room[k]
        BY <1>4, <3>1, <3>5, <4>1
      <4> QED
        BY <3>1, <3>2, <3>5, <4>1, Ranks DEF Row
    <3> QED
      BY <1>2, <1>3, <1>4, <2>1, <3>3, <3>5, <3>6, AdvanceSound DEF StepSound
  <2> QED
    BY <2>1, <2>2, <2>3
<1> QED
  BY <1>5, <1>6

LEMMA PlaceSound ==
    ASSUME TypeOK, HeldExists, NEW t \in Tx, CallSound(t), PlaceCheck(t)
    PROVE  StepSound(t)
<1>1. /\ tx[t].at = "place" /\ tx[t].job.op \in {"Create", "Assign", "AutoAssign"}
      /\ Refuse(t) \/ GoOn(t, "write", {})
  BY DEF PlaceCheck, Ready
<1>2. CASE Refuse(t)
  BY <1>2, RefuseSound DEF StepSound
<1>3. CASE GoOn(t, "write", {})
  <2>1. /\ tx[t].job.op = "Create"
              => \A r \in tx[t].rs : held[Req[r].type] = t /\ res[r].status = "NONE"
        /\ tx[t].job.op # "Create" => \A l \in Written(tx[t].job, tx[t].rs) : held[l] = t
        /\ ~ Stale(t)
    BY <1>1 DEF CallSound, WriteSound
  <2> QED
    BY <1>1, <1>3, <2>1, GoOnSound DEF StepSound
<1> QED
  BY <1>1, <1>2, <1>3

LEMMA PlacingSound ==
    ASSUME TypeOK, HeldExists, NEW t \in Tx, CallSound(t), AssignRead(t) \/ UnassignRead(t)
    PROVE  StepSound(t)
<1> DEFINE j == tx[t].job
<1>1. Ready(t, "first", {"Assign", "AutoAssign", "Unassign"})
  BY DEF AssignRead, UnassignRead, Ready
<1>2. /\ tx[t].at = "first" /\ tx[t].want = {} /\ j.op \in {"Assign", "AutoAssign", "Unassign"}
      /\ j \in Job /\ Complete(j) /\ tx[t].rs = j.rs /\ tx[t].rs \subseteq Res
  BY <1>1, ReadyCall DEF CallSound, Active
<1>3. ~ Stale(t)
  BY <1>2, NoForm DEF FormRow, Active
<1>4. \A l \in Row : held[l] = t => l \in Res
  BY <1>2, FirstLocks DEF ReservationFirst
<1>5. Written(j, tx[t].rs) = tx[t].rs
  BY <1>2 DEF Written
<1>6. PICK r \in tx[t].rs :
        \/ Refuse(t)
        \/ held[r] = t /\ j.op # "Unassign" /\ ReadRoomThenLock(t, j.room, {res[r].room} \ {None})
        \/ held[r] = t /\ j.op = "Unassign" /\ res[r].room # None /\ GoOn(t, "write", {res[r].room})
  BY <1>2 DEF AssignRead, UnassignRead, Ready
<1>7. tx[t].rs = {r} /\ r \in Res /\ res[r].room \in Room \union {None}
  BY <1>2, <1>6, ReservationTypes DEF Complete
<1>8. CASE Refuse(t)
  BY <1>8, RefuseSound DEF StepSound
<1>9. CASE held[r] = t /\ j.op = "Unassign" /\ res[r].room # None /\ GoOn(t, "write", {res[r].room})
  <2>1. \A l \in Row : \A m \in {res[r].room} : held[l] = t => Rank[l] <= Rank[m]
    BY <1>4, <1>7, <1>9, Ranks
  <2> QED
    BY <1>2, <1>3, <1>5, <1>7, <1>9, <2>1, GoOnSound DEF StepSound
<1>10. CASE /\ ~ Refuse(t) /\ held[r] = t /\ j.op # "Unassign"
            /\ ReadRoomThenLock(t, j.room, {res[r].room} \ {None})
  <2> DEFINE k == j.room
             want == {room[k], k} \union ({res[r].room} \ {None})
             c == [tx[t] EXCEPT !.at = "place", !.seen = room[k], !.want = want]
  <2>1. k \in Room
    BY <1>2, <1>10 DEF Complete
  <2>2. room[k] \in RoomType
    BY <1>10 DEF ReadRoomThenLock
  <2>3. want \subseteq RoomType \union Room
    BY <1>7, <2>1, <2>2
  <2>4. tx' = [tx EXCEPT ![t] = c] /\ UNCHANGED <<room, version, res, blocks, held, unlockedLoss>>
    BY <1>10, <2>2 DEF ReadRoomThenLock, TypeOK
  <2>5. tx[t] \in Call
    BY DEF TypeOK
  <2>6. /\ c.at = "place" /\ c.seen = room[k] /\ c.want = want /\ c.job = j
        /\ c.rs = tx[t].rs /\ c.form = tx[t].form
    BY <2>5 DEF Call
  <2> HIDE DEF c, want
  <2>7. \A l \in Row : \A m \in c.want : held[l] = t => Rank[l] <= Rank[m]
    BY <1>4, <2>3, <2>6, Ranks
  <2>8. \A l \in Written(c.job, c.rs) : held[l] = t
    BY <1>5, <1>7, <1>10, <2>6
  <2>9. c.job.op \notin {"Create", "CreateRoom"} /\ c.at \in {"check", "place", "write"} /\ c.at # "check"
    BY <1>2, <2>6
  <2> QED
    BY <1>2, <1>3, <2>4, <2>6, <2>7, <2>8, <2>9, AdvanceSound DEF StepSound
<1> QED
  BY <1>6, <1>8, <1>9, <1>10

LEMMA ChangingSound ==
    ASSUME TypeOK, HeldExists, NEW t \in Tx, CallSound(t),
           UpdateRead(t) \/ CancelRead(t) \/ ReinstateRead(t)
    PROVE  StepSound(t)
<1> DEFINE j == tx[t].job
<1>1. Ready(t, "first", {"Update", "Cancel", "CancelGroup", "Reinstate"})
  BY DEF UpdateRead, CancelRead, ReinstateRead, Ready
<1>2. /\ tx[t].at = "first" /\ tx[t].want = {}
      /\ j.op \in {"Update", "Cancel", "CancelGroup", "Reinstate"}
      /\ j \in Job /\ Complete(j) /\ tx[t].rs \subseteq Res
      /\ j.op # "CancelGroup" => tx[t].rs = j.rs
  BY <1>1, ReadyCall DEF CallSound, Active
<1>4. \A l \in Row : held[l] = t => l \in Res
  BY <1>2, FirstLocks DEF ReservationFirst
<1>5. Written(j, tx[t].rs) = tx[t].rs
  BY <1>2 DEF Written
<1>6. CASE Refuse(t)
  BY <1>6, RefuseSound DEF StepSound
<1>7. CASE CancelRead(t) /\ ~ Refuse(t)
  <2>1. GoOn(t, "write", {}) /\ ~ Stale(t) /\ \A r \in tx[t].rs : held[r] = t
    BY <1>7 DEF CancelRead
  <2> QED
    BY <1>2, <1>5, <2>1, GoOnSound DEF StepSound
<1>8. CASE (UpdateRead(t) \/ ReinstateRead(t)) /\ ~ Refuse(t)
  <2>1. j.op \in {"Update", "Reinstate"}
    BY <1>8 DEF UpdateRead, ReinstateRead, Ready
  <2>2. PICK r \in tx[t].rs : held[r] = t /\ ~ Stale(t)
          /\ \E want \in {{}, {res[r].type}, {res[r].type, j.type}} : GoOn(t, "check", want)
    BY <1>8 DEF UpdateRead, ReinstateRead
  <2>3. tx[t].rs = {r} /\ r \in Res /\ res[r].type \in RoomType /\ j.type \in RoomType
    BY <1>2, <2>1, <2>2, ReservationTypes DEF Complete, Job
  <2>4. PICK want \in SUBSET RoomType : GoOn(t, "check", want)
    BY <2>2, <2>3
  <2>5. \A l \in Row : \A m \in want : held[l] = t => Rank[l] <= Rank[m]
    BY <1>4, Ranks
  <2> QED
    BY <1>2, <1>4, <1>5, <2>1, <2>2, <2>3, <2>4, <2>5, GoOnSound DEF StepSound
<1> QED
  BY <1>6, <1>7, <1>8

LEMMA DecidingSound ==
    ASSUME TypeOK, HeldExists, NEW t \in Tx, CallSound(t), UpdateCheck(t) \/ ReinstateCheck(t)
    PROVE  StepSound(t)
<1>1. /\ tx[t].at = "check" /\ tx[t].want = {} /\ tx[t].job.op \in {"Update", "Reinstate"}
      /\ tx[t].rs \subseteq Res
  BY DEF UpdateCheck, ReinstateCheck, Ready, TypeOK, Call
<1>2. PICK r \in tx[t].rs : Refuse(t) \/ \E drop : GoOnWithRoom(t, r, drop)
  BY DEF UpdateCheck, ReinstateCheck
<1> QED
  BY <1>1, <1>2, RefuseSound, GoOnWithRoomSound DEF StepSound

LEMMA RoomChecksSound ==
    ASSUME TypeOK, HeldExists, NEW t \in Tx, CallSound(t),
           BlockCheck(t) \/ UnblockCheck(t) \/ ChangeTypeCheck(t) \/ DeleteRoomCheck(t)
    PROVE  StepSound(t)
<1> DEFINE j == tx[t].job
<1>1. /\ tx[t].at = "first" /\ tx[t].want = {}
      /\ j.op \in {"Block", "Unblock", "ChangeType", "DeleteRoom"}
  BY DEF BlockCheck, UnblockCheck, ChangeTypeCheck, DeleteRoomCheck, Ready
<1>2. CASE Refuse(t)
  BY <1>2, RefuseSound DEF StepSound
<1>3. CASE ~ Refuse(t)
  <2>1. GoOn(t, "write", {})
    BY <1>3 DEF BlockCheck, UnblockCheck, ChangeTypeCheck, DeleteRoomCheck
  <2>2. j.op \in {"ChangeType", "DeleteRoom"} => held[j.room] = t
    BY <1>3 DEF BlockCheck, UnblockCheck, ChangeTypeCheck, DeleteRoomCheck, Ready
  <2>3. \A l \in Written(j, tx[t].rs) : held[l] = t
    BY <1>1, <2>2 DEF Written
  <2>4. j.op # "ChangeType" => ~ Stale(t)
    BY <1>1, NoForm DEF FormRow, Active
  <2>5. j.op = "ChangeType" => ~ Stale(t)
    BY <1>3 DEF BlockCheck, UnblockCheck, ChangeTypeCheck, DeleteRoomCheck, Ready
  <2> QED
    BY <1>1, <2>1, <2>3, <2>4, <2>5, GoOnSound DEF StepSound
<1> QED
  BY <1>2, <1>3

-----------------------------------------------------------------------------
(* Commits *)

LEMMA CommitShape ==
    ASSUME TypeOK, NEW t \in Tx, NEW rm, NEW rv, NEW bl, Commit(t, rm, rv, bl),
           \/ tx[t].at = "write"
           \/ tx[t].at = "first" /\ tx[t].job.op = "CreateRoom" /\ room[tx[t].job.room] = "ABSENT",
           \A r \in Res : r \notin Written(tx[t].job, tx[t].rs) => rv[r] = res[r],
           \A k \in Room : k \notin Written(tx[t].job, tx[t].rs) => rm[k] = room[k]
    PROVE  Refuse(t) \/ Writes(t)
<1>1. CASE DbAccepts(rv, bl)
  <2>1. room' = rm /\ res' = rv /\ blocks' = bl /\ Finish(t)
    BY <1>1 DEF Commit
  <2>2. version' = [l \in Room \union Res |->
                       IF l \in Written(tx[t].job, tx[t].rs) THEN version[l] + 1 ELSE version[l]]
    BY <1>1 DEF Commit
  <2>3. DbAccepts(res', blocks')
    BY <1>1, <2>1
  <2>4. \A l \in Room \union Res : l \notin Written(tx[t].job, tx[t].rs) => version'[l] = version[l]
    BY <2>2
  <2> QED
    BY <2>1, <2>3, <2>4 DEF Writes
<1>2. CASE ~ DbAccepts(rv, bl)
  BY <1>2 DEF Commit, Refuse
<1> QED
  BY <1>1, <1>2

LEMMA ReservationWrites ==
    ASSUME TypeOK, NEW t \in Tx, CallSound(t),
           \/ CreateWrite(t) \/ AssignWrite(t) \/ UnassignWrite(t) \/ UpdateWrite(t)
           \/ CancelWrite(t) \/ ReinstateWrite(t)
    PROVE  Refuse(t) \/ Writes(t)
<1>1. /\ tx[t].at = "write"
      /\ tx[t].job.op \in {"Create", "Assign", "AutoAssign", "Unassign", "Update", "Cancel",
                           "CancelGroup", "Reinstate"}
  BY DEF CreateWrite, AssignWrite, UnassignWrite, UpdateWrite, CancelWrite, ReinstateWrite, Ready
<1>2. Written(tx[t].job, tx[t].rs) = tx[t].rs
  BY <1>1 DEF Written
<1>3. \E rv : /\ Commit(t, room, rv, blocks)
              /\ \A r \in Res : r \notin tx[t].rs => rv[r] = res[r]
  <2>1. CASE CreateWrite(t)
    <3> DEFINE rv == [r \in Res |-> IF r \in tx[t].rs
                                   THEN [Opened(tx[t].rs)[r] EXCEPT !.room = tx[t].job.room]
                                   ELSE Opened(tx[t].rs)[r]]
    <3>1. Commit(t, room, rv, blocks)
      BY <2>1 DEF CreateWrite
    <3>2. \A r \in Res : r \notin tx[t].rs => rv[r] = res[r]
      BY DEF Opened
    <3> HIDE DEF rv
    <3> QED
      BY <3>1, <3>2
  <2>2. CASE CancelWrite(t)
    <3> DEFINE rv == [r \in Res |-> IF r \in tx[t].rs THEN [res[r] EXCEPT !.status = "CLOSED"] ELSE res[r]]
    <3>1. Commit(t, room, rv, blocks)
      BY <2>2 DEF CancelWrite
    <3>2. \A r \in Res : r \notin tx[t].rs => rv[r] = res[r]
      OBVIOUS
    <3> HIDE DEF rv
    <3> QED
      BY <3>1, <3>2
  <2>3. CASE AssignWrite(t) \/ UnassignWrite(t)
    <3>1. PICK r \in tx[t].rs : \E k : Commit(t, room, [res EXCEPT ![r].room = k], blocks)
      BY <2>3 DEF AssignWrite, UnassignWrite
    <3>2. PICK k : Commit(t, room, [res EXCEPT ![r].room = k], blocks)
      BY <3>1
    <3>3. \A q \in Res : q \notin tx[t].rs => [res EXCEPT ![r].room = k][q] = res[q]
      BY <3>1 DEF TypeOK
    <3> QED
      BY <3>2, <3>3
  <2>4. CASE UpdateWrite(t)
    <3>1. PICK r \in tx[t].rs : \E v : Commit(t, room, [res EXCEPT ![r] = v], blocks)
      BY <2>4 DEF UpdateWrite
    <3>2. PICK v : Commit(t, room, [res EXCEPT ![r] = v], blocks)
      BY <3>1
    <3>3. \A q \in Res : q \notin tx[t].rs => [res EXCEPT ![r] = v][q] = res[q]
      BY <3>1 DEF TypeOK
    <3> QED
      BY <3>2, <3>3
  <2>5. CASE ReinstateWrite(t)
    <3>1. PICK r \in tx[t].rs :
            Commit(t, room, [res EXCEPT ![r].status = "OPEN",
                                        ![r].room = IF tx[t].drop THEN None ELSE @], blocks)
      BY <2>5 DEF ReinstateWrite
    <3> DEFINE rv == [res EXCEPT ![r].status = "OPEN", ![r].room = IF tx[t].drop THEN None ELSE @]
    <3>2. \A q \in Res : q \notin tx[t].rs => rv[q] = res[q]
      BY <3>1 DEF TypeOK
    <3>3. Commit(t, room, rv, blocks)
      BY <3>1
    <3> HIDE DEF rv
    <3> QED
      BY <3>2, <3>3
  <2> QED
    BY <2>1, <2>2, <2>3, <2>4, <2>5
<1> QED
  BY <1>1, <1>2, <1>3, CommitShape

LEMMA RoomWrites ==
    ASSUME TypeOK, NEW t \in Tx, CallSound(t),
           \/ BlockWrite(t) \/ UnblockWrite(t) \/ ChangeTypeWrite(t) \/ DeleteRoomWrite(t)
           \/ CreateRoomWrite(t)
    PROVE  Refuse(t) \/ Writes(t)
<1> DEFINE j == tx[t].job
<1>1. CASE BlockWrite(t)
  BY <1>1, CommitShape DEF BlockWrite, Ready
<1>2. CASE UnblockWrite(t)
  BY <1>2, CommitShape DEF UnblockWrite, Ready
<1>3. CASE ChangeTypeWrite(t) \/ CreateRoomWrite(t)
  <2>1. \/ Refuse(t)
        \/ /\ Commit(t, [room EXCEPT ![j.room] = j.type], res, blocks)
           /\ j.op \in {"ChangeType", "CreateRoom"}
           /\ \/ tx[t].at = "write"
              \/ tx[t].at = "first" /\ j.op = "CreateRoom" /\ room[j.room] = "ABSENT"
    BY <1>3 DEF ChangeTypeWrite, CreateRoomWrite, Ready
  <2>2. j.op \in {"ChangeType", "CreateRoom"} => Written(j, tx[t].rs) = {j.room}
    BY DEF Written
  <2>3. \A k \in Room : k \notin {j.room} => [room EXCEPT ![j.room] = j.type][k] = room[k]
    BY DEF TypeOK
  <2> QED
    BY <2>1, <2>2, <2>3, CommitShape
<1>4. CASE DeleteRoomWrite(t)
  <2>1. /\ Commit(t, WithoutRoom(j.room), res, {b \in blocks : b.room # j.room})
        /\ tx[t].at = "write" /\ j.op = "DeleteRoom"
    BY <1>4 DEF DeleteRoomWrite, Ready
  <2>2. Written(j, tx[t].rs) = {j.room}
    BY <2>1 DEF Written
  <2>3. \A k \in Room : k \notin {j.room} => WithoutRoom(j.room)[k] = room[k]
    BY DEF TypeOK, WithoutRoom
  <2> QED
    BY <2>1, <2>2, <2>3, CommitShape
<1> QED
  BY <1>1, <1>2, <1>3, <1>4

-----------------------------------------------------------------------------
(* The invariant *)

LEMMA WrittenRows ==
    ASSUME TypeOK, NEW t \in Tx, JobSound(t), tx[t].at \in Active
    PROVE  Written(tx[t].job, tx[t].rs) \subseteq Row
<1>1. tx[t].job \in Jobs /\ Complete(tx[t].job) /\ tx[t].rs \subseteq Res
  BY JobFacts DEF JobSound, TypeOK, Call
<1> QED
  BY <1>1 DEF Written, Complete, Row

\* What a call writes is held by no other, and no other is about to open it.
LEMMA WriterAlone ==
    ASSUME IInv, NEW t \in Tx, Writes(t), NEW u \in Tx, u # t
    PROVE  /\ \A l \in Written(tx[t].job, tx[t].rs) : held[l] # u
           /\ tx[u].at \in {"place", "write"} /\ tx[u].job.op = "Create"
                  => \A r \in tx[u].rs : r \notin Written(tx[t].job, tx[t].rs)
<1> DEFINE W == Written(tx[t].job, tx[t].rs)
<1>0. /\ TypeOK /\ HeldExists /\ CallSound(t) /\ CallSound(u) /\ None \notin Tx
      /\ tx[t].at \in Active /\ tx[u].rs \subseteq Res /\ tx[t].rs \subseteq Res
  BY InventoryAssumption DEF IInv, Writes, Active, TypeOK, Call
<1>1. W \subseteq Row
  BY <1>0, WrittenRows DEF CallSound
<1>2. \A r \in Res : r \in Row /\ (RowExists(r) => res[r].status # "NONE")
  BY DEF RowExists, Row
<1>3. tx[u].at \in {"place", "write"} /\ tx[u].job.op = "Create"
          => \A r \in tx[u].rs : held[Req[r].type] = u /\ res[r].status = "NONE"
  BY <1>0 DEF CallSound, WriteSound
<1>4. CASE tx[t].at = "first" /\ tx[t].job.op = "CreateRoom" /\ room[tx[t].job.room] = "ABSENT"
  <2>1. W = {tx[t].job.room}
    BY <1>4 DEF Written
  <2>2. tx[t].job.room \in Room
    BY <1>0, <1>4, JobFacts DEF CallSound, JobSound, Complete
  <2>3. ~ RowExists(tx[t].job.room)
    BY <1>4, <2>2, InventoryAssumption DEF RowExists
  <2>4. \A l \in W : held[l] = None
    BY <1>0, <1>1, <2>1, <2>3 DEF HeldExists
  <2>5. \A r \in Res : r \notin W
    BY <2>1, <2>2, InventoryAssumption
  <2> QED
    BY <1>0, <2>4, <2>5
<1>5. CASE tx[t].at = "write" /\ tx[t].job.op = "Create"
  <2>1. W = tx[t].rs
    BY <1>5 DEF Written
  <2>2. \A r \in W : held[Req[r].type] = t /\ res[r].status = "NONE"
    BY <1>0, <1>5, <2>1 DEF CallSound, WriteSound
  <2>3. \A r \in W : held[r] = None
    BY <1>0, <1>1, <1>2, <2>1, <2>2 DEF HeldExists
  <2> QED
    BY <1>0, <1>3, <2>2, <2>3
<1>6. CASE tx[t].at = "write" /\ tx[t].job.op # "Create"
  <2>1. \A l \in W : held[l] = t
    BY <1>0, <1>6 DEF CallSound, WriteSound
  <2>2. \A l \in W : RowExists(l)
    BY <1>0, <1>1, <2>1 DEF HeldExists
  <2> QED
    BY <1>0, <1>2, <1>3, <2>1, <2>2
<1> QED
  BY <1>4, <1>5, <1>6 DEF Writes

LEMMA OthersSound ==
    ASSUME IInv, NEW t \in Tx, Begin(t) \/ Step(t), Quiet \/ Writes(t), NEW u \in Tx, u # t
    PROVE  CallSound(u)'
<1>0. TypeOK /\ CallSound(u) /\ tx[u].want \subseteq Row /\ tx[u].rs \subseteq Res
  BY DEF IInv, TypeOK, Call
<1>1. tx'[u] = tx[u] /\ \A l \in Row : held'[l] = u <=> held[l] = u
  BY <1>0, OneCallMoves
<1>2. \A r \in Res : Req[r].type \in Row
  BY InventoryAssumption DEF Row
<1>3. tx[u].at \in Active => Written(tx[u].job, tx[u].rs) \subseteq Row
  BY <1>0, WrittenRows DEF CallSound
<1>4. tx[u].at \in {"place", "write"} /\ tx[u].job.op = "Create"
          => \A r \in tx[u].rs : res'[r] = res[r]
  <2>1. CASE Quiet
    BY <2>1 DEF Quiet
  <2>2. CASE Writes(t)
    BY <1>0, <2>2, WriterAlone DEF Writes
  <2> QED
    BY <2>1, <2>2
<1>5. tx[u].at \in {"check", "place", "write"} => \A f \in tx[u].form : version'[f[1]] = version[f[1]]
  <2>1. CASE Quiet
    BY <2>1 DEF Quiet
  <2>2. CASE Writes(t)
    <3>1. ASSUME tx[u].at \in {"check", "place", "write"}, NEW f \in tx[u].form
          PROVE  held[f[1]] = u /\ f[1] \in Room \union Res
      <4>1. tx[u].job \in Jobs /\ f[1] \in FormRow(tx[u].job)
        BY <1>0, <3>1 DEF CallSound, JobSound, Active
      <4>2. tx[u].job.op \in {"ChangeType", "Update", "Cancel", "Reinstate"}
        BY <4>1 DEF FormRow
      <4>3. tx[u].rs = tx[u].job.rs
        BY <1>0, <3>1, <4>2 DEF CallSound, JobSound, Active
      <4>4. f[1] \in Written(tx[u].job, tx[u].rs) /\ f[1] \in Room \union Res
        BY <4>1, <4>3, FormRows
      <4> QED
        BY <1>0, <3>1, <4>2, <4>4 DEF CallSound, WriteSound
    <3> QED
      BY <2>2, <3>1, WriterAlone DEF Writes
  <2> QED
    BY <2>1, <2>2
<1> QED
  BY <1>0, <1>1, <1>2, <1>3, <1>4, <1>5, OthersKeep

LEMMA CommitKeeps ==
    ASSUME IInv, NEW t \in Tx, Writes(t)
    PROVE  CallSound(t)' /\ HeldExists' /\ RoomsKeptApart'
<1>0. TypeOK /\ HeldExists /\ None \notin Tx
  BY InventoryAssumption DEF IInv
<1>1. CallSound(t)'
  BY <1>0, EndSound DEF Writes
<1>2. ASSUME NEW l \in Row, held'[l] # None PROVE RowExists(l)'
  <2>1. held'[l] = held[l] /\ held[l] # t /\ held[l] \in Tx
    BY <1>0, <1>2 DEF Writes, Finish, Released, TypeOK
  <2>2. l \notin Written(tx[t].job, tx[t].rs)
    BY <2>1, WriterAlone
  <2>3. RowExists(l)
    BY <1>0, <1>2, <2>1 DEF HeldExists
  <2> QED
    BY <2>2, <2>3 DEF RowExists, Writes
<1> QED
  BY <1>1, <1>2 DEF HeldExists, RoomsKeptApart, Writes

LEMMA IInvStep ==
    ASSUME IInv, [Next]_vars
    PROVE  IInv'
<1>0. TypeOK /\ HeldExists /\ RoomsKeptApart /\ \A t \in Tx : CallSound(t)
  BY DEF IInv
<1>1. TypeOK'
  BY <1>0, StepTypes DEF CallSound
<1>2. ASSUME NEW t \in Tx, Begin(t) \/ Step(t) PROVE IInv'
  <2>1. (CallSound(t)' /\ Quiet /\ HeldExists') \/ Writes(t)
    <3>1. CASE Begin(t)
      <4>1. CallSound(t)' /\ Quiet
        BY <1>0, <3>1, BeginSound
      <4>2. \A l \in Row : held'[l] \in {None, held[l]}
        BY <3>1 DEF Begin
      <4> QED
        BY <1>0, <4>1, <4>2, ReleaseExists
    <3>2. CASE Step(t)
      BY <1>0, <3>2, LockSound, DeadlockSound, CreateSound, PlaceSound, PlacingSound, ChangingSound,
         DecidingSound, RoomChecksSound, RefuseSound, ReservationWrites, RoomWrites DEF Step, StepSound
    <3> QED
      BY <1>2, <3>1, <3>2
  <2>2. CASE Writes(t)
    BY <1>1, <1>2, <2>2, CommitKeeps, OthersSound DEF IInv
  <2>3. CASE CallSound(t)' /\ Quiet /\ HeldExists'
    <3>1. RoomsKeptApart'
      BY <1>0, <2>3 DEF RoomsKeptApart, Quiet, DbAccepts, Occupies
    <3> QED
      BY <1>1, <1>2, <2>3, <3>1, OthersSound DEF IInv
  <2> QED
    BY <2>1, <2>2, <2>3
<1>3. CASE UNCHANGED vars
  <2>1. UNCHANGED <<room, version, res, blocks, held, tx, unlockedLoss>>
    BY <1>3 DEF vars
  <2>2. RoomsKeptApart' /\ HeldExists'
    BY <1>0, <2>1 DEF RoomsKeptApart, DbAccepts, Occupies, HeldExists, RowExists
  <2>3. \A t \in Tx : CallSound(t)'
    BY <1>0, <2>1 DEF CallSound, JobSound, LocksSound, InOrder, WriteSound, Claims, Stale, ForeignCreate
  <2> QED
    BY <1>1, <2>2, <2>3 DEF IInv
<1> QED
  BY <1>2, <1>3 DEF Next, AllDone

LEMMA IInvInit ==
    ASSUME Init
    PROVE  IInv
<1>1. PICK h \in Hotels : room = h.room /\ res = h.res /\ blocks = h.blocks
  BY DEF Init
<1>2. /\ room \in [Room -> RoomType \union {"ABSENT", "DELETED"}] /\ res \in [Res -> Reservation]
      /\ blocks \subseteq Block /\ RoomsKeptApart
  BY <1>1, HotelsAssumption DEF RoomsKeptApart
<1>3. NoCall("idle") \in Call
  BY NoCallIsCall DEF Steps
<1>4. TypeOK
  BY <1>2, <1>3 DEF Init, TypeOK
<1>5. HeldExists
  BY DEF Init, HeldExists
<1>6. ASSUME NEW t \in Tx PROVE CallSound(t)
  <2>1. tx[t].at = "idle" /\ tx[t].want = {} /\ \A l \in Row : held[l] # t
    BY InventoryAssumption DEF Init, NoCall
  <2> QED
    BY <2>1 DEF CallSound, JobSound, LocksSound, InOrder, WriteSound, Claims, Active
<1> QED
  BY <1>2, <1>4, <1>5, <1>6 DEF IInv

LEMMA IInvHolds == Spec => []IInv
BY IInvInit, IInvStep, PTL DEF Spec

-----------------------------------------------------------------------------
(* How many rooms of a type are left *)

\* The two sets that the calendar counts.
RoomsFree(ty, n, rm, rv, bl) ==
    {k \in Room : /\ rm[k] = ty
                  /\ ~ \E r \in Res : Occupies(rv[r], k, n)
                  /\ ~ \E b \in bl : OutOfOrder(b, k, n)}

StaysWaiting(ty, n, rv) ==
    {r \in Res : /\ rv[r].type = ty /\ n \in rv[r].nights
                 /\ rv[r].status = "OPEN" /\ rv[r].room = None}

\* Sizes of sets that differ by an element or two.
LEMMA Sizes ==
    ASSUME NEW S, IsFiniteSet(S), NEW T, IsFiniteSet(T)
    PROVE  /\ Cardinality(S) \in Nat /\ Cardinality(T) \in Nat
           /\ S \subseteq T => Cardinality(S) <= Cardinality(T)
           /\ \A x : S \subseteq T \union {x} => Cardinality(S) <= Cardinality(T) + 1
           /\ \A x : x \notin S /\ S \union {x} \subseteq T => Cardinality(S) + 1 <= Cardinality(T)
           /\ \A x, y : y \notin S /\ y \in T /\ S \ {x} \subseteq T => Cardinality(S) <= Cardinality(T)
<1>1. Cardinality(S) \in Nat /\ Cardinality(T) \in Nat
  BY FS_CardinalityType
<1>2. S \subseteq T => Cardinality(S) <= Cardinality(T)
  BY FS_Subset
<1>3. ASSUME NEW x, S \subseteq T \union {x} PROVE Cardinality(S) <= Cardinality(T) + 1
  <2>1. /\ IsFiniteSet(T \union {x})
        /\ Cardinality(T \union {x}) = IF x \in T THEN Cardinality(T) ELSE Cardinality(T) + 1
    BY FS_AddElement
  <2>2. Cardinality(S) <= Cardinality(T \union {x})
    BY <1>3, <2>1, FS_Subset
  <2> QED BY <1>1, <2>1, <2>2
<1>4. ASSUME NEW x, x \notin S, S \union {x} \subseteq T PROVE Cardinality(S) + 1 <= Cardinality(T)
  <2>1. Cardinality(S \union {x}) = Cardinality(S) + 1
    BY <1>4, FS_AddElement
  <2>2. Cardinality(S \union {x}) <= Cardinality(T)
    BY <1>4, FS_Subset
  <2> QED BY <2>1, <2>2
<1>5. ASSUME NEW x, NEW y, y \notin S, y \in T, S \ {x} \subseteq T PROVE Cardinality(S) <= Cardinality(T)
  <2> DEFINE R == S \ {x}
  <2>1. IsFiniteSet(R) /\ Cardinality(R) = IF x \in S THEN Cardinality(S) - 1 ELSE Cardinality(S)
    BY FS_RemoveElement
  <2>2. y \notin R /\ R \union {y} \subseteq T
    BY <1>5
  <2> HIDE DEF R
  <2>3. Cardinality(R \union {y}) = Cardinality(R) + 1
    BY <2>1, <2>2, FS_AddElement
  <2>4. Cardinality(R \union {y}) <= Cardinality(T)
    BY <2>2, FS_Subset
  <2>5. Cardinality(R) \in Nat
    BY <2>1, FS_CardinalityType
  <2> QED BY <1>1, <2>1, <2>3, <2>4, <2>5
<1> QED BY <1>1, <1>2, <1>3, <1>4, <1>5

\* What is left is the difference of the two counts.
LEMMA FreeIs ==
    ASSUME NEW ty, NEW n, NEW rm, NEW rv, NEW bl
    PROVE  /\ IsFiniteSet(RoomsFree(ty, n, rm, rv, bl)) /\ IsFiniteSet(StaysWaiting(ty, n, rv))
           /\ Cardinality(RoomsFree(ty, n, rm, rv, bl)) \in Nat /\ Cardinality(StaysWaiting(ty, n, rv)) \in Nat
           /\ Free(ty, n, rm, rv, bl) \in Int
           /\ Free(ty, n, rm, rv, bl) =
                 Cardinality(RoomsFree(ty, n, rm, rv, bl)) - Cardinality(StaysWaiting(ty, n, rv))
<1>1. RoomsFree(ty, n, rm, rv, bl) \in SUBSET Room /\ StaysWaiting(ty, n, rv) \in SUBSET Res
  BY DEF RoomsFree, StaysWaiting
<1>2. IsFiniteSet(RoomsFree(ty, n, rm, rv, bl)) /\ IsFiniteSet(StaysWaiting(ty, n, rv))
  BY <1>1, FS_Subset, InventoryAssumption
<1>3. Cardinality(RoomsFree(ty, n, rm, rv, bl)) \in Nat /\ Cardinality(StaysWaiting(ty, n, rv)) \in Nat
  BY <1>2, FS_CardinalityType
<1>4. Free(ty, n, rm, rv, bl) =
                 Cardinality(RoomsFree(ty, n, rm, rv, bl)) - Cardinality(StaysWaiting(ty, n, rv))
  BY DEF Free, RoomsFree, StaysWaiting
<1> QED BY <1>2, <1>3, <1>4

\* More rooms free and fewer stays waiting: more is left.
LEMMA NoLoss ==
    ASSUME NEW ty, NEW n, NEW rm, NEW rv, NEW bl, NEW rm2, NEW rv2, NEW bl2,
           RoomsFree(ty, n, rm, rv, bl) \subseteq RoomsFree(ty, n, rm2, rv2, bl2),
           StaysWaiting(ty, n, rv2) \subseteq StaysWaiting(ty, n, rv)
    PROVE  Free(ty, n, rm, rv, bl) <= Free(ty, n, rm2, rv2, bl2)
<1>1. Cardinality(RoomsFree(ty, n, rm, rv, bl)) <= Cardinality(RoomsFree(ty, n, rm2, rv2, bl2))
  BY FreeIs, Sizes
<1>2. Cardinality(StaysWaiting(ty, n, rv2)) <= Cardinality(StaysWaiting(ty, n, rv))
  BY FreeIs, Sizes
<1> QED BY <1>1, <1>2, FreeIs

\* One room changes: at most that room is lost, and exactly if it was free and
\* is not any more.
LEMMA RoomChange ==
    ASSUME NEW ty, NEW n, NEW k, NEW rm, NEW bl, NEW rm2, NEW bl2, NEW rv,
           \A q \in Room \ {k} :
               q \in RoomsFree(ty, n, rm, rv, bl) <=> q \in RoomsFree(ty, n, rm2, rv, bl2)
    PROVE  /\ Free(ty, n, rm, rv, bl) <= Free(ty, n, rm2, rv, bl2) + 1
           /\ k \notin RoomsFree(ty, n, rm, rv, bl) \/ k \in RoomsFree(ty, n, rm2, rv, bl2)
                  => Free(ty, n, rm, rv, bl) <= Free(ty, n, rm2, rv, bl2)
           /\ k \in RoomsFree(ty, n, rm, rv, bl) /\ k \notin RoomsFree(ty, n, rm2, rv, bl2)
                  => Free(ty, n, rm2, rv, bl2) < Free(ty, n, rm, rv, bl)
<1> DEFINE A == RoomsFree(ty, n, rm, rv, bl)
           C == RoomsFree(ty, n, rm2, rv, bl2)
           B == StaysWaiting(ty, n, rv)
<1>0. A \subseteq Room /\ C \subseteq Room
  BY DEF RoomsFree
<1>1. /\ IsFiniteSet(A) /\ IsFiniteSet(C) /\ Cardinality(A) \in Nat /\ Cardinality(C) \in Nat
      /\ Cardinality(B) \in Nat
      /\ Free(ty, n, rm, rv, bl) = Cardinality(A) - Cardinality(B)
      /\ Free(ty, n, rm2, rv, bl2) = Cardinality(C) - Cardinality(B)
  BY FreeIs
<1>2. \A q \in Room \ {k} : q \in A <=> q \in C
  OBVIOUS
<1> HIDE DEF A, B, C
<1>3. A \subseteq C \union {k} /\ (k \notin A \/ k \in C => A \subseteq C) /\ (k \in A /\ k \notin C => C \union {k} \subseteq A)
  BY <1>0, <1>2
<1>4. Cardinality(A) <= Cardinality(C) + 1
  BY <1>1, <1>3, Sizes
<1>5. k \notin A \/ k \in C => Cardinality(A) <= Cardinality(C)
  BY <1>1, <1>3, Sizes
<1>6. k \in A /\ k \notin C => Cardinality(C) + 1 <= Cardinality(A)
  BY <1>1, <1>3, Sizes
<1> QED BY <1>1, <1>4, <1>5, <1>6 DEF A, C

\* A reservation takes one of the type, in a room or waiting for one.
Takes(v, ty) == IF v.room = None THEN v.type = ty ELSE room[v.room] = ty

\* How many of the type an open reservation takes on a night.
Use(v, ty, n) == IF v.status = "OPEN" /\ n \in v.nights /\ Takes(v, ty) THEN 1 ELSE 0

\* Nobody else, and no repair, is in the room of r that night.
Alone(rv, r, n) ==
    rv[r].room # None /\ Occupies(rv[r], rv[r].room, n) =>
        /\ \A q \in Res \ {r} : ~ Occupies(rv[q], rv[r].room, n)
        /\ \A b \in blocks : ~ OutOfOrder(b, rv[r].room, n)

\* One reservation changes: its old use is given back, its new one taken.
LEMMA StayChange ==
    ASSUME NEW r \in Res, NEW rv \in [Res -> Reservation], NEW v \in Reservation, NEW ty \in RoomType, NEW n,
           Alone(rv, r, n)
    PROVE  /\ Use(rv[r], ty, n) \in 0..1 /\ Use(v, ty, n) \in 0..1
           /\ Free(ty, n, room, rv, blocks) + Use(rv[r], ty, n)
                 <= Free(ty, n, room, [rv EXCEPT ![r] = v], blocks) + Use(v, ty, n)
<1> DEFINE w == rv[r]
           rv2 == [rv EXCEPT ![r] = v]
           A == RoomsFree(ty, n, room, rv, blocks)
           C == RoomsFree(ty, n, room, rv2, blocks)
           B == StaysWaiting(ty, n, rv)
           D == StaysWaiting(ty, n, rv2)
<1>1. /\ IsFiniteSet(A) /\ IsFiniteSet(C) /\ Cardinality(A) \in Nat /\ Cardinality(C) \in Nat
      /\ IsFiniteSet(B) /\ IsFiniteSet(D) /\ Cardinality(B) \in Nat /\ Cardinality(D) \in Nat
      /\ Free(ty, n, room, rv, blocks) = Cardinality(A) - Cardinality(B)
      /\ Free(ty, n, room, rv2, blocks) = Cardinality(C) - Cardinality(D)
  BY FreeIs
<1>2. Use(w, ty, n) \in 0..1 /\ Use(v, ty, n) \in 0..1
  BY DEF Use
<1>3. rv2[r] = v /\ \A q \in Res \ {r} : rv2[q] = rv[q]
  OBVIOUS
<1>4. w.room \in Room \union {None} /\ v.room \in Room \union {None} /\ None \notin Room
  BY InventoryAssumption DEF Reservation, Row
<1> DEFINE oldIn == w.status = "OPEN" /\ n \in w.nights
           newIn == v.status = "OPEN" /\ n \in v.nights
<1>5. \A k \in Room : k \in A <=> /\ room[k] = ty /\ (\A q \in Res : ~ Occupies(rv[q], k, n))
                                  /\ \A b \in blocks : ~ OutOfOrder(b, k, n)
  BY DEF RoomsFree
<1>6. \A k \in Room : k \in C <=> /\ room[k] = ty /\ (\A q \in Res : ~ Occupies(rv2[q], k, n))
                                  /\ \A b \in blocks : ~ OutOfOrder(b, k, n)
  BY DEF RoomsFree
<1>7. A \subseteq Room /\ C \subseteq Room
  BY DEF RoomsFree
<1>8. \A q \in Res \ {r} : q \in B <=> q \in D
  BY <1>3 DEF StaysWaiting
<1>9. /\ B \subseteq Res /\ D \subseteq Res
      /\ r \in B <=> oldIn /\ w.room = None /\ w.type = ty
      /\ r \in D <=> newIn /\ v.room = None /\ v.type = ty
  BY <1>3 DEF StaysWaiting
<1>10. \A k \in Room : Occupies(w, k, n) <=> oldIn /\ w.room = k
  BY DEF Occupies
<1>11. \A k \in Room : Occupies(v, k, n) <=> newIn /\ v.room = k
  BY DEF Occupies
<1>12. \A k \in A : k \in C \/ (newIn /\ v.room = k /\ room[k] = ty)
  BY <1>3, <1>5, <1>6, <1>7, <1>11
<1>13. oldIn /\ w.room # None /\ room[w.room] = ty
          => w.room \notin A /\ (w.room \in C \/ (newIn /\ v.room = w.room))
  <2> SUFFICES ASSUME oldIn, w.room # None, room[w.room] = ty
               PROVE  w.room \notin A /\ (w.room \in C \/ (newIn /\ v.room = w.room))
    OBVIOUS
  <2>1. w.room \in Room /\ Occupies(w, w.room, n)
    BY <1>4, <1>10
  <2>2. /\ \A q \in Res \ {r} : ~ Occupies(rv[q], w.room, n)
        /\ \A b \in blocks : ~ OutOfOrder(b, w.room, n)
    BY <2>1 DEF Alone
  <2> QED BY <1>3, <1>5, <1>6, <1>11, <2>1, <2>2
<1>14. Use(w, ty, n) = IF r \in B \/ (oldIn /\ w.room # None /\ room[w.room] = ty) THEN 1 ELSE 0
  BY <1>9 DEF Use, Takes
<1>15. Use(v, ty, n) = IF r \in D \/ (newIn /\ v.room # None /\ room[v.room] = ty) THEN 1 ELSE 0
  BY <1>9 DEF Use, Takes
<1>16. (r \in B => ~ (oldIn /\ w.room # None)) /\ (r \in D => ~ (newIn /\ v.room # None))
  BY <1>9
<1> DEFINE oldRoom == oldIn /\ w.room # None /\ room[w.room] = ty
           newRoom == newIn /\ v.room # None /\ room[v.room] = ty
<1>17. Cardinality(A) + (IF oldRoom THEN 1 ELSE 0) <= Cardinality(C) + (IF newRoom THEN 1 ELSE 0)
  <2>1. CASE oldRoom /\ newRoom
    <3>1. CASE v.room = w.room
      <4>1. A \subseteq C
        BY <1>12, <1>13, <2>1, <3>1
      <4>2. Cardinality(A) <= Cardinality(C)
        BY <1>1, <4>1, Sizes
      <4> QED BY <1>1, <2>1, <4>2
    <3>2. CASE v.room # w.room
      <4>1. w.room \notin A /\ w.room \in C /\ A \ {v.room} \subseteq C
        BY <1>12, <1>13, <2>1, <3>2
      <4>2. Cardinality(A) <= Cardinality(C)
        BY <1>1, <4>1, Sizes
      <4> QED BY <1>1, <2>1, <4>2
    <3> QED BY <3>1, <3>2
  <2>2. CASE oldRoom /\ ~ newRoom
    <3>1. A \subseteq C
      BY <1>4, <1>7, <1>12, <2>2
    <3>2. w.room \notin A /\ w.room \in C
      BY <1>4, <1>13, <2>2
    <3>3. A \union {w.room} \subseteq C
      BY <3>1, <3>2
    <3>4. Cardinality(A) + 1 <= Cardinality(C)
      BY <1>1, <3>2, <3>3, Sizes
    <3> QED BY <1>1, <2>2, <3>4
  <2>3. CASE ~ oldRoom /\ newRoom
    <3>1. A \subseteq C \union {v.room}
      BY <1>12
    <3>2. Cardinality(A) <= Cardinality(C) + 1
      BY <1>1, <3>1, Sizes
    <3> QED BY <1>1, <2>3, <3>2
  <2>4. CASE ~ oldRoom /\ ~ newRoom
    <3>1. A \subseteq C
      BY <1>4, <1>7, <1>12, <2>4
    <3>2. Cardinality(A) <= Cardinality(C)
      BY <1>1, <3>1, Sizes
    <3> QED BY <1>1, <2>4, <3>2
  <2> QED BY <2>1, <2>2, <2>3, <2>4
<1>18. Cardinality(D) + (IF r \in B THEN 1 ELSE 0) <= Cardinality(B) + (IF r \in D THEN 1 ELSE 0)
  <2>1. CASE r \in B /\ r \notin D
    <3>1. D \union {r} \subseteq B
      BY <1>8, <1>9, <2>1
    <3>2. Cardinality(D) + 1 <= Cardinality(B)
      BY <1>1, <2>1, <3>1, Sizes
    <3> QED BY <1>1, <2>1, <3>2
  <2>2. CASE r \notin B /\ r \in D
    <3>1. D \subseteq B \union {r}
      BY <1>8, <1>9
    <3>2. Cardinality(D) <= Cardinality(B) + 1
      BY <1>1, <3>1, Sizes
    <3> QED BY <1>1, <2>2, <3>2
  <2>3. CASE r \in B <=> r \in D
    <3>1. D \subseteq B
      BY <1>8, <1>9, <2>3
    <3>2. Cardinality(D) <= Cardinality(B)
      BY <1>1, <3>1, Sizes
    <3> QED BY <1>1, <2>3, <3>2
  <2> QED BY <2>1, <2>2, <2>3
<1>19. Use(w, ty, n) = (IF oldRoom THEN 1 ELSE 0) + (IF r \in B THEN 1 ELSE 0)
  BY <1>14, <1>16
<1>20. Use(v, ty, n) = (IF newRoom THEN 1 ELSE 0) + (IF r \in D THEN 1 ELSE 0)
  BY <1>15, <1>16
<1> HIDE DEF A, B, C, D, oldRoom, newRoom
<1>21. Free(ty, n, room, rv, blocks) + Use(w, ty, n) <= Free(ty, n, room, rv2, blocks) + Use(v, ty, n)
  BY <1>1, <1>17, <1>18, <1>19, <1>20
<1> QED BY <1>2, <1>21

-----------------------------------------------------------------------------
(* What a call holds, and what it has seen of it *)

\* Records are of rooms that are there; stays were given rooms that were.
HotelSound ==
    /\ \A b \in blocks : room[b.room] \in RoomType
    /\ \A r \in Res : res[r].room # None => room[res[r].room] # "ABSENT"

\* Type ty is one of those whose rows call t asks for.
NeedsType(t, ty) ==
    LET j == tx[t].job
        begun == tx[t].at \in {"first", "check", "place", "write"}
        later == tx[t].at \in {"check", "place", "write"}
    IN  \/ begun /\ j.op = "Create" /\ \E r \in tx[t].rs : ty = Req[r].type
        \/ later /\ j.op \in {"Create", "Assign", "AutoAssign"} /\ j.room # None /\ ty = tx[t].seen
        \/ /\ later /\ j.op = "Update"
           /\ \E r \in tx[t].rs : Changed(r, j) # res[r] /\ ty \in {res[r].type, j.type}
        \/ later /\ j.op = "Reinstate" /\ \E r \in tx[t].rs : ty = res[r].type
        \/ begun /\ j.op = "Block" /\ j.kind = "OUT_OF_ORDER" /\ ty = tx[t].seen
        \/ begun /\ j.op \in {"ChangeType", "DeleteRoom"} /\ ty = tx[t].seen
        \/ begun /\ j.op \in {"ChangeType", "CreateRoom"} /\ ty = j.type

\* Room k is one of those whose rows call t asks for.
NeedsRoom(t, k) ==
    LET j == tx[t].job
        later == tx[t].at \in {"place", "write"}
    IN  \/ later /\ j.op \in {"Create", "Assign", "AutoAssign"} /\ k = j.room
        \/ later /\ j.op \in {"Assign", "AutoAssign"} /\ \E r \in tx[t].rs : k = res[r].room
        \/ later /\ j.op \in {"Update", "Reinstate"} /\ ~ tx[t].drop /\ \E r \in tx[t].rs : k = res[r].room
        \/ tx[t].at \in {"first", "write"} /\ j.op \in {"Block", "Unblock", "ChangeType", "DeleteRoom"} /\ k = j.room

\* A row that was asked for is held once it is not waited for any more, unless
\* the room was deleted meanwhile.
AsksSound(t) ==
    /\ \A ty \in RoomType : Claims(t, ty) <=> NeedsType(t, ty)
    /\ tx[t].at = "write" => tx[t].want \subseteq Room
    /\ \A k \in Room : NeedsRoom(t, k) => room[k] # "ABSENT" /\ (Claims(t, k) \/ room[k] = "DELETED")

\* What a call has seen of the rows that it holds.
DecisionSound(t) ==
    LET j == tx[t].job
        later == tx[t].at \in {"check", "place", "write"}
    IN  /\ later /\ j.op \in {"Assign", "AutoAssign", "Update"} => \A r \in tx[t].rs : res[r].status = "OPEN"
        /\ later /\ j.op = "Reinstate" => \A r \in tx[t].rs : res[r].status = "CLOSED"
        /\ tx[t].at = "write" /\ j.op \in {"Block", "Unblock", "ChangeType", "DeleteRoom"} => held[j.room] = t
        /\ tx[t].at = "write" /\ (j.op = "DeleteRoom" \/ (j.op = "ChangeType" /\ j.type # tx[t].seen))
               => ~ HasGuests(j.room)
        /\ tx[t].at \in Active /\ j.op = "ChangeType"
               => \E v \in 0..version[j.room] :
                      /\ tx[t].form = {<<j.room, v>>}
                      /\ tx[t].at # "retry" /\ version[j.room] = v => room[j.room] = tx[t].seen

Asked(t, ty, n) == {r \in tx[t].rs : Req[r].type = ty /\ n \in Req[r].nights}

Left(ty, n) == Free(ty, n, room, res, blocks)

\* The room still has the type that was read.
StillSeen(t) == tx[t].seen \in RoomType /\ room[tx[t].job.room] = tx[t].seen

\* What a call will take of a type that it holds is still there.
CreateMargin(t) ==
    LET j == tx[t].job
    IN  /\ tx[t].at \in {"place", "write"} /\ ~ j.allowOverbooking =>
               \A ty \in RoomType, n \in Nights :
                   Asked(t, ty, n) # {} => Left(ty, n) >= Cardinality(Asked(t, ty, n))
        /\ tx[t].at = "write" /\ j.room # None /\ StillSeen(t) =>
               \A r \in tx[t].rs : tx[t].seen # Req[r].type => \A n \in Req[r].nights : Left(tx[t].seen, n) >= 1

AssignMargin(t) ==
    tx[t].at = "write" /\ StillSeen(t) =>
        \A r \in tx[t].rs : \A n \in res[r].nights : Left(tx[t].seen, n) >= 1 \/ Takes(res[r], tx[t].seen)

UpdateMargin(t) ==
    LET j == tx[t].job
    IN  tx[t].at = "write" /\ ~ j.allowOverbooking =>
            \A r \in tx[t].rs : Changed(r, j) # res[r] =>
                IF res[r].room # None /\ ~ tx[t].drop
                THEN \A n \in j.nights \ res[r].nights :
                         room[res[r].room] \in {res[r].type, j.type} => Left(room[res[r].room], n) >= 1
                ELSE \A n \in j.nights : Left(j.type, n) >= 1 \/ (n \in res[r].nights /\ Takes(res[r], j.type))

ReinstateMargin(t) ==
    tx[t].at = "write" =>
        \A r \in tx[t].rs : tx[t].drop \/ Takes(res[r], res[r].type) =>
            \A n \in res[r].nights : Left(res[r].type, n) >= 1

\* The room is of no use anyway that night.
Useless(k, n) == \E b \in blocks : OutOfOrder(b, k, n)

BlockMargin(t) ==
    LET j == tx[t].job
    IN  tx[t].at = "write" /\ j.kind = "OUT_OF_ORDER" /\ StillSeen(t) =>
            \A n \in j.nights : Left(tx[t].seen, n) >= 1 \/ Useless(j.room, n)

WithdrawMargin(t) ==
    LET j == tx[t].job
    IN  tx[t].at = "write" /\ StillSeen(t) =>
            \/ j.op = "ChangeType" /\ j.type = tx[t].seen
            \/ \A n \in Nights : Left(tx[t].seen, n) >= 1 \/ Useless(j.room, n)

Margin(t) ==
    LET op == tx[t].job.op
    IN  /\ op = "Create" => CreateMargin(t)
        /\ op \in {"Assign", "AutoAssign"} => AssignMargin(t)
        /\ op = "Update" => UpdateMargin(t)
        /\ op = "Reinstate" => ReinstateMargin(t)
        /\ op = "Block" => BlockMargin(t)
        /\ op \in {"ChangeType", "DeleteRoom"} => WithdrawMargin(t)

SInv == HotelSound /\ \A t \in Tx : AsksSound(t) /\ DecisionSound(t)
MInv == unlockedLoss \/ \A t \in Tx : Margin(t)

-----------------------------------------------------------------------------
(* What a commit may touch *)

\* What call t writes when it commits.
Touches(t) ==
    /\ \A k \in Room :
           /\ room'[k] # room[k] =>
                  /\ held[k] = t \/ room[k] = "ABSENT"
                  /\ room'[k] # "ABSENT"
                  /\ room'[k] \in RoomType => held[room'[k]] = t
                  /\ ~ HasGuests(k)
                  /\ version[k] < version'[k]
           /\ version[k] <= version'[k]
    /\ \A b \in Block : (b \in blocks') # (b \in blocks) => held[b.room] = t
    /\ \A b \in blocks' : room'[b.room] \in RoomType
    /\ \A r \in Res : res'[r].room \notin {None, res[r].room} => room[res'[r].room] # "ABSENT"
    /\ \A r \in Res :
           res'[r].status = "OPEN" /\ res'[r].room # None =>
               \/ res'[r] = res[r]
               \/ held[res'[r].room] = t
               \/ room[res'[r].room] = "DELETED"
    /\ unlockedLoss' = (unlockedLoss \/ LosesUnlocked(t, room', res', blocks'))

\* A step leaves call u what it relies on.
Respects(u) ==
    /\ tx'[u] = tx[u] /\ \A l \in Row : held'[l] = u <=> held[l] = u
    /\ \A r \in Res : held[r] = u => res'[r] = res[r]
    /\ \A k \in Room :
           /\ held[k] = u => room'[k] = room[k] /\ (HasGuests(k)' => HasGuests(k))
           /\ held[k] = u => \A b \in Block : b.room = k => (b \in blocks' <=> b \in blocks)
           /\ room[k] = "DELETED" => room'[k] = "DELETED"
           /\ room[k] # "ABSENT" => room'[k] # "ABSENT"
           /\ HasGuests(k) => room'[k] = room[k]
           /\ \A ty \in RoomType : held[ty] = u /\ room'[k] = ty => room[k] = ty
           /\ version[k] <= version'[k] /\ (room'[k] # room[k] => version[k] < version'[k])
    /\ ~ unlockedLoss' =>
           \A ty \in RoomType : held[ty] = u => \A n \in Nights : Left(ty, n) <= Left(ty, n)'

LEMMA LeftIsInt ==
    \A ty \in RoomType, n \in Nights : Left(ty, n) \in Int /\ Left(ty, n)' \in Int
<1>1. ASSUME NEW ty \in RoomType, NEW n \in Nights
      PROVE  Left(ty, n) \in Int /\ Left(ty, n)' \in Int
  <2>1. Free(ty, n, room, res, blocks) \in Int
    BY FreeIs
  <2>2. Free(ty, n, room', res', blocks') \in Int
    BY FreeIs
  <2> QED BY <2>1, <2>2 DEF Left
<1> QED BY <1>1

LEMMA QuietRespects ==
    ASSUME TypeOK, Quiet, NEW u \in Tx, tx'[u] = tx[u], \A l \in Row : held'[l] = u <=> held[l] = u
    PROVE  Respects(u)
<1>1. \A ty \in RoomType, n \in Nights : Left(ty, n) <= Left(ty, n)'
  BY LeftIsInt DEF Left, Quiet
<1>2. \A k \in Room : HasGuests(k)' <=> HasGuests(k)
  BY DEF HasGuests, Quiet
<1>3. \A k \in Room : version[k] \in Nat
  BY DEF TypeOK
<1> QED BY <1>1, <1>2, <1>3 DEF Respects, Quiet

LEMMA CommitRespects ==
    ASSUME IInv, NEW t \in Tx, Writes(t), Touches(t), NEW u \in Tx, u # t,
           tx'[u] = tx[u], \A l \in Row : held'[l] = u <=> held[l] = u
    PROVE  Respects(u)
<1>1. \A r \in Res : held[r] = u => res'[r] = res[r]
  BY WriterAlone DEF Writes
<1>2. \A k \in Room : k \in Row /\ (held[k] = u \/ held[k] = t => room[k] \in RoomType)
  BY InventoryAssumption DEF IInv, HeldExists, RowExists, Row
<1>3. \A k \in Room : room[k] \in RoomType => room[k] \notin {"ABSENT", "DELETED"}
  BY InventoryAssumption
<1>4. ASSUME NEW k \in Room PROVE
           /\ held[k] = u => room'[k] = room[k]
           /\ room[k] = "DELETED" => room'[k] = "DELETED"
           /\ room[k] # "ABSENT" => room'[k] # "ABSENT"
           /\ HasGuests(k) => room'[k] = room[k]
           /\ version[k] <= version'[k] /\ (room'[k] # room[k] => version[k] < version'[k])
  BY <1>2, <1>3 DEF Touches
<1>5. ASSUME NEW k \in Room, NEW ty \in RoomType, held[ty] = u, room'[k] = ty PROVE room[k] = ty
  BY <1>5 DEF Touches
<1>6. ASSUME NEW k \in Room, held[k] = u, HasGuests(k)' PROVE HasGuests(k)
  <2>1. PICK r \in Res : res'[r].status = "OPEN" /\ res'[r].room = k
    BY <1>6 DEF HasGuests
  <2>2. k # None
    BY InventoryAssumption DEF Row
  <2>3. res[r].status = "OPEN" /\ res[r].room = k
    BY <1>2, <1>3, <1>6, <2>1, <2>2 DEF Touches
  <2> QED BY <2>3 DEF HasGuests
<1>7. \A k \in Room : held[k] = u => \A b \in Block : b.room = k => (b \in blocks' <=> b \in blocks)
  BY DEF Touches
<1>8. ASSUME ~ unlockedLoss', NEW ty \in RoomType, held[ty] = u, NEW n \in Nights
      PROVE  Left(ty, n) <= Left(ty, n)'
  <2>1. ~ LosesUnlocked(t, room', res', blocks')
    BY <1>8 DEF Touches
  <2>2. ~ (Left(ty, n)' < Left(ty, n))
    BY <1>8, <2>1 DEF LosesUnlocked, Left
  <2> QED BY <2>2, LeftIsInt
<1> QED BY <1>1, <1>4, <1>5, <1>6, <1>7, <1>8 DEF Respects

-----------------------------------------------------------------------------
(* What a call asks for, and has seen, stays *)

LEMMA OthersAsk ==
    ASSUME TypeOK, TypeOK', NEW u \in Tx, CallSound(u), AsksSound(u), DecisionSound(u), Respects(u)
    PROVE  AsksSound(u)' /\ DecisionSound(u)'
<1> DEFINE j == tx[u].job
<1>1. tx'[u] = tx[u] /\ \A l \in Row : Claims(u, l)' <=> Claims(u, l)
  BY DEF Respects, Claims
<1>2. tx[u].rs \subseteq Res /\ (tx[u].at \in Active => j \in Job /\ Complete(j))
  BY JobFacts DEF TypeOK, Call, CallSound, JobSound
<1>3. tx[u].at \in {"check", "place", "write"} /\ j.op \in {"Assign", "AutoAssign", "Update", "Reinstate"}
          => \A r \in tx[u].rs : res'[r] = res[r]
  <2>1. j.op \in {"Assign", "AutoAssign", "Update", "Reinstate"} => Written(j, tx[u].rs) = tx[u].rs
    BY DEF Written
  <2> QED BY <1>2, <2>1 DEF CallSound, WriteSound, Respects
<1>4. \A r : res'[r] = res[r] => Changed(r, j)' = Changed(r, j)
  BY <1>1 DEF Changed
<1>5. \A ty \in RoomType : NeedsType(u, ty)' <=> NeedsType(u, ty)
  BY <1>1, <1>3, <1>4 DEF NeedsType
<1>6. \A k \in Room : NeedsRoom(u, k)' <=> NeedsRoom(u, k)
  BY <1>1, <1>3 DEF NeedsRoom
<1>7. \A k \in Room : k \in Row /\ (room[k] = "DELETED" => room'[k] = "DELETED")
                      /\ (room[k] # "ABSENT" => room'[k] # "ABSENT")
  BY DEF Respects, Row
<1>8. AsksSound(u)'
  <2>1. \A ty \in RoomType : Claims(u, ty)' <=> NeedsType(u, ty)'
    BY <1>1, <1>5 DEF AsksSound, Row
  <2>2. tx'[u].at = "write" => tx'[u].want \subseteq Room
    BY <1>1 DEF AsksSound
  <2>3. \A k \in Room : NeedsRoom(u, k)' => room'[k] # "ABSENT" /\ (Claims(u, k)' \/ room'[k] = "DELETED")
    BY <1>1, <1>6, <1>7 DEF AsksSound
  <2> QED BY <2>1, <2>2, <2>3 DEF AsksSound
<1>9. j.op \in {"Block", "Unblock", "ChangeType", "DeleteRoom"} /\ tx[u].at \in Active => j.room \in Room
  BY <1>2 DEF Complete
<1>10. tx[u].at = "write" /\ j.op \in {"Block", "Unblock", "ChangeType", "DeleteRoom"}
           => held[j.room] = u /\ held'[j.room] = u /\ (HasGuests(j.room)' => HasGuests(j.room))
  BY <1>9 DEF DecisionSound, Respects, Active, Row
<1>11. tx[u].at \in Active /\ j.op = "ChangeType"
               => \E v \in 0..version'[j.room] :
                      /\ tx[u].form = {<<j.room, v>>}
                      /\ tx[u].at # "retry" /\ version'[j.room] = v => room'[j.room] = tx[u].seen
  <2> SUFFICES ASSUME tx[u].at \in Active, j.op = "ChangeType"
               PROVE  \E v \in 0..version'[j.room] :
                      /\ tx[u].form = {<<j.room, v>>}
                      /\ tx[u].at # "retry" /\ version'[j.room] = v => room'[j.room] = tx[u].seen
    OBVIOUS
  <2>1. PICK v \in 0..version[j.room] :
             /\ tx[u].form = {<<j.room, v>>}
             /\ tx[u].at # "retry" /\ version[j.room] = v => room[j.room] = tx[u].seen
    BY DEF DecisionSound
  <2>2. /\ version[j.room] <= version'[j.room]
        /\ room'[j.room] # room[j.room] => version[j.room] < version'[j.room]
    BY <1>9 DEF Respects
  <2>3. version[j.room] \in Nat /\ version'[j.room] \in Nat
    BY <1>9 DEF TypeOK
  <2>4. v \in 0..version'[j.room]
    BY <2>2, <2>3
  <2> QED BY <2>1, <2>2, <2>3, <2>4
<1>12. DecisionSound(u)'
  BY <1>1, <1>3, <1>10, <1>11 DEF DecisionSound
<1> QED BY <1>8, <1>12

\* A call that has ended asks for nothing.
LEMMA EndAsks ==
    ASSUME TypeOK, NEW t \in Tx, Finish(t)
    PROVE  AsksSound(t)' /\ DecisionSound(t)'
<1>1. tx'[t] = NoCall("done") /\ \A l \in Row : held'[l] # t
  BY InventoryAssumption DEF Finish, Released, TypeOK
<1>2. tx'[t].at = "done" /\ tx'[t].want = {}
  BY <1>1 DEF NoCall
<1> QED BY <1>1, <1>2 DEF AsksSound, DecisionSound, NeedsType, NeedsRoom, Claims, Active, Row

-----------------------------------------------------------------------------
(* What a call asks for and sees as it moves *)

\* The kinds of rows are apart.
LEMMA Kinds ==
    /\ \A ty \in RoomType : ty \in Row /\ ty \notin Room /\ ty \notin Res /\ ty \notin {"ABSENT", "DELETED"}
    /\ \A k \in Room : k \in Row /\ k # None
BY InventoryAssumption DEF Row

LEMMA BeginAsks ==
    ASSUME TypeOK, HotelSound, NEW t \in Tx, CallSound(t), DecisionSound(t), Begin(t)
    PROVE  AsksSound(t)' /\ DecisionSound(t)'
<1>1. PICK j \in Jobs :
        /\ tx[t].at = "idle" \/ (tx[t].at = "retry" /\ j = tx[t].job)
        /\ \/ tx'[t] = NoCall("done")
           \/ /\ Found(j)
              /\ tx'[t] = [at |-> "first", job |-> j, want |-> FirstRows(j),
                     rs |-> IF j.op = "CancelGroup" THEN FirstRows(j) ELSE j.rs,
                     seen |-> IF j.op \in ReadsRoomFirst THEN room[j.room] ELSE "ABSENT",
                     form |-> IF tx[t].at = "retry" THEN tx[t].form
                              ELSE {<<l, version[l]>> : l \in FormRow(j)},
                     drop |-> FALSE, attempt |-> tx[t].attempt]
        /\ UNCHANGED <<room, version, res, blocks, held, unlockedLoss>>
  BY DEF Begin, TypeOK
<1>2. \A l \in Row : ~ Claims(t, l) /\ held'[l] # t
  BY <1>1 DEF CallSound, LocksSound, Claims
<1>3. CASE tx'[t] = NoCall("done")
  <2>1. tx'[t].at = "done" /\ tx'[t].want = {}
    BY <1>3 DEF NoCall
  <2> QED BY <1>2, <2>1 DEF AsksSound, DecisionSound, NeedsType, NeedsRoom, Claims, Active, Row
<1>4. CASE tx'[t] # NoCall("done")
  <2>1. /\ tx'[t].at = "first" /\ tx'[t].job = j /\ tx'[t].want = FirstRows(j)
        /\ j.op # "CancelGroup" => tx'[t].rs = j.rs
        /\ j.op \in ReadsRoomFirst => tx'[t].seen = room[j.room]
        /\ tx'[t].form = IF tx[t].at = "retry" THEN tx[t].form ELSE {<<l, version[l]>> : l \in FormRow(j)}
        /\ Found(j)
    BY <1>1, <1>4
  <2>2. j \in Job /\ Complete(j) /\ j.rs \subseteq Res
    BY JobFacts DEF Job
  <2>3. /\ j.op \in {"Block", "Unblock", "ChangeType", "DeleteRoom", "CreateRoom"} => j.room \in Room
        /\ j.type \in RoomType
    BY <2>2 DEF Complete, Job
  <2>4. j.op \in {"Block", "Unblock", "ChangeType", "DeleteRoom"} => room[j.room] \in RoomType /\ j.room \in FirstRows(j)
    BY <2>1, <2>3 DEF Found, ReadsRoomFirst, HotelSound, NewBlock, FirstRows
  <2>5. \A ty \in RoomType : Claims(t, ty)' <=> ty \in FirstRows(j)
    BY <1>2, <2>1, Kinds DEF Claims
  <2>6. ASSUME NEW ty \in RoomType PROVE Claims(t, ty)' <=> NeedsType(t, ty)'
    <3>1. CASE j.op = "Create"
      BY <2>1, <2>5, <3>1, Kinds DEF FirstRows, NeedsType
    <3>2. CASE j.op = "CancelGroup"
      BY <2>1, <2>2, <2>5, <3>2, Kinds DEF FirstRows, NeedsType
    <3>3. CASE j.op \in {"Block", "Unblock", "ChangeType", "DeleteRoom", "CreateRoom"}
      <4>1. ty # j.room
        BY <2>3, <3>3, Kinds
      <4> QED BY <2>1, <2>5, <3>3, <4>1 DEF FirstRows, NeedsType, ReadsRoomFirst
    <3>4. CASE j.op \in {"Assign", "AutoAssign", "Unassign", "Update", "Cancel", "Reinstate"}
      <4>1. FirstRows(j) = j.rs
        BY <3>4 DEF FirstRows
      <4> QED BY <2>1, <2>2, <2>5, <3>4, <4>1, Kinds DEF NeedsType
    <3>5. j.op \in Ops
      BY <2>2 DEF Job
    <3> QED BY <3>1, <3>2, <3>3, <3>4, <3>5 DEF Ops
  <2>7. \A k \in Room : NeedsRoom(t, k)' => room'[k] # "ABSENT" /\ Claims(t, k)'
    BY <1>1, <2>1, <2>4, Kinds DEF NeedsRoom, Claims
  <2>8. AsksSound(t)'
    BY <2>1, <2>6, <2>7 DEF AsksSound
  <2>9. j.op = "ChangeType" => \E v \in 0..version[j.room] : tx'[t].form = {<<j.room, v>>}
    <3>1. CASE tx[t].at = "retry"
      BY <1>1, <2>1, <3>1 DEF DecisionSound, Active
    <3>2. CASE tx[t].at # "retry" /\ j.op = "ChangeType"
      <4>1. tx'[t].form = {<<j.room, version[j.room]>>}
        BY <2>1, <3>2 DEF FormRow
      <4>2. version[j.room] \in 0..version[j.room]
        BY <2>3, <3>2 DEF TypeOK
      <4> QED BY <4>1, <4>2
    <3> QED BY <3>1, <3>2
  <2>10. DecisionSound(t)'
    BY <1>1, <2>1, <2>9 DEF DecisionSound, ReadsRoomFirst
  <2> QED BY <2>8, <2>10
<1> QED BY <1>3, <1>4

LEMMA LockAsks ==
    ASSUME TypeOK, NEW t \in Tx, CallSound(t), AsksSound(t), DecisionSound(t), LockRow(t)
    PROVE  AsksSound(t)' /\ DecisionSound(t)'
<1> DEFINE j == tx[t].job
<1>1. PICK l \in tx[t].want :
        /\ held[l] \in {None, t}
        /\ held' = IF RowExists(l) THEN [held EXCEPT ![l] = t] ELSE held
        /\ tx' = [tx EXCEPT ![t].want = @ \ {l}]
        /\ UNCHANGED <<room, version, res, blocks, unlockedLoss>>
  BY DEF LockRow
<1>2. tx[t].want \subseteq Row /\ tx[t].rs \subseteq Res /\ tx[t] \in Call
  BY DEF TypeOK, Call
<1>3. /\ tx'[t].at = tx[t].at /\ tx'[t].job = tx[t].job /\ tx'[t].rs = tx[t].rs
      /\ tx'[t].form = tx[t].form /\ tx'[t].seen = tx[t].seen /\ tx'[t].want = tx[t].want \ {l}
      /\ tx'[t].drop = tx[t].drop
  BY <1>1, <1>2 DEF TypeOK, Call
<1>4. \A m \in Row : Claims(t, m)' => Claims(t, m)
  BY <1>1, <1>2, <1>3 DEF Claims, TypeOK
<1>5. \A m \in Row : held[m] = t => held'[m] = t
  BY <1>1, <1>2 DEF TypeOK
<1>6. \A m \in Row : Claims(t, m) /\ RowExists(m) => Claims(t, m)'
  BY <1>1, <1>2, <1>3, <1>5 DEF Claims, TypeOK
<1>7. \A ty \in RoomType : RowExists(ty)
  BY Kinds DEF RowExists
<1>8. \A ty \in RoomType : NeedsType(t, ty)' <=> NeedsType(t, ty)
  BY <1>1, <1>3 DEF NeedsType, Changed
<1>9. \A k \in Room : NeedsRoom(t, k)' <=> NeedsRoom(t, k)
  BY <1>1, <1>3 DEF NeedsRoom
<1>10. \A k \in Room : RowExists(k) \/ room[k] \in {"ABSENT", "DELETED"}
  BY InventoryAssumption DEF RowExists, TypeOK
<1>11. \A ty \in RoomType : Claims(t, ty)' <=> NeedsType(t, ty)'
  BY <1>4, <1>6, <1>7, <1>8, Kinds DEF AsksSound
<1>12. \A k \in Room : NeedsRoom(t, k)' => room'[k] # "ABSENT" /\ (Claims(t, k)' \/ room'[k] = "DELETED")
  BY <1>1, <1>6, <1>9, <1>10, Kinds DEF AsksSound
<1>13. AsksSound(t)'
  BY <1>3, <1>11, <1>12 DEF AsksSound
<1>14. tx[t].at = "write" /\ j.op \in {"Block", "Unblock", "ChangeType", "DeleteRoom"} => j.room \in Row
  BY JobFacts, Kinds DEF CallSound, JobSound, Active, Complete
<1>15. DecisionSound(t)'
  BY <1>1, <1>3, <1>5, <1>14 DEF DecisionSound, HasGuests
<1> QED BY <1>13, <1>15

LEMMA DeadlockAsks ==
    ASSUME TypeOK, NEW t \in Tx, CallSound(t), DecisionSound(t), DeadlockAbort(t)
    PROVE  AsksSound(t)' /\ DecisionSound(t)'
<1>1. CASE Finish(t)
  BY <1>1, EndAsks
<1>2. CASE ~ Finish(t)
  <2>1. /\ tx' = [tx EXCEPT ![t].at = "retry", ![t].want = {}, ![t].attempt = @ + 1]
        /\ held' = Released(t) /\ UNCHANGED <<room, version, res, blocks, unlockedLoss>>
    BY <1>2 DEF DeadlockAbort
  <2>2. \A l \in Row : held'[l] # t
    BY <2>1, InventoryAssumption DEF Released
  <2>3. PICK S \in SUBSET Tx : t \in S /\ WaitCycle(S)
    BY DEF DeadlockAbort
  <2>4. PICK u \in S : WaitsFor(t, u)
    BY <2>3 DEF WaitCycle
  <2>5. PICK l \in tx[t].want : l \in Row
    BY <2>4 DEF WaitsFor, TypeOK, Call
  <2>6. tx[t].at \notin {"idle", "done", "retry"}
    BY <2>5 DEF CallSound, LocksSound, Claims
  <2>7. tx[t] \in Call /\ tx[t].at \in Active
    BY <2>6 DEF TypeOK, Call, Steps, Active
  <2>8. /\ tx'[t].at = "retry" /\ tx'[t].want = {} /\ tx'[t].job = tx[t].job /\ tx'[t].form = tx[t].form
    BY <2>1, <2>7 DEF TypeOK, Call
  <2>9. AsksSound(t)'
    BY <2>2, <2>8 DEF AsksSound, NeedsType, NeedsRoom, Claims, Row
  <2>10. DecisionSound(t)'
    BY <2>1, <2>7, <2>8 DEF DecisionSound
  <2> QED BY <2>9, <2>10
<1> QED BY <1>1, <1>2

\* A call goes on: what changes of its record, and nothing else.
LEMMA GoOnFields ==
    ASSUME TypeOK, NEW t \in Tx, NEW step, NEW want, GoOn(t, step, want)
    PROVE  /\ tx'[t].at = step /\ tx'[t].want = want /\ tx'[t].job = tx[t].job /\ tx'[t].rs = tx[t].rs
           /\ tx'[t].seen = tx[t].seen /\ tx'[t].form = tx[t].form /\ tx'[t].drop = tx[t].drop
           /\ UNCHANGED <<room, version, res, blocks, held, unlockedLoss>>
BY DEF GoOn, TypeOK, Call

LEMMA GoOnWithRoomFields ==
    ASSUME TypeOK, NEW t \in Tx, NEW r, NEW drop, GoOnWithRoom(t, r, drop)
    PROVE  /\ tx'[t].at = "write" /\ tx'[t].want = IF drop THEN {} ELSE {res[r].room} \ {None}
           /\ tx'[t].job = tx[t].job /\ tx'[t].rs = tx[t].rs
           /\ tx'[t].seen = tx[t].seen /\ tx'[t].form = tx[t].form /\ tx'[t].drop = drop
           /\ UNCHANGED <<room, version, res, blocks, held, unlockedLoss>>
BY DEF GoOnWithRoom, TypeOK, Call

LEMMA ReadRoomFields ==
    ASSUME TypeOK, NEW t \in Tx, NEW k, NEW more, ReadRoomThenLock(t, k, more), ~ Refuse(t)
    PROVE  /\ room[k] \in RoomType
           /\ tx'[t].at = "place" /\ tx'[t].want = {room[k], k} \union more
           /\ tx'[t].job = tx[t].job /\ tx'[t].rs = tx[t].rs
           /\ tx'[t].seen = room[k] /\ tx'[t].form = tx[t].form /\ tx'[t].drop = tx[t].drop
           /\ UNCHANGED <<room, version, res, blocks, held, unlockedLoss>>
BY DEF ReadRoomThenLock, TypeOK, Call

LEMMA CreateAsks ==
    ASSUME TypeOK, NEW t \in Tx, CallSound(t), AsksSound(t), CreateCheck(t), ~ Refuse(t)
    PROVE  AsksSound(t)' /\ DecisionSound(t)'
<1> DEFINE j == tx[t].job
<1>1. Ready(t, "first", {"Create"})
  BY DEF CreateCheck
<1>2. /\ tx[t].at = "first" /\ tx[t].want = {} /\ j.op = "Create" /\ j \in Job
      /\ tx[t].rs \subseteq Res
  BY <1>1, ReadyCall DEF CallSound, Active
<1>3. \A ty \in RoomType : held[ty] = t <=> \E r \in tx[t].rs : ty = Req[r].type
  BY <1>2 DEF AsksSound, Claims, NeedsType
<1>4. CASE j.room = None /\ GoOn(t, "write", {})
  <2>1. /\ tx'[t].at = "write" /\ tx'[t].want = {} /\ tx'[t].job = j /\ tx'[t].rs = tx[t].rs
        /\ UNCHANGED <<room, version, res, blocks, held, unlockedLoss>>
    BY <1>4, GoOnFields
  <2>2. \A ty \in RoomType : Claims(t, ty)' <=> NeedsType(t, ty)'
    BY <1>2, <1>3, <1>4, <2>1 DEF Claims, NeedsType
  <2>3. \A k \in Room : ~ NeedsRoom(t, k)'
    BY <1>2, <1>4, <2>1, Kinds DEF NeedsRoom
  <2> QED BY <1>2, <2>1, <2>2, <2>3 DEF AsksSound, DecisionSound
<1>5. CASE j.room # None /\ ReadRoomThenLock(t, j.room, {})
  <2>1. /\ room[j.room] \in RoomType /\ tx'[t].seen = room[j.room]
        /\ tx'[t].at = "place" /\ tx'[t].want = {room[j.room], j.room} /\ tx'[t].job = j /\ tx'[t].rs = tx[t].rs
        /\ UNCHANGED <<room, version, res, blocks, held, unlockedLoss>>
    BY <1>5, ReadRoomFields
  <2>2. j.room \in Room
    BY <1>2, <1>5 DEF Job
  <2>3. \A ty \in RoomType : Claims(t, ty)' <=> NeedsType(t, ty)'
    BY <1>2, <1>3, <1>5, <2>1, <2>2, Kinds DEF Claims, NeedsType
  <2>4. \A k \in Room : NeedsRoom(t, k)' => room'[k] # "ABSENT" /\ Claims(t, k)'
    BY <1>2, <2>1, Kinds DEF NeedsRoom, Claims
  <2> QED BY <1>2, <2>1, <2>3, <2>4 DEF AsksSound, DecisionSound
<1> QED BY <1>1, <1>4, <1>5 DEF CreateCheck

LEMMA PlaceAsks ==
    ASSUME TypeOK, NEW t \in Tx, AsksSound(t), DecisionSound(t), PlaceCheck(t), ~ Refuse(t)
    PROVE  AsksSound(t)' /\ DecisionSound(t)'
<1>1. /\ tx[t].at = "place" /\ tx[t].want = {} /\ tx[t].job.op \in {"Create", "Assign", "AutoAssign"}
      /\ GoOn(t, "write", {})
  BY DEF PlaceCheck, Ready
<1>2. /\ tx'[t].at = "write" /\ tx'[t].want = {} /\ tx'[t].job = tx[t].job /\ tx'[t].rs = tx[t].rs
      /\ tx'[t].seen = tx[t].seen
      /\ UNCHANGED <<room, version, res, blocks, held, unlockedLoss>>
  BY <1>1, GoOnFields
<1>3. \A ty \in RoomType : Claims(t, ty)' <=> NeedsType(t, ty)'
  BY <1>1, <1>2 DEF AsksSound, Claims, NeedsType
<1>4. \A k \in Room : NeedsRoom(t, k)' => room'[k] # "ABSENT" /\ (Claims(t, k)' \/ room'[k] = "DELETED")
  BY <1>1, <1>2 DEF AsksSound, Claims, NeedsRoom
<1>5. DecisionSound(t)'
  BY <1>1, <1>2 DEF DecisionSound
<1> QED BY <1>2, <1>3, <1>4, <1>5 DEF AsksSound

LEMMA PlacingAsks ==
    ASSUME TypeOK, HotelSound, NEW t \in Tx, CallSound(t), AsksSound(t), AssignRead(t) \/ UnassignRead(t), ~ Refuse(t)
    PROVE  AsksSound(t)' /\ DecisionSound(t)'
<1> DEFINE j == tx[t].job
<1>1. Ready(t, "first", {"Assign", "AutoAssign", "Unassign"})
  BY DEF AssignRead, UnassignRead, Ready
<1>2. /\ tx[t].at = "first" /\ tx[t].want = {} /\ j.op \in {"Assign", "AutoAssign", "Unassign"}
      /\ j \in Job /\ Complete(j) /\ tx[t].rs = j.rs /\ tx[t].rs \subseteq Res
  BY <1>1, ReadyCall DEF CallSound, Active
<1>3. \A ty \in RoomType : held[ty] # t
  BY <1>2 DEF AsksSound, Claims, NeedsType
<1>6. PICK r \in tx[t].rs :
        \/ j.op # "Unassign" /\ res[r].status = "OPEN" /\ ReadRoomThenLock(t, j.room, {res[r].room} \ {None})
        \/ j.op = "Unassign" /\ res[r].room # None /\ GoOn(t, "write", {res[r].room})
  BY <1>2 DEF AssignRead, UnassignRead, Ready
<1>7. tx[t].rs = {r} /\ r \in Res /\ res[r].room \in Room \union {None}
  BY <1>2, <1>6, ReservationTypes DEF Complete
<1>8. CASE j.op = "Unassign" /\ res[r].room # None /\ GoOn(t, "write", {res[r].room})
  <2>1. /\ tx'[t].at = "write" /\ tx'[t].want = {res[r].room} /\ tx'[t].job = j /\ tx'[t].rs = tx[t].rs
        /\ UNCHANGED <<room, version, res, blocks, held, unlockedLoss>>
    BY <1>8, GoOnFields
  <2> QED BY <1>3, <1>7, <1>8, <2>1, Kinds DEF AsksSound, DecisionSound, NeedsType, NeedsRoom, Claims
<1>9. CASE j.op # "Unassign" /\ res[r].status = "OPEN" /\ ReadRoomThenLock(t, j.room, {res[r].room} \ {None})
  <2>1. /\ room[j.room] \in RoomType /\ tx'[t].seen = room[j.room]
        /\ tx'[t].at = "place" /\ tx'[t].want = {room[j.room], j.room} \union ({res[r].room} \ {None})
        /\ tx'[t].job = j /\ tx'[t].rs = tx[t].rs
        /\ UNCHANGED <<room, version, res, blocks, held, unlockedLoss>>
    BY <1>9, ReadRoomFields
  <2>2. j.room \in Room
    BY <1>2, <1>9 DEF Complete
  <2>3. \A ty \in RoomType : Claims(t, ty)' <=> ty = room[j.room]
    BY <1>3, <1>7, <2>1, <2>2, Kinds DEF Claims
  <2>4. \A ty \in RoomType : NeedsType(t, ty)' <=> ty = room[j.room]
    BY <1>2, <1>9, <2>1, <2>2, Kinds DEF NeedsType
  <2>5. \A k \in Room : NeedsRoom(t, k)' => k \in {j.room, res[r].room}
    BY <1>2, <1>7, <1>9, <2>1 DEF NeedsRoom
  <2>6. \A k \in Room : NeedsRoom(t, k)' => room'[k] # "ABSENT" /\ Claims(t, k)'
    BY <1>7, <2>1, <2>5, Kinds DEF Claims, HotelSound
  <2>7. DecisionSound(t)'
    BY <1>2, <1>7, <1>9, <2>1 DEF DecisionSound
  <2> QED BY <2>1, <2>3, <2>4, <2>6, <2>7 DEF AsksSound
<1> QED BY <1>6, <1>8, <1>9

LEMMA ChangingAsks ==
    ASSUME TypeOK, NEW t \in Tx, CallSound(t), AsksSound(t),
           UpdateRead(t) \/ CancelRead(t) \/ ReinstateRead(t), ~ Refuse(t)
    PROVE  AsksSound(t)' /\ DecisionSound(t)'
<1> DEFINE j == tx[t].job
<1>1. Ready(t, "first", {"Update", "Cancel", "CancelGroup", "Reinstate"})
  BY DEF UpdateRead, CancelRead, ReinstateRead, Ready
<1>2. /\ tx[t].at = "first" /\ tx[t].want = {} /\ j.op \in {"Update", "Cancel", "CancelGroup", "Reinstate"}
      /\ j \in Job /\ Complete(j) /\ tx[t].rs \subseteq Res
      /\ j.op # "CancelGroup" => tx[t].rs = j.rs
  BY <1>1, ReadyCall DEF CallSound, Active
<1>3. \A ty \in RoomType : held[ty] # t
  BY <1>2 DEF AsksSound, Claims, NeedsType
<1>4. CASE CancelRead(t)
  <2>1. GoOn(t, "write", {}) /\ j.op \in {"Cancel", "CancelGroup"}
    BY <1>4 DEF CancelRead, Ready
  <2>2. /\ tx'[t].at = "write" /\ tx'[t].want = {} /\ tx'[t].job = j
        /\ UNCHANGED <<room, version, res, blocks, held, unlockedLoss>>
    BY <2>1, GoOnFields
  <2> QED BY <1>3, <2>1, <2>2, Kinds DEF AsksSound, DecisionSound, NeedsType, NeedsRoom, Claims
<1>5. CASE UpdateRead(t)
  <2>1. PICK r \in tx[t].rs : /\ res[r].status = "OPEN"
                              /\ GoOn(t, "check", IF Changed(r, j) = res[r] THEN {} ELSE {res[r].type, j.type})
    BY <1>5 DEF UpdateRead
  <2>2. j.op = "Update" /\ tx[t].rs = {r}
    BY <1>2, <1>5, <2>1 DEF UpdateRead, Ready, Complete
  <2>3. /\ tx'[t].at = "check" /\ tx'[t].job = j /\ tx'[t].rs = tx[t].rs
        /\ tx'[t].want = (IF Changed(r, j) = res[r] THEN {} ELSE {res[r].type, j.type})
        /\ UNCHANGED <<room, version, res, blocks, held, unlockedLoss>>
    BY <2>1, GoOnFields
  <2>4. Changed(r, j)' = Changed(r, j)
    BY <2>3 DEF Changed
  <2>5. \A ty \in RoomType : Claims(t, ty)' <=> NeedsType(t, ty)'
    BY <1>3, <2>2, <2>3, <2>4 DEF Claims, NeedsType
  <2>6. \A k \in Room : ~ NeedsRoom(t, k)'
    BY <2>2, <2>3 DEF NeedsRoom
  <2>7. DecisionSound(t)'
    BY <2>1, <2>2, <2>3 DEF DecisionSound
  <2> QED BY <2>3, <2>5, <2>6, <2>7 DEF AsksSound
<1>6. CASE ReinstateRead(t)
  <2>1. PICK r \in tx[t].rs : res[r].status = "CLOSED" /\ GoOn(t, "check", {res[r].type})
    BY <1>6 DEF ReinstateRead
  <2>2. j.op = "Reinstate" /\ tx[t].rs = {r}
    BY <1>2, <1>6, <2>1 DEF ReinstateRead, Ready, Complete
  <2>3. /\ tx'[t].at = "check" /\ tx'[t].job = j /\ tx'[t].rs = tx[t].rs /\ tx'[t].want = {res[r].type}
        /\ UNCHANGED <<room, version, res, blocks, held, unlockedLoss>>
    BY <2>1, GoOnFields
  <2>5. \A ty \in RoomType : Claims(t, ty)' <=> NeedsType(t, ty)'
    BY <1>3, <2>2, <2>3 DEF Claims, NeedsType
  <2>6. \A k \in Room : ~ NeedsRoom(t, k)'
    BY <2>2, <2>3 DEF NeedsRoom
  <2>7. DecisionSound(t)'
    BY <2>1, <2>2, <2>3 DEF DecisionSound
  <2> QED BY <2>3, <2>5, <2>6, <2>7 DEF AsksSound
<1> QED BY <1>4, <1>5, <1>6

LEMMA DecidingAsks ==
    ASSUME TypeOK, HotelSound, NEW t \in Tx, CallSound(t), AsksSound(t), DecisionSound(t),
           UpdateCheck(t) \/ ReinstateCheck(t), ~ Refuse(t)
    PROVE  AsksSound(t)' /\ DecisionSound(t)'
<1> DEFINE j == tx[t].job
<1>1. Ready(t, "check", {"Update", "Reinstate"})
  BY DEF UpdateCheck, ReinstateCheck, Ready
<1>2. /\ tx[t].at = "check" /\ tx[t].want = {} /\ j.op \in {"Update", "Reinstate"}
      /\ Complete(j) /\ tx[t].rs = j.rs /\ tx[t].rs \subseteq Res
  BY <1>1, ReadyCall DEF CallSound, Active
<1>3. PICK r \in tx[t].rs : \E drop : GoOnWithRoom(t, r, drop)
  BY DEF UpdateCheck, ReinstateCheck
<1>4. PICK drop : GoOnWithRoom(t, r, drop)
  BY <1>3
<1>5. tx[t].rs = {r} /\ r \in Res /\ res[r].room \in Room \union {None}
  BY <1>2, <1>3, ReservationTypes DEF Complete
<1>6. /\ tx'[t].at = "write" /\ tx'[t].want = IF drop THEN {} ELSE {res[r].room} \ {None}
      /\ tx'[t].job = j /\ tx'[t].rs = tx[t].rs /\ tx'[t].drop = drop
      /\ UNCHANGED <<room, version, res, blocks, held, unlockedLoss>>
  BY <1>4, GoOnWithRoomFields
<1>7. tx'[t].want \subseteq Room
  BY <1>5, <1>6
<1>8. \A ty \in RoomType : Claims(t, ty)' <=> Claims(t, ty)
  BY <1>2, <1>6, <1>7, Kinds DEF Claims
<1>9. \A ty \in RoomType : NeedsType(t, ty)' <=> NeedsType(t, ty)
  BY <1>2, <1>6 DEF NeedsType, Changed
<1>10. \A k \in Room : NeedsRoom(t, k)' => ~ drop /\ k = res[r].room
  BY <1>2, <1>5, <1>6 DEF NeedsRoom
<1>11. \A k \in Room : NeedsRoom(t, k)' => room'[k] # "ABSENT" /\ Claims(t, k)'
  BY <1>5, <1>6, <1>10, Kinds DEF Claims, HotelSound
<1>12. DecisionSound(t)'
  BY <1>2, <1>6 DEF DecisionSound
<1> QED BY <1>7, <1>8, <1>9, <1>11, <1>12 DEF AsksSound

LEMMA RoomChecksAsk ==
    ASSUME TypeOK, HeldExists, HotelSound, NEW t \in Tx, CallSound(t), AsksSound(t), DecisionSound(t),
           BlockCheck(t) \/ UnblockCheck(t) \/ ChangeTypeCheck(t) \/ DeleteRoomCheck(t), ~ Refuse(t)
    PROVE  AsksSound(t)' /\ DecisionSound(t)' /\ held[tx[t].job.room] = t
<1> DEFINE j == tx[t].job
<1>1. Ready(t, "first", {"Block", "Unblock", "ChangeType", "DeleteRoom"})
  BY DEF BlockCheck, UnblockCheck, ChangeTypeCheck, DeleteRoomCheck, Ready
<1>2. /\ tx[t].at = "first" /\ tx[t].want = {} /\ j.op \in {"Block", "Unblock", "ChangeType", "DeleteRoom"}
      /\ Complete(j) /\ GoOn(t, "write", {})
  BY <1>1, ReadyCall DEF CallSound, Active, BlockCheck, UnblockCheck, ChangeTypeCheck, DeleteRoomCheck
<1>3. j.room \in Room /\ NeedsRoom(t, j.room)
  BY <1>2 DEF Complete, NeedsRoom
<1>4. held[j.room] = t
  <2>1. CASE UnblockCheck(t)
    <3>1. room[j.room] \in RoomType
      BY <2>1 DEF UnblockCheck, HotelSound, NewBlock
    <3>2. room[j.room] # "DELETED"
      BY <3>1, InventoryAssumption
    <3> QED BY <1>2, <1>3, <3>2 DEF AsksSound, Claims
  <2>2. CASE ~ UnblockCheck(t)
    BY <2>2 DEF BlockCheck, ChangeTypeCheck, DeleteRoomCheck
  <2> QED BY <2>1, <2>2
<1>5. /\ tx'[t].at = "write" /\ tx'[t].want = {} /\ tx'[t].job = j /\ tx'[t].rs = tx[t].rs
      /\ tx'[t].seen = tx[t].seen /\ tx'[t].form = tx[t].form
      /\ UNCHANGED <<room, version, res, blocks, held, unlockedLoss>>
  BY <1>2, GoOnFields
<1>6. \A ty \in RoomType : Claims(t, ty)' <=> NeedsType(t, ty)'
  BY <1>2, <1>5 DEF AsksSound, Claims, NeedsType
<1>7. \A k \in Room : NeedsRoom(t, k)' => room'[k] # "ABSENT" /\ (Claims(t, k)' \/ room'[k] = "DELETED")
  BY <1>2, <1>5 DEF AsksSound, Claims, NeedsRoom
<1>8. j.op = "DeleteRoom" \/ (j.op = "ChangeType" /\ j.type # tx[t].seen) => ~ HasGuests(j.room)
  BY <1>2 DEF BlockCheck, UnblockCheck, ChangeTypeCheck, DeleteRoomCheck, Ready
<1>9. DecisionSound(t)'
  BY <1>2, <1>4, <1>5, <1>8 DEF DecisionSound, HasGuests, Active
<1> QED BY <1>4, <1>5, <1>6, <1>7, <1>9 DEF AsksSound

-----------------------------------------------------------------------------
(* What each commit touches *)

\* The database accepts a write: the hotel is the new one.
LEMMA CommitEffect ==
    ASSUME TypeOK, NEW t \in Tx, NEW rm, NEW rv, NEW bl, Commit(t, rm, rv, bl), ~ Refuse(t)
    PROVE  /\ Finish(t) /\ DbAccepts(rv, bl) /\ room' = rm /\ res' = rv /\ blocks' = bl
           /\ \A l \in Room \union Res :
                  /\ version[l] \in Nat
                  /\ l \in Written(tx[t].job, tx[t].rs) => version'[l] = version[l] + 1
                  /\ l \notin Written(tx[t].job, tx[t].rs) => version'[l] = version[l]
           /\ unlockedLoss' = (unlockedLoss \/ LosesUnlocked(t, room', res', blocks'))
<1>1. DbAccepts(rv, bl) /\ Finish(t)
  BY DEF Commit, Refuse
<1>2. /\ room' = rm /\ res' = rv /\ blocks' = bl
      /\ version' = [l \in Room \union Res |-> IF l \in Written(tx[t].job, tx[t].rs) THEN version[l] + 1 ELSE version[l]]
      /\ unlockedLoss' = (unlockedLoss \/ LosesUnlocked(t, rm, rv, bl))
  BY <1>1 DEF Commit
<1>3. unlockedLoss' = (unlockedLoss \/ LosesUnlocked(t, room', res', blocks'))
  BY <1>2
<1>4. \A l \in Room \union Res :
                  /\ version[l] \in Nat
                  /\ l \in Written(tx[t].job, tx[t].rs) => version'[l] = version[l] + 1
                  /\ l \notin Written(tx[t].job, tx[t].rs) => version'[l] = version[l]
  BY <1>2 DEF TypeOK
<1> QED BY <1>1, <1>2, <1>3, <1>4

LEMMA StayTouches ==
    ASSUME TypeOK, HotelSound, NEW t \in Tx, NEW rv, Commit(t, room, rv, blocks), ~ Refuse(t),
           \A r \in Res :
               \/ rv[r].room = None
               \/ rv[r].room = res[r].room /\ (rv[r].status = "OPEN" => rv[r] = res[r])
               \/ /\ room[rv[r].room] # "ABSENT"
                  /\ held[rv[r].room] = t \/ room[rv[r].room] = "DELETED"
    PROVE  Touches(t)
<1>1. /\ room' = room /\ res' = rv /\ blocks' = blocks
      /\ \A k \in Room : version[k] <= version'[k]
      /\ unlockedLoss' = (unlockedLoss \/ LosesUnlocked(t, room', res', blocks'))
  <2>1. \A l \in Room \union Res : version[l] \in Nat /\ version'[l] \in {version[l], version[l] + 1}
    BY CommitEffect
  <2>2. \A k \in Room : version[k] <= version'[k]
    BY <2>1
  <2> QED BY <2>2, CommitEffect
<1>2. \A r \in Res : res'[r].room \notin {None, res[r].room} => room[res'[r].room] # "ABSENT"
  BY <1>1
<1>3. \A r \in Res :
           res'[r].status = "OPEN" /\ res'[r].room # None =>
               \/ res'[r] = res[r]
               \/ held[res'[r].room] = t
               \/ room[res'[r].room] = "DELETED"
  BY <1>1
<1>4. \A b \in blocks' : room'[b.room] \in RoomType
  BY <1>1 DEF HotelSound
<1> QED BY <1>1, <1>2, <1>3, <1>4 DEF Touches

\* The room a call asked for is there, or was deleted, once it writes.
LEMMA RoomAskedFor ==
    ASSUME NEW t \in Tx, AsksSound(t), tx[t].want = {}, NEW k \in Room, NeedsRoom(t, k)
    PROVE  room[k] # "ABSENT" /\ (held[k] = t \/ room[k] = "DELETED")
BY DEF AsksSound, Claims

\* A reservation is given room k, or none; nothing else of it changes.
LEMMA RoomGiven ==
    ASSUME TypeOK, NEW r \in Res, NEW k \in Room \union {None}
    PROVE  \E v \in Reservation :
               /\ [res EXCEPT ![r].room = k] = [res EXCEPT ![r] = v]
               /\ v.room = k /\ v.status = res[r].status /\ v.type = res[r].type /\ v.nights = res[r].nights
<1> DEFINE v == [res[r] EXCEPT !.room = k]
<1>1. v \in Reservation /\ [res EXCEPT ![r].room = k] = [res EXCEPT ![r] = v]
  BY DEF TypeOK, Reservation
<1>2. v.room = k /\ v.status = res[r].status /\ v.type = res[r].type /\ v.nights = res[r].nights
  BY DEF TypeOK, Reservation
<1> QED BY <1>1, <1>2

LEMMA PlacingTouches ==
    ASSUME TypeOK, HotelSound, NEW t \in Tx, CallSound(t), AsksSound(t), ~ Refuse(t),
           CreateWrite(t) \/ AssignWrite(t) \/ UnassignWrite(t)
    PROVE  Touches(t)
<1> DEFINE j == tx[t].job
<1>1. Ready(t, "write", {"Create", "Assign", "AutoAssign", "Unassign"})
  BY DEF CreateWrite, AssignWrite, UnassignWrite, Ready
<1>2. /\ tx[t].at = "write" /\ tx[t].want = {} /\ j.op \in {"Create", "Assign", "AutoAssign", "Unassign"}
      /\ j \in Job /\ Complete(j) /\ tx[t].rs \subseteq Res
  BY <1>1, ReadyCall DEF CallSound, Active
<1>3. j.op # "Unassign" /\ j.room # None
          => room[j.room] # "ABSENT" /\ (held[j.room] = t \/ room[j.room] = "DELETED")
  <2>1. j.room # None => j.room \in Room
    BY <1>2 DEF Job
  <2>2. j.op # "Unassign" /\ j.room # None => NeedsRoom(t, j.room)
    BY <1>2 DEF NeedsRoom
  <2> QED BY <1>2, <2>1, <2>2, RoomAskedFor
<1>4. CASE CreateWrite(t)
  <2> DEFINE rv == [r \in Res |-> IF r \in tx[t].rs THEN [Opened(tx[t].rs)[r] EXCEPT !.room = j.room]
                                 ELSE Opened(tx[t].rs)[r]]
  <2>1. Commit(t, room, rv, blocks)
    BY <1>4 DEF CreateWrite
  <2>2. \A r \in Res : IF r \in tx[t].rs THEN rv[r].room = j.room ELSE rv[r] = res[r]
    BY DEF Opened
  <2>3. j.op = "Create"
    BY <1>4 DEF CreateWrite, Ready
  <2> HIDE DEF rv
  <2> QED BY <1>3, <2>1, <2>2, <2>3, StayTouches
<1>5. CASE AssignWrite(t)
  <2>1. PICK k \in Room : k = j.room
    BY <1>2, <1>5 DEF AssignWrite, Ready, Complete
  <2>2. PICK r \in tx[t].rs : Commit(t, room, [res EXCEPT ![r].room = k], blocks)
    BY <1>5, <2>1 DEF AssignWrite
  <2>6. r \in Res /\ k \in Room \union {None}
    BY <1>2
  <2>3. PICK v : [res EXCEPT ![r].room = k] = [res EXCEPT ![r] = v] /\ v.room = k
    BY <2>6, RoomGiven
  <2> DEFINE rv == [res EXCEPT ![r] = v]
  <2>4. Commit(t, room, rv, blocks) /\ \A q \in Res : rv[q] = IF q = r THEN v ELSE res[q]
    BY <2>2, <2>3 DEF TypeOK
  <2>5. j.op # "Unassign" /\ k # None
    BY <1>5, Kinds DEF AssignWrite, Ready
  <2> HIDE DEF rv
  <2> QED BY <1>3, <2>1, <2>3, <2>4, <2>5, StayTouches
<1>6. CASE UnassignWrite(t)
  <2>1. PICK r \in tx[t].rs : Commit(t, room, [res EXCEPT ![r].room = None], blocks)
    BY <1>6 DEF UnassignWrite
  <2>2. PICK v : [res EXCEPT ![r].room = None] = [res EXCEPT ![r] = v] /\ v.room = None
    BY <1>2, RoomGiven
  <2> DEFINE rv == [res EXCEPT ![r] = v]
  <2>4. Commit(t, room, rv, blocks) /\ \A q \in Res : rv[q] = IF q = r THEN v ELSE res[q]
    BY <2>1, <2>2 DEF TypeOK
  <2> HIDE DEF rv
  <2> QED BY <2>2, <2>4, StayTouches
<1> QED BY <1>4, <1>5, <1>6

LEMMA ChangingTouches ==
    ASSUME TypeOK, HotelSound, NEW t \in Tx, CallSound(t), AsksSound(t), DecisionSound(t), ~ Refuse(t),
           UpdateWrite(t) \/ CancelWrite(t) \/ ReinstateWrite(t)
    PROVE  Touches(t)
<1> DEFINE j == tx[t].job
<1>1. Ready(t, "write", {"Update", "Cancel", "CancelGroup", "Reinstate"})
  BY DEF UpdateWrite, CancelWrite, ReinstateWrite, Ready
<1>2. /\ tx[t].at = "write" /\ tx[t].want = {} /\ j.op \in {"Update", "Cancel", "CancelGroup", "Reinstate"}
      /\ j \in Job /\ Complete(j) /\ tx[t].rs \subseteq Res
  BY <1>1, ReadyCall DEF CallSound, Active
<1>3. CASE UpdateWrite(t)
  <2>1. PICK r \in tx[t].rs :
          Commit(t, room, [res EXCEPT ![r] = [Changed(r, j) EXCEPT !.room = IF tx[t].drop THEN None ELSE @]], blocks)
    BY <1>3 DEF UpdateWrite
  <2> DEFINE v == [Changed(r, j) EXCEPT !.room = IF tx[t].drop THEN None ELSE @]
             rv == [res EXCEPT ![r] = v]
  <2>2. v.room = IF tx[t].drop THEN None ELSE res[r].room
    BY <1>2 DEF Changed, TypeOK, Reservation
  <2>3. \A q \in Res : rv[q] = IF q = r THEN v ELSE res[q]
    BY DEF TypeOK
  <2>4. ~ tx[t].drop /\ res[r].room # None
          => room[res[r].room] # "ABSENT" /\ (held[res[r].room] = t \/ room[res[r].room] = "DELETED")
    <3>1. res[r].room \in Room \union {None}
      BY <1>2, ReservationTypes
    <3>2. j.op = "Update"
      BY <1>3 DEF UpdateWrite, Ready
    <3>3. ~ tx[t].drop => NeedsRoom(t, res[r].room)
      BY <1>2, <3>2 DEF NeedsRoom
    <3> QED BY <1>2, <3>1, <3>3, RoomAskedFor
  <2>5. Commit(t, room, rv, blocks)
    BY <2>1
  <2> HIDE DEF v, rv
  <2> QED BY <2>2, <2>3, <2>4, <2>5, StayTouches
<1>4. CASE CancelWrite(t)
  <2> DEFINE rv == [r \in Res |-> IF r \in tx[t].rs THEN [res[r] EXCEPT !.status = "CLOSED"] ELSE res[r]]
  <2>1. Commit(t, room, rv, blocks)
    BY <1>4 DEF CancelWrite
  <2>2. \A r \in Res : rv[r] = res[r] \/ (rv[r].room = res[r].room /\ rv[r].status = "CLOSED")
    BY DEF TypeOK, Reservation
  <2> HIDE DEF rv
  <2> QED BY <2>1, <2>2, StayTouches
<1>5. CASE ReinstateWrite(t)
  <2>1. PICK r \in tx[t].rs :
          Commit(t, room, [res EXCEPT ![r].status = "OPEN", ![r].room = IF tx[t].drop THEN None ELSE @], blocks)
    BY <1>5 DEF ReinstateWrite
  <2> DEFINE rv == [res EXCEPT ![r].status = "OPEN", ![r].room = IF tx[t].drop THEN None ELSE @]
  <2>2. \A q \in Res : IF q = r THEN rv[q].room = (IF tx[t].drop THEN None ELSE res[r].room) ELSE rv[q] = res[q]
    BY DEF TypeOK, Reservation
  <2>3. ~ tx[t].drop /\ res[r].room # None
          => room[res[r].room] # "ABSENT" /\ (held[res[r].room] = t \/ room[res[r].room] = "DELETED")
    <3>1. res[r].room \in Room \union {None}
      BY <1>2, ReservationTypes
    <3>2. j.op = "Reinstate"
      BY <1>5 DEF ReinstateWrite, Ready
    <3>3. ~ tx[t].drop => NeedsRoom(t, res[r].room)
      BY <1>2, <3>2 DEF NeedsRoom
    <3> QED BY <1>2, <3>1, <3>3, RoomAskedFor
  <2>4. Commit(t, room, rv, blocks)
    BY <2>1
  <2> HIDE DEF rv
  <2> QED BY <2>2, <2>3, <2>4, StayTouches
<1> QED BY <1>3, <1>4, <1>5

LEMMA RoomTouches ==
    ASSUME TypeOK, HeldExists, HotelSound, NEW t \in Tx, CallSound(t), AsksSound(t), DecisionSound(t), ~ Refuse(t),
           \/ BlockWrite(t) \/ UnblockWrite(t) \/ ChangeTypeWrite(t) \/ DeleteRoomWrite(t)
           \/ CreateRoomWrite(t)
    PROVE  Touches(t)
<1> DEFINE j == tx[t].job
           k == j.room
<1>1. \E step \in {"first", "write"} : Ready(t, step, {"Block", "Unblock", "ChangeType", "DeleteRoom", "CreateRoom"})
  BY DEF BlockWrite, UnblockWrite, ChangeTypeWrite, DeleteRoomWrite, CreateRoomWrite, Ready
<1>2. /\ tx[t].want = {} /\ j.op \in {"Block", "Unblock", "ChangeType", "DeleteRoom", "CreateRoom"}
      /\ j \in Job /\ Complete(j)
  BY <1>1, ReadyCall DEF CallSound, Active
<1>3. k \in Room /\ k \in Row /\ k # None /\ j.type \in RoomType /\ NewBlock(j).room = k
  BY <1>2, Kinds DEF Complete, Job, NewBlock
<1>4. held[k] = t => room[k] \in RoomType
  BY <1>3, InventoryAssumption DEF HeldExists, RowExists
<1>5. \A r \in Res : res[r].room # None => room[res[r].room] # "ABSENT"
  BY DEF HotelSound
<1>6. CASE BlockWrite(t) \/ UnblockWrite(t)
  <2>1. tx[t].at = "write" /\ j.op \in {"Block", "Unblock"}
    BY <1>6 DEF BlockWrite, UnblockWrite, Ready
  <2>2. held[k] = t
    BY <2>1 DEF DecisionSound
  <2>3. PICK bl : /\ Commit(t, room, res, bl) /\ \A b \in bl : b \in blocks \/ b = NewBlock(j)
                  /\ \A b \in blocks : b \in bl \/ b = NewBlock(j)
    BY <1>6 DEF BlockWrite, UnblockWrite
  <2>4. /\ room' = room /\ res' = res /\ blocks' = bl
        /\ \A q \in Room : version[q] \in Nat /\ version'[q] \in {version[q], version[q] + 1}
        /\ unlockedLoss' = (unlockedLoss \/ LosesUnlocked(t, room', res', blocks'))
    BY <2>3, CommitEffect
  <2>5. \A q \in Room : version[q] <= version'[q]
    BY <2>4
  <2>6. \A b \in Block : (b \in blocks') # (b \in blocks) => held[b.room] = t
    BY <1>3, <2>2, <2>3, <2>4
  <2>7. \A b \in blocks' : room'[b.room] \in RoomType
    BY <1>3, <1>4, <2>2, <2>3, <2>4 DEF HotelSound
  <2> QED BY <2>4, <2>5, <2>6, <2>7 DEF Touches
<1>7. CASE ChangeTypeWrite(t) \/ CreateRoomWrite(t)
  <2>1. /\ Commit(t, [room EXCEPT ![k] = j.type], res, blocks)
        /\ Written(j, tx[t].rs) = {k}
        /\ \/ j.op = "ChangeType" /\ tx[t].at = "write"
           \/ j.op = "CreateRoom" /\ tx[t].at = "first" /\ room[k] = "ABSENT"
    BY <1>7 DEF ChangeTypeWrite, CreateRoomWrite, Ready, Written
  <2>2. j.op = "ChangeType" => held[k] = t
    BY <2>1 DEF DecisionSound
  <2>3. held[j.type] = t
    <3>1. NeedsType(t, j.type)
      BY <2>1 DEF NeedsType
    <3> QED BY <1>2, <1>3, <3>1 DEF AsksSound, Claims
  <2>4. /\ room' = [room EXCEPT ![k] = j.type] /\ res' = res /\ blocks' = blocks
        /\ \A q \in Room : version[q] \in Nat /\ version'[q] \in {version[q], version[q] + 1}
        /\ version'[k] = version[k] + 1
        /\ unlockedLoss' = (unlockedLoss \/ LosesUnlocked(t, room', res', blocks'))
    BY <1>3, <2>1, CommitEffect
  <2>5. \A q \in Room : version[q] <= version'[q]
    BY <2>4
  <2>6. \A q \in Room : room'[q] = IF q = k THEN j.type ELSE room[q]
    BY <1>3, <2>4 DEF TypeOK
  <2>7. room'[k] # room[k] => ~ HasGuests(k)
    <3>1. CASE j.op = "CreateRoom"
      BY <1>3, <1>5, <2>1, <3>1 DEF HasGuests
    <3>2. CASE j.op = "ChangeType"
      <4>1. PICK v \in 0..version[k] :
                /\ tx[t].form = {<<k, v>>}
                /\ tx[t].at # "retry" /\ version[k] = v => room[k] = tx[t].seen
        BY <2>1, <3>2 DEF DecisionSound, Active
      <4>2. version[k] = v
        BY <2>1, <3>2, <4>1 DEF CallSound, WriteSound, Stale
      <4>3. room[k] = tx[t].seen
        BY <2>1, <3>2, <4>1, <4>2
      <4> QED BY <1>3, <2>1, <2>6, <3>2, <4>3 DEF DecisionSound
    <3> QED BY <2>1, <3>1, <3>2
  <2>8. \A q \in Room : room'[q] # room[q] =>
                  /\ held[q] = t \/ room[q] = "ABSENT"
                  /\ room'[q] # "ABSENT"
                  /\ room'[q] \in RoomType => held[room'[q]] = t
                  /\ ~ HasGuests(q)
                  /\ version[q] < version'[q]
    BY <1>3, <2>1, <2>2, <2>3, <2>4, <2>6, <2>7, Kinds
  <2>9. \A b \in blocks' : room'[b.room] \in RoomType
    <3>1. \A b \in blocks : b.room \in Room /\ room[b.room] \in RoomType
      BY DEF HotelSound, TypeOK, Block
    <3> QED BY <1>3, <2>4, <2>6, <3>1
  <2> QED BY <2>4, <2>5, <2>8, <2>9 DEF Touches
<1>8. CASE DeleteRoomWrite(t)
  <2>1. /\ Commit(t, WithoutRoom(k), res, {b \in blocks : b.room # k})
        /\ Written(j, tx[t].rs) = {k} /\ j.op = "DeleteRoom" /\ tx[t].at = "write"
    BY <1>8 DEF DeleteRoomWrite, Ready, Written
  <2>2. held[k] = t /\ ~ HasGuests(k)
    BY <2>1 DEF DecisionSound
  <2>4. /\ room' = WithoutRoom(k) /\ res' = res /\ blocks' = {b \in blocks : b.room # k}
        /\ \A q \in Room : version[q] \in Nat /\ version'[q] \in {version[q], version[q] + 1}
        /\ version'[k] = version[k] + 1
        /\ unlockedLoss' = (unlockedLoss \/ LosesUnlocked(t, room', res', blocks'))
    BY <1>3, <2>1, CommitEffect
  <2>5. \A q \in Room : version[q] <= version'[q]
    BY <2>4
  <2>6. \A q \in Room : room'[q] = IF q = k THEN "DELETED" ELSE room[q]
    BY <1>3, <2>4 DEF TypeOK, WithoutRoom
  <2>8. \A q \in Room : room'[q] # room[q] =>
                  /\ held[q] = t \/ room[q] = "ABSENT"
                  /\ room'[q] # "ABSENT"
                  /\ room'[q] \in RoomType => held[room'[q]] = t
                  /\ ~ HasGuests(q)
                  /\ version[q] < version'[q]
    BY <1>3, <2>2, <2>4, <2>6, Kinds
  <2>9. \A b \in blocks' : room'[b.room] \in RoomType
    <3>1. \A b \in blocks : b.room \in Room /\ room[b.room] \in RoomType
      BY DEF HotelSound, TypeOK, Block
    <3> QED BY <1>3, <2>4, <2>6, <3>1
  <2>10. \A b \in Block : (b \in blocks') # (b \in blocks) => held[b.room] = t
    BY <2>2, <2>4
  <2> QED BY <2>4, <2>5, <2>8, <2>9, <2>10 DEF Touches
<1> QED BY <1>6, <1>7, <1>8

\* Records and stays keep to rooms that are there.
LEMMA HotelStays ==
    ASSUME TypeOK, TypeOK', HotelSound, NEW t \in Tx, Touches(t)
    PROVE  HotelSound'
<1>1. \A b \in blocks' : room'[b.room] \in RoomType
  BY DEF Touches
<1>2. ASSUME NEW r \in Res, res'[r].room # None PROVE room'[res'[r].room] # "ABSENT"
  <2>1. res'[r].room \in Room
    BY <1>2 DEF TypeOK, Reservation
  <2>2. room[res'[r].room] # "ABSENT"
    BY <1>2 DEF Touches, HotelSound
  <2> QED BY <2>1, <2>2 DEF Touches
<1> QED BY <1>1, <1>2 DEF HotelSound

\* A step leaves the hotel as it is, or commits what the call may touch.
LEMMA MoveShape ==
    ASSUME IInv, SInv, NEW t \in Tx, Begin(t) \/ Step(t)
    PROVE  Quiet \/ (Writes(t) /\ Touches(t))
<1>1. TypeOK /\ HeldExists /\ CallSound(t) /\ HotelSound /\ AsksSound(t) /\ DecisionSound(t)
  BY DEF IInv, SInv
<1>2. CASE Begin(t)
  BY <1>1, <1>2, BeginSound
<1>3. CASE Refuse(t)
  BY <1>3 DEF Refuse, Quiet
<1>4. CASE /\ ~ Refuse(t)
           /\ \/ CreateWrite(t) \/ AssignWrite(t) \/ UnassignWrite(t)
              \/ UpdateWrite(t) \/ CancelWrite(t) \/ ReinstateWrite(t)
  BY <1>1, <1>4, ReservationWrites, PlacingTouches, ChangingTouches
<1>5. CASE /\ ~ Refuse(t)
           /\ \/ BlockWrite(t) \/ UnblockWrite(t) \/ ChangeTypeWrite(t) \/ DeleteRoomWrite(t)
              \/ CreateRoomWrite(t)
  BY <1>1, <1>5, RoomWrites, RoomTouches
<1>6. CASE \/ LockRow(t) \/ DeadlockAbort(t) \/ CreateCheck(t) \/ PlaceCheck(t)
           \/ AssignRead(t) \/ UnassignRead(t)
           \/ UpdateRead(t) \/ UpdateCheck(t) \/ CancelRead(t) \/ ReinstateRead(t) \/ ReinstateCheck(t)
           \/ BlockCheck(t) \/ UnblockCheck(t) \/ ChangeTypeCheck(t) \/ DeleteRoomCheck(t)
  BY <1>1, <1>6, LockSound, DeadlockSound, CreateSound, PlaceSound, PlacingSound, ChangingSound,
     DecidingSound, RoomChecksSound DEF StepSound
<1> QED BY <1>2, <1>3, <1>4, <1>5, <1>6 DEF Step

LEMMA MoveRespects ==
    ASSUME IInv, SInv, NEW t \in Tx, Begin(t) \/ Step(t), NEW u \in Tx, u # t
    PROVE  Respects(u)
<1>1. TypeOK
  BY DEF IInv
<1>2. tx'[u] = tx[u] /\ \A l \in Row : held'[l] = u <=> held[l] = u
  BY <1>1, OneCallMoves
<1> QED BY <1>1, <1>2, MoveShape, QuietRespects, CommitRespects

\* The call that moves.
LEMMA MoverAsks ==
    ASSUME IInv, SInv, NEW t \in Tx, Begin(t) \/ Step(t)
    PROVE  AsksSound(t)' /\ DecisionSound(t)'
<1>1. TypeOK /\ HeldExists /\ CallSound(t) /\ HotelSound /\ AsksSound(t) /\ DecisionSound(t)
  BY DEF IInv, SInv
<1>2. CASE Finish(t)
  BY <1>1, <1>2, EndAsks
<1>3. CASE Begin(t)
  BY <1>1, <1>3, BeginAsks
<1>4. CASE LockRow(t)
  BY <1>1, <1>4, LockAsks
<1>5. CASE DeadlockAbort(t)
  BY <1>1, <1>5, DeadlockAsks
<1>6. ASSUME ~ Finish(t) PROVE ~ Refuse(t) /\ \A rm, rv, bl : ~ Commit(t, rm, rv, bl)
  BY <1>6 DEF Refuse, Commit
<1>7. CASE /\ ~ Finish(t)
           /\ \/ CreateCheck(t) \/ PlaceCheck(t) \/ AssignRead(t) \/ UnassignRead(t)
              \/ UpdateRead(t) \/ UpdateCheck(t) \/ CancelRead(t) \/ ReinstateRead(t) \/ ReinstateCheck(t)
              \/ BlockCheck(t) \/ UnblockCheck(t) \/ ChangeTypeCheck(t) \/ DeleteRoomCheck(t)
  BY <1>1, <1>6, <1>7, CreateAsks, PlaceAsks, PlacingAsks, ChangingAsks, DecidingAsks, RoomChecksAsk
<1>8. ASSUME \/ CreateWrite(t) \/ AssignWrite(t) \/ UnassignWrite(t) \/ UpdateWrite(t) \/ CancelWrite(t)
             \/ ReinstateWrite(t) \/ BlockWrite(t) \/ UnblockWrite(t) \/ ChangeTypeWrite(t)
             \/ DeleteRoomWrite(t) \/ CreateRoomWrite(t)
      PROVE  Finish(t)
  BY <1>6, <1>8 DEF CreateWrite, AssignWrite, UnassignWrite, UpdateWrite, CancelWrite, ReinstateWrite,
     BlockWrite, UnblockWrite, ChangeTypeWrite, DeleteRoomWrite, CreateRoomWrite
<1> QED BY <1>2, <1>3, <1>4, <1>5, <1>7, <1>8 DEF Step

LEMMA SInvStep ==
    ASSUME IInv, IInv', SInv, [Next]_vars
    PROVE  SInv'
<1>1. ASSUME NEW t \in Tx, Begin(t) \/ Step(t) PROVE SInv'
  <2>1. TypeOK /\ TypeOK' /\ HotelSound
    BY DEF IInv, SInv
  <2>2. HotelSound'
    <3>1. CASE Quiet
      BY <2>1, <3>1 DEF Quiet, HotelSound
    <3>2. CASE Touches(t)
      BY <2>1, <3>2, HotelStays
    <3> QED BY <1>1, <3>1, <3>2, MoveShape
  <2>3. AsksSound(t)' /\ DecisionSound(t)'
    BY <1>1, MoverAsks
  <2>4. ASSUME NEW u \in Tx, u # t PROVE AsksSound(u)' /\ DecisionSound(u)'
    <3>1. Respects(u)
      BY <1>1, <2>4, MoveRespects
    <3>2. CallSound(u) /\ AsksSound(u) /\ DecisionSound(u)
      BY DEF IInv, SInv
    <3> QED BY <2>1, <3>1, <3>2, OthersAsk
  <2> QED BY <2>2, <2>3, <2>4 DEF SInv
<1>2. CASE UNCHANGED vars
  <2>1. UNCHANGED <<room, version, res, blocks, held, tx>>
    BY <1>2 DEF vars
  <2>2. HotelSound'
    BY <2>1 DEF SInv, HotelSound
  <2>3. ASSUME NEW t \in Tx PROVE AsksSound(t)' /\ DecisionSound(t)'
    <3>1. /\ \A ty \in RoomType : NeedsType(t, ty)' <=> NeedsType(t, ty)
          /\ \A k \in Room : NeedsRoom(t, k)' <=> NeedsRoom(t, k)
          /\ \A l : Claims(t, l)' <=> Claims(t, l)
      BY <2>1 DEF NeedsType, NeedsRoom, Claims, Changed
    <3>2. AsksSound(t) /\ DecisionSound(t)
      BY DEF SInv
    <3>3. AsksSound(t)'
      BY <2>1, <3>1, <3>2 DEF AsksSound
    <3>4. DecisionSound(t)'
      BY <2>1, <3>2 DEF DecisionSound, HasGuests
    <3> QED BY <3>3, <3>4
  <2> QED BY <2>2, <2>3 DEF SInv
<1> QED BY <1>1, <1>2 DEF Next, AllDone

LEMMA SInvInit ==
    ASSUME Init
    PROVE  SInv
<1>1. PICK h \in Hotels : room = h.room /\ res = h.res /\ blocks = h.blocks
  BY DEF Init
<1>2. HotelSound
  BY <1>1, HotelsAssumption DEF HotelSound
<1>3. ASSUME NEW t \in Tx PROVE AsksSound(t) /\ DecisionSound(t)
  <2>1. tx[t].at = "idle" /\ tx[t].want = {} /\ \A l \in Row : held[l] # t
    BY InventoryAssumption DEF Init, NoCall
  <2> QED BY <2>1 DEF AsksSound, DecisionSound, NeedsType, NeedsRoom, Claims, Active, Row
<1> QED BY <1>2, <1>3 DEF SInv

-----------------------------------------------------------------------------
(* What was left for a call is left for it *)

LEMMA OthersMargin ==
    ASSUME TypeOK, TypeOK', NEW u \in Tx, CallSound(u), AsksSound(u), DecisionSound(u), Margin(u),
           Respects(u), ~ unlockedLoss'
    PROVE  Margin(u)'
<1> DEFINE j == tx[u].job
<1>1. tx'[u] = tx[u]
  BY DEF Respects
<1>2. CASE tx[u].at \notin {"place", "write"}
  BY <1>1, <1>2 DEF Margin, CreateMargin, AssignMargin, UpdateMargin, ReinstateMargin, BlockMargin, WithdrawMargin
<1>3. CASE tx[u].at \in {"place", "write"}
  <2>1. tx[u].rs \subseteq Res /\ j \in Job /\ Complete(j)
    BY <1>3, JobFacts DEF TypeOK, Call, CallSound, JobSound, Active
  <2>2. ASSUME NEW ty \in RoomType, held[ty] = u, NEW n \in Nights, NEW m \in Int, Left(ty, n) >= m
        PROVE  Left(ty, n)' >= m
    BY <2>2, LeftIsInt DEF Respects
  <2>3. \A ty \in RoomType : tx[u].at = "write" /\ NeedsType(u, ty) => held[ty] = u
    BY Kinds DEF AsksSound, Claims
  <2>4. ASSUME NEW ty \in RoomType, held[ty] = u, NEW k \in Room, room'[k] = ty PROVE room[k] = ty
    BY <2>4 DEF Respects
  <2>5. j.room \in Room /\ StillSeen(u)' /\ held[tx[u].seen] = u => StillSeen(u)
    BY <1>1, <2>4 DEF StillSeen
  <2>6. StillSeen(u)' => tx[u].seen \in RoomType
    BY <1>1 DEF StillSeen
  <2>7. j.op \in {"Assign", "AutoAssign", "Update", "Reinstate"} => \A r \in tx[u].rs : res'[r] = res[r]
    <3>1. j.op \in {"Assign", "AutoAssign", "Update", "Reinstate"} => Written(j, tx[u].rs) = tx[u].rs
      BY DEF Written
    <3> QED BY <1>3, <2>1, <3>1 DEF CallSound, WriteSound, Respects
  <2>8. ASSUME NEW r \in tx[u].rs, j.op \in {"Assign", "AutoAssign", "Update"}, res[r].room # None
        PROVE  room'[res[r].room] = room[res[r].room]
    <3>1. res[r].status = "OPEN" /\ res[r].room \in Room
      BY <1>3, <2>1, <2>8 DEF DecisionSound, TypeOK, Reservation
    <3>2. HasGuests(res[r].room)
      BY <2>1, <3>1 DEF HasGuests
    <3> QED BY <3>1, <3>2 DEF Respects
  <2>9. \A r \in Res : res[r].nights \subseteq Nights /\ res[r].type \in RoomType /\ res[r].room \in Room \union {None}
    BY DEF TypeOK, Reservation
  <2>10. j.nights \subseteq Nights /\ j.type \in RoomType
    BY <2>1 DEF Job
  <2>11. CASE j.op = "Create"
    <3>1. \A ty \in RoomType, n \in Nights : Asked(u, ty, n)' = Asked(u, ty, n)
      BY <1>1 DEF Asked
    <3>2. \A ty \in RoomType, n \in Nights : Cardinality(Asked(u, ty, n)) \in Int
      <4>1. \A ty \in RoomType, n \in Nights : Asked(u, ty, n) \subseteq Res
        BY <2>1 DEF Asked
      <4> QED BY <4>1, FS_Subset, FS_CardinalityType, InventoryAssumption
    <3>3. \A ty \in RoomType, n \in Nights : Asked(u, ty, n) # {} => held[ty] = u
      BY <1>3, <2>11 DEF Asked, CallSound, WriteSound
    <3>4. CreateMargin(u)
      BY <2>11 DEF Margin
    <3>5. ~ j.allowOverbooking =>
               \A ty \in RoomType, n \in Nights :
                   Asked(u, ty, n)' # {} => Left(ty, n)' >= Cardinality(Asked(u, ty, n)')
      BY <1>3, <2>2, <3>1, <3>2, <3>3, <3>4 DEF CreateMargin
    <3>6. ASSUME tx[u].at = "write", j.room # None, StillSeen(u)', NEW r \in tx[u].rs,
                 tx[u].seen # Req[r].type, NEW n \in Req[r].nights
          PROVE  Left(tx[u].seen, n)' >= 1
      <4>1. j.room \in Room /\ n \in Nights /\ tx[u].seen \in RoomType
        BY <2>1, <2>6, <3>6, InventoryAssumption DEF Job
      <4>2. held[tx[u].seen] = u
        BY <2>3, <2>11, <3>6, <4>1 DEF NeedsType
      <4>3. Left(tx[u].seen, n) >= 1
        BY <2>5, <3>4, <3>6, <4>1, <4>2 DEF CreateMargin
      <4> QED BY <1>1, <2>2, <4>1, <4>2, <4>3
    <3>7. CreateMargin(u)'
      BY <1>1, <3>5, <3>6 DEF CreateMargin
    <3> QED BY <1>1, <2>11, <3>7 DEF Margin
  <2>12. CASE j.op \in {"Assign", "AutoAssign"}
    <3>1. ASSUME tx[u].at = "write", StillSeen(u)', NEW r \in tx[u].rs, NEW n \in res[r].nights
          PROVE  Left(tx[u].seen, n)' >= 1 \/ Takes(res[r], tx[u].seen)'
      <4>1. j.room \in Room /\ n \in Nights /\ tx[u].seen \in RoomType
        BY <2>1, <2>6, <2>9, <2>12, <3>1 DEF Complete
      <4>2. held[tx[u].seen] = u
        <5>1. j.room # None
          BY <4>1, Kinds
        <5> QED BY <2>3, <2>12, <3>1, <4>1, <5>1 DEF NeedsType
      <4>3. Left(tx[u].seen, n) >= 1 \/ Takes(res[r], tx[u].seen)
        BY <2>5, <2>12, <3>1, <4>1, <4>2 DEF AssignMargin, Margin
      <4>4. Takes(res[r], tx[u].seen) => Takes(res[r], tx[u].seen)'
        BY <1>1, <2>7, <2>8, <2>12 DEF Takes
      <4> QED BY <1>1, <2>2, <4>1, <4>2, <4>3, <4>4
    <3>2. AssignMargin(u)'
      BY <1>1, <2>7, <2>12, <3>1 DEF AssignMargin
    <3> QED BY <1>1, <2>12, <3>2 DEF Margin
  <2>13. CASE j.op = "Update"
    <3>1. SUFFICES ASSUME tx[u].at = "write", ~ j.allowOverbooking, NEW r \in tx[u].rs, Changed(r, j) # res[r]
                   PROVE  IF res[r].room # None /\ ~ tx[u].drop
                          THEN \A n \in j.nights \ res[r].nights :
                                   room'[res[r].room] \in {res[r].type, j.type} => Left(room[res[r].room], n)' >= 1
                          ELSE \A n \in j.nights : Left(j.type, n)' >= 1 \/ (n \in res[r].nights /\ Takes(res[r], j.type)')
      <4>1. \A r \in tx[u].rs : Changed(r, j)' = Changed(r, j)
        BY <1>1, <2>7, <2>13 DEF Changed
      <4>2. UpdateMargin(u)'
        BY <1>1, <2>7, <2>8, <2>13, <3>1, <4>1 DEF UpdateMargin
      <4> QED BY <1>1, <2>13, <4>2 DEF Margin
    <3>2. held[res[r].type] = u /\ held[j.type] = u /\ r \in Res
      BY <2>1, <2>3, <2>9, <2>10, <2>13, <3>1 DEF NeedsType
    <3>3. IF res[r].room # None /\ ~ tx[u].drop
          THEN \A n \in j.nights \ res[r].nights :
                   room[res[r].room] \in {res[r].type, j.type} => Left(room[res[r].room], n) >= 1
          ELSE \A n \in j.nights : Left(j.type, n) >= 1 \/ (n \in res[r].nights /\ Takes(res[r], j.type))
      BY <2>13, <3>1 DEF Margin, UpdateMargin
    <3>4. CASE res[r].room # None /\ ~ tx[u].drop
      <4>1. room'[res[r].room] = room[res[r].room]
        BY <2>8, <2>13, <3>4
      <4>2. ASSUME NEW n \in j.nights \ res[r].nights, room'[res[r].room] \in {res[r].type, j.type}
            PROVE  Left(room[res[r].room], n)' >= 1
        <5>1. Left(room[res[r].room], n) >= 1
          BY <3>3, <3>4, <4>1, <4>2
        <5>2. PICK ty \in RoomType : ty = room[res[r].room] /\ held[ty] = u
          BY <2>9, <2>10, <3>2, <4>1, <4>2
        <5>3. Left(ty, n)' >= 1
          BY <2>2, <2>10, <4>2, <5>1, <5>2
        <5> QED BY <2>7, <2>13, <4>1, <5>2, <5>3
      <4> QED BY <3>4, <4>2
    <3>5. CASE ~ (res[r].room # None /\ ~ tx[u].drop)
      <4>1. Takes(res[r], j.type) => Takes(res[r], j.type)'
        BY <1>1, <2>7, <2>8, <2>13 DEF Takes
      <4> QED BY <1>1, <2>2, <2>10, <3>2, <3>3, <3>5, <4>1
    <3> QED BY <3>4, <3>5
  <2>14. CASE j.op = "Reinstate"
    <3>1. ASSUME tx[u].at = "write", NEW r \in tx[u].rs, tx[u].drop \/ Takes(res[r], res[r].type)', NEW n \in res[r].nights
          PROVE  Left(res[r].type, n)' >= 1
      <4>1. held[res[r].type] = u /\ r \in Res /\ n \in Nights
        BY <2>1, <2>3, <2>9, <2>14, <3>1 DEF NeedsType
      <4>2. tx[u].drop \/ Takes(res[r], res[r].type)
        BY <2>4, <2>7, <2>9, <2>14, <3>1, <4>1 DEF Takes
      <4>3. Left(res[r].type, n) >= 1
        BY <2>14, <3>1, <4>2 DEF Margin, ReinstateMargin
      <4> QED BY <2>2, <2>7, <2>9, <2>14, <4>1, <4>3
    <3>2. ReinstateMargin(u)'
      BY <1>1, <2>7, <2>14, <3>1 DEF ReinstateMargin
    <3> QED BY <1>1, <2>14, <3>2 DEF Margin
  <2>15. CASE j.op \in {"Block", "ChangeType", "DeleteRoom"}
    <3>1. CASE tx[u].at = "place"
      BY <1>1, <2>15, <3>1 DEF Margin, BlockMargin, WithdrawMargin
    <3>2. CASE tx[u].at = "write"
      <4>1. held[j.room] = u /\ j.room \in Room
        BY <2>1, <2>15, <3>2 DEF DecisionSound, Complete
      <4>2. \A n : Useless(j.room, n) => Useless(j.room, n)'
        <5>1. \A b \in blocks : b.room = j.room => b \in blocks'
          BY <4>1 DEF Respects, TypeOK
        <5> QED BY <1>1, <5>1 DEF Useless, OutOfOrder
      <4>3. ASSUME StillSeen(u)', j.op = "Block" => j.kind = "OUT_OF_ORDER", NEW n \in Nights,
                   Left(tx[u].seen, n) >= 1 \/ Useless(j.room, n)
            PROVE  Left(tx[u].seen, n)' >= 1 \/ Useless(j.room, n)'
        <5>1. held[tx[u].seen] = u /\ tx[u].seen \in RoomType
          BY <2>3, <2>6, <2>15, <3>2, <4>3 DEF NeedsType
        <5> QED BY <1>1, <2>2, <4>2, <4>3, <5>1
      <4>4. StillSeen(u)' /\ (j.op = "Block" => j.kind = "OUT_OF_ORDER") => StillSeen(u)
        <5>1. StillSeen(u)' /\ (j.op = "Block" => j.kind = "OUT_OF_ORDER") => held[tx[u].seen] = u
          BY <2>3, <2>6, <2>15, <3>2 DEF NeedsType
        <5> QED BY <2>5, <4>1, <5>1
      <4>5. CASE j.op = "Block"
        <5>1. BlockMargin(u)'
          BY <1>1, <2>10, <3>2, <4>3, <4>4, <4>5 DEF BlockMargin, Margin
        <5> QED BY <1>1, <4>5, <5>1 DEF Margin
      <4>6. CASE j.op # "Block"
        <5>1. WithdrawMargin(u)'
          BY <1>1, <2>15, <3>2, <4>3, <4>4, <4>6 DEF WithdrawMargin, Margin
        <5> QED BY <1>1, <2>15, <4>6, <5>1 DEF Margin
      <4> QED BY <4>5, <4>6
    <3> QED BY <1>3, <3>1, <3>2
  <2>16. CASE j.op \notin {"Create", "Assign", "AutoAssign", "Update", "Reinstate", "Block", "ChangeType", "DeleteRoom"}
    BY <1>1, <2>16 DEF Margin
  <2> QED BY <2>11, <2>12, <2>13, <2>14, <2>15, <2>16
<1> QED BY <1>2, <1>3

-----------------------------------------------------------------------------
(* What a check leaves for the call *)

\* A stay that would take one more passes the check: there is one.
LEMMA MustBeLeft ==
    ASSUME NEW r \in Res, NEW rv \in [Res -> Reservation], NEW v \in Reservation,
           NEW types, NEW nights, NEW ty \in RoomType, ty \in types, NEW n \in nights,
           ~ NewOverbooking(types, nights, rv, room, [rv EXCEPT ![r] = v], blocks),
           Alone([rv EXCEPT ![r] = v], r, n), Use(v, ty, n) = 1, Use(rv[r], ty, n) = 0
    PROVE  Free(ty, n, room, rv, blocks) >= 1
<1> DEFINE rv2 == [rv EXCEPT ![r] = v]
<1>1. rv2 \in [Res -> Reservation] /\ rv2[r] = v /\ rv[r] \in Reservation /\ rv = [rv2 EXCEPT ![r] = rv[r]]
  OBVIOUS
<1>2. /\ ~ NewOverbooking(types, nights, rv, room, rv2, blocks) /\ Alone(rv2, r, n)
  OBVIOUS
<1> HIDE DEF rv2
<1>3. PICK w \in Reservation : w = rv[r] /\ [rv2 EXCEPT ![r] = w] = rv
  BY <1>1
<1>4. Free(ty, n, room, rv2, blocks) + Use(rv2[r], ty, n)
          <= Free(ty, n, room, [rv2 EXCEPT ![r] = w], blocks) + Use(w, ty, n)
  BY <1>1, <1>2, StayChange
<1>5. Free(ty, n, room, rv2, blocks) \in Int /\ Free(ty, n, room, rv, blocks) \in Int
  BY FreeIs
<1>6. Free(ty, n, room, rv2, blocks) + 1 <= Free(ty, n, room, rv, blocks)
  <2>1. Use(rv2[r], ty, n) = 1 /\ Use(w, ty, n) = 0
    BY <1>1, <1>3
  <2>2. Free(ty, n, room, rv2, blocks) + 1 <= Free(ty, n, room, rv, blocks) + 0
    BY <1>3, <1>4, <2>1
  <2> QED BY <1>5, <2>2
<1>7. ~ (Free(ty, n, room, rv2, blocks) < 0)
  BY <1>2, <1>5, <1>6 DEF NewOverbooking
<1> QED BY <1>5, <1>6, <1>7

\* A room that suits a stay has nobody else in it, and no repair.
LEMMA UsableIsEmpty ==
    ASSUME TypeOK, NEW r \in Res, NEW rv \in [Res -> Reservation], NEW v \in Reservation, NEW w \in Reservation,
           NEW k \in Room, NEW fits, RoomUsable(r, w, k, room[k], fits, rv),
           v.room = k, v.nights = w.nights, NEW n \in w.nights
    PROVE  Alone([rv EXCEPT ![r] = v], r, n)
<1> DEFINE rv2 == [rv EXCEPT ![r] = v]
<1>1. rv2[r] = v /\ \A q \in Res \ {r} : rv2[q] = rv[q]
  OBVIOUS
<1>2. \A b \in blocks : b.room = k => n \notin b.nights
  BY DEF RoomUsable
<1>3. \A q \in Res \ {r} : rv[q].status = "OPEN" /\ rv[q].room = k => n \notin rv[q].nights
  BY DEF RoomUsable
<1> HIDE DEF rv2
<1>4. Alone(rv2, r, n)
  BY <1>1, <1>2, <1>3 DEF Alone, Occupies, OutOfOrder
<1> QED BY <1>4 DEF rv2

\* The stays of a night that are one and the same in the base and in the change.
LEMMA AloneByDb ==
    ASSUME RoomsKeptApart, TypeOK, NEW r \in Res, NEW n \in Nights
    PROVE  Alone(res, r, n)
<1>1. SUFFICES ASSUME res[r].room # None, Occupies(res[r], res[r].room, n)
               PROVE  /\ \A q \in Res \ {r} : ~ Occupies(res[q], res[r].room, n)
                      /\ \A b \in blocks : ~ OutOfOrder(b, res[r].room, n)
  BY DEF Alone
<1>2. res[r].room \in Room
  BY <1>1 DEF TypeOK, Reservation
<1>3. \A q \in Res \ {r} : ~ Occupies(res[q], res[r].room, n)
  BY <1>1, <1>2 DEF RoomsKeptApart, DbAccepts
<1>4. \A b \in blocks : ~ OutOfOrder(b, res[r].room, n)
  BY <1>1 DEF RoomsKeptApart, DbAccepts, OutOfOrder
<1> QED BY <1>3, <1>4

\* Opening reservations takes one of the type for each.
LEMMA OpenedCount ==
    ASSUME TypeOK, NEW t \in Tx, tx[t].rs \subseteq Res, \A r \in tx[t].rs : res[r].status = "NONE",
           NEW ty \in RoomType, NEW n \in Nights
    PROVE  /\ Cardinality(Asked(t, ty, n)) \in Nat /\ (Asked(t, ty, n) # {} => Cardinality(Asked(t, ty, n)) >= 1)
           /\ Left(ty, n) \in Int
           /\ Free(ty, n, room, Opened(tx[t].rs), blocks) = Left(ty, n) - Cardinality(Asked(t, ty, n))
<1> DEFINE rv == Opened(tx[t].rs)
           A == Asked(t, ty, n)
           B == StaysWaiting(ty, n, res)
           C == StaysWaiting(ty, n, rv)
<1>1. IsFiniteSet(A) /\ Cardinality(A) \in Nat /\ (A # {} => Cardinality(A) >= 1)
  <2>1. IsFiniteSet(A)
    <3>1. A \subseteq Res
      BY DEF Asked
    <3> QED BY <3>1, FS_Subset, InventoryAssumption
  <2>2. Cardinality(A) \in Nat /\ (Cardinality(A) = 0 <=> A = {})
    BY <2>1, FS_CardinalityType, FS_EmptySet
  <2> QED BY <2>1, <2>2
<1>2. \A r \in Res : IF r \in tx[t].rs
                     THEN /\ rv[r].status = "OPEN" /\ rv[r].type = Req[r].type
                          /\ rv[r].room = None /\ rv[r].nights = Req[r].nights
                     ELSE rv[r] = res[r]
  BY DEF Opened
<1>3. RoomsFree(ty, n, room, rv, blocks) = RoomsFree(ty, n, room, res, blocks)
  <2>1. \A r \in Res, k \in Room : Occupies(rv[r], k, n) <=> Occupies(res[r], k, n)
    BY <1>2, Kinds DEF Occupies
  <2> HIDE DEF rv
  <2> QED BY <2>1 DEF RoomsFree
<1>4. C = A \union B /\ A \intersect B = {}
  <2>1. \A r \in Res : r \in C <=> r \in A \/ r \in B
    BY <1>2 DEF StaysWaiting, Asked
  <2>2. \A r \in A : r \in Res /\ r \notin B
    BY DEF StaysWaiting, Asked
  <2>3. A \subseteq Res /\ B \subseteq Res /\ C \subseteq Res
    BY DEF StaysWaiting, Asked
  <2> HIDE DEF A, B, C
  <2> QED BY <2>1, <2>2, <2>3
<1>5. /\ IsFiniteSet(B) /\ Cardinality(B) \in Nat /\ Cardinality(RoomsFree(ty, n, room, res, blocks)) \in Nat
      /\ Left(ty, n) = Cardinality(RoomsFree(ty, n, room, res, blocks)) - Cardinality(B)
      /\ Free(ty, n, room, rv, blocks) = Cardinality(RoomsFree(ty, n, room, rv, blocks)) - Cardinality(C)
  BY FreeIs DEF Left
<1> HIDE DEF A, B, C, rv
<1>6. Cardinality(C) = Cardinality(A) + Cardinality(B)
  <2>1. Cardinality(A \union B) = Cardinality(A) + Cardinality(B) - Cardinality(A \intersect B)
    BY <1>1, <1>5, FS_Union
  <2>2. Cardinality(A \intersect B) = 0
    BY <1>4, FS_EmptySet
  <2> QED BY <1>1, <1>4, <1>5, <2>1, <2>2
<1>7. Free(ty, n, room, rv, blocks) = Left(ty, n) - Cardinality(A)
  BY <1>1, <1>3, <1>5, <1>6
<1>8. Left(ty, n) \in Int
  BY <1>5
<1> QED BY <1>1, <1>7, <1>8 DEF A, rv

LEMMA CreateMargins ==
    ASSUME TypeOK, NEW t \in Tx, CallSound(t), CreateCheck(t), ~ Refuse(t)
    PROVE  Margin(t)'
<1> DEFINE j == tx[t].job
           types == {Req[r].type : r \in tx[t].rs}
           nights == UNION {Req[r].nights : r \in tx[t].rs}
<1>1. Ready(t, "first", {"Create"})
  BY DEF CreateCheck
<1>2. j.op = "Create" /\ tx[t].rs \subseteq Res
  BY <1>1, ReadyCall DEF CallSound, Active
<1>3. /\ \A r \in tx[t].rs : res[r].status = "NONE"
      /\ j.allowOverbooking \/ ~ NewOverbooking(types, nights, res, room, Opened(tx[t].rs), blocks)
      /\ \/ j.room = None /\ GoOn(t, "write", {})
         \/ j.room # None /\ ReadRoomThenLock(t, j.room, {})
  BY DEF CreateCheck
<1>4. /\ tx'[t].job = j /\ tx'[t].rs = tx[t].rs /\ (j.room # None => tx'[t].at = "place")
      /\ UNCHANGED <<room, res, blocks>>
  <2>1. CASE j.room = None /\ GoOn(t, "write", {})
    BY <2>1, GoOnFields
  <2>2. CASE j.room # None /\ ReadRoomThenLock(t, j.room, {})
    BY <2>2, ReadRoomFields
  <2> QED BY <1>3, <2>1, <2>2
<1>5. ASSUME ~ j.allowOverbooking, NEW ty \in RoomType, NEW n \in Nights, Asked(t, ty, n) # {}
      PROVE  Left(ty, n) >= Cardinality(Asked(t, ty, n))
  <2>1. ty \in types /\ n \in nights
    BY <1>5 DEF Asked
  <2>2. ~ (/\ Free(ty, n, room, Opened(tx[t].rs), blocks) < 0
           /\ Free(ty, n, room, Opened(tx[t].rs), blocks) < Left(ty, n))
    BY <1>3, <1>5, <2>1 DEF NewOverbooking, Left
  <2>3. /\ Cardinality(Asked(t, ty, n)) \in Nat /\ Cardinality(Asked(t, ty, n)) >= 1 /\ Left(ty, n) \in Int
        /\ Free(ty, n, room, Opened(tx[t].rs), blocks) = Left(ty, n) - Cardinality(Asked(t, ty, n))
    BY <1>2, <1>3, <1>5, OpenedCount
  <2> QED BY <2>2, <2>3
<1>6. \A ty \in RoomType, n \in Nights : Asked(t, ty, n)' = Asked(t, ty, n) /\ Left(ty, n)' = Left(ty, n)
  BY <1>4 DEF Asked, Left
<1>7. CreateMargin(t)'
  BY <1>4, <1>5, <1>6 DEF CreateMargin
<1> QED BY <1>2, <1>4, <1>7 DEF Margin

\* A stay is given a room of a type it does not take yet: one was left.
LEMMA RoomTaken ==
    ASSUME TypeOK, NEW r \in Res, NEW rv \in [Res -> Reservation], rv[r].status = "OPEN",
           NEW k \in Room, room[k] \in RoomType, NEW fits, RoomUsable(r, rv[r], k, room[k], fits, rv),
           InSnapshot(r, room[k], rv[r].nights) => res[r] = rv[r],
           NEW n \in rv[r].nights, ~ Takes(rv[r], room[k])
    PROVE  Free(room[k], n, room, rv, blocks) >= 1
<1> DEFINE v == [rv[r] EXCEPT !.room = k]
<1>1. v \in Reservation /\ v.room = k /\ v.status = "OPEN" /\ v.nights = rv[r].nights
  BY DEF Reservation
<1>2. ~ NewOverbooking({room[k]}, rv[r].nights, rv, room, [rv EXCEPT ![r] = v], blocks)
  BY DEF RoomUsable
<1> HIDE DEF v
<1>3. Use(v, room[k], n) = 1
  BY <1>1, Kinds DEF Use, Takes
<1>4. Use(rv[r], room[k], n) = 0
  BY DEF Use
<1>5. Alone([rv EXCEPT ![r] = v], r, n)
  BY <1>1, UsableIsEmpty
<1> QED BY <1>1, <1>2, <1>3, <1>4, <1>5, MustBeLeft

LEMMA PlaceMargins ==
    ASSUME TypeOK, NEW t \in Tx, CallSound(t), DecisionSound(t), Margin(t), PlaceCheck(t), ~ Refuse(t)
    PROVE  Margin(t)'
<1> DEFINE j == tx[t].job
<1>1. Ready(t, "place", {"Create", "Assign", "AutoAssign"}) /\ GoOn(t, "write", {})
  BY DEF PlaceCheck
<1>2. /\ tx[t].at = "place" /\ j.op \in {"Create", "Assign", "AutoAssign"} /\ j \in Job /\ Complete(j)
      /\ tx[t].rs = j.rs /\ tx[t].rs \subseteq Res
  BY <1>1, ReadyCall DEF CallSound, Active
<1>3. /\ tx'[t].at = "write" /\ tx'[t].job = j /\ tx'[t].rs = tx[t].rs /\ tx'[t].seen = tx[t].seen
      /\ UNCHANGED <<room, version, res, blocks, held, unlockedLoss>>
  BY <1>1, GoOnFields
<1>4. /\ \A ty, n : Left(ty, n)' = Left(ty, n)
      /\ StillSeen(t)' <=> StillSeen(t)
  BY <1>3 DEF Left, StillSeen
<1> DEFINE rv == IF j.op = "Create" THEN Opened(tx[t].rs) ELSE res
<1>5. PICK r \in tx[t].rs : RoomUsable(r, rv[r], j.room, tx[t].seen, j.fitsCapacity, rv)
  BY DEF PlaceCheck
<1>6. rv \in [Res -> Reservation]
  BY OpenedTypes DEF TypeOK
<1>7. \A q \in tx[t].rs : rv[q].status = "OPEN"
  BY <1>2 DEF Opened, DecisionSound
<1>8. \A q \in tx[t].rs : InSnapshot(q, tx[t].seen, rv[q].nights) => res[q] = rv[q]
  BY <1>2 DEF InSnapshot, CallSound, WriteSound
<1>9. ASSUME j.room \in Room, StillSeen(t), NEW q \in tx[t].rs, NEW n \in rv[q].nights, ~ Takes(rv[q], tx[t].seen)
      PROVE  Free(tx[t].seen, n, room, rv, blocks) >= 1
  <2>1. q = r
    BY <1>2, <1>9, Kinds DEF Complete
  <2>2. tx[t].seen = room[j.room] /\ room[j.room] \in RoomType /\ r \in Res
    BY <1>2, <1>9 DEF StillSeen
  <2> HIDE DEF rv
  <2>3. PICK k \in Room, fits \in {j.fitsCapacity} : k = j.room /\ fits = j.fitsCapacity
    BY <1>9
  <2>4. RoomUsable(r, rv[r], k, room[k], fits, rv) /\ (InSnapshot(r, room[k], rv[r].nights) => res[r] = rv[r])
    BY <1>5, <1>8, <2>2, <2>3
  <2>5. rv[r].status = "OPEN" /\ n \in rv[r].nights /\ ~ Takes(rv[r], room[k]) /\ room[k] \in RoomType
    BY <1>7, <1>9, <2>1, <2>2, <2>3
  <2>6. Free(room[k], n, room, rv, blocks) >= 1
    BY <1>6, <2>2, <2>4, <2>5, RoomTaken
  <2> QED BY <2>2, <2>3, <2>6
<1>10. CASE j.op = "Create"
  <2>1. \A ty \in RoomType, n \in Nights : Asked(t, ty, n)' = Asked(t, ty, n)
    BY <1>3 DEF Asked
  <2>2. CreateMargin(t)
    BY <1>10 DEF Margin
  <2>3. ~ j.allowOverbooking => \A ty \in RoomType, n \in Nights :
                   Asked(t, ty, n)' # {} => Left(ty, n)' >= Cardinality(Asked(t, ty, n)')
    BY <1>2, <1>4, <2>1, <2>2 DEF CreateMargin
  <2>4. ASSUME j.room # None, StillSeen(t), NEW q \in tx[t].rs, tx[t].seen # Req[q].type, NEW n \in Req[q].nights
        PROVE  Left(tx[t].seen, n) >= 1
    <3>1. j.room \in Room /\ q \in Res /\ tx[t].seen \in RoomType /\ n \in Nights
      BY <1>2, <2>4, InventoryAssumption DEF Job, StillSeen
    <3>2. rv[q].room = None /\ rv[q].type = Req[q].type /\ rv[q].nights = Req[q].nights
      BY <1>10, <3>1 DEF Opened
    <3>3. ~ Takes(rv[q], tx[t].seen)
      BY <2>4, <3>2 DEF Takes
    <3>4. Free(tx[t].seen, n, room, rv, blocks) >= 1
      BY <1>9, <2>4, <3>1, <3>2, <3>3
    <3>5. \A s \in tx[t].rs : res[s].status = "NONE"
      BY <1>2, <1>10 DEF CallSound, WriteSound
    <3>6. /\ Cardinality(Asked(t, tx[t].seen, n)) \in Nat /\ Left(tx[t].seen, n) \in Int
          /\ Free(tx[t].seen, n, room, rv, blocks) = Left(tx[t].seen, n) - Cardinality(Asked(t, tx[t].seen, n))
      BY <1>2, <1>10, <3>1, <3>5, OpenedCount
    <3> QED BY <3>4, <3>6
  <2>5. CreateMargin(t)'
    BY <1>3, <1>4, <2>3, <2>4 DEF CreateMargin
  <2> QED BY <1>3, <1>10, <2>5 DEF Margin
<1>11. CASE j.op \in {"Assign", "AutoAssign"}
  <2>1. ASSUME StillSeen(t), NEW q \in tx[t].rs, NEW n \in res[q].nights, ~ Takes(res[q], tx[t].seen)
        PROVE  Left(tx[t].seen, n) >= 1
    <3>1. j.room \in Room /\ rv = res
      BY <1>2, <1>11 DEF Complete
    <3> QED BY <1>9, <2>1, <3>1 DEF Left
  <2>3. \A q : Takes(res[q], tx[t].seen)' <=> Takes(res[q], tx[t].seen)
    BY <1>3 DEF Takes
  <2>4. AssignMargin(t)'
    BY <1>3, <1>4, <2>1, <2>3 DEF AssignMargin
  <2> QED BY <1>3, <1>11, <2>4 DEF Margin
<1> QED BY <1>2, <1>10, <1>11

LEMMA UpdateMargins ==
    ASSUME TypeOK, NEW t \in Tx, CallSound(t), DecisionSound(t), UpdateCheck(t), ~ Refuse(t)
    PROVE  Margin(t)'
<1> DEFINE j == tx[t].job
<1>1. Ready(t, "check", {"Update"})
  BY DEF UpdateCheck
<1>2. /\ tx[t].at = "check" /\ j.op = "Update" /\ j \in Job /\ Complete(j)
      /\ tx[t].rs = j.rs /\ tx[t].rs \subseteq Res
  BY <1>1, ReadyCall DEF CallSound, Active
<1>3. PICK r \in tx[t].rs, drop \in BOOLEAN, kept \in Room \union {None} :
        /\ Changed(r, j) # res[r] /\ res[r].room # None /\ ~ drop
               => ~ RoomConflict(r, Changed(r, j), j.fitsCapacity)
        /\ drop => res[r].room # None
        /\ kept = IF drop THEN None ELSE res[r].room
        /\ Changed(r, j) # res[r] /\ ~ j.allowOverbooking =>
               ~ NewOverbooking({res[r].type, j.type}, res[r].nights \union j.nights, res, room,
                                [res EXCEPT ![r] = [Changed(r, j) EXCEPT !.room = kept]], blocks)
        /\ GoOnWithRoom(t, r, drop)
  <2> DEFINE D(r) == /\ res[r].room # None
                     /\ Changed(r, j) # res[r] \/ ~ j.fitsCapacity
                     /\ RoomConflict(r, Changed(r, j), j.fitsCapacity)
             S(r) == /\ Changed(r, j) # res[r]
                     /\ NewOverbooking({res[r].type, j.type}, res[r].nights \union j.nights, res, room,
                                [res EXCEPT ![r] = [Changed(r, j) EXCEPT !.room = IF D(r) THEN None ELSE res[r].room]], blocks)
  <2>1. PICK r \in tx[t].rs : ~ (S(r) /\ ~ j.allowOverbooking) /\ GoOnWithRoom(t, r, D(r))
    BY DEF UpdateCheck
  <2>2. PICK drop \in BOOLEAN : drop = D(r)
    OBVIOUS
  <2>3. GoOnWithRoom(t, r, drop)
    BY <2>1, <2>2
  <2>4. PICK kept \in Room \union {None} : kept = IF drop THEN None ELSE res[r].room
    BY <1>2, ReservationTypes
  <2>5. Changed(r, j) # res[r] /\ ~ j.allowOverbooking =>
               ~ NewOverbooking({res[r].type, j.type}, res[r].nights \union j.nights, res, room,
                                [res EXCEPT ![r] = [Changed(r, j) EXCEPT !.room = kept]], blocks)
    BY <2>1, <2>2, <2>4
  <2>6. /\ Changed(r, j) # res[r] /\ res[r].room # None /\ ~ drop => ~ RoomConflict(r, Changed(r, j), j.fitsCapacity)
        /\ drop => res[r].room # None
    BY <2>2
  <2> HIDE DEF D, S
  <2> QED BY <2>3, <2>4, <2>5, <2>6
<1>4. tx[t].rs = {r} /\ r \in Res
  BY <1>2, <1>3 DEF Complete
<1>5. /\ tx'[t].at = "write" /\ tx'[t].job = j /\ tx'[t].rs = tx[t].rs /\ tx'[t].drop = drop
      /\ UNCHANGED <<room, version, res, blocks, held, unlockedLoss>>
  BY <1>3, GoOnWithRoomFields
<1>6. CASE Changed(r, j) = res[r] \/ j.allowOverbooking
  <2>1. UpdateMargin(t)'
    BY <1>4, <1>5, <1>6 DEF UpdateMargin, Changed
  <2> QED BY <1>2, <1>5, <2>1 DEF Margin
<1>7. CASE Changed(r, j) # res[r] /\ ~ j.allowOverbooking
  <2> DEFINE new == Changed(r, j)
             v == [new EXCEPT !.room = kept]
  <2>1. res[r].status = "OPEN" /\ res[r] \in Reservation /\ res[r].room \in Room \union {None} /\ kept \in Room \union {None}
    BY <1>2, <1>3, <1>4 DEF DecisionSound, TypeOK, Reservation
  <2>2. j.type \in RoomType /\ j.nights \subseteq Nights /\ res[r].type \in RoomType
    BY <1>2, <2>1 DEF Job, Reservation
  <2>3. /\ new \in Reservation /\ new.status = "OPEN" /\ new.type = j.type /\ new.nights = j.nights /\ new.room = res[r].room
    BY <2>1, <2>2 DEF Changed, Reservation
  <2>4. /\ v \in Reservation /\ v.status = "OPEN" /\ v.type = j.type /\ v.nights = j.nights /\ v.room = kept
    <3> HIDE DEF new
    <3> QED BY <2>1, <2>3 DEF Reservation
  <2>5. ~ NewOverbooking({res[r].type, j.type}, res[r].nights \union j.nights, res, room, [res EXCEPT ![r] = v], blocks)
    BY <1>3, <1>7
  <2> HIDE DEF new, v
  <2>6. ASSUME NEW ty \in {res[r].type, j.type}, NEW n \in j.nights, Use(v, ty, n) = 1, Use(res[r], ty, n) = 0,
               Alone([res EXCEPT ![r] = v], r, n)
        PROVE  Left(ty, n) >= 1
    <3>1. ty \in RoomType /\ n \in res[r].nights \union j.nights /\ res \in [Res -> Reservation]
      BY <2>2, <2>6 DEF TypeOK
    <3>2. Free(ty, n, room, res, blocks) >= 1
      BY <1>4, <2>4, <2>5, <2>6, <3>1, MustBeLeft
    <3> QED BY <3>2 DEF Left
  <2>7. CASE res[r].room # None /\ ~ drop
    <3> DEFINE k == res[r].room
    <3>1. k \in Room /\ kept = k
      BY <1>3, <2>1, <2>7
    <3>2. RoomUsable(r, new, k, room[k], j.fitsCapacity, res)
      BY <1>3, <1>7, <2>3, <2>7 DEF RoomConflict, new
    <3>3. ASSUME NEW n \in j.nights \ res[r].nights, room[k] \in {res[r].type, j.type} PROVE Left(room[k], n) >= 1
      <4>1. Use(v, room[k], n) = 1 /\ Use(res[r], room[k], n) = 0
        BY <2>4, <3>1, <3>3, Kinds DEF Use, Takes
      <4>2. Alone([res EXCEPT ![r] = v], r, n)
        <5>1. PICK q \in Room, fits \in {j.fitsCapacity} : q = k /\ fits = j.fitsCapacity
          BY <3>1
        <5>2. RoomUsable(r, new, q, room[q], fits, res) /\ v.room = q /\ v.nights = new.nights /\ n \in new.nights
          BY <2>3, <2>4, <3>1, <3>2, <3>3, <5>1
        <5>3. res \in [Res -> Reservation]
          BY DEF TypeOK
        <5> QED BY <1>4, <2>3, <2>4, <5>2, <5>3, UsableIsEmpty
      <4> QED BY <2>6, <3>3, <4>1, <4>2
    <3>4. UpdateMargin(t)'
      <4>1. /\ \A ty, n : Left(ty, n)' = Left(ty, n)
            /\ Changed(r, j)' = Changed(r, j)
        BY <1>5 DEF Left, Changed
      <4> QED BY <1>4, <1>5, <2>7, <3>3, <4>1 DEF UpdateMargin
    <3> QED BY <1>2, <1>5, <3>4 DEF Margin
  <2>8. CASE ~ (res[r].room # None /\ ~ drop)
    <3>1. kept = None
      BY <1>3, <2>8
    <3>2. ASSUME NEW n \in j.nights, ~ (n \in res[r].nights /\ Takes(res[r], j.type)) PROVE Left(j.type, n) >= 1
      <4>1. Use(v, j.type, n) = 1 /\ Use(res[r], j.type, n) = 0
        BY <2>4, <3>1, <3>2 DEF Use, Takes
      <4>2. Alone([res EXCEPT ![r] = v], r, n)
        BY <1>4, <2>4, <3>1 DEF Alone, TypeOK
      <4> QED BY <2>6, <4>1, <4>2
    <3>3. UpdateMargin(t)'
      <4>1. /\ \A ty, n : Left(ty, n)' = Left(ty, n)
            /\ Takes(res[r], j.type)' <=> Takes(res[r], j.type)
        BY <1>5 DEF Left, Takes
      <4> QED BY <1>4, <1>5, <2>8, <3>2, <4>1 DEF UpdateMargin
    <3> QED BY <1>2, <1>5, <3>3 DEF Margin
  <2> QED BY <2>7, <2>8
<1> QED BY <1>6, <1>7

LEMMA ReinstateMargins ==
    ASSUME TypeOK, NEW t \in Tx, CallSound(t), DecisionSound(t), ReinstateCheck(t), ~ Refuse(t)
    PROVE  Margin(t)'
<1> DEFINE j == tx[t].job
           back(r) == [res[r] EXCEPT !.status = "OPEN"]
<1>1. Ready(t, "check", {"Reinstate"})
  BY DEF ReinstateCheck
<1>2. /\ tx[t].at = "check" /\ j.op = "Reinstate" /\ j \in Job /\ Complete(j)
      /\ tx[t].rs = j.rs /\ tx[t].rs \subseteq Res
  BY <1>1, ReadyCall DEF CallSound, Active
<1>3. PICK r \in tx[t].rs, drop \in BOOLEAN, kept \in Room \union {None} :
        /\ res[r].room # None /\ ~ drop => ~ RoomConflict(r, back(r), j.fitsCapacity)
        /\ drop => res[r].room # None
        /\ kept = IF drop THEN None ELSE res[r].room
        /\ ~ NewOverbooking({res[r].type}, res[r].nights, res, room,
                            [res EXCEPT ![r] = [back(r) EXCEPT !.room = kept]], blocks)
        /\ GoOnWithRoom(t, r, drop)
  <2> DEFINE D(r) == res[r].room # None /\ RoomConflict(r, back(r), j.fitsCapacity)
             S(r) == NewOverbooking({res[r].type}, res[r].nights, res, room,
                        [res EXCEPT ![r] = [back(r) EXCEPT !.room = IF D(r) THEN None ELSE res[r].room]], blocks)
  <2>1. PICK r \in tx[t].rs : ~ S(r) /\ GoOnWithRoom(t, r, D(r))
    BY DEF ReinstateCheck
  <2>2. PICK drop \in BOOLEAN : drop = D(r)
    OBVIOUS
  <2>3. GoOnWithRoom(t, r, drop)
    BY <2>1, <2>2
  <2>4. PICK kept \in Room \union {None} : kept = IF drop THEN None ELSE res[r].room
    BY <1>2, ReservationTypes
  <2>5. ~ NewOverbooking({res[r].type}, res[r].nights, res, room,
                         [res EXCEPT ![r] = [back(r) EXCEPT !.room = kept]], blocks)
    BY <2>1, <2>2, <2>4
  <2>6. /\ res[r].room # None /\ ~ drop => ~ RoomConflict(r, back(r), j.fitsCapacity)
        /\ drop => res[r].room # None
    BY <2>2
  <2> HIDE DEF D, S, back
  <2> QED BY <2>3, <2>4, <2>5, <2>6
<1>4. tx[t].rs = {r} /\ r \in Res
  BY <1>2, <1>3 DEF Complete
<1>5. /\ tx'[t].at = "write" /\ tx'[t].job = j /\ tx'[t].rs = tx[t].rs /\ tx'[t].drop = drop
      /\ UNCHANGED <<room, version, res, blocks, held, unlockedLoss>>
  BY <1>3, GoOnWithRoomFields
<1> DEFINE new == back(r)
           v == [new EXCEPT !.room = kept]
<1>6. res[r].status = "CLOSED" /\ res[r] \in Reservation /\ res[r].room \in Room \union {None} /\ kept \in Room \union {None}
  BY <1>2, <1>3, <1>4 DEF DecisionSound, TypeOK, Reservation
<1>7. res[r].type \in RoomType /\ res[r].nights \subseteq Nights
  BY <1>6 DEF Reservation
<1>8. /\ new \in Reservation /\ new.status = "OPEN" /\ new.type = res[r].type
      /\ new.nights = res[r].nights /\ new.room = res[r].room
  BY <1>6 DEF Reservation
<1>9. ~ NewOverbooking({res[r].type}, res[r].nights, res, room, [res EXCEPT ![r] = v], blocks)
  BY <1>3
<1>10. res[r].room # None /\ ~ drop => ~ RoomConflict(r, new, j.fitsCapacity)
  BY <1>3
<1> HIDE DEF new
<1>11. /\ v \in Reservation /\ v.status = "OPEN" /\ v.type = res[r].type /\ v.nights = res[r].nights /\ v.room = kept
  BY <1>6, <1>8 DEF Reservation
<1> HIDE DEF v
<1>12. ASSUME NEW n \in res[r].nights, drop \/ Takes(res[r], res[r].type) PROVE Left(res[r].type, n) >= 1
  <2>1. Use(res[r], res[r].type, n) = 0
    BY <1>6 DEF Use
  <2>2. Use(v, res[r].type, n) = 1
    BY <1>3, <1>11, <1>12 DEF Use, Takes
  <2>3. Alone([res EXCEPT ![r] = v], r, n)
    <3>1. CASE kept = None
      BY <1>4, <1>11, <3>1 DEF Alone, TypeOK
    <3>2. CASE kept # None
      <4>1. PICK q \in Room, fits \in {j.fitsCapacity} : q = res[r].room /\ fits = j.fitsCapacity
        BY <1>3, <1>6, <3>2
      <4>2. /\ RoomUsable(r, new, q, room[q], fits, res)
            /\ v.room = q /\ v.nights = new.nights /\ n \in new.nights
        BY <1>3, <1>8, <1>10, <1>11, <3>2, <4>1 DEF RoomConflict
      <4>3. res \in [Res -> Reservation]
        BY DEF TypeOK
      <4> QED BY <1>4, <1>8, <1>11, <4>2, <4>3, UsableIsEmpty
    <3> QED BY <3>1, <3>2
  <2>4. PICK ty \in RoomType : ty = res[r].type
    BY <1>7
  <2>5. Free(ty, n, room, res, blocks) >= 1
    <3>1. res \in [Res -> Reservation] /\ ty \in {res[r].type}
      BY <2>4 DEF TypeOK
    <3>2. Use(v, ty, n) = 1 /\ Use(res[r], ty, n) = 0
      BY <2>1, <2>2, <2>4
    <3> QED BY <1>4, <1>9, <1>11, <2>3, <3>1, <3>2, MustBeLeft
  <2> QED BY <2>4, <2>5 DEF Left
<1>13. ReinstateMargin(t)'
  <2>1. /\ \A ty, n : Left(ty, n)' = Left(ty, n)
        /\ Takes(res[r], res[r].type)' <=> Takes(res[r], res[r].type)
    BY <1>5 DEF Left, Takes
  <2> QED BY <1>4, <1>5, <1>12, <2>1 DEF ReinstateMargin
<1> QED BY <1>2, <1>5, <1>13 DEF Margin

\* A room is withdrawn for a night it was free: one was left.
LEMMA WithdrawLeaves ==
    ASSUME NEW k \in Room, NEW ty \in RoomType, room[k] = ty, NEW rm, NEW bl,
           \A q \in Room \ {k} : rm[q] = room[q],
           \A q \in Room \ {k}, n \in Nights :
               (\E b \in bl : OutOfOrder(b, q, n)) <=> \E b \in blocks : OutOfOrder(b, q, n),
           NEW n \in Nights, rm[k] # ty \/ \E b \in bl : OutOfOrder(b, k, n),
           \A r \in Res : ~ Occupies(res[r], k, n),
           NEW types, NEW nights, ty \in types, n \in nights,
           ~ NewOverbooking(types, nights, res, rm, res, bl)
    PROVE  Left(ty, n) >= 1 \/ Useless(k, n)
<1>1. SUFFICES ASSUME ~ Useless(k, n) PROVE Left(ty, n) >= 1
  OBVIOUS
<1>2. k \in RoomsFree(ty, n, room, res, blocks)
  BY <1>1 DEF RoomsFree, Useless
<1>3. k \notin RoomsFree(ty, n, rm, res, bl)
  BY DEF RoomsFree
<1>4. \A q \in Room \ {k} :
         q \in RoomsFree(ty, n, room, res, blocks) <=> q \in RoomsFree(ty, n, rm, res, bl)
  BY DEF RoomsFree
<1>5. Free(ty, n, rm, res, bl) < Free(ty, n, room, res, blocks)
  BY <1>2, <1>3, <1>4, RoomChange
<1>6. Free(ty, n, rm, res, bl) \in Int /\ Free(ty, n, room, res, blocks) \in Int
  BY FreeIs
<1>7. ~ (Free(ty, n, rm, res, bl) < 0)
  BY <1>5 DEF NewOverbooking
<1> QED BY <1>5, <1>6, <1>7 DEF Left

LEMMA RoomMargins ==
    ASSUME TypeOK, HeldExists, NEW t \in Tx, CallSound(t),
           BlockCheck(t) \/ UnblockCheck(t) \/ ChangeTypeCheck(t) \/ DeleteRoomCheck(t), ~ Refuse(t)
    PROVE  Margin(t)'
<1> DEFINE j == tx[t].job
           k == j.room
<1>1. Ready(t, "first", {"Block", "Unblock", "ChangeType", "DeleteRoom"}) /\ GoOn(t, "write", {})
  BY DEF BlockCheck, UnblockCheck, ChangeTypeCheck, DeleteRoomCheck, Ready
<1>2. /\ j.op \in {"Block", "Unblock", "ChangeType", "DeleteRoom"} /\ j \in Job /\ Complete(j)
  BY <1>1, ReadyCall DEF CallSound, Active
<1>3. k \in Room /\ j.nights \subseteq Nights
  BY <1>2 DEF Complete, Job
<1>4. /\ tx'[t].at = "write" /\ tx'[t].job = j /\ tx'[t].seen = tx[t].seen
      /\ UNCHANGED <<room, version, res, blocks, held, unlockedLoss>>
  BY <1>1, GoOnFields
<1>5. /\ \A ty, n : Left(ty, n)' = Left(ty, n)
      /\ \A q, n : Useless(q, n)' <=> Useless(q, n)
      /\ StillSeen(t)' <=> StillSeen(t)
  BY <1>4 DEF Left, StillSeen, Useless
<1>6. CASE BlockCheck(t)
  <2>1. /\ j.op = "Block" /\ \A r \in Res, n \in j.nights : ~ Occupies(res[r], k, n)
        /\ j.kind = "OUT_OF_ORDER"
              => ~ NewOverbooking({tx[t].seen}, j.nights, res, room, res, blocks \union {NewBlock(j)})
    BY <1>6 DEF BlockCheck, Ready
  <2>2. ASSUME j.kind = "OUT_OF_ORDER", StillSeen(t), NEW n \in j.nights
        PROVE  Left(tx[t].seen, n) >= 1 \/ Useless(k, n)
    <3> DEFINE bl == blocks \union {NewBlock(j)}
    <3>1. PICK ty \in RoomType, q \in Room : ty = tx[t].seen /\ q = k /\ room[q] = ty
      BY <1>3, <2>2 DEF StillSeen
    <3>2. n \in Nights /\ n \in j.nights
      BY <1>3
    <3>3. \E b \in bl : OutOfOrder(b, q, n)
      <4>1. PICK b : b = NewBlock(j)
        OBVIOUS
      <4>2. b.kind = j.kind /\ b.room = k /\ b.nights = j.nights
        BY <4>1 DEF NewBlock
      <4>3. b \in bl
        BY <4>1
      <4>4. OutOfOrder(b, q, n)
        BY <2>2, <3>1, <3>2, <4>2 DEF OutOfOrder
      <4> QED BY <4>3, <4>4
    <3>4. \A p \in Room \ {q}, m \in Nights :
               (\E b \in bl : OutOfOrder(b, p, m)) <=> \E b \in blocks : OutOfOrder(b, p, m)
      BY <3>1 DEF NewBlock, OutOfOrder
    <3>5. ~ NewOverbooking({ty}, j.nights, res, room, res, bl)
      BY <2>1, <2>2, <3>1
    <3>6. \A r \in Res : ~ Occupies(res[r], q, n)
      BY <2>1, <3>1
    <3> HIDE DEF bl, j, k
    <3>7. Left(ty, n) >= 1 \/ Useless(q, n)
      BY <3>1, <3>2, <3>3, <3>4, <3>5, <3>6, WithdrawLeaves
    <3> QED BY <3>1, <3>7
  <2>3. BlockMargin(t)'
    BY <1>4, <1>5, <2>2 DEF BlockMargin
  <2> QED BY <1>4, <2>1, <2>3 DEF Margin
<1>7. CASE ChangeTypeCheck(t) \/ DeleteRoomCheck(t)
  <2>1. /\ j.op \in {"ChangeType", "DeleteRoom"} /\ (j.op = "DeleteRoom" => DeleteRoomCheck(t))
        /\ j.op = "DeleteRoom" \/ j.type # tx[t].seen =>
              /\ ~ HasGuests(k)
              /\ ~ NewOverbooking({tx[t].seen}, Nights, res, WithoutRoom(k), res, blocks)
    BY <1>7 DEF ChangeTypeCheck, DeleteRoomCheck, Ready
  <2>2. ASSUME StillSeen(t), j.op = "DeleteRoom" \/ j.type # tx[t].seen, NEW n \in Nights
        PROVE  Left(tx[t].seen, n) >= 1 \/ Useless(k, n)
    <3>1. PICK ty \in RoomType, q \in Room : ty = tx[t].seen /\ q = k /\ room[q] = ty
      BY <1>3, <2>2 DEF StillSeen
    <3>2. ~ NewOverbooking({ty}, Nights, res, WithoutRoom(q), res, blocks)
      BY <2>1, <2>2, <3>1
    <3>3. \A p \in Room : WithoutRoom(q)[p] = IF p = q THEN "DELETED" ELSE room[p]
      BY DEF WithoutRoom, TypeOK
    <3>4. \A r \in Res : ~ Occupies(res[r], q, n)
      BY <2>1, <2>2, <3>1 DEF HasGuests, Occupies
    <3>5. PICK rm : rm = WithoutRoom(q)
      OBVIOUS
    <3>6. rm[q] # ty /\ \A p \in Room \ {q} : rm[p] = room[p]
      BY <3>3, <3>5, Kinds
    <3>7. ~ NewOverbooking({ty}, Nights, res, rm, res, blocks)
      BY <3>2, <3>5
    <3> HIDE DEF j, k
    <3>8. Left(ty, n) >= 1 \/ Useless(q, n)
      BY <3>1, <3>4, <3>6, <3>7, WithdrawLeaves
    <3> QED BY <3>1, <3>8
  <2>3. WithdrawMargin(t)'
    BY <1>4, <1>5, <2>1, <2>2 DEF WithdrawMargin
  <2> QED BY <1>4, <2>1, <2>3 DEF Margin
<1>8. CASE UnblockCheck(t)
  BY <1>4, <1>8 DEF UnblockCheck, Ready, Margin
<1> QED BY <1>6, <1>7, <1>8

-----------------------------------------------------------------------------
(* The margins hold while no commit has lost a type behind its row *)

LEMMA MoverMargin ==
    ASSUME IInv, SInv, NEW t \in Tx, Begin(t) \/ Step(t), Margin(t)
    PROVE  Margin(t)'
<1>1. TypeOK /\ TypeOK' /\ HeldExists /\ CallSound(t) /\ HotelSound /\ AsksSound(t) /\ DecisionSound(t)
  BY StepTypes DEF IInv, SInv, CallSound, Next
<1>2. ASSUME tx'[t].at \notin {"place", "write"} PROVE Margin(t)'
  BY <1>2 DEF Margin, CreateMargin, AssignMargin, UpdateMargin, ReinstateMargin, BlockMargin, WithdrawMargin
<1>3. CASE Finish(t)
  <2>1. tx'[t].at = "done"
    BY <1>1, <1>3 DEF Finish, NoCall, TypeOK
  <2> QED BY <1>2, <2>1
<1>4. CASE Begin(t)
  <2>1. tx'[t].at \in {"done", "first"}
    BY <1>1, <1>4 DEF Begin, NoCall, TypeOK
  <2> QED BY <1>2, <2>1
<1>5. CASE LockRow(t)
  <2>1. /\ tx'[t].at = tx[t].at /\ tx'[t].job = tx[t].job /\ tx'[t].rs = tx[t].rs
        /\ tx'[t].seen = tx[t].seen /\ tx'[t].drop = tx[t].drop
        /\ UNCHANGED <<room, res, blocks>>
    BY <1>1, <1>5 DEF LockRow, TypeOK, Call
  <2>2. /\ \A ty, n : Left(ty, n)' = Left(ty, n)
        /\ \A q, n : Useless(q, n)' <=> Useless(q, n)
        /\ \A v, ty : Takes(v, ty)' <=> Takes(v, ty)
        /\ \A ty, n : Asked(t, ty, n)' = Asked(t, ty, n)
        /\ \A r : Changed(r, tx[t].job)' = Changed(r, tx[t].job)
        /\ StillSeen(t)' <=> StillSeen(t)
    BY <2>1 DEF Left, StillSeen, Useless, Takes, Asked, Changed
  <2>3. (CreateMargin(t) => CreateMargin(t)') /\ (AssignMargin(t) => AssignMargin(t)')
    BY <2>1, <2>2 DEF CreateMargin, AssignMargin
  <2>4. (UpdateMargin(t) => UpdateMargin(t)') /\ (ReinstateMargin(t) => ReinstateMargin(t)')
    BY <2>1, <2>2 DEF UpdateMargin, ReinstateMargin
  <2>5. (BlockMargin(t) => BlockMargin(t)') /\ (WithdrawMargin(t) => WithdrawMargin(t)')
    BY <2>1, <2>2 DEF BlockMargin, WithdrawMargin
  <2> QED BY <2>1, <2>3, <2>4, <2>5 DEF Margin
<1>6. CASE DeadlockAbort(t) /\ ~ Finish(t)
  <2>1. tx'[t].at = "retry"
    BY <1>1, <1>6 DEF DeadlockAbort, TypeOK, Call
  <2> QED BY <1>2, <2>1
<1>7. ASSUME ~ Finish(t) PROVE ~ Refuse(t) /\ \A rm, rv, bl : ~ Commit(t, rm, rv, bl)
  BY <1>7 DEF Refuse, Commit
<1>8. CASE ~ Finish(t) /\ (AssignRead(t) \/ UpdateRead(t) \/ ReinstateRead(t) \/ UnassignRead(t) \/ CancelRead(t))
  <2>1. CASE AssignRead(t)
    <3>1. tx'[t].at = "place" /\ tx[t].job.op \in {"Assign", "AutoAssign"} /\ tx'[t].job = tx[t].job
      <4>1. PICK r \in tx[t].rs : ReadRoomThenLock(t, tx[t].job.room, {res[r].room} \ {None})
        BY <1>7, <1>8, <2>1 DEF AssignRead
      <4> QED BY <1>1, <1>7, <1>8, <2>1, <4>1, ReadRoomFields DEF AssignRead, Ready
    <3> QED BY <3>1 DEF Margin, AssignMargin
  <2>2. CASE UpdateRead(t) \/ ReinstateRead(t)
    <3>1. \E want : GoOn(t, "check", want)
      BY <1>7, <1>8, <2>2 DEF UpdateRead, ReinstateRead
    <3>2. tx'[t].at = "check"
      BY <1>1, <3>1, GoOnFields
    <3> QED BY <1>2, <3>2
  <2>3. CASE UnassignRead(t) \/ CancelRead(t)
    <3>1. (\E want : GoOn(t, "write", want)) /\ tx[t].job.op \in {"Unassign", "Cancel", "CancelGroup"}
      BY <1>7, <1>8, <2>3 DEF UnassignRead, CancelRead, Ready
    <3>2. tx'[t].job = tx[t].job
      BY <1>1, <3>1, GoOnFields
    <3> QED BY <3>1, <3>2 DEF Margin
  <2> QED BY <1>8, <2>1, <2>2, <2>3
<1>9. CASE /\ ~ Finish(t)
           /\ \/ CreateCheck(t) \/ PlaceCheck(t) \/ UpdateCheck(t) \/ ReinstateCheck(t)
              \/ BlockCheck(t) \/ UnblockCheck(t) \/ ChangeTypeCheck(t) \/ DeleteRoomCheck(t)
  BY <1>1, <1>7, <1>9, CreateMargins, PlaceMargins, UpdateMargins, ReinstateMargins, RoomMargins
<1>10. ASSUME \/ CreateWrite(t) \/ AssignWrite(t) \/ UnassignWrite(t) \/ UpdateWrite(t) \/ CancelWrite(t)
              \/ ReinstateWrite(t) \/ BlockWrite(t) \/ UnblockWrite(t) \/ ChangeTypeWrite(t)
              \/ DeleteRoomWrite(t) \/ CreateRoomWrite(t)
       PROVE  Finish(t)
  BY <1>7, <1>10 DEF CreateWrite, AssignWrite, UnassignWrite, UpdateWrite, CancelWrite, ReinstateWrite,
     BlockWrite, UnblockWrite, ChangeTypeWrite, DeleteRoomWrite, CreateRoomWrite
<1> QED BY <1>3, <1>4, <1>5, <1>6, <1>8, <1>9, <1>10 DEF Step

LEMMA MInvStep ==
    ASSUME IInv, IInv', SInv, MInv, [Next]_vars
    PROVE  MInv'
<1>1. ASSUME NEW t \in Tx, Begin(t) \/ Step(t) PROVE MInv'
  <2>1. SUFFICES ASSUME ~ unlockedLoss', NEW u \in Tx PROVE Margin(u)'
    BY DEF MInv
  <2>2. ~ unlockedLoss
    <3>1. CASE Quiet
      BY <2>1, <3>1 DEF Quiet
    <3>2. CASE Touches(t)
      BY <2>1, <3>2 DEF Touches
    <3> QED BY <1>1, <3>1, <3>2, MoveShape
  <2>3. Margin(u) /\ Margin(t)
    BY <2>2 DEF MInv
  <2>4. CASE u = t
    BY <1>1, <2>3, <2>4, MoverMargin
  <2>5. CASE u # t
    <3>1. Respects(u)
      BY <1>1, <2>5, MoveRespects
    <3>2. TypeOK /\ TypeOK' /\ CallSound(u) /\ AsksSound(u) /\ DecisionSound(u)
      BY DEF IInv, SInv
    <3> QED BY <2>1, <2>3, <3>1, <3>2, OthersMargin
  <2> QED BY <2>4, <2>5
<1>2. CASE UNCHANGED vars
  <2>1. UNCHANGED <<room, version, res, blocks, held, tx, unlockedLoss>>
    BY <1>2 DEF vars
  <2>2. SUFFICES ASSUME NEW t \in Tx, Margin(t) PROVE Margin(t)'
    BY <2>1 DEF MInv
  <2>3. /\ \A ty, n : Left(ty, n)' = Left(ty, n)
        /\ \A q, n : Useless(q, n)' <=> Useless(q, n)
        /\ \A v, ty : Takes(v, ty)' <=> Takes(v, ty)
        /\ \A ty, n : Asked(t, ty, n)' = Asked(t, ty, n)
        /\ \A r : Changed(r, tx[t].job)' = Changed(r, tx[t].job)
        /\ StillSeen(t)' <=> StillSeen(t)
    BY <2>1 DEF Left, StillSeen, Useless, Takes, Asked, Changed
  <2>4. (CreateMargin(t) => CreateMargin(t)') /\ (AssignMargin(t) => AssignMargin(t)')
    BY <2>1, <2>3 DEF CreateMargin, AssignMargin
  <2>5. (UpdateMargin(t) => UpdateMargin(t)') /\ (ReinstateMargin(t) => ReinstateMargin(t)')
    BY <2>1, <2>3 DEF UpdateMargin, ReinstateMargin
  <2>6. (BlockMargin(t) => BlockMargin(t)') /\ (WithdrawMargin(t) => WithdrawMargin(t)')
    BY <2>1, <2>3 DEF BlockMargin, WithdrawMargin
  <2> QED BY <2>1, <2>2, <2>4, <2>5, <2>6 DEF Margin
<1> QED BY <1>1, <1>2 DEF Next, AllDone

LEMMA MInvInit ==
    ASSUME Init
    PROVE  MInv
<1>1. \A t \in Tx : tx[t].at = "idle"
  BY DEF Init, NoCall
<1> QED BY <1>1 DEF MInv, Margin, CreateMargin, AssignMargin, UpdateMargin, ReinstateMargin, BlockMargin, WithdrawMargin

-----------------------------------------------------------------------------
(* What a commit loses *)

\* Why call t may lose of a type that it does not hold.
KnownLoss(t) ==
    \/ tx[t].job.op \in {"Unassign", "Update", "Reinstate"} /\ \E r \in tx[t].rs : InForeignRoom(r)
    \/ /\ tx[t].job.op \in {"Create", "Assign", "AutoAssign", "Block", "DeleteRoom"}
       /\ tx[t].seen # room[tx[t].job.room]

\* A type that is lost is held, and its loss was checked, or it is a known one.
LossSound(t, ty, n) ==
    /\ tx[t].at = "write"
    /\ held[ty] # t => KnownLoss(t)
    /\ held[ty] = t => unlockedLoss \/ tx[t].job.allowOverbooking \/ Left(ty, n)' >= 0

LEMMA HeldTypes ==
    ASSUME NEW t \in Tx, AsksSound(t), tx[t].want = {}, NEW ty \in RoomType
    PROVE  held[ty] = t <=> NeedsType(t, ty)
BY DEF AsksSound, Claims

\* One reservation changes: it took none of the type before, and takes one now.
LEMMA StayLoss ==
    ASSUME TypeOK, RoomsKeptApart, NEW r \in Res, NEW v \in Reservation,
           room' = room, blocks' = blocks, res' = [res EXCEPT ![r] = v],
           NEW ty \in RoomType, NEW n \in Nights, Left(ty, n)' < Left(ty, n)
    PROVE  /\ v.status = "OPEN" /\ n \in v.nights /\ Takes(v, ty)
           /\ ~ (res[r].status = "OPEN" /\ n \in res[r].nights /\ Takes(res[r], ty))
           /\ Left(ty, n) >= 1 => Left(ty, n)' >= 0
<1>1. Alone(res, r, n) /\ res \in [Res -> Reservation]
  BY AloneByDb DEF TypeOK
<1>2. /\ Use(res[r], ty, n) \in 0..1 /\ Use(v, ty, n) \in 0..1
      /\ Free(ty, n, room, res, blocks) + Use(res[r], ty, n)
             <= Free(ty, n, room, [res EXCEPT ![r] = v], blocks) + Use(v, ty, n)
  BY <1>1, StayChange
<1>3. Left(ty, n) = Free(ty, n, room, res, blocks) /\ Left(ty, n)' = Free(ty, n, room, [res EXCEPT ![r] = v], blocks)
  BY DEF Left
<1>4. Left(ty, n) \in Int /\ Left(ty, n)' \in Int
  BY LeftIsInt
<1>5. Left(ty, n) + Use(res[r], ty, n) <= Left(ty, n)' + Use(v, ty, n)
  BY <1>2, <1>3
<1>6. Use(res[r], ty, n) = 0 /\ Use(v, ty, n) = 1
  BY <1>2, <1>4, <1>5
<1>7. Left(ty, n) <= Left(ty, n)' + 1
  BY <1>4, <1>5, <1>6
<1>8. v.status = "OPEN" /\ n \in v.nights /\ Takes(v, ty)
  BY <1>6 DEF Use
<1>9. ~ (res[r].status = "OPEN" /\ n \in res[r].nights /\ Takes(res[r], ty))
  BY <1>6 DEF Use
<1> QED BY <1>4, <1>7, <1>8, <1>9

\* One room changes: it was of the type and free, and is not any more.
LEMMA RoomLoss ==
    ASSUME NEW k \in Room, res' = res,
           NEW ty \in RoomType, NEW n \in Nights, Left(ty, n)' < Left(ty, n),
           \A q \in Room \ {k} :
               /\ room'[q] = room[q]
               /\ (\E b \in blocks' : OutOfOrder(b, q, n)) <=> \E b \in blocks : OutOfOrder(b, q, n)
    PROVE  /\ room[k] = ty /\ ~ Useless(k, n)
           /\ room'[k] # ty \/ \E b \in blocks' : OutOfOrder(b, k, n)
           /\ Left(ty, n) >= 1 => Left(ty, n)' >= 0
<1> DEFINE A == RoomsFree(ty, n, room, res, blocks)
           C == RoomsFree(ty, n, room', res, blocks')
<1>1. \A q \in Room \ {k} : q \in A <=> q \in C
  BY DEF RoomsFree
<1>2. /\ Free(ty, n, room, res, blocks) <= Free(ty, n, room', res, blocks') + 1
      /\ k \notin A \/ k \in C
             => Free(ty, n, room, res, blocks) <= Free(ty, n, room', res, blocks')
  BY <1>1, RoomChange
<1>3. Left(ty, n) = Free(ty, n, room, res, blocks) /\ Left(ty, n)' = Free(ty, n, room', res, blocks')
  BY DEF Left
<1>4. Left(ty, n) \in Int /\ Left(ty, n)' \in Int
  BY LeftIsInt
<1>5. k \in A /\ k \notin C
  <2> HIDE DEF A, C
  <2> QED BY <1>2, <1>3, <1>4
<1>6. room[k] = ty /\ ~ Useless(k, n) /\ \A r \in Res : ~ Occupies(res[r], k, n)
  BY <1>5 DEF RoomsFree, Useless
<1>7. room'[k] # ty \/ \E b \in blocks' : OutOfOrder(b, k, n)
  BY <1>5, <1>6 DEF RoomsFree
<1>8. Left(ty, n) >= 1 => Left(ty, n)' >= 0
  <2>1. Left(ty, n) <= Left(ty, n)' + 1
    BY <1>2, <1>3
  <2> QED BY <1>4, <2>1
<1> QED BY <1>6, <1>7, <1>8

\* What is known of a call that is about to write.
LEMMA WriterFacts ==
    ASSUME IInv, SInv, MInv, NEW t \in Tx, NEW ops, Ready(t, "write", ops)
    PROVE  /\ TypeOK /\ RoomsKeptApart /\ AsksSound(t) /\ DecisionSound(t) /\ (unlockedLoss \/ Margin(t))
           /\ tx[t].at = "write" /\ tx[t].want = {} /\ tx[t].job.op \in ops
           /\ tx[t].job \in Job /\ Complete(tx[t].job) /\ tx[t].rs \subseteq Res
           /\ tx[t].job.op # "CancelGroup" => tx[t].rs = tx[t].job.rs
           /\ \A ty \in RoomType : held[ty] = t <=> NeedsType(t, ty)
<1>1. /\ TypeOK /\ RoomsKeptApart /\ AsksSound(t) /\ DecisionSound(t) /\ (unlockedLoss \/ Margin(t)) /\ CallSound(t)
  BY DEF IInv, SInv, MInv
<1>2. tx[t].at = "write" /\ tx[t].want = {} /\ tx[t].job.op \in ops
  BY DEF Ready
<1>3. tx[t].job \in Job /\ Complete(tx[t].job) /\ tx[t].rs \subseteq Res
  BY <1>1, ReadyCall DEF CallSound, Active
<1>4. tx[t].job.op # "CancelGroup" => tx[t].rs = tx[t].job.rs
  BY <1>1, <1>2 DEF CallSound, JobSound, Active
<1>5. \A ty \in RoomType : held[ty] = t <=> NeedsType(t, ty)
  BY <1>1, <1>2, HeldTypes
<1> QED BY <1>1, <1>2, <1>3, <1>4, <1>5

LEMMA AssignLoss ==
    ASSUME IInv, SInv, MInv, NEW t \in Tx, AssignWrite(t), ~ Refuse(t),
           NEW ty \in RoomType, NEW n \in Nights, Left(ty, n)' < Left(ty, n)
    PROVE  LossSound(t, ty, n)
<1> DEFINE j == tx[t].job
<1>1. Ready(t, "write", {"Assign", "AutoAssign"})
  BY DEF AssignWrite
<1>2. /\ TypeOK /\ RoomsKeptApart /\ DecisionSound(t) /\ (unlockedLoss \/ Margin(t))
      /\ tx[t].at = "write" /\ j.op \in {"Assign", "AutoAssign"} /\ Complete(j) /\ tx[t].rs \subseteq Res
      /\ held[ty] = t <=> NeedsType(t, ty)
  BY <1>1, WriterFacts
<1>3. PICK k \in Room : k = j.room
  BY <1>2 DEF Complete
<1>4. PICK r \in tx[t].rs : Commit(t, room, [res EXCEPT ![r].room = k], blocks)
  BY <1>3 DEF AssignWrite
<1>5. r \in Res /\ k \in Room \union {None}
  BY <1>2
<1>6. PICK v \in Reservation : /\ [res EXCEPT ![r].room = k] = [res EXCEPT ![r] = v]
                               /\ v.room = k /\ v.status = res[r].status /\ v.nights = res[r].nights
  BY <1>2, <1>5, RoomGiven
<1>7. room' = room /\ blocks' = blocks /\ res' = [res EXCEPT ![r] = v]
  BY <1>2, <1>4, <1>6, CommitEffect
<1>8. /\ v.status = "OPEN" /\ n \in v.nights /\ Takes(v, ty)
      /\ ~ (res[r].status = "OPEN" /\ n \in res[r].nights /\ Takes(res[r], ty))
      /\ Left(ty, n) >= 1 => Left(ty, n)' >= 0
  BY <1>2, <1>5, <1>7, StayLoss
<1>9. room[k] = ty /\ n \in res[r].nights /\ ~ Takes(res[r], ty)
  BY <1>6, <1>8, Kinds DEF Takes
<1>10. CASE held[ty] = t
  <2>1. tx[t].seen = ty /\ StillSeen(t)
    BY <1>2, <1>3, <1>9, <1>10 DEF NeedsType, StillSeen
  <2>2. Margin(t) => Left(ty, n) >= 1
    BY <1>2, <1>9, <2>1 DEF Margin, AssignMargin
  <2> QED BY <1>2, <1>8, <1>10, <2>2 DEF LossSound
<1>11. CASE held[ty] # t
  <2>1. tx[t].seen # ty
    BY <1>2, <1>3, <1>11, Kinds DEF NeedsType
  <2> QED BY <1>2, <1>3, <1>9, <1>11, <2>1 DEF LossSound, KnownLoss
<1> QED BY <1>10, <1>11

LEMMA UnassignLoss ==
    ASSUME IInv, SInv, MInv, NEW t \in Tx, UnassignWrite(t), ~ Refuse(t),
           NEW ty \in RoomType, NEW n \in Nights, Left(ty, n)' < Left(ty, n)
    PROVE  LossSound(t, ty, n)
<1> DEFINE j == tx[t].job
<1>1. Ready(t, "write", {"Unassign"})
  BY DEF UnassignWrite
<1>2. /\ TypeOK /\ RoomsKeptApart
      /\ tx[t].at = "write" /\ j.op = "Unassign" /\ tx[t].rs \subseteq Res
      /\ held[ty] = t <=> NeedsType(t, ty)
  BY <1>1, WriterFacts
<1>3. held[ty] # t
  BY <1>2 DEF NeedsType
<1>4. PICK r \in tx[t].rs : Commit(t, room, [res EXCEPT ![r].room = None], blocks)
  BY DEF UnassignWrite
<1>5. r \in Res /\ None \in Room \union {None}
  BY <1>2
<1>6. PICK v \in Reservation : /\ [res EXCEPT ![r].room = None] = [res EXCEPT ![r] = v]
                               /\ v.room = None /\ v.status = res[r].status
                               /\ v.type = res[r].type /\ v.nights = res[r].nights
  BY <1>2, <1>5, RoomGiven
<1>7. room' = room /\ blocks' = blocks /\ res' = [res EXCEPT ![r] = v]
  BY <1>2, <1>4, <1>6, CommitEffect
<1>8. /\ v.status = "OPEN" /\ n \in v.nights /\ Takes(v, ty)
      /\ ~ (res[r].status = "OPEN" /\ n \in res[r].nights /\ Takes(res[r], ty))
  BY <1>2, <1>5, <1>7, StayLoss
<1>9. res[r].type = ty /\ ~ Takes(res[r], ty)
  BY <1>6, <1>8 DEF Takes
<1>10. InForeignRoom(r)
  BY <1>9 DEF Takes, InForeignRoom
<1> QED BY <1>2, <1>3, <1>10 DEF LossSound, KnownLoss

LEMMA UpdateLoss ==
    ASSUME IInv, SInv, MInv, NEW t \in Tx, UpdateWrite(t), ~ Refuse(t),
           NEW ty \in RoomType, NEW n \in Nights, Left(ty, n)' < Left(ty, n)
    PROVE  LossSound(t, ty, n)
<1> DEFINE j == tx[t].job
<1>1. Ready(t, "write", {"Update"})
  BY DEF UpdateWrite
<1>2. /\ TypeOK /\ RoomsKeptApart /\ DecisionSound(t) /\ (unlockedLoss \/ Margin(t))
      /\ tx[t].at = "write" /\ j.op = "Update" /\ j \in Job /\ Complete(j) /\ tx[t].rs = j.rs /\ tx[t].rs \subseteq Res
      /\ held[ty] = t <=> NeedsType(t, ty)
  BY <1>1, WriterFacts
<1>3. PICK r \in tx[t].rs :
        Commit(t, room, [res EXCEPT ![r] = [Changed(r, j) EXCEPT !.room = IF tx[t].drop THEN None ELSE @]], blocks)
  BY DEF UpdateWrite
<1>4. tx[t].rs = {r} /\ r \in Res /\ res[r].status = "OPEN"
  BY <1>2 DEF Complete, DecisionSound
<1> DEFINE v == [Changed(r, j) EXCEPT !.room = IF tx[t].drop THEN None ELSE @]
<1>5. res[r] \in Reservation /\ j.type \in RoomType /\ j.nights \subseteq Nights
  BY <1>2, <1>4 DEF TypeOK, Job
<1>6. /\ Changed(r, j) \in Reservation /\ Changed(r, j).status = "OPEN" /\ Changed(r, j).type = j.type
      /\ Changed(r, j).nights = j.nights /\ Changed(r, j).room = res[r].room
  BY <1>4, <1>5 DEF Reservation, Changed
<1>7. /\ v \in Reservation /\ v.status = "OPEN" /\ v.type = j.type /\ v.nights = j.nights
      /\ v.room = IF tx[t].drop THEN None ELSE res[r].room
  BY <1>6 DEF Reservation
<1>8. Commit(t, room, [res EXCEPT ![r] = v], blocks)
  BY <1>3
<1> HIDE DEF v
<1>9. room' = room /\ blocks' = blocks /\ res' = [res EXCEPT ![r] = v]
  BY <1>2, <1>8, CommitEffect
<1>10. /\ n \in v.nights /\ Takes(v, ty)
       /\ ~ (res[r].status = "OPEN" /\ n \in res[r].nights /\ Takes(res[r], ty))
       /\ Left(ty, n) >= 1 => Left(ty, n)' >= 0
  BY <1>2, <1>4, <1>7, <1>9, StayLoss
<1>11. n \in j.nights /\ ~ (n \in res[r].nights /\ Takes(res[r], ty))
  BY <1>4, <1>7, <1>10
<1>12. held[ty] = t <=> Changed(r, j) # res[r] /\ ty \in {res[r].type, j.type}
  BY <1>2, <1>4 DEF NeedsType
<1>13. CASE res[r].room # None /\ ~ tx[t].drop
  <2>1. room[res[r].room] = ty /\ n \notin res[r].nights
    BY <1>7, <1>10, <1>11, <1>13 DEF Takes
  <2>2. Changed(r, j) # res[r]
    BY <1>6, <1>11, <2>1
  <2>3. CASE ty \in {res[r].type, j.type}
    <3>1. Margin(t) /\ ~ j.allowOverbooking => Left(ty, n) >= 1
      BY <1>2, <1>4, <1>11, <1>13, <2>1, <2>2, <2>3 DEF Margin, UpdateMargin
    <3> QED BY <1>2, <1>10, <1>12, <2>2, <2>3, <3>1 DEF LossSound
  <2>4. CASE ty \notin {res[r].type, j.type}
    <3>1. InForeignRoom(r)
      BY <1>13, <2>1, <2>4 DEF InForeignRoom
    <3> QED BY <1>2, <1>12, <2>4, <3>1 DEF LossSound, KnownLoss
  <2> QED BY <2>3, <2>4
<1>14. CASE ~ (res[r].room # None /\ ~ tx[t].drop)
  <2>1. v.room = None /\ ty = j.type
    BY <1>7, <1>10, <1>14 DEF Takes
  <2>2. CASE Changed(r, j) # res[r]
    <3>1. Margin(t) /\ ~ j.allowOverbooking => Left(ty, n) >= 1
      BY <1>2, <1>4, <1>11, <1>14, <2>1, <2>2 DEF Margin, UpdateMargin
    <3> QED BY <1>2, <1>10, <1>12, <2>1, <2>2, <3>1 DEF LossSound
  <2>3. CASE Changed(r, j) = res[r]
    <3>1. res[r].type = ty /\ ~ Takes(res[r], ty)
      BY <1>6, <1>11, <2>1, <2>3
    <3>2. InForeignRoom(r)
      BY <3>1 DEF Takes, InForeignRoom
    <3> QED BY <1>2, <1>12, <2>3, <3>2 DEF LossSound, KnownLoss
  <2> QED BY <2>2, <2>3
<1> QED BY <1>13, <1>14

LEMMA ReinstateLoss ==
    ASSUME IInv, SInv, MInv, NEW t \in Tx, ReinstateWrite(t), ~ Refuse(t),
           NEW ty \in RoomType, NEW n \in Nights, Left(ty, n)' < Left(ty, n)
    PROVE  LossSound(t, ty, n)
<1> DEFINE j == tx[t].job
<1>1. Ready(t, "write", {"Reinstate"})
  BY DEF ReinstateWrite
<1>2. /\ TypeOK /\ RoomsKeptApart /\ (unlockedLoss \/ Margin(t))
      /\ tx[t].at = "write" /\ j.op = "Reinstate" /\ Complete(j) /\ tx[t].rs = j.rs /\ tx[t].rs \subseteq Res
      /\ held[ty] = t <=> NeedsType(t, ty)
  BY <1>1, WriterFacts
<1>3. PICK r \in tx[t].rs :
        Commit(t, room, [res EXCEPT ![r].status = "OPEN", ![r].room = IF tx[t].drop THEN None ELSE @], blocks)
  BY DEF ReinstateWrite
<1>4. tx[t].rs = {r} /\ r \in Res
  BY <1>2 DEF Complete
<1> DEFINE v == [res[r] EXCEPT !.status = "OPEN", !.room = IF tx[t].drop THEN None ELSE @]
<1>5. res[r] \in Reservation
  BY <1>4, <1>2 DEF TypeOK
<1>6. /\ v \in Reservation /\ v.status = "OPEN" /\ v.type = res[r].type /\ v.nights = res[r].nights
      /\ v.room = IF tx[t].drop THEN None ELSE res[r].room
  BY <1>5 DEF Reservation
<1>7. [res EXCEPT ![r].status = "OPEN", ![r].room = IF tx[t].drop THEN None ELSE @] = [res EXCEPT ![r] = v]
  BY <1>2, <1>4, <1>5 DEF TypeOK, Reservation
<1>8. Commit(t, room, [res EXCEPT ![r] = v], blocks)
  BY <1>3, <1>7
<1> HIDE DEF v
<1>9. room' = room /\ blocks' = blocks /\ res' = [res EXCEPT ![r] = v]
  BY <1>2, <1>8, CommitEffect
<1>10. /\ n \in v.nights /\ Takes(v, ty) /\ (Left(ty, n) >= 1 => Left(ty, n)' >= 0)
  BY <1>2, <1>4, <1>6, <1>9, StayLoss
<1>11. held[ty] = t <=> ty = res[r].type
  BY <1>2, <1>4 DEF NeedsType
<1>12. CASE ty = res[r].type
  <2>1. tx[t].drop \/ Takes(res[r], res[r].type)
    BY <1>6, <1>10, <1>12 DEF Takes
  <2>2. Margin(t) => Left(ty, n) >= 1
    BY <1>2, <1>4, <1>6, <1>10, <1>12, <2>1 DEF Margin, ReinstateMargin
  <2> QED BY <1>2, <1>10, <1>11, <1>12, <2>2 DEF LossSound
<1>13. CASE ty # res[r].type
  <2>1. InForeignRoom(r)
    BY <1>6, <1>10, <1>13 DEF Takes, InForeignRoom
  <2> QED BY <1>2, <1>4, <1>11, <1>13, <2>1 DEF LossSound, KnownLoss
<1> QED BY <1>12, <1>13

LEMMA CreateLoss ==
    ASSUME IInv, SInv, MInv, NEW t \in Tx, CreateWrite(t), ~ Refuse(t),
           NEW ty \in RoomType, NEW n \in Nights, Left(ty, n)' < Left(ty, n)
    PROVE  LossSound(t, ty, n)
<1> DEFINE j == tx[t].job
           rv == [r \in Res |-> IF r \in tx[t].rs THEN [Opened(tx[t].rs)[r] EXCEPT !.room = j.room]
                                ELSE Opened(tx[t].rs)[r]]
<1>1. Ready(t, "write", {"Create"}) /\ Commit(t, room, rv, blocks)
  BY DEF CreateWrite
<1>2. /\ TypeOK /\ RoomsKeptApart /\ (unlockedLoss \/ Margin(t))
      /\ tx[t].at = "write" /\ j.op = "Create" /\ j \in Job /\ Complete(j) /\ tx[t].rs = j.rs /\ tx[t].rs \subseteq Res
      /\ held[ty] = t <=> NeedsType(t, ty)
  BY <1>1, WriterFacts
<1>3. room' = room /\ blocks' = blocks /\ res' = rv
  BY <1>1, <1>2, CommitEffect
<1>4. \A r \in tx[t].rs : res[r].status = "NONE"
  BY <1>2 DEF IInv, CallSound, WriteSound
<1>5. /\ Cardinality(Asked(t, ty, n)) \in Nat /\ (Asked(t, ty, n) # {} => Cardinality(Asked(t, ty, n)) >= 1)
      /\ Left(ty, n) \in Int
      /\ Free(ty, n, room, Opened(tx[t].rs), blocks) = Left(ty, n) - Cardinality(Asked(t, ty, n))
  BY <1>2, <1>4, OpenedCount
<1>6. Margin(t) /\ ~ j.allowOverbooking /\ Asked(t, ty, n) # {} => Left(ty, n) >= Cardinality(Asked(t, ty, n))
  BY <1>2 DEF Margin, CreateMargin
<1>7. held[ty] = t <=> \/ \E r \in tx[t].rs : ty = Req[r].type
                       \/ j.room # None /\ ty = tx[t].seen
  BY <1>2 DEF NeedsType
<1>8. CASE j.room = None
  <2>1. rv = Opened(tx[t].rs)
    <3>1. \A r \in tx[t].rs : [Opened(tx[t].rs)[r] EXCEPT !.room = None] = Opened(tx[t].rs)[r]
      BY <1>2 DEF Opened
    <3> QED BY <1>8, <3>1 DEF Opened
  <2>2. Left(ty, n)' = Left(ty, n) - Cardinality(Asked(t, ty, n))
    BY <1>3, <1>5, <2>1 DEF Left
  <2>3. Asked(t, ty, n) # {}
    <3>1. Asked(t, ty, n) = {} => Cardinality(Asked(t, ty, n)) = 0
      BY FS_EmptySet
    <3> QED BY <1>5, <2>2, <3>1
  <2>4. held[ty] = t
    BY <1>7, <2>3 DEF Asked
  <2>5. Margin(t) /\ ~ j.allowOverbooking => Left(ty, n)' >= 0
    BY <1>5, <1>6, <2>2, <2>3
  <2> QED BY <1>2, <2>4, <2>5 DEF LossSound
<1>9. CASE j.room # None
  <2>1. PICK k \in Room : k = j.room
    BY <1>2, <1>9 DEF Job
  <2>2. PICK r \in Res : tx[t].rs = {r}
    BY <1>2, <1>9 DEF Complete
  <2> DEFINE v == [status |-> "OPEN", type |-> Req[r].type, room |-> k, nights |-> Req[r].nights]
  <2>3. Req[r].type \in RoomType /\ Req[r].nights \subseteq Nights
    BY InventoryAssumption
  <2>4. v \in Reservation /\ v.status = "OPEN" /\ v.room = k /\ v.nights = Req[r].nights
    BY <2>3 DEF Reservation
  <2>5. rv = [res EXCEPT ![r] = v]
    <3>1. \A q \in Res : rv[q] = IF q = r THEN v ELSE res[q]
      BY <2>1, <2>2 DEF Opened
    <3>2. [res EXCEPT ![r] = v] = [q \in Res |-> IF q = r THEN v ELSE res[q]]
      BY <1>2 DEF TypeOK
    <3> HIDE DEF v
    <3> QED BY <3>1, <3>2
  <2> HIDE DEF v, rv
  <2>6. res' = [res EXCEPT ![r] = v]
    BY <1>3, <2>5
  <2>7. n \in v.nights /\ Takes(v, ty) /\ (Left(ty, n) >= 1 => Left(ty, n)' >= 0)
    BY <1>2, <1>3, <2>4, <2>6, StayLoss
  <2>8. room[k] = ty /\ n \in Req[r].nights
    BY <2>4, <2>7, Kinds DEF Takes
  <2>9. CASE ty = Req[r].type
    <3>1. Asked(t, ty, n) # {}
      BY <2>2, <2>8, <2>9 DEF Asked
    <3>2. Margin(t) /\ ~ j.allowOverbooking => Left(ty, n) >= 1
      BY <1>5, <1>6, <3>1
    <3> QED BY <1>2, <1>7, <2>2, <2>7, <2>9, <3>2 DEF LossSound
  <2>10. CASE ty # Req[r].type /\ ty = tx[t].seen
    <3>1. StillSeen(t)
      BY <2>1, <2>8, <2>10 DEF StillSeen
    <3>2. Margin(t) => Left(ty, n) >= 1
      BY <1>2, <1>9, <2>2, <2>8, <2>10, <3>1 DEF Margin, CreateMargin
    <3> QED BY <1>2, <1>7, <1>9, <2>7, <2>10, <3>2 DEF LossSound
  <2>11. CASE ty # Req[r].type /\ ty # tx[t].seen
    BY <1>2, <1>7, <2>1, <2>2, <2>8, <2>11 DEF LossSound, KnownLoss
  <2> QED BY <2>9, <2>10, <2>11
<1> QED BY <1>8, <1>9

LEMMA CancelLoss ==
    ASSUME IInv, SInv, MInv, NEW t \in Tx, CancelWrite(t), ~ Refuse(t),
           NEW ty \in RoomType, NEW n \in Nights
    PROVE  Left(ty, n) <= Left(ty, n)'
<1> DEFINE rv == [r \in Res |-> IF r \in tx[t].rs THEN [res[r] EXCEPT !.status = "CLOSED"] ELSE res[r]]
<1>1. Commit(t, room, rv, blocks) /\ TypeOK
  BY DEF CancelWrite, IInv
<1>2. room' = room /\ blocks' = blocks /\ res' = rv
  BY <1>1, CommitEffect
<1>3. \A r \in Res : rv[r] = res[r] \/ rv[r].status = "CLOSED"
  BY <1>1 DEF TypeOK, Reservation
<1> HIDE DEF rv
<1>4. RoomsFree(ty, n, room, res, blocks) \subseteq RoomsFree(ty, n, room, rv, blocks)
  BY <1>3 DEF RoomsFree, Occupies
<1>5. StaysWaiting(ty, n, rv) \subseteq StaysWaiting(ty, n, res)
  BY <1>3 DEF StaysWaiting
<1>6. Free(ty, n, room, res, blocks) <= Free(ty, n, room, rv, blocks)
  BY <1>4, <1>5, NoLoss
<1> QED BY <1>2, <1>6 DEF Left

LEMMA BlockLoss ==
    ASSUME IInv, SInv, MInv, NEW t \in Tx, BlockWrite(t) \/ UnblockWrite(t), ~ Refuse(t),
           NEW ty \in RoomType, NEW n \in Nights, Left(ty, n)' < Left(ty, n)
    PROVE  LossSound(t, ty, n)
<1> DEFINE j == tx[t].job
<1>1. Ready(t, "write", {"Block", "Unblock"})
  BY DEF BlockWrite, UnblockWrite, Ready
<1>2. /\ TypeOK /\ (unlockedLoss \/ Margin(t))
      /\ tx[t].at = "write" /\ j.op \in {"Block", "Unblock"} /\ Complete(j)
      /\ held[ty] = t <=> NeedsType(t, ty)
  BY <1>1, WriterFacts
<1>3. PICK k \in Room : k = j.room
  BY <1>2 DEF Complete
<1>4. PICK bl : /\ Commit(t, room, res, bl)
                /\ bl = (IF BlockWrite(t) THEN blocks \union {NewBlock(j)} ELSE blocks \ {NewBlock(j)})
  BY DEF BlockWrite, UnblockWrite
<1>5. room' = room /\ res' = res /\ blocks' = bl
  BY <1>2, <1>4, CommitEffect
<1>6. NewBlock(j).room = k /\ NewBlock(j).kind = j.kind /\ NewBlock(j).nights = j.nights
  BY <1>3 DEF NewBlock
<1>7. \A q \in Room \ {k} :
          /\ room'[q] = room[q]
          /\ (\E b \in blocks' : OutOfOrder(b, q, n)) <=> \E b \in blocks : OutOfOrder(b, q, n)
  <2>1. \A b \in bl : b \in blocks \/ b = NewBlock(j)
    BY <1>4
  <2>2. \A b \in blocks : b \in bl \/ b = NewBlock(j)
    BY <1>4
  <2>3. \A q \in Room \ {k} : ~ OutOfOrder(NewBlock(j), q, n)
    BY <1>6 DEF OutOfOrder
  <2> QED BY <1>5, <2>1, <2>2, <2>3
<1>8. /\ room[k] = ty /\ ~ Useless(k, n)
      /\ room'[k] # ty \/ \E b \in blocks' : OutOfOrder(b, k, n)
      /\ Left(ty, n) >= 1 => Left(ty, n)' >= 0
  BY <1>5, <1>7, RoomLoss
<1>9. PICK b \in bl : OutOfOrder(b, k, n) /\ b \notin blocks
  BY <1>5, <1>8 DEF Useless
<1>10. BlockWrite(t) /\ b = NewBlock(j)
  BY <1>4, <1>9
<1>11. j.op = "Block" /\ j.kind = "OUT_OF_ORDER" /\ n \in j.nights
  BY <1>6, <1>9, <1>10 DEF BlockWrite, Ready, OutOfOrder
<1>12. held[ty] = t <=> ty = tx[t].seen
  BY <1>2, <1>11 DEF NeedsType
<1>13. CASE ty = tx[t].seen
  <2>1. StillSeen(t)
    BY <1>3, <1>8, <1>13 DEF StillSeen
  <2>2. Margin(t) => Left(ty, n) >= 1
    BY <1>2, <1>3, <1>8, <1>11, <1>13, <2>1 DEF Margin, BlockMargin
  <2> QED BY <1>2, <1>8, <1>12, <1>13, <2>2 DEF LossSound
<1>14. CASE ty # tx[t].seen
  BY <1>2, <1>3, <1>8, <1>11, <1>12, <1>14 DEF LossSound, KnownLoss
<1> QED BY <1>13, <1>14

LEMMA WithdrawLoss ==
    ASSUME IInv, SInv, MInv, NEW t \in Tx, ChangeTypeWrite(t) \/ DeleteRoomWrite(t), ~ Refuse(t),
           NEW ty \in RoomType, NEW n \in Nights, Left(ty, n)' < Left(ty, n)
    PROVE  LossSound(t, ty, n)
<1> DEFINE j == tx[t].job
<1>1. Ready(t, "write", {"ChangeType", "DeleteRoom"})
  BY DEF ChangeTypeWrite, DeleteRoomWrite, Ready
<1>2. /\ TypeOK /\ DecisionSound(t) /\ (unlockedLoss \/ Margin(t))
      /\ tx[t].at = "write" /\ j.op \in {"ChangeType", "DeleteRoom"} /\ Complete(j)
      /\ held[ty] = t <=> NeedsType(t, ty)
  BY <1>1, WriterFacts
<1>3. PICK k \in Room : k = j.room
  BY <1>2 DEF Complete
<1>4. /\ res' = res
      /\ \A q \in Room \ {k} :
             /\ room'[q] = room[q]
             /\ (\E b \in blocks' : OutOfOrder(b, q, n)) <=> \E b \in blocks : OutOfOrder(b, q, n)
      /\ (\E b \in blocks' : OutOfOrder(b, k, n)) => Useless(k, n)
      /\ j.op = "ChangeType" => room'[k] = j.type
  <2>1. CASE ChangeTypeWrite(t)
    <3>1. Commit(t, [room EXCEPT ![k] = j.type], res, blocks)
      BY <1>3, <2>1 DEF ChangeTypeWrite
    <3>2. room' = [room EXCEPT ![k] = j.type] /\ res' = res /\ blocks' = blocks
      BY <1>2, <3>1, CommitEffect
    <3> QED BY <1>2, <3>2 DEF TypeOK, Useless
  <2>2. CASE DeleteRoomWrite(t)
    <3>1. Commit(t, WithoutRoom(k), res, {b \in blocks : b.room # k}) /\ j.op = "DeleteRoom"
      BY <1>3, <2>2 DEF DeleteRoomWrite, Ready
    <3>2. room' = WithoutRoom(k) /\ res' = res /\ blocks' = {b \in blocks : b.room # k}
      BY <1>2, <3>1, CommitEffect
    <3>3. \A q \in Room \ {k} : room'[q] = room[q]
      BY <1>2, <3>2 DEF TypeOK, WithoutRoom
    <3>4. \A q \in Room \ {k} : (\E b \in blocks' : OutOfOrder(b, q, n)) <=> \E b \in blocks : OutOfOrder(b, q, n)
      BY <3>2 DEF OutOfOrder
    <3> QED BY <3>1, <3>2, <3>3, <3>4 DEF Useless
  <2> QED BY <2>1, <2>2
<1>5. /\ room[k] = ty /\ ~ Useless(k, n)
      /\ room'[k] # ty \/ \E b \in blocks' : OutOfOrder(b, k, n)
      /\ Left(ty, n) >= 1 => Left(ty, n)' >= 0
  BY <1>4, RoomLoss
<1>6. ty = tx[t].seen => held[ty] = t
  BY <1>2 DEF NeedsType
<1>7. j.op = "ChangeType" => ty = tx[t].seen /\ j.type # ty
  <2> SUFFICES ASSUME j.op = "ChangeType" PROVE ty = tx[t].seen /\ j.type # ty
    OBVIOUS
  <2>1. PICK v \in 0..version[k] :
            /\ tx[t].form = {<<k, v>>}
            /\ tx[t].at # "retry" /\ version[k] = v => room[k] = tx[t].seen
    BY <1>2, <1>3 DEF DecisionSound, Active
  <2>2. ~ Stale(t)
    BY <1>2 DEF IInv, CallSound, WriteSound
  <2>3. version[k] = v
    BY <2>1, <2>2 DEF Stale
  <2> QED BY <1>2, <1>4, <1>5, <2>1, <2>3
<1>8. CASE ty = tx[t].seen
  <2>1. StillSeen(t)
    BY <1>3, <1>5, <1>8 DEF StillSeen
  <2>2. Margin(t) => Left(ty, n) >= 1
    BY <1>2, <1>3, <1>5, <1>7, <1>8, <2>1 DEF Margin, WithdrawMargin
  <2> QED BY <1>2, <1>5, <1>6, <1>8, <2>2 DEF LossSound
<1>9. CASE ty # tx[t].seen
  <2>1. j.op = "DeleteRoom"
    BY <1>2, <1>7, <1>9
  <2>2. held[ty] # t
    BY <1>2, <1>9, <2>1 DEF NeedsType
  <2> QED BY <1>2, <1>3, <1>5, <1>9, <2>1, <2>2 DEF LossSound, KnownLoss
<1> QED BY <1>8, <1>9

\* A room that is new takes nothing away.
LEMMA CreateRoomLoss ==
    ASSUME IInv, SInv, MInv, NEW t \in Tx, CreateRoomWrite(t), ~ Refuse(t),
           NEW ty \in RoomType, NEW n \in Nights
    PROVE  Left(ty, n) <= Left(ty, n)'
<1> DEFINE j == tx[t].job
           k == j.room
           rm == [room EXCEPT ![k] = j.type]
<1>1. TypeOK /\ room[k] = "ABSENT" /\ Commit(t, rm, res, blocks)
  BY DEF CreateRoomWrite, IInv
<1>2. room' = rm /\ res' = res /\ blocks' = blocks
  BY <1>1, CommitEffect
<1>3. \A q \in Room : room[q] = ty => rm[q] = ty
  BY <1>1, Kinds DEF TypeOK
<1> HIDE DEF rm
<1>4. RoomsFree(ty, n, room, res, blocks) \subseteq RoomsFree(ty, n, rm, res, blocks)
  BY <1>3 DEF RoomsFree
<1>5. Free(ty, n, room, res, blocks) <= Free(ty, n, rm, res, blocks)
  BY <1>4, NoLoss
<1> QED BY <1>2, <1>5 DEF Left

\* Every commit: a type is lost only as it may be.
LEMMA MoveLoss ==
    ASSUME IInv, SInv, MInv, NEW t \in Tx, Begin(t) \/ Step(t),
           NEW ty \in RoomType, NEW n \in Nights, Left(ty, n)' < Left(ty, n)
    PROVE  LossSound(t, ty, n) /\ Finish(t) /\ Touches(t)
<1>1. ~ Quiet
  <2>1. Quiet => Left(ty, n)' = Left(ty, n)
    BY DEF Quiet, Left
  <2> QED BY <2>1, LeftIsInt
<1>2. Writes(t) /\ Touches(t) /\ Finish(t)
  BY <1>1, MoveShape DEF Writes
<1>3. ~ Refuse(t)
  BY <1>1 DEF Refuse, Quiet
<1>4. ~ (Left(ty, n) <= Left(ty, n)')
  BY LeftIsInt
<1>5. CASE CreateWrite(t) \/ AssignWrite(t) \/ UnassignWrite(t) \/ UpdateWrite(t) \/ ReinstateWrite(t)
  BY <1>2, <1>3, <1>5, CreateLoss, AssignLoss, UnassignLoss, UpdateLoss, ReinstateLoss
<1>6. CASE BlockWrite(t) \/ UnblockWrite(t) \/ ChangeTypeWrite(t) \/ DeleteRoomWrite(t)
  BY <1>2, <1>3, <1>6, BlockLoss, WithdrawLoss
<1>7. CASE CancelWrite(t) \/ CreateRoomWrite(t)
  BY <1>3, <1>4, <1>7, CancelLoss, CreateRoomLoss
<1>8. CASE Begin(t)
  <2>1. TypeOK /\ HeldExists /\ CallSound(t)
    BY DEF IInv
  <2> QED BY <1>1, <1>8, <2>1, BeginSound DEF StepSound
<1>9. CASE \/ LockRow(t) \/ DeadlockAbort(t) \/ CreateCheck(t) \/ PlaceCheck(t)
           \/ AssignRead(t) \/ UnassignRead(t)
           \/ UpdateRead(t) \/ UpdateCheck(t) \/ CancelRead(t) \/ ReinstateRead(t) \/ ReinstateCheck(t)
           \/ BlockCheck(t) \/ UnblockCheck(t) \/ ChangeTypeCheck(t) \/ DeleteRoomCheck(t)
  <2>1. TypeOK /\ HeldExists /\ CallSound(t)
    BY DEF IInv
  <2> QED BY <1>1, <1>9, <2>1, LockSound, DeadlockSound, CreateSound, PlaceSound, PlacingSound, ChangingSound,
       DecidingSound, RoomChecksSound DEF StepSound
<1> QED BY <1>5, <1>6, <1>7, <1>8, <1>9 DEF Step

-----------------------------------------------------------------------------
(* Overbooking *)

\* The locks and the margins hold in every state.
LEMMA MarginsHold == Spec => [](IInv /\ SInv /\ MInv)
<1>1. Init => IInv /\ SInv /\ MInv
  BY IInvInit, SInvInit, MInvInit
<1>2. IInv /\ SInv /\ MInv /\ [Next]_vars => (IInv /\ SInv /\ MInv)'
  BY IInvStep, SInvStep, MInvStep
<1> QED BY <1>1, <1>2, PTL DEF Spec

\* A call that loses a type was at its write, and has ended.
LEMMA LosersCommit ==
    ASSUME TypeOK, NEW t \in Tx, Finish(t), tx[t].at = "write"
    PROVE  Commits(t)
BY DEF Finish, NoCall, TypeOK, Commits

LEMMA LossIsKnown ==
    ASSUME IInv, SInv, MInv, [Next]_vars, unlockedLoss' # unlockedLoss
    PROVE  \E t \in Tx : Commits(t) /\ KnownLoss(t)
<1>1. PICK t \in Tx : Begin(t) \/ Step(t)
  BY DEF Next, AllDone, vars
<1>2. TypeOK /\ Touches(t)
  <2>1. ~ Quiet
    BY DEF Quiet
  <2>2. TypeOK
    BY DEF IInv
  <2>3. Quiet \/ (Writes(t) /\ Touches(t))
    BY <1>1, MoveShape
  <2> QED BY <2>1, <2>2, <2>3
<1>3. LosesUnlocked(t, room', res', blocks')
  <2>1. unlockedLoss' = (unlockedLoss \/ LosesUnlocked(t, room', res', blocks'))
    BY <1>2 DEF Touches
  <2>2. unlockedLoss = TRUE \/ unlockedLoss = FALSE
    BY <1>2 DEF TypeOK
  <2>3. CASE unlockedLoss = TRUE
    <3>1. unlockedLoss' = TRUE
      BY <2>1, <2>3, Zenon
    <3> QED BY <2>3, <3>1, Zenon
  <2>4. CASE unlockedLoss = FALSE
    BY <2>1, <2>4, Zenon
  <2> QED BY <2>2, <2>3, <2>4, Zenon
<1>4. PICK ty \in RoomType, n \in Nights : Left(ty, n)' < Left(ty, n) /\ held[ty] # t
  BY <1>3 DEF LosesUnlocked, Left
<1>5. LossSound(t, ty, n) /\ Finish(t)
  BY <1>1, <1>4, MoveLoss
<1> QED BY <1>2, <1>4, <1>5, LosersCommit DEF LossSound

LEMMA OverbookingStep ==
    ASSUME IInv, SInv, MInv, [Next]_vars, NEW ty \in RoomType, NEW n \in Nights,
           Left(ty, n)' < 0, Left(ty, n)' < Left(ty, n), ~ unlockedLoss'
    PROVE  \E t \in Tx : Commits(t) /\ tx[t].job.allowOverbooking
<1>1. PICK t \in Tx : Begin(t) \/ Step(t)
  <2>1. UNCHANGED vars => Left(ty, n)' = Left(ty, n)
    BY DEF vars, Left
  <2> QED BY <2>1, LeftIsInt DEF Next, AllDone
<1>2. LossSound(t, ty, n) /\ Finish(t) /\ Touches(t) /\ TypeOK
  BY <1>1, MoveLoss DEF IInv
<1>3. ~ unlockedLoss /\ held[ty] = t
  BY <1>2 DEF Touches, LosesUnlocked, Left
<1>4. Left(ty, n)' \in Int
  BY LeftIsInt
<1>5. tx[t].job.allowOverbooking
  BY <1>2, <1>3, <1>4 DEF LossSound
<1> QED BY <1>2, <1>5, LosersCommit DEF LossSound

-----------------------------------------------------------------------------
(* What was found free is free at the write *)

\* Nobody else is in the room on these nights, and no record blocks it.
RoomFree(k, r, nights) ==
    \A n \in nights :
        /\ \A q \in Res \ {r} : ~ Occupies(res[q], k, n)
        /\ \A b \in blocks : b.room = k => n \notin b.nights

Placing == {"Create", "Assign", "AutoAssign"}

\* A call that has checked a room of the type it still has, or a room to block.
PlaceFree(t) ==
    LET j == tx[t].job
    IN  tx[t].at = "write" /\ j.op \in Placing /\ j.room # None /\ StillSeen(t) =>
            \A r \in tx[t].rs :
                RoomFree(j.room, r, IF j.op = "Create" THEN Req[r].nights ELSE res[r].nights)

BlockFree(t) ==
    LET j == tx[t].job
    IN  tx[t].at = "write" /\ j.op = "Block" =>
            \A r \in Res : \A n \in j.nights : ~ Occupies(res[r], j.room, n)

FreeSound(t) ==
    LET j == tx[t].job
    IN  /\ tx[t].at = "write" /\ j.op \in Placing => tx[t].want = {}
        /\ tx[t].at \in {"place", "write"} /\ j.op \in Placing /\ j.room # None => tx[t].seen \in RoomType
        /\ PlaceFree(t)
        /\ BlockFree(t)

FInv == \A t \in Tx : FreeSound(t)

\* A room that call u holds takes no guest, and no stay in it changes, by
\* another call.
LEMMA GuestsStay ==
    ASSUME IInv, SInv, NEW t \in Tx, Begin(t) \/ Step(t), NEW u \in Tx, u # t,
           NEW k \in Room, held[k] = u, NEW r \in Res, res'[r].status = "OPEN", res'[r].room = k
    PROVE  res'[r] = res[r]
<1>1. k \in Row /\ k # None /\ u # None
  BY InventoryAssumption DEF Row
<1>2. room[k] # "DELETED"
  BY <1>1, InventoryAssumption DEF IInv, HeldExists, RowExists
<1>3. Quiet \/ Touches(t)
  BY MoveShape
<1> QED BY <1>1, <1>2, <1>3 DEF Quiet, Touches

\* What another call does leaves a room free that call u holds.
LEMMA FreeStays ==
    ASSUME IInv, SInv, NEW t \in Tx, Begin(t) \/ Step(t), NEW u \in Tx, u # t,
           NEW k \in Room, held[k] = u, NEW r, NEW nights, RoomFree(k, r, nights)
    PROVE  RoomFree(k, r, nights)'
<1>1. TypeOK /\ TypeOK'
  BY StepTypes DEF IInv, CallSound, Next
<1>2. \A q \in Res : \A n : Occupies(res'[q], k, n) => Occupies(res[q], k, n)
  BY GuestsStay DEF Occupies
<1>3. \A b \in Block : b.room = k => (b \in blocks' <=> b \in blocks)
  BY MoveRespects DEF Respects
<1>4. blocks' \subseteq Block
  BY <1>1 DEF TypeOK
<1> QED BY <1>2, <1>3, <1>4 DEF RoomFree

LEMMA OthersFree ==
    ASSUME IInv, SInv, NEW t \in Tx, Begin(t) \/ Step(t), NEW u \in Tx, u # t, FreeSound(u)
    PROVE  FreeSound(u)'
<1> DEFINE j == tx[u].job
<1>1. /\ Respects(u) /\ TypeOK /\ CallSound(u) /\ AsksSound(u) /\ DecisionSound(u)
      /\ tx[u].rs \subseteq Res /\ (tx[u].at \in Active => j \in Job /\ Complete(j))
  <2>1. Respects(u) /\ TypeOK /\ CallSound(u) /\ AsksSound(u) /\ DecisionSound(u)
    BY MoveRespects DEF IInv, SInv
  <2> QED BY <2>1, JobFacts DEF TypeOK, Call, CallSound, JobSound
<1>2. tx'[u] = tx[u]
  BY <1>1 DEF Respects
<1>3. PlaceFree(u)'
  <2> SUFFICES ASSUME tx[u].at = "write", j.op \in Placing, j.room # None, StillSeen(u)', NEW r \in tx[u].rs
               PROVE  RoomFree(j.room, r, IF j.op = "Create" THEN Req[r].nights ELSE res[r].nights)'
    BY <1>2 DEF PlaceFree
  <2>1. j.room \in Room /\ r \in Res
    BY <1>1 DEF Job, Active
  <2>2. tx[u].want = {} /\ tx[u].seen \in RoomType
    BY DEF FreeSound
  <2>3. held[tx[u].seen] = u
    <3>1. NeedsType(u, tx[u].seen)
      BY DEF NeedsType, Placing
    <3> QED BY <1>1, <2>2, <3>1, HeldTypes
  <2>4. room'[j.room] = tx[u].seen
    BY <1>2 DEF StillSeen
  <2>5. StillSeen(u)
    BY <1>1, <2>1, <2>2, <2>3, <2>4 DEF StillSeen, Respects
  <2>6. held[j.room] = u
    <3>1. NeedsRoom(u, j.room)
      BY DEF NeedsRoom, Placing
    <3>2. room[j.room] # "DELETED"
      BY <2>2, <2>5, InventoryAssumption DEF StillSeen
    <3> QED BY <1>1, <2>1, <2>2, <3>1, <3>2, RoomAskedFor
  <2>7. RoomFree(j.room, r, IF j.op = "Create" THEN Req[r].nights ELSE res[r].nights)
    BY <2>5 DEF FreeSound, PlaceFree
  <2>8. j.op # "Create" => res'[r] = res[r]
    <3>1. j.op # "Create" => Written(j, tx[u].rs) = tx[u].rs
      BY DEF Written, Placing
    <3> QED BY <1>1, <2>1, <3>1 DEF CallSound, WriteSound, Respects
  <2> DEFINE nights == IF j.op = "Create" THEN Req[r].nights ELSE res[r].nights
  <2>9. PICK ns : ns = nights
    OBVIOUS
  <2>10. RoomFree(j.room, r, ns)
    BY <2>7, <2>9
  <2>11. PICK k \in Room : k = j.room
    BY <2>1
  <2>12. RoomFree(k, r, ns)'
    BY <2>6, <2>10, <2>11, FreeStays
  <2>13. ns = IF j.op = "Create" THEN Req[r].nights ELSE res'[r].nights
    BY <2>8, <2>9
  <2> QED BY <1>2, <2>11, <2>12, <2>13 DEF RoomFree
<1>4. BlockFree(u)'
  <2> SUFFICES ASSUME tx[u].at = "write", j.op = "Block", NEW r \in Res, NEW n \in j.nights
               PROVE  ~ Occupies(res'[r], j.room, n)
    BY <1>2 DEF BlockFree
  <2>1. j.room \in Room /\ held[j.room] = u
    BY <1>1 DEF Complete, DecisionSound, Active
  <2>2. ~ Occupies(res[r], j.room, n)
    BY DEF FreeSound, BlockFree
  <2>3. res'[r].status = "OPEN" /\ res'[r].room = j.room => res'[r] = res[r]
    BY <2>1, GuestsStay
  <2> QED BY <2>2, <2>3 DEF Occupies
<1> QED BY <1>2, <1>3, <1>4 DEF FreeSound

\* A room found usable for a stay, by its own type, is free for it.
LEMMA UsableIsFree ==
    ASSUME TypeOK, NEW r \in Res, NEW rv \in [Res -> Reservation], NEW k \in Room, NEW fits,
           RoomUsable(r, rv[r], k, room[k], fits, rv), \A q \in Res \ {r} : rv[q] = res[q]
    PROVE  RoomFree(k, r, rv[r].nights)
<1>1. \A b \in blocks : b.room = k => b.nights \intersect rv[r].nights = {}
  BY DEF RoomUsable
<1>2. \A q \in Res \ {r} : res[q].status = "OPEN" /\ res[q].room = k
                              => res[q].nights \intersect rv[r].nights = {}
  BY DEF RoomUsable
<1> QED BY <1>1, <1>2 DEF RoomFree, Occupies

LEMMA PlaceIsFree ==
    ASSUME TypeOK, NEW t \in Tx, CallSound(t), FreeSound(t), PlaceCheck(t), ~ Refuse(t)
    PROVE  FreeSound(t)'
<1> DEFINE j == tx[t].job
<1>1. Ready(t, "place", {"Create", "Assign", "AutoAssign"}) /\ GoOn(t, "write", {})
  BY DEF PlaceCheck
<1>2. /\ tx[t].at = "place" /\ j.op \in {"Create", "Assign", "AutoAssign"} /\ j \in Job /\ Complete(j)
      /\ tx[t].rs = j.rs /\ tx[t].rs \subseteq Res
  BY <1>1, ReadyCall DEF CallSound, Active
<1>3. /\ tx'[t].at = "write" /\ tx'[t].want = {} /\ tx'[t].job = j /\ tx'[t].rs = tx[t].rs /\ tx'[t].seen = tx[t].seen
      /\ UNCHANGED <<room, version, res, blocks, held, unlockedLoss>>
  BY <1>1, GoOnFields
<1> DEFINE rv == IF j.op = "Create" THEN Opened(tx[t].rs) ELSE res
<1>4. PICK r \in tx[t].rs : RoomUsable(r, rv[r], j.room, tx[t].seen, j.fitsCapacity, rv)
  BY DEF PlaceCheck
<1>5. rv \in [Res -> Reservation]
  BY OpenedTypes DEF TypeOK
<1>6. j.room # None => j.room \in Room /\ tx[t].rs = {r}
  BY <1>2, <1>4 DEF Job, Complete
<1>7. j.room # None => \A q \in Res \ {r} : rv[q] = res[q]
  BY <1>6 DEF Opened
<1>8. rv[r].nights = IF j.op = "Create" THEN Req[r].nights ELSE res[r].nights
  BY <1>2, <1>4 DEF Opened
<1>9. j.room # None /\ StillSeen(t) => RoomFree(j.room, r, rv[r].nights)
  <2> SUFFICES ASSUME j.room # None, StillSeen(t) PROVE RoomFree(j.room, r, rv[r].nights)
    OBVIOUS
  <2> HIDE DEF rv
  <2>1. PICK k \in Room, fits \in {j.fitsCapacity} : k = j.room /\ fits = j.fitsCapacity
    BY <1>6
  <2>2. RoomUsable(r, rv[r], k, room[k], fits, rv)
    BY <1>4, <2>1 DEF StillSeen
  <2>3. RoomFree(k, r, rv[r].nights)
    BY <1>2, <1>5, <1>7, <2>2, UsableIsFree
  <2> QED BY <2>1, <2>3
<1>10. PlaceFree(t)'
  <2> SUFFICES ASSUME j.room # None, StillSeen(t)', NEW q \in tx[t].rs
               PROVE  RoomFree(j.room, q, IF j.op = "Create" THEN Req[q].nights ELSE res[q].nights)'
    BY <1>3 DEF PlaceFree
  <2>1. StillSeen(t)
    BY <1>3 DEF StillSeen
  <2>2. RoomFree(j.room, q, IF j.op = "Create" THEN Req[q].nights ELSE res[q].nights)
    BY <1>6, <1>8, <1>9, <2>1
  <2> QED BY <1>3, <2>2 DEF RoomFree
<1>11. BlockFree(t)'
  BY <1>2, <1>3 DEF BlockFree
<1>12. j.room # None => tx[t].seen \in RoomType
  BY <1>2 DEF FreeSound, Placing
<1> QED BY <1>2, <1>3, <1>10, <1>11, <1>12 DEF FreeSound

LEMMA BlockIsFree ==
    ASSUME TypeOK, NEW t \in Tx, BlockCheck(t), ~ Refuse(t)
    PROVE  FreeSound(t)'
<1>1. tx[t].job.op = "Block" /\ GoOn(t, "write", {})
      /\ \A r \in Res, n \in tx[t].job.nights : ~ Occupies(res[r], tx[t].job.room, n)
  BY DEF BlockCheck, Ready
<1>2. /\ tx'[t].at = "write" /\ tx'[t].job = tx[t].job
      /\ UNCHANGED <<room, version, res, blocks, held, unlockedLoss>>
  BY <1>1, GoOnFields
<1>3. BlockFree(t)'
  BY <1>1, <1>2 DEF BlockFree
<1> QED BY <1>1, <1>2, <1>3 DEF FreeSound, Placing, PlaceFree

LEMMA CreateIsFree ==
    ASSUME TypeOK, NEW t \in Tx, CreateCheck(t), ~ Refuse(t)
    PROVE  FreeSound(t)'
<1>1. CASE tx[t].job.room = None /\ GoOn(t, "write", {})
  <2>1. tx'[t].want = {} /\ tx'[t].job = tx[t].job /\ tx[t].job.op = "Create"
    BY <1>1, GoOnFields DEF CreateCheck, Ready
  <2> QED BY <1>1, <2>1 DEF FreeSound, PlaceFree, BlockFree
<1>2. CASE ReadRoomThenLock(t, tx[t].job.room, {})
  <2>1. tx'[t].at = "place" /\ tx'[t].seen \in RoomType
    BY <1>2, ReadRoomFields
  <2> QED BY <2>1 DEF FreeSound, PlaceFree, BlockFree
<1> QED BY <1>1, <1>2 DEF CreateCheck

LEMMA AssignIsFree ==
    ASSUME TypeOK, NEW t \in Tx, AssignRead(t), ~ Refuse(t)
    PROVE  FreeSound(t)'
<1>1. PICK r \in tx[t].rs : ReadRoomThenLock(t, tx[t].job.room, {res[r].room} \ {None})
  BY DEF AssignRead
<1>2. tx'[t].at = "place" /\ tx'[t].seen \in RoomType
  BY <1>1, ReadRoomFields
<1> QED BY <1>2 DEF FreeSound, PlaceFree, BlockFree

LEMMA MoverFree ==
    ASSUME IInv, SInv, NEW t \in Tx, Begin(t) \/ Step(t), FreeSound(t)
    PROVE  FreeSound(t)'
<1>1. TypeOK /\ HeldExists /\ CallSound(t) /\ HotelSound /\ AsksSound(t) /\ DecisionSound(t)
  BY DEF IInv, SInv
<1>2. ASSUME \/ tx'[t].at \notin {"place", "write"}
             \/ tx'[t].job.op \notin Placing \union {"Block"}
      PROVE  FreeSound(t)'
  BY <1>2 DEF FreeSound, PlaceFree, BlockFree
<1>3. CASE Finish(t)
  <2>1. tx'[t].at = "done"
    BY <1>1, <1>3 DEF Finish, NoCall, TypeOK
  <2> QED BY <1>2, <2>1
<1>4. CASE Begin(t)
  <2>1. tx'[t].at \in {"done", "first"}
    BY <1>1, <1>4 DEF Begin, NoCall, TypeOK
  <2> QED BY <1>2, <2>1
<1>5. CASE LockRow(t)
  <2>1. PICK l \in tx[t].want : TRUE
    BY <1>5 DEF LockRow
  <2>2. /\ tx'[t].at = tx[t].at /\ tx'[t].job = tx[t].job /\ tx'[t].rs = tx[t].rs
        /\ tx'[t].seen = tx[t].seen /\ UNCHANGED <<room, res, blocks>>
    BY <1>1, <1>5 DEF LockRow, TypeOK, Call
  <2>3. ~ (tx[t].at = "write" /\ tx[t].job.op \in Placing)
    BY <2>1 DEF FreeSound
  <2>4. BlockFree(t)'
    BY <2>2 DEF FreeSound, BlockFree
  <2> QED BY <2>2, <2>3, <2>4 DEF FreeSound, PlaceFree
<1>6. CASE DeadlockAbort(t) /\ ~ Finish(t)
  <2>1. tx'[t].at = "retry"
    BY <1>1, <1>6 DEF DeadlockAbort, TypeOK, Call
  <2> QED BY <1>2, <2>1
<1>7. ASSUME ~ Finish(t) PROVE ~ Refuse(t) /\ \A rm, rv, bl : ~ Commit(t, rm, rv, bl)
  BY <1>7 DEF Refuse, Commit
<1>8. CASE ~ Finish(t) /\ (CreateCheck(t) \/ PlaceCheck(t) \/ AssignRead(t) \/ BlockCheck(t))
  BY <1>1, <1>7, <1>8, CreateIsFree, PlaceIsFree, AssignIsFree, BlockIsFree
<1>9. CASE ~ Finish(t) /\ (UnassignRead(t) \/ UpdateRead(t) \/ CancelRead(t) \/ ReinstateRead(t)
                           \/ UnblockCheck(t) \/ ChangeTypeCheck(t) \/ DeleteRoomCheck(t))
  <2>1. /\ \E step, want : GoOn(t, step, want)
        /\ tx[t].job.op \in {"Unassign", "Update", "Cancel", "CancelGroup", "Reinstate", "Unblock",
                             "ChangeType", "DeleteRoom"}
    BY <1>7, <1>9 DEF UnassignRead, UpdateRead, CancelRead, ReinstateRead, UnblockCheck, ChangeTypeCheck,
       DeleteRoomCheck, Ready
  <2>2. tx'[t].job = tx[t].job
    BY <1>1, <2>1, GoOnFields
  <2> QED BY <1>2, <2>1, <2>2 DEF Placing
<1>10. CASE ~ Finish(t) /\ (UpdateCheck(t) \/ ReinstateCheck(t))
  <2>1. /\ \E r, drop : GoOnWithRoom(t, r, drop)
        /\ tx[t].job.op \in {"Update", "Reinstate"}
    BY <1>7, <1>10 DEF UpdateCheck, ReinstateCheck, Ready
  <2>2. tx'[t].job = tx[t].job
    BY <1>1, <2>1, GoOnWithRoomFields
  <2> QED BY <1>2, <2>1, <2>2 DEF Placing
<1>11. ASSUME \/ CreateWrite(t) \/ AssignWrite(t) \/ UnassignWrite(t) \/ UpdateWrite(t) \/ CancelWrite(t)
              \/ ReinstateWrite(t) \/ BlockWrite(t) \/ UnblockWrite(t) \/ ChangeTypeWrite(t)
              \/ DeleteRoomWrite(t) \/ CreateRoomWrite(t)
       PROVE  Finish(t)
  BY <1>7, <1>11 DEF CreateWrite, AssignWrite, UnassignWrite, UpdateWrite, CancelWrite, ReinstateWrite,
     BlockWrite, UnblockWrite, ChangeTypeWrite, DeleteRoomWrite, CreateRoomWrite
<1> QED BY <1>3, <1>4, <1>5, <1>6, <1>8, <1>9, <1>10, <1>11 DEF Step

LEMMA FInvStep ==
    ASSUME IInv, SInv, FInv, [Next]_vars
    PROVE  FInv'
<1>1. ASSUME NEW t \in Tx, Begin(t) \/ Step(t), NEW u \in Tx PROVE FreeSound(u)'
  <2>1. FreeSound(t) /\ FreeSound(u)
    BY DEF FInv
  <2> QED BY <1>1, <2>1, MoverFree, OthersFree
<1>2. ASSUME UNCHANGED vars, NEW u \in Tx PROVE FreeSound(u)'
  <2>1. UNCHANGED <<room, version, res, blocks, held, tx>>
    BY <1>2 DEF vars
  <2> QED BY <2>1 DEF FInv, FreeSound, PlaceFree, BlockFree, StillSeen, RoomFree
<1> QED BY <1>1, <1>2 DEF Next, AllDone, FInv

LEMMA FInvInit ==
    ASSUME Init
    PROVE  FInv
<1>1. \A t \in Tx : tx[t].at = "idle"
  BY DEF Init, NoCall
<1> QED BY <1>1 DEF FInv, FreeSound, PlaceFree, BlockFree

-----------------------------------------------------------------------------
(* What the database refuses *)

\* Stays that end, or lose their room, are accepted.
LEMMA FewerStays ==
    ASSUME RoomsKeptApart, TypeOK, NEW rv, NEW bl \in SUBSET blocks,
           \A r \in Res : rv[r] = res[r] \/ rv[r].status # "OPEN" \/ rv[r].room = None
    PROVE  DbAccepts(rv, bl)
<1>1. ASSUME NEW r \in Res, NEW k \in Room, NEW n, Occupies(rv[r], k, n) PROVE Occupies(res[r], k, n)
  BY <1>1, Kinds DEF Occupies
<1>2. \A b \in bl : b \in blocks /\ b.room \in Room
  BY DEF TypeOK, Block
<1>3. \A r, q \in Res : \A k \in Room, n \in Nights : Occupies(rv[r], k, n) /\ Occupies(rv[q], k, n) => r = q
  BY <1>1 DEF RoomsKeptApart, DbAccepts
<1>4. \A r \in Res, b \in bl : \A n \in b.nights : ~ Occupies(rv[r], b.room, n)
  BY <1>1, <1>2 DEF RoomsKeptApart, DbAccepts
<1>5. \A b, c \in bl : b.room = c.room /\ b.nights \intersect c.nights # {} => b = c
  BY <1>2 DEF RoomsKeptApart, DbAccepts
<1> QED BY <1>3, <1>4, <1>5 DEF DbAccepts

\* A stay that comes to a free room is accepted.
LEMMA StayInFreeRoom ==
    ASSUME RoomsKeptApart, TypeOK, NEW rv, NEW s \in Res, NEW k \in Room, rv[s].room = k,
           RoomFree(k, s, rv[s].nights), \A q \in Res \ {s} : rv[q] = res[q]
    PROVE  DbAccepts(rv, blocks)
<1>1. ASSUME NEW r \in Res, NEW m \in Room, NEW n, Occupies(rv[r], m, n)
      PROVE  \/ r = s /\ m = k /\ n \in rv[s].nights
             \/ r # s /\ Occupies(res[r], m, n)
  BY <1>1 DEF Occupies
<1>2. \A b \in blocks : b.room \in Room
  BY DEF TypeOK, Block
<1>3. \A r, q \in Res : \A m \in Room, n \in Nights : Occupies(rv[r], m, n) /\ Occupies(rv[q], m, n) => r = q
  BY <1>1 DEF RoomsKeptApart, DbAccepts, RoomFree
<1>4. \A r \in Res, b \in blocks : \A n \in b.nights : ~ Occupies(rv[r], b.room, n)
  BY <1>1, <1>2 DEF RoomsKeptApart, DbAccepts, RoomFree
<1>5. \A b, c \in blocks : b.room = c.room /\ b.nights \intersect c.nights # {} => b = c
  BY DEF RoomsKeptApart, DbAccepts
<1> QED BY <1>3, <1>4, <1>5 DEF DbAccepts

\* A write that is not refused is seen in the version of a row.
LEMMA AcceptedIsSeen ==
    ASSUME TypeOK, NEW t \in Tx, NEW rm, NEW rv, NEW bl, Commit(t, rm, rv, bl), DbAccepts(rv, bl),
           UNCHANGED hotel
    PROVE  /\ bl = blocks
           /\ \A l \in Room \union Res : l \notin Written(tx[t].job, tx[t].rs)
<1>1. /\ blocks' = bl
      /\ version' = [l \in Room \union Res |-> IF l \in Written(tx[t].job, tx[t].rs) THEN version[l] + 1 ELSE version[l]]
  BY DEF Commit
<1>2. bl = blocks /\ version' = version
  BY <1>1 DEF hotel
<1>3. ASSUME NEW l \in Room \union Res, l \in Written(tx[t].job, tx[t].rs) PROVE FALSE
  <2>1. version[l] \in Nat
    BY DEF TypeOK
  <2>2. version[l] = version[l] + 1
    BY <1>1, <1>2, <1>3
  <2> QED BY <2>1, <2>2
<1> QED BY <1>2, <1>3

\* Why a write may be refused.
KnownRefusal(t) ==
    LET j == tx[t].job
    IN \/ /\ j.op = "Block"
          /\ \E b \in blocks : b.room = j.room /\ b.nights \intersect j.nights # {}
       \/ j.op \in Placing /\ tx[t].seen # room[j.room]
       \/ /\ j.op \in {"Update", "Reinstate"} /\ ~ tx[t].drop
          /\ \E r \in tx[t].rs : /\ res[r].room # None
                                 /\ j.op = "Update" => Changed(r, j) # res[r]

LEMMA PlacingAccepted ==
    ASSUME RoomsKeptApart, TypeOK, NEW t \in Tx, CallSound(t), FreeSound(t), WriteRefused(t),
           CreateWrite(t) \/ AssignWrite(t) \/ UnassignWrite(t)
    PROVE  KnownRefusal(t)
<1> DEFINE j == tx[t].job
<1>1. Ready(t, "write", {"Create", "Assign", "AutoAssign", "Unassign"})
  BY DEF CreateWrite, AssignWrite, UnassignWrite, Ready
<1>2. /\ tx[t].at = "write" /\ j.op \in {"Create", "Assign", "AutoAssign", "Unassign"} /\ j \in Job /\ Complete(j)
      /\ tx[t].rs = j.rs /\ tx[t].rs \subseteq Res
  BY <1>1, ReadyCall DEF CallSound, Active
<1>3. UNCHANGED hotel /\ \E l \in Room \union Res : l \in Written(j, tx[t].rs)
  BY <1>2 DEF WriteRefused, Written
<1>4. SUFFICES ASSUME j.op \in Placing => tx[t].seen = room[j.room]
               PROVE  FALSE
  BY DEF KnownRefusal
<1>5. j.op \in Placing /\ j.room # None => StillSeen(t)
  BY <1>2, <1>4 DEF FreeSound, StillSeen
<1>6. CASE CreateWrite(t)
  <2> DEFINE rv == [r \in Res |-> IF r \in tx[t].rs THEN [Opened(tx[t].rs)[r] EXCEPT !.room = j.room]
                                 ELSE Opened(tx[t].rs)[r]]
  <2>1. Commit(t, room, rv, blocks) /\ j.op = "Create"
    BY <1>6 DEF CreateWrite, Ready
  <2>2. \A r \in Res : IF r \in tx[t].rs THEN rv[r].room = j.room /\ rv[r].nights = Req[r].nights ELSE rv[r] = res[r]
    BY DEF Opened
  <2> HIDE DEF rv
  <2>3. CASE j.room = None
    <3>1. \A r \in Res : rv[r] = res[r] \/ rv[r].status # "OPEN" \/ rv[r].room = None
      BY <2>2, <2>3
    <3>2. DbAccepts(rv, blocks)
      BY <3>1, FewerStays
    <3> QED BY <1>3, <2>1, <3>2, AcceptedIsSeen
  <2>4. CASE j.room # None
    <3>1. PICK s \in Res : tx[t].rs = {s}
      BY <1>2, <2>1, <2>4 DEF Complete
    <3>2. PICK k \in Room : k = j.room
      BY <1>2, <2>4 DEF Job
    <3>3. RoomFree(j.room, s, Req[s].nights)
      BY <1>2, <1>5, <2>1, <2>4, <3>1 DEF FreeSound, PlaceFree, Placing
    <3>4. rv[s].room = k /\ rv[s].nights = Req[s].nights /\ \A q \in Res \ {s} : rv[q] = res[q]
      BY <2>2, <3>1, <3>2
    <3>5. RoomFree(k, s, rv[s].nights)
      BY <3>2, <3>3, <3>4
    <3>6. DbAccepts(rv, blocks)
      BY <3>4, <3>5, StayInFreeRoom
    <3> QED BY <1>3, <2>1, <3>6, AcceptedIsSeen
  <2> QED BY <2>3, <2>4
<1>7. CASE AssignWrite(t)
  <2>1. PICK s \in tx[t].rs : Commit(t, room, [res EXCEPT ![s].room = j.room], blocks)
    BY <1>7 DEF AssignWrite
  <2>2. j.op \in {"Assign", "AutoAssign"} /\ j.room \in Room /\ s \in Res
    BY <1>2, <1>7 DEF AssignWrite, Ready, Complete
  <2>3. PICK k \in Room \union {None} : k = j.room /\ k \in Room
    BY <2>2
  <2>4. PICK v \in Reservation : /\ [res EXCEPT ![s].room = k] = [res EXCEPT ![s] = v]
                                 /\ v.room = k /\ v.nights = res[s].nights
    <3>1. s \in Res
      BY <2>2
    <3>2. \E v \in Reservation :
               /\ [res EXCEPT ![s].room = k] = [res EXCEPT ![s] = v]
               /\ v.room = k /\ v.status = res[s].status /\ v.type = res[s].type /\ v.nights = res[s].nights
      BY <3>1, RoomGiven
    <3> QED BY <3>2
  <2> DEFINE rv == [res EXCEPT ![s] = v]
  <2>5. Commit(t, room, rv, blocks) /\ rv[s] = v /\ \A q \in Res \ {s} : rv[q] = res[q]
    BY <2>1, <2>2, <2>3, <2>4 DEF TypeOK
  <2> HIDE DEF rv
  <2>6. RoomFree(k, s, rv[s].nights)
    <3>1. RoomFree(j.room, s, res[s].nights)
      BY <1>2, <1>5, <2>2, Kinds DEF FreeSound, PlaceFree, Placing
    <3> QED BY <2>3, <2>4, <2>5, <3>1
  <2>7. DbAccepts(rv, blocks)
    BY <2>2, <2>3, <2>4, <2>5, <2>6, StayInFreeRoom
  <2> QED BY <1>3, <2>5, <2>7, AcceptedIsSeen
<1>8. CASE UnassignWrite(t)
  <2>1. PICK s \in tx[t].rs : Commit(t, room, [res EXCEPT ![s].room = None], blocks)
    BY <1>8 DEF UnassignWrite
  <2>2. PICK v : [res EXCEPT ![s].room = None] = [res EXCEPT ![s] = v] /\ v.room = None
    BY <1>2, RoomGiven
  <2> DEFINE rv == [res EXCEPT ![s] = v]
  <2>3. Commit(t, room, rv, blocks) /\ \A q \in Res : rv[q] = IF q = s THEN v ELSE res[q]
    BY <2>1, <2>2 DEF TypeOK
  <2> HIDE DEF rv
  <2>4. DbAccepts(rv, blocks)
    BY <2>2, <2>3, FewerStays
  <2> QED BY <1>3, <2>3, <2>4, AcceptedIsSeen
<1> QED BY <1>6, <1>7, <1>8

LEMMA ChangingAccepted ==
    ASSUME RoomsKeptApart, TypeOK, NEW t \in Tx, CallSound(t), WriteRefused(t),
           UpdateWrite(t) \/ CancelWrite(t) \/ ReinstateWrite(t)
    PROVE  KnownRefusal(t)
<1> DEFINE j == tx[t].job
<1>1. Ready(t, "write", {"Update", "Cancel", "CancelGroup", "Reinstate"})
  BY DEF UpdateWrite, CancelWrite, ReinstateWrite, Ready
<1>2. /\ tx[t].at = "write" /\ j.op \in {"Update", "Cancel", "CancelGroup", "Reinstate"}
      /\ tx[t].rs \subseteq Res
  BY <1>1, ReadyCall DEF CallSound, Active
<1>3. UNCHANGED hotel /\ \E l \in Room \union Res : l \in Written(j, tx[t].rs)
  BY <1>2 DEF WriteRefused, Written
<1>4. CASE UpdateWrite(t)
  <2>1. PICK s \in tx[t].rs :
          Commit(t, room, [res EXCEPT ![s] = [Changed(s, j) EXCEPT !.room = IF tx[t].drop THEN None ELSE @]], blocks)
    BY <1>4 DEF UpdateWrite
  <2> DEFINE v == [Changed(s, j) EXCEPT !.room = IF tx[t].drop THEN None ELSE @]
             rv == [res EXCEPT ![s] = v]
  <2>2. v.room = IF tx[t].drop THEN None ELSE res[s].room
    BY <1>2 DEF Changed, TypeOK, Reservation
  <2>3. Changed(s, j) = res[s] /\ ~ tx[t].drop => v = res[s]
    BY <1>2 DEF TypeOK, Reservation
  <2>4. Commit(t, room, rv, blocks) /\ \A q \in Res : rv[q] = IF q = s THEN v ELSE res[q]
    BY <2>1 DEF TypeOK
  <2>5. j.op = "Update"
    BY <1>4 DEF UpdateWrite, Ready
  <2> HIDE DEF v, rv
  <2>6. CASE tx[t].drop \/ res[s].room = None \/ Changed(s, j) = res[s]
    <3>1. \A q \in Res : rv[q] = res[q] \/ rv[q].room = None
      BY <2>2, <2>3, <2>4, <2>6
    <3>2. DbAccepts(rv, blocks)
      BY <3>1, FewerStays
    <3> QED BY <1>3, <2>4, <3>2, AcceptedIsSeen
  <2> QED BY <2>5, <2>6 DEF KnownRefusal
<1>5. CASE CancelWrite(t)
  <2> DEFINE rv == [r \in Res |-> IF r \in tx[t].rs THEN [res[r] EXCEPT !.status = "CLOSED"] ELSE res[r]]
  <2>1. Commit(t, room, rv, blocks)
    BY <1>5 DEF CancelWrite
  <2>2. \A r \in Res : rv[r] = res[r] \/ rv[r].status # "OPEN"
    BY DEF TypeOK, Reservation
  <2> HIDE DEF rv
  <2>3. DbAccepts(rv, blocks)
    BY <2>2, FewerStays
  <2> QED BY <1>3, <2>1, <2>3, AcceptedIsSeen
<1>6. CASE ReinstateWrite(t)
  <2>1. PICK s \in tx[t].rs :
          Commit(t, room, [res EXCEPT ![s].status = "OPEN", ![s].room = IF tx[t].drop THEN None ELSE @], blocks)
    BY <1>6 DEF ReinstateWrite
  <2> DEFINE rv == [res EXCEPT ![s].status = "OPEN", ![s].room = IF tx[t].drop THEN None ELSE @]
  <2>2. \A q \in Res : IF q = s THEN rv[q].room = (IF tx[t].drop THEN None ELSE res[s].room) ELSE rv[q] = res[q]
    BY DEF TypeOK, Reservation
  <2>3. Commit(t, room, rv, blocks) /\ j.op = "Reinstate"
    BY <1>6, <2>1 DEF ReinstateWrite, Ready
  <2> HIDE DEF rv
  <2>4. CASE tx[t].drop \/ res[s].room = None
    <3>1. \A q \in Res : rv[q] = res[q] \/ rv[q].room = None
      BY <2>2, <2>4
    <3>2. DbAccepts(rv, blocks)
      BY <3>1, FewerStays
    <3> QED BY <1>3, <2>3, <3>2, AcceptedIsSeen
  <2> QED BY <2>3, <2>4 DEF KnownRefusal
<1> QED BY <1>4, <1>5, <1>6

LEMMA RoomWritesAccepted ==
    ASSUME RoomsKeptApart, TypeOK, NEW t \in Tx, CallSound(t), FreeSound(t), WriteRefused(t),
           BlockWrite(t) \/ UnblockWrite(t) \/ ChangeTypeWrite(t) \/ DeleteRoomWrite(t)
    PROVE  KnownRefusal(t)
<1> DEFINE j == tx[t].job
<1>1. Ready(t, "write", {"Block", "Unblock", "ChangeType", "DeleteRoom"})
  BY DEF BlockWrite, UnblockWrite, ChangeTypeWrite, DeleteRoomWrite, Ready
<1>2. /\ tx[t].at = "write" /\ j.op \in {"Block", "Unblock", "ChangeType", "DeleteRoom"}
      /\ j \in Job /\ Complete(j) /\ j.room \in Room
  <2>1. /\ tx[t].at = "write" /\ j.op \in {"Block", "Unblock", "ChangeType", "DeleteRoom"} /\ j \in Job /\ Complete(j)
    BY <1>1, ReadyCall DEF CallSound, Active
  <2> QED BY <2>1 DEF Complete
<1>3. UNCHANGED hotel
  BY DEF WriteRefused
<1>4. CASE BlockWrite(t)
  <2> DEFINE bl == blocks \union {NewBlock(j)}
  <2>1. Commit(t, room, res, bl) /\ j.op = "Block"
    BY <1>4 DEF BlockWrite, Ready
  <2>2. NewBlock(j).room = j.room /\ NewBlock(j).nights = j.nights /\ j.nights # {}
    BY <1>2, <2>1 DEF NewBlock, Complete
  <2>3. SUFFICES ASSUME \A b \in blocks : b.room = j.room => b.nights \intersect j.nights = {}
                 PROVE  FALSE
    BY <2>1 DEF KnownRefusal
  <2>4. NewBlock(j) \notin blocks
    BY <2>2, <2>3
  <2>5. \A r \in Res : \A n \in j.nights : ~ Occupies(res[r], j.room, n)
    BY <1>2, <2>1 DEF FreeSound, BlockFree
  <2>6. DbAccepts(res, bl)
    <3>1. \A r, q \in Res : \A k \in Room, n \in Nights : Occupies(res[r], k, n) /\ Occupies(res[q], k, n) => r = q
      BY DEF RoomsKeptApart, DbAccepts
    <3>2. \A r \in Res, b \in bl : \A n \in b.nights : ~ Occupies(res[r], b.room, n)
      BY <2>2, <2>5 DEF RoomsKeptApart, DbAccepts
    <3>3. \A b, c \in bl : b.room = c.room /\ b.nights \intersect c.nights # {} => b = c
      BY <2>2, <2>3 DEF RoomsKeptApart, DbAccepts
    <3> QED BY <3>1, <3>2, <3>3 DEF DbAccepts
  <2> HIDE DEF bl
  <2>7. bl = blocks
    BY <1>3, <2>1, <2>6, AcceptedIsSeen
  <2> QED BY <2>4, <2>7 DEF bl
<1>5. CASE UnblockWrite(t)
  BY <1>5 DEF UnblockWrite, Ready, WriteRefused, Written
<1>6. CASE ChangeTypeWrite(t) \/ DeleteRoomWrite(t)
  <2>1. PICK bl \in SUBSET blocks : \E rm : Commit(t, rm, res, bl)
    BY <1>6 DEF ChangeTypeWrite, DeleteRoomWrite
  <2>2. DbAccepts(res, bl)
    BY FewerStays
  <2>3. j.room \in Written(j, tx[t].rs)
    BY <1>6 DEF ChangeTypeWrite, DeleteRoomWrite, Ready, Written
  <2> QED BY <1>2, <1>3, <2>1, <2>2, <2>3, AcceptedIsSeen
<1> QED BY <1>4, <1>5, <1>6

LEMMA RefusalIsKnown ==
    ASSUME IInv, FInv, [Next]_vars, NEW t \in Tx, WriteRefused(t)
    PROVE  KnownRefusal(t)
<1>1. TypeOK /\ RoomsKeptApart /\ CallSound(t) /\ FreeSound(t)
  BY DEF IInv, FInv
<1>2. tx[t].at = "write" /\ tx[t].want = {} /\ tx'[t] # tx[t]
  BY DEF WriteRefused
<1>3. Begin(t) \/ Step(t)
  <2>1. PICK u \in Tx : Begin(u) \/ Step(u)
    BY <1>2 DEF Next, AllDone, vars
  <2>2. u = t
    BY <1>1, <1>2, <2>1, OneCallMoves
  <2> QED BY <2>1, <2>2
<1>4. ~ Begin(t) /\ ~ LockRow(t)
  BY <1>2 DEF Begin, LockRow
<1>5. ~ DeadlockAbort(t)
  BY <1>2 DEF DeadlockAbort, WaitCycle, WaitsFor
<1>6. /\ ~ CreateCheck(t) /\ ~ PlaceCheck(t) /\ ~ AssignRead(t) /\ ~ UnassignRead(t)
      /\ ~ UpdateRead(t) /\ ~ UpdateCheck(t) /\ ~ CancelRead(t) /\ ~ ReinstateRead(t) /\ ~ ReinstateCheck(t)
      /\ ~ BlockCheck(t) /\ ~ UnblockCheck(t) /\ ~ ChangeTypeCheck(t) /\ ~ DeleteRoomCheck(t)
      /\ ~ CreateRoomWrite(t)
  BY <1>2 DEF CreateCheck, PlaceCheck, AssignRead, UnassignRead, UpdateRead, UpdateCheck, CancelRead, ReinstateRead,
     ReinstateCheck, BlockCheck, UnblockCheck, ChangeTypeCheck, DeleteRoomCheck, CreateRoomWrite, Ready
<1> QED BY <1>1, <1>3, <1>4, <1>5, <1>6, PlacingAccepted, ChangingAccepted, RoomWritesAccepted DEF Step

LEMMA VacancyHolds == Spec => [](IInv /\ SInv /\ FInv)
<1>1. Init => IInv /\ SInv /\ FInv
  BY IInvInit, SInvInit, FInvInit
<1>2. IInv /\ SInv /\ FInv /\ [Next]_vars => (IInv /\ SInv /\ FInv)'
  BY IInvStep, SInvStep, FInvStep
<1> QED BY <1>1, <1>2, PTL DEF Spec

-----------------------------------------------------------------------------
(* Results *)

\* The hotel, the rows' holders and the calls keep their types: a call never
\* waits for, holds or writes a row that is not there (rooms/service.js,
\* reservations/service.js).
THEOREM InventoryTypeCorrect == Spec => []TypeOK
<1>1. IInv => TypeOK
  BY DEF IInv
<1> QED
  BY <1>1, IInvHolds, PTL

\* A request opens its reservation once: two calls of the same request wait for
\* each other at the row of the type (reservations/service.js:
\* findDuplicateInTransaction).
THEOREM RequestsOpenOnce == Spec => RequestOpensOnce
<1>1. ASSUME IInv, [Next]_vars
      PROVE  [\A t \in Tx : Commits(t) /\ tx[t].job.op = "Create"
                 => \A r \in tx[t].rs : res[r].status = "NONE"]_vars
  BY <1>1 DEF IInv, CallSound, WriteSound, Commits
<1> QED
  BY <1>1, IInvHolds, PTL DEF Spec, RequestOpensOnce

\* What a client changes from a form is what the form showed: the version is
\* compared under the row's lock, and only the holder writes the row
\* (reservations/service.js: lockForWrite; lib/versioned-update.js).
THEOREM UpdatesAreNotLost == Spec => NoLostUpdate
<1>1. ASSUME IInv, [Next]_vars
      PROVE  [\A t \in Tx : Commits(t) => ~ Stale(t)]_vars
  BY <1>1 DEF IInv, CallSound, WriteSound, Commits
<1> QED
  BY <1>1, IInvHolds, PTL DEF Spec, NoLostUpdate

\* In a cycle of waiting calls some call opens a reservation in a room of
\* another type: everyone else waits for rows above those it holds, and the
\* ranks cannot go down for ever (lib/locks.js:10).
LEMMA NoOrderedCycle ==
    ASSUME IInv, NEW S \in SUBSET Tx, WaitCycle(S)
    PROVE  \E t \in S : ForeignCreate(t)
<1>1. SUFFICES ASSUME \A t \in S : ~ ForeignCreate(t)
               PROVE  FALSE
  OBVIOUS
<1> DEFINE Waited(l) == \E t, u \in S : u # t /\ l \in tx[t].want /\ held[l] = u
           T == {Rank[l] : l \in {m \in Row : Waited(m)}}
<1>2. \A t \in Tx : tx[t].want \subseteq Row
  BY DEF IInv, TypeOK, Call
<1>3. \A t, u \in S : WaitsFor(t, u) => \E l \in Row : l \in tx[t].want /\ held[l] = u /\ u # t
  BY <1>2 DEF WaitsFor
<1>4. T # {} /\ T \subseteq Nat
  <2>1. PICK t \in S, u \in S : WaitsFor(t, u)
    BY DEF WaitCycle
  <2> QED
    BY <1>3, <2>1, Ranks
<1>5. PICK x \in T : \A y \in T : ~ (<<y, x>> \in OpToRel(<, Nat))
  <2> HIDE DEF T
  <2> QED
    BY <1>4, NatLessThanWellFounded, WFMin
<1>6. PICK l \in Row, t \in S, u \in S : x = Rank[l] /\ u # t /\ l \in tx[t].want /\ held[l] = u
  BY <1>5
<1>7. PICK v \in S : WaitsFor(v, t)
  BY DEF WaitCycle
<1>8. PICK m \in Row : m \in tx[v].want /\ held[m] = t /\ t # v
  BY <1>3, <1>7
<1>9. Rank[m] <= Rank[l]
  BY <1>1, <1>6, <1>8 DEF IInv, CallSound, InOrder
<1>10. Rank[m] < Rank[l]
  BY <1>6, <1>8, <1>9, Ranks
<1>11. Rank[m] \in T
  BY <1>8
<1>12. <<Rank[m], Rank[l]>> \in OpToRel(<, Nat)
  BY <1>10, Ranks DEF OpToRel
<1> QED
  BY <1>5, <1>6, <1>11, <1>12

\* The order of the row locks (lib/locks.js:10) is enough against deadlocks for
\* every call but one: createReservation with a room of another type.
THEOREM LockOrderSuffices == Spec => []DeadlockNeedsForeignRoom
<1>1. IInv => DeadlockNeedsForeignRoom
  BY NoOrderedCycle DEF DeadlockNeedsForeignRoom
<1> QED
  BY <1>1, IInvHolds, PTL

\* A night of a type goes below zero, or further below, only by a call that may
\* overbook, or after a loss that nobody held the type for: what a check left
\* under the type's lock is still left when the call writes
\* (reservations/service.js: overbookingViolations; rooms/service.js:
\* assertNoNewOverbooking).
THEOREM OverbookingNeedsLeave == Spec => OverbookingIsAllowed
<1>1. ASSUME IInv /\ SInv /\ MInv, [Next]_vars
      PROVE  [(\E ty \in RoomType, n \in Nights :
                  /\ Free(ty, n, room', res', blocks') < 0
                  /\ Free(ty, n, room', res', blocks') < Free(ty, n, room, res, blocks))
              => unlockedLoss' \/ \E t \in Tx : Commits(t) /\ tx[t].job.allowOverbooking]_vars
  BY <1>1, OverbookingStep DEF Left
<1> QED BY <1>1, MarginsHold, PTL DEF Spec, OverbookingIsAllowed

\* A type is lost behind its row in two ways only: by a guest in a room of
\* another type, or by a call whose room was retyped or deleted after it was
\* first read; never by updateRoom, whose version check refuses.
THEOREM UnlockedLossesAreKnown == Spec => UnlockedLossIsKnown
<1>1. ASSUME IInv /\ SInv /\ MInv, [Next]_vars
      PROVE  [unlockedLoss' # unlockedLoss =>
                 \E t \in Tx :
                     /\ Commits(t)
                     /\ \/ /\ tx[t].job.op \in {"Unassign", "Update", "Reinstate"}
                           /\ \E r \in tx[t].rs : InForeignRoom(r)
                        \/ /\ tx[t].job.op \in {"Create", "Assign", "AutoAssign", "Block", "DeleteRoom"}
                           /\ tx[t].seen # room[tx[t].job.room]]_vars
  BY <1>1, LossIsKnown DEF KnownLoss
<1> QED BY <1>1, MarginsHold, PTL DEF Spec, UnlockedLossIsKnown

\* What a call has found free under its locks is free when it writes: the rows
\* of the room and of its type keep every other call out, and the database is
\* left to refuse a second record for a blocked room, a room that was retyped
\* before it was locked, and a room that a changed or reinstated reservation
\* keeps (rooms/service.js: assertRoomUsableForStay, blockRoom;
\* reservations/service.js: applyReservationUpdate).
THEOREM ChecksDecide == Spec => ChecksHold
<1>1. ASSUME IInv /\ SInv /\ FInv, [Next]_vars
      PROVE  [\A t \in Tx : WriteRefused(t) =>
                 LET j == tx[t].job
                 IN \/ /\ j.op = "Block"
                       /\ \E b \in blocks : b.room = j.room /\ b.nights \intersect j.nights # {}
                    \/ j.op \in {"Create", "Assign", "AutoAssign"} /\ tx[t].seen # room[j.room]
                    \/ /\ j.op \in {"Update", "Reinstate"} /\ ~ tx[t].drop
                       /\ \E r \in tx[t].rs : /\ res[r].room # None
                                              /\ j.op = "Update" => Changed(r, j) # res[r]]_vars
  BY <1>1, RefusalIsKnown DEF KnownRefusal, Placing
<1> QED BY <1>1, VacancyHolds, PTL DEF Spec, ChecksHold
=============================================================================
