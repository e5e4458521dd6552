----------------------------- MODULE Inventory -----------------------------
(***************************************************************************)
(* Room inventory: the database transactions of the reservation and room   *)
(* services that sell, place and withdraw rooms, interleaved statement     *)
(* group by statement group.                                               *)
(*                                                                         *)
(* A transaction runs at READ COMMITTED: it locks rows one by one with     *)
(* SELECT ... FOR UPDATE, reads what others have committed, decides, and   *)
(* writes.  Its reads and its write are separate steps, so only the rows   *)
(* it holds protect its decision.  Every operation is translated with the  *)
(* rows it locks, the reads it makes before it has them, and its checks.   *)
(*                                                                         *)
(* One business day is modelled, before any guest has arrived: a           *)
(* reservation is open (PENDING or CONFIRMED, which consume inventory) or  *)
(* closed (CANCELLED or NO_SHOW, which do not).                            *)
(***************************************************************************)
EXTENDS Integers, FiniteSets

CONSTANTS
    Res,          \* reservations; each carries the requestId it is opened with
    Room,         \* rooms
    RoomType,     \* room types
    Nights,       \* the nights of the hotel's calendar
    Tx,           \* calls of the services, each one a transaction with retries
    Req,          \* Req[r]: the type and the nights request r asks for
    Rank,         \* Rank[l]: the order in which rows are locked, by id
    Jobs,         \* the calls that are made: operation and arguments
    Hotels,       \* hotels to start from: rooms, reservations and blocks
    None,         \* no room, no holder
    MaxAttempts   \* MAX_TRANSACTION_ATTEMPTS

Row == Res \union RoomType \union Room

Reservation == [status : {"NONE", "OPEN", "CLOSED"}, type : RoomType,
                room : Room \union {None}, nights : SUBSET Nights]

Block == [room : Room, kind : {"OUT_OF_ORDER", "OUT_OF_SERVICE"},
          nights : SUBSET Nights]

Ops == {"Create", "Assign", "AutoAssign", "Unassign", "Update", "Cancel",
        "CancelGroup", "Reinstate", "Block", "Unblock", "ChangeType",
        "DeleteRoom", "CreateRoom"}

\* The arguments of a call; an operation uses those it has in the code.
Job == [op : Ops, rs : SUBSET Res, room : Room \union {None},
        type : RoomType, nights : SUBSET Nights, kind : {"OUT_OF_ORDER", "OUT_OF_SERVICE"},
        allowOverbooking : BOOLEAN, fitsCapacity : BOOLEAN]

\* The arguments the routes require: the room, exactly one reservation, and a
\* record of at least one night.
Complete(j) ==
    /\ j.op \in {"Assign", "AutoAssign", "Block", "Unblock", "ChangeType", "DeleteRoom", "CreateRoom"}
           => j.room \in Room
    /\ (\/ j.op \in {"Assign", "AutoAssign", "Unassign", "Update", "Cancel", "Reinstate"}
        \/ j.op = "Create" /\ j.room # None) => \E r \in Res : j.rs = {r}
    /\ j.op = "Block" => j.nights # {}

ASSUME InventoryAssumption ==
    /\ Req \in [Res -> [type : RoomType, nights : SUBSET Nights]]
    /\ Rank \in [Row -> Nat]
    /\ \A l, m \in Row : l # m => Rank[l] # Rank[m]
    /\ \A r \in Res, ty \in RoomType : Rank[r] < Rank[ty]
    /\ \A ty \in RoomType, k \in Room : Rank[ty] < Rank[k]
    /\ Jobs \subseteq {j \in Job : Complete(j)}
    /\ RoomType # {}
    /\ MaxAttempts \in Nat \ {0}
    /\ None \notin Row \union Tx
    /\ {"ABSENT", "DELETED"} \intersect RoomType = {}
    /\ IsFiniteSet(Res) /\ IsFiniteSet(Room) /\ IsFiniteSet(Tx)
    /\ Res \intersect Room = {} /\ Res \intersect RoomType = {} /\ Room \intersect RoomType = {}

VARIABLES
    room,     \* room[k]: its type, "ABSENT" before it is created, "DELETED" after
    version,  \* version[l]: updatedAt of a reservation or room row
    res,      \* res[r]: the reservation opened by request r
    blocks,   \* out-of-order and out-of-service records
    held,     \* held[l]: the transaction that holds row l
    tx,       \* tx[t]: how far call t has come
    unlockedLoss  \* a commit has lowered a type's availability without its row

hotel == <<room, version, res, blocks>>
vars == <<room, version, res, blocks, held, tx, unlockedLoss>>

Steps == {"idle", "retry", "first", "check", "place", "write", "done"}

Call == [at : Steps, job : Job, want : SUBSET Row, rs : SUBSET Res,
         seen : RoomType \union {"ABSENT", "DELETED"},
         form : SUBSET ((Room \union Res) \X Nat),
         drop : BOOLEAN, attempt : Nat]

NoJob == CHOOSE j \in Job : TRUE

\* The row whose form the client sends back: its version must be the same.  The
\* channel manager, which may overbook, changes and cancels without a form.
FormRow(j) ==
    CASE j.op = "ChangeType" -> {j.room}
      [] j.op \in {"Update", "Cancel", "Reinstate"} /\ ~ j.allowOverbooking -> j.rs
      [] OTHER -> {}

\* The rows a call writes.
Written(j, rs) ==
    CASE j.op \in {"ChangeType", "DeleteRoom", "CreateRoom"} -> {j.room}
      [] j.op \in {"Block", "Unblock"} -> {}
      [] OTHER -> rs

\* A call that has not begun, or has ended.
NoCall(step) == [at |-> step, job |-> NoJob, want |-> {}, rs |-> {},
                 seen |-> "ABSENT", form |-> {}, drop |-> FALSE, attempt |-> 1]

----------------------------------------------------------------------------
(* The availability calendar *)

\* Room k is taken by reservation v (a record) on night n.
Occupies(v, k, n) == v.status = "OPEN" /\ v.room = k /\ n \in v.nights

OutOfOrder(b, k, n) == b.kind = "OUT_OF_ORDER" /\ b.room = k /\ n \in b.nights

\* Rooms of the type that are not taken, less the guests of the type who wait
\* for a room: the column "free" of the calendar.
Free(ty, n, rm, rv, bl) ==
    Cardinality({k \in Room : /\ rm[k] = ty
                              /\ ~ \E r \in Res : Occupies(rv[r], k, n)
                              /\ ~ \E b \in bl : OutOfOrder(b, k, n)})
    - Cardinality({r \in Res : /\ rv[r].type = ty /\ n \in rv[r].nights
                               /\ rv[r].status = "OPEN" /\ rv[r].room = None})

\* findNewOverbooking: some night of the window gets below zero, and lower
\* than before the change.
NewOverbooking(types, nights, rv0, rm, rv, bl) ==
    \E ty \in types, n \in nights :
        /\ Free(ty, n, rm, rv, bl) < 0
        /\ Free(ty, n, rm, rv, bl) < Free(ty, n, room, rv0, blocks)

\* The reservation is read by a calendar of one type over these nights.
InSnapshot(r, ty, nights) ==
    /\ res[r].status = "OPEN" /\ res[r].nights \intersect nights # {}
    /\ res[r].type = ty \/ (res[r].room # None /\ room[res[r].room] = ty)

\* assertRoomUsableForStay: reservation r, as record v over base rv0, in room
\* k, whose type was read as ty.  Blocks and stays are read of that type only.
RoomUsable(r, v, k, ty, fits, rv0) ==
    /\ v.type = ty \/ fits
    /\ \A b \in blocks : b.room = k /\ room[k] = ty => b.nights \intersect v.nights = {}
    /\ \A q \in Res \ {r} :
           (/\ rv0[q].status = "OPEN" /\ rv0[q].room = k
            /\ rv0[q].type = ty \/ room[k] = ty) => rv0[q].nights \intersect v.nights = {}
    /\ LET placed == IF InSnapshot(r, ty, v.nights) THEN res[r] ELSE v
       IN ~ NewOverbooking({ty}, v.nights, rv0, room,
                           [rv0 EXCEPT ![r] = [placed EXCEPT !.room = k]], blocks)

\* roomConflictForStay: the room the reservation has does not suit its new form.
RoomConflict(r, v, fits) ==
    \/ room[v.room] \notin RoomType
    \/ ~ fits
    \/ ~ RoomUsable(r, v, v.room, room[v.room], fits, res)

----------------------------------------------------------------------------
(* What the database refuses by itself *)

\* Reservation_no_double_booking, the trigger between reservations and blocks,
\* and RoomBlock_no_overlap.
DbAccepts(rv, bl) ==
    /\ \A r, q \in Res : \A k \in Room, n \in Nights :
           Occupies(rv[r], k, n) /\ Occupies(rv[q], k, n) => r = q
    /\ \A r \in Res, b \in bl : \A n \in b.nights : ~ Occupies(rv[r], b.room, n)
    /\ \A b, c \in bl : b.room = c.room /\ b.nights \intersect c.nights # {} => b = c

\* A row that is not deleted: the only ones the lock helpers find.
RowExists(l) ==
    /\ l \in Room => room[l] \in RoomType
    /\ l \in Res => res[l].status # "NONE"

ASSUME HotelsAssumption ==
    \A h \in Hotels : /\ h.room \in [Room -> RoomType \union {"ABSENT", "DELETED"}]
                      /\ h.res \in [Res -> Reservation]
                      /\ h.blocks \subseteq Block
                      /\ DbAccepts(h.res, h.blocks)
                      /\ \A b \in h.blocks : h.room[b.room] \in RoomType
                      /\ \A r \in Res : h.res[r].room # None => h.room[h.res[r].room] # "ABSENT"

----------------------------------------------------------------------------
(* Steps every transaction takes *)

Ready(t, step, ops) == tx[t].at = step /\ tx[t].want = {} /\ tx[t].job.op \in ops

\* Someone has written the row since the client read it.
Stale(t) == \E f \in tx[t].form : version[f[1]] # f[2]

\* The transaction goes on to a later step and locks the rows of want first.
GoOn(t, step, want) ==
    /\ tx' = [tx EXCEPT ![t].at = step, ![t].want = want]
    /\ UNCHANGED <<room, version, res, blocks, held, unlockedLoss>>

\* Without ORDER BY: rows are locked as they come.
LockRowAsItComes(t) ==
    \E l \in tx[t].want :
        /\ held[l] \in {None, t}
        /\ held' = IF RowExists(l) THEN [held EXCEPT ![l] = t] ELSE held
        /\ tx' = [tx EXCEPT ![t].want = @ \ {l}]
        /\ UNCHANGED <<room, version, res, blocks, unlockedLoss>>

\* lockRows: one SELECT ... ORDER BY id FOR UPDATE per table; a row another
\* transaction holds is waited for, one that is deleted is passed over.
LockRow(t) ==
    \E l \in tx[t].want :
        /\ \A m \in tx[t].want : Rank[l] <= Rank[m]
        /\ held[l] \in {None, t}
        /\ held' = IF RowExists(l) THEN [held EXCEPT ![l] = t] ELSE held
        /\ tx' = [tx EXCEPT ![t].want = @ \ {l}]
        /\ UNCHANGED <<room, version, res, blocks, unlockedLoss>>

Released(t) == [l \in Row |-> IF held[l] = t THEN None ELSE held[l]]

Finish(t) ==
    /\ tx' = [tx EXCEPT ![t] = NoCall("done")]
    /\ held' = Released(t)

\* An error is thrown: nothing was written.
Refuse(t) == Finish(t) /\ UNCHANGED <<room, version, res, blocks, unlockedLoss>>

LosesUnlocked(t, rm, rv, bl) ==
    \E ty \in RoomType, n \in Nights :
        Free(ty, n, rm, rv, bl) < Free(ty, n, room, res, blocks) /\ held[ty] # t

\* The transaction writes and commits, unless the database refuses the write.
Commit(t, rm, rv, bl) ==
    /\ Finish(t)
    /\ IF DbAccepts(rv, bl)
       THEN /\ room' = rm /\ res' = rv /\ blocks' = bl
            /\ version' = [l \in Room \union Res |-> IF l \in Written(tx[t].job, tx[t].rs) THEN version[l] + 1 ELSE version[l]]
            /\ unlockedLoss' = (unlockedLoss \/ LosesUnlocked(t, rm, rv, bl))
       ELSE UNCHANGED <<room, version, res, blocks, unlockedLoss>>

----------------------------------------------------------------------------
(* Start of a transaction: what is read before the first lock *)

\* Operations that read their room before they lock anything.
ReadsRoomFirst == {"Block", "ChangeType", "DeleteRoom"}

FirstRows(j) ==
    CASE j.op = "Create"     -> {Req[r].type : r \in j.rs}
      [] j.op = "CancelGroup" -> {r \in j.rs : res[r].status = "OPEN"}
      [] j.op = "Block"      -> (IF j.kind = "OUT_OF_ORDER" THEN {room[j.room]} ELSE {}) \union {j.room}
      [] j.op = "Unblock"    -> {j.room}
      [] j.op = "ChangeType" -> {room[j.room], j.type, j.room}
      [] j.op = "DeleteRoom" -> {room[j.room], j.room}
      [] j.op = "CreateRoom" -> {j.type}
      [] OTHER               -> j.rs

NewBlock(j) == [room |-> j.room, kind |-> j.kind, nights |-> j.nights]

\* The room, or the record, is looked up first, and the call ends if it is not there.
Found(j) ==
    /\ j.op \in ReadsRoomFirst => room[j.room] \in RoomType
    /\ j.op = "Unblock" => NewBlock(j) \in blocks

Begin(t) ==
    \E j \in Jobs :
        /\ tx[t].at = "idle" \/ (tx[t].at = "retry" /\ j = tx[t].job)
        /\ IF ~ Found(j)
           THEN tx' = [tx EXCEPT ![t] = NoCall("done")]
           ELSE tx' = [tx EXCEPT ![t] =
                    [at |-> "first", job |-> j, want |-> FirstRows(j),
                     rs |-> IF j.op = "CancelGroup" THEN FirstRows(j) ELSE j.rs,
                     seen |-> IF j.op \in ReadsRoomFirst THEN room[j.room] ELSE "ABSENT",
                     form |-> IF tx[t].at = "retry" THEN tx[t].form
                              ELSE {<<l, version[l]>> : l \in FormRow(j)},
                     drop |-> FALSE, attempt |-> tx[t].attempt]]
        /\ UNCHANGED <<room, version, res, blocks, held, unlockedLoss>>

\* Transaction t waits for a row that u holds.
WaitsFor(t, u) ==
    /\ u # t
    /\ \E l \in tx[t].want : held[l] = u /\ \A m \in tx[t].want : Rank[l] <= Rank[m]

\* Everyone in S waits for someone in S, and is waited for.
WaitCycle(S) ==
    /\ S # {}
    /\ \A t \in S : \E u \in S : WaitsFor(t, u)
    /\ \A u \in S : \E t \in S : WaitsFor(t, u)

\* The database aborts one transaction of a cycle; writeWithEvents starts it
\* again, MaxAttempts times in all.
DeadlockAbort(t) ==
    /\ \E S \in SUBSET Tx : t \in S /\ WaitCycle(S)
    /\ IF tx[t].attempt < MaxAttempts
       THEN /\ tx' = [tx EXCEPT ![t].at = "retry", ![t].want = {}, ![t].attempt = @ + 1]
            /\ held' = Released(t)
       ELSE Finish(t)
    /\ UNCHANGED <<room, version, res, blocks, unlockedLoss>>

----------------------------------------------------------------------------
(* Opening reservations: one, or a group in one transaction *)

\* The reservations as insertReservations writes them.
Opened(rs) ==
    [r \in Res |-> IF r \in rs
                   THEN [status |-> "OPEN", type |-> Req[r].type,
                         room |-> None, nights |-> Req[r].nights]
                   ELSE res[r]]

\* Without lockRooms: only the type is locked.
ReadRoomThenLockType(t, k, more) ==
    IF room[k] \notin RoomType
    THEN Refuse(t)
    ELSE /\ tx' = [tx EXCEPT ![t].at = "place", ![t].seen = room[k], ![t].want = {room[k]}]
         /\ UNCHANGED <<room, version, res, blocks, held, unlockedLoss>>

\* assignLockedReservation up to its locks: the room is read, then its type
\* and the rooms are locked.
ReadRoomThenLock(t, k, more) ==
    IF room[k] \notin RoomType
    THEN Refuse(t)
    ELSE /\ tx' = [tx EXCEPT ![t].at = "place", ![t].seen = room[k],
                             ![t].want = {room[k], k} \union more]
         /\ UNCHANGED <<room, version, res, blocks, held, unlockedLoss>>

\* Without findDuplicateInTransaction.
CreateCheckOnceBefore(t) ==
    /\ Ready(t, "first", {"Create"})
    /\ LET rs == tx[t].rs
           j == tx[t].job
       IN IF /\ NewOverbooking({Req[r].type : r \in rs}, UNION {Req[r].nights : r \in rs},
                               res, room, Opened(rs), blocks)
             /\ ~ j.allowOverbooking
          THEN Refuse(t)
          ELSE IF j.room = None THEN GoOn(t, "write", {})
               ELSE ReadRoomThenLock(t, j.room, {})

CreateCheck(t) ==
    /\ Ready(t, "first", {"Create"})
    /\ LET rs == tx[t].rs
           j == tx[t].job
           short == NewOverbooking({Req[r].type : r \in rs}, UNION {Req[r].nights : r \in rs},
                                   res, room, Opened(rs), blocks)
       IN IF (\E r \in rs : res[r].status # "NONE") \/ (short /\ ~ j.allowOverbooking)
          THEN Refuse(t)
          ELSE IF j.room = None THEN GoOn(t, "write", {})
               ELSE ReadRoomThenLock(t, j.room, {})

PlaceCheck(t) ==
    /\ Ready(t, "place", {"Create", "Assign", "AutoAssign"})
    /\ \E r \in tx[t].rs :
           LET j == tx[t].job
               rv == IF j.op = "Create" THEN Opened(tx[t].rs) ELSE res
           IN IF RoomUsable(r, rv[r], j.room, tx[t].seen, j.fitsCapacity, rv)
              THEN GoOn(t, "write", {})
              ELSE Refuse(t)

CreateWrite(t) ==
    /\ Ready(t, "write", {"Create"})
    /\ LET rv == Opened(tx[t].rs)
           j == tx[t].job
       IN Commit(t, room, [r \in Res |-> IF r \in tx[t].rs THEN [rv[r] EXCEPT !.room = j.room]
                                         ELSE rv[r]], blocks)

----------------------------------------------------------------------------
(* Rooms given and taken away *)

AssignRead(t) ==
    /\ Ready(t, "first", {"Assign", "AutoAssign"})
    /\ \E r \in tx[t].rs :
           LET k == tx[t].job.room
           IN IF \/ held[r] # t \/ res[r].status # "OPEN"
                 \/ tx[t].job.op = "AutoAssign" /\ res[r].room \notin {None, k}
                 \/ res[r].room = k
              THEN Refuse(t)
              ELSE ReadRoomThenLock(t, k, {res[r].room} \ {None})

AssignWrite(t) ==
    /\ Ready(t, "write", {"Assign", "AutoAssign"})
    /\ \E r \in tx[t].rs :
           Commit(t, room, [res EXCEPT ![r].room = tx[t].job.room], blocks)

UnassignRead(t) ==
    /\ Ready(t, "first", {"Unassign"})
    /\ \E r \in tx[t].rs :
           IF held[r] # t \/ res[r].room = None
           THEN Refuse(t)
           ELSE GoOn(t, "write", {res[r].room})

UnassignWrite(t) ==
    /\ Ready(t, "write", {"Unassign"})
    /\ \E r \in tx[t].rs : Commit(t, room, [res EXCEPT ![r].room = None], blocks)

----------------------------------------------------------------------------
(* Reservations changed, closed and reinstated *)

\* The reservation as the form has it; its room stays for now.
Changed(r, j) == [res[r] EXCEPT !.type = j.type, !.nights = j.nights]

\* Without the version check of lockForWrite.
UpdateReadAnyVersion(t) ==
    /\ Ready(t, "first", {"Update"})
    /\ \E r \in tx[t].rs :
           IF held[r] # t \/ res[r].status # "OPEN"
           THEN Refuse(t)
           ELSE GoOn(t, "check", IF Changed(r, tx[t].job) = res[r] THEN {}
                                 ELSE {res[r].type, tx[t].job.type})

UpdateRead(t) ==
    /\ Ready(t, "first", {"Update"})
    /\ \E r \in tx[t].rs :
           IF held[r] # t \/ Stale(t) \/ res[r].status # "OPEN"
           THEN Refuse(t)
           ELSE GoOn(t, "check", IF Changed(r, tx[t].job) = res[r] THEN {}
                                 ELSE {res[r].type, tx[t].job.type})

\* The room that does not suit is released; the trigger locks one that is kept.
GoOnWithRoom(t, r, drop) ==
    /\ tx' = [tx EXCEPT ![t].at = "write", ![t].drop = drop,
                        ![t].want = IF drop THEN {} ELSE {res[r].room} \ {None}]
    /\ UNCHANGED <<room, version, res, blocks, held, unlockedLoss>>

\* The capacity is checked before it is known whether the room is released.
UpdateCheckBeforeRelease(t) ==
    /\ Ready(t, "check", {"Update"})
    /\ \E r \in tx[t].rs :
           LET j == tx[t].job
               new == Changed(r, j)
               drop == /\ res[r].room # None
                       /\ new # res[r] \/ ~ j.fitsCapacity
                       /\ RoomConflict(r, new, j.fitsCapacity)
               short == NewOverbooking({res[r].type, j.type}, res[r].nights \union j.nights, res, room,
                                       [res EXCEPT ![r] = new], blocks)
           IN IF short /\ ~ j.allowOverbooking
              THEN Refuse(t)
              ELSE GoOnWithRoom(t, r, drop)

\* The types are checked only when the stay changes.
UpdateCheck(t) ==
    /\ Ready(t, "check", {"Update"})
    /\ \E r \in tx[t].rs :
           LET j == tx[t].job
               new == Changed(r, j)
               drop == /\ res[r].room # None
                       /\ new # res[r] \/ ~ j.fitsCapacity
                       /\ RoomConflict(r, new, j.fitsCapacity)
               kept == IF drop THEN None ELSE res[r].room
               short == /\ new # res[r]
                        /\ NewOverbooking({res[r].type, j.type}, res[r].nights \union j.nights, res, room,
                                          [res EXCEPT ![r] = [new EXCEPT !.room = kept]], blocks)
           IN IF short /\ ~ j.allowOverbooking
              THEN Refuse(t)
              ELSE GoOnWithRoom(t, r, drop)

UpdateWrite(t) ==
    /\ Ready(t, "write", {"Update"})
    /\ \E r \in tx[t].rs :
           Commit(t, room,
                  [res EXCEPT ![r] = [Changed(r, tx[t].job) EXCEPT
                                          !.room = IF tx[t].drop THEN None ELSE @]], blocks)

\* cancelReservation, markNoShow, and cancelGroup for the members it has read.
CancelRead(t) ==
    /\ Ready(t, "first", {"Cancel", "CancelGroup"})
    /\ IF ~ Stale(t) /\ \A r \in tx[t].rs : held[r] = t /\ res[r].status = "OPEN"
       THEN GoOn(t, "write", {})
       ELSE Refuse(t)

CancelWrite(t) ==
    /\ Ready(t, "write", {"Cancel", "CancelGroup"})
    /\ Commit(t, room, [r \in Res |-> IF r \in tx[t].rs THEN [res[r] EXCEPT !.status = "CLOSED"]
                                      ELSE res[r]], blocks)

ReinstateRead(t) ==
    /\ Ready(t, "first", {"Reinstate"})
    /\ \E r \in tx[t].rs :
           IF held[r] # t \/ Stale(t) \/ res[r].status # "CLOSED" THEN Refuse(t)
           ELSE GoOn(t, "check", {res[r].type})

ReinstateCheck(t) ==
    /\ Ready(t, "check", {"Reinstate"})
    /\ \E r \in tx[t].rs :
           LET back == [res[r] EXCEPT !.status = "OPEN"]
               drop == res[r].room # None /\ RoomConflict(r, back, tx[t].job.fitsCapacity)
               kept == IF drop THEN None ELSE res[r].room
           IN IF NewOverbooking({res[r].type}, res[r].nights, res, room,
                                [res EXCEPT ![r] = [back EXCEPT !.room = kept]], blocks)
              THEN Refuse(t)
              ELSE GoOnWithRoom(t, r, drop)

ReinstateWrite(t) ==
    /\ Ready(t, "write", {"Reinstate"})
    /\ \E r \in tx[t].rs :
           Commit(t, room, [res EXCEPT ![r].status = "OPEN",
                                       ![r].room = IF tx[t].drop THEN None ELSE @], blocks)

----------------------------------------------------------------------------
(* Rooms blocked, retyped, deleted and created *)

BlockCheck(t) ==
    /\ Ready(t, "first", {"Block"})
    /\ LET j == tx[t].job
           taken == \E r \in Res, n \in j.nights : Occupies(res[r], j.room, n)
           short == /\ j.kind = "OUT_OF_ORDER"
                    /\ NewOverbooking({tx[t].seen}, j.nights, res, room, res, blocks \union {NewBlock(j)})
       IN IF held[j.room] # t \/ taken \/ short THEN Refuse(t) ELSE GoOn(t, "write", {})

BlockWrite(t) ==
    /\ Ready(t, "write", {"Block"})
    /\ Commit(t, room, res, blocks \union {NewBlock(tx[t].job)})

\* removeBlock locks the room of the record and nothing else.
UnblockCheck(t) ==
    /\ Ready(t, "first", {"Unblock"})
    /\ IF NewBlock(tx[t].job) \in blocks THEN GoOn(t, "write", {}) ELSE Refuse(t)

UnblockWrite(t) ==
    /\ Ready(t, "write", {"Unblock"})
    /\ Commit(t, room, res, blocks \ {NewBlock(tx[t].job)})

\* updateRoom and deleteRoom take the room out of the type they have read.
WithoutRoom(k) == [room EXCEPT ![k] = "DELETED"]

HasGuests(k) == \E r \in Res : res[r].status = "OPEN" /\ res[r].room = k

\* Without updateWithVersionCheck.
ChangeTypeCheckAnyVersion(t) ==
    /\ Ready(t, "first", {"ChangeType"})
    /\ LET j == tx[t].job
       IN IF \/ held[j.room] # t
             \/ /\ j.type # tx[t].seen
                /\ \/ HasGuests(j.room)
                   \/ NewOverbooking({tx[t].seen}, Nights, res, WithoutRoom(j.room), res, blocks)
          THEN Refuse(t)
          ELSE GoOn(t, "write", {})

ChangeTypeCheck(t) ==
    /\ Ready(t, "first", {"ChangeType"})
    /\ LET j == tx[t].job
       IN IF \/ held[j.room] # t
             \/ /\ j.type # tx[t].seen
                /\ \/ HasGuests(j.room)
                   \/ NewOverbooking({tx[t].seen}, Nights, res, WithoutRoom(j.room), res, blocks)
             \/ Stale(t)
          THEN Refuse(t)
          ELSE GoOn(t, "write", {})

ChangeTypeWrite(t) ==
    /\ Ready(t, "write", {"ChangeType"})
    /\ Commit(t, [room EXCEPT ![tx[t].job.room] = tx[t].job.type], res, blocks)

DeleteRoomCheck(t) ==
    /\ Ready(t, "first", {"DeleteRoom"})
    /\ LET k == tx[t].job.room
       IN IF \/ held[k] # t \/ HasGuests(k)
             \/ NewOverbooking({tx[t].seen}, Nights, res, WithoutRoom(k), res, blocks)
          THEN Refuse(t)
          ELSE GoOn(t, "write", {})

\* The room's open records end with it.
DeleteRoomWrite(t) ==
    /\ Ready(t, "write", {"DeleteRoom"})
    /\ LET k == tx[t].job.room
       IN Commit(t, WithoutRoom(k), res, {b \in blocks : b.room # k})

CreateRoomWrite(t) ==
    /\ Ready(t, "first", {"CreateRoom"})
    /\ IF room[tx[t].job.room] # "ABSENT" THEN Refuse(t)
       ELSE Commit(t, [room EXCEPT ![tx[t].job.room] = tx[t].job.type], res, blocks)

----------------------------------------------------------------------------

\* No call is under way; the hotel is one of the given ones.
Init ==
    /\ \E h \in Hotels : room = h.room /\ res = h.res /\ blocks = h.blocks
    /\ version = [l \in Room \union Res |-> 0]
    /\ held = [l \in Row |-> None]
    /\ tx = [t \in Tx |-> NoCall("idle")]
    /\ unlockedLoss = FALSE

\* A call that has begun goes on.
Step(t) ==
    \/ LockRow(t) \/ DeadlockAbort(t)
    \/ CreateCheck(t) \/ PlaceCheck(t) \/ CreateWrite(t)
    \/ AssignRead(t) \/ AssignWrite(t) \/ UnassignRead(t) \/ UnassignWrite(t)
    \/ UpdateRead(t) \/ UpdateCheck(t) \/ UpdateWrite(t)
    \/ CancelRead(t) \/ CancelWrite(t)
    \/ ReinstateRead(t) \/ ReinstateCheck(t) \/ ReinstateWrite(t)
    \/ BlockCheck(t) \/ BlockWrite(t) \/ UnblockCheck(t) \/ UnblockWrite(t)
    \/ ChangeTypeCheck(t) \/ ChangeTypeWrite(t)
    \/ DeleteRoomCheck(t) \/ DeleteRoomWrite(t) \/ CreateRoomWrite(t)

\* Every call has ended; without this the checker would take it for a deadlock.
AllDone == (\A t \in Tx : tx[t].at = "done") /\ UNCHANGED vars

Next == (\E t \in Tx : Begin(t) \/ Step(t)) \/ AllDone

Spec == Init /\ [][Next]_vars

----------------------------------------------------------------------------
(* Properties *)

\* Every variable keeps its type.
TypeOK ==
    /\ room \in [Room -> RoomType \union {"ABSENT", "DELETED"}]
    /\ version \in [Room \union Res -> Nat]
    /\ res \in [Res -> Reservation]
    /\ blocks \subseteq Block
    /\ held \in [Row -> Tx \union {None}]
    /\ tx \in [Tx -> Call]
    /\ unlockedLoss \in BOOLEAN

\* Call t opens a reservation in a room of another type than the one it has
\* locked (createReservation with roomId).
ForeignCreate(t) ==
    /\ tx[t].at = "place" /\ tx[t].job.op = "Create"
    /\ tx[t].seen \notin {Req[r].type : r \in tx[t].rs}

\* Rows are locked in one order, reservation, type, room and by id in each
\* (lib/locks.js:10), by everyone but a call that opens a reservation in a room
\* of another type: no deadlock without such a call.
DeadlockNeedsForeignRoom ==
    \A S \in SUBSET Tx : WaitCycle(S) => \E t \in S : ForeignCreate(t)

\* The step commits call t.
Commits(t) == tx[t].at = "write" /\ tx'[t].at = "done"

\* A commit takes a night of a type below zero, or further below, only if it is
\* allowed to overbook, or some commit lowered a type's availability without
\* holding the type: the type locks and the checks under them are enough for
\* everything else (reservations/service.js: overbookingViolations;
\* rooms/service.js: assertNoNewOverbooking).
OverbookingIsAllowed ==
    [][(\E ty \in RoomType, n \in Nights :
            /\ Free(ty, n, room', res', blocks') < 0
            /\ Free(ty, n, room', res', blocks') < Free(ty, n, room, res, blocks))
       => unlockedLoss' \/ \E t \in Tx : Commits(t) /\ tx[t].job.allowOverbooking]_vars

\* Reservation r has a room of another type than the one it is sold as.
InForeignRoom(r) == res[r].room # None /\ room[res[r].room] # res[r].type

\* The only calls that lower the availability of a type they have not locked:
\* a guest taken out of, kept in, or put back into a room of another type, and
\* a call whose room changed its type, or was deleted, after it was first read.
\* updateRoom is never among them: its version check refuses.
UnlockedLossIsKnown ==
    [][unlockedLoss' # unlockedLoss =>
           \E t \in Tx :
               /\ Commits(t)
               /\ \/ /\ tx[t].job.op \in {"Unassign", "Update", "Reinstate"}
                     /\ \E r \in tx[t].rs : InForeignRoom(r)
                  \/ /\ tx[t].job.op \in {"Create", "Assign", "AutoAssign", "Block", "DeleteRoom"}
                     /\ tx[t].seen # room[tx[t].job.room]]_vars

\* What a client changes from a form is what the form showed: a form that is
\* older than the row is refused, and the row stays locked until the write
\* (reservations/service.js: lockForWrite; lib/versioned-update.js).
NoLostUpdate == [][\A t \in Tx : Commits(t) => ~ Stale(t)]_vars

\* A request opens its reservation once, however often and whenever it is sent
\* again (reservations/service.js: findDuplicateInTransaction).
RequestOpensOnce ==
    [][\A t \in Tx : Commits(t) /\ tx[t].job.op = "Create"
           => \A r \in tx[t].rs : res[r].status = "NONE"]_vars

\* The database refuses the write of call t: a room would be given twice.
WriteRefused(t) ==
    /\ tx[t].at = "write" /\ tx[t].want = {} /\ tx'[t].at = "done"
    /\ Written(tx[t].job, tx[t].rs) # {} \/ tx[t].job.op = "Block"
    /\ UNCHANGED hotel

\* What a call has found free under its locks is free when it writes.  The
\* database refuses nothing but a second record for a blocked room, a room that
\* changed its type between the first read and the lock, and a room that a
\* changed or reinstated reservation keeps, whose row is locked only before the
\* write (rooms/service.js: assertRoomUsableForStay, blockRoom;
\* reservations/service.js: applyReservationUpdate, reinstateReservation).
ChecksHold ==
    [][\A t \in Tx : WriteRefused(t) =>
           LET j == tx[t].job
           IN \/ /\ j.op = "Block"
                 /\ \E b \in blocks : b.room = j.room /\ b.nights \intersect j.nights # {}
              \/ j.op \in {"Create", "Assign", "AutoAssign"} /\ tx[t].seen # room[j.room]
              \/ /\ j.op \in {"Update", "Reinstate"} /\ ~ tx[t].drop
                 /\ \E r \in tx[t].rs : /\ res[r].room # None
                                        /\ j.op = "Update" => Changed(r, j) # res[r]]_vars
=============================================================================
