---------------------------- MODULE MCInventory ----------------------------
(* Two calls at a time on a small hotel. *)
EXTENDS Inventory, TLC

CONSTANTS A, B, r1, r2, k1, k2, t1, t2

MCReq == (r1 :> [type |-> A, nights |-> Nights]) @@ (r2 :> [type |-> B, nights |-> {1}])

MCRank == (r1 :> 1) @@ (r2 :> 2) @@ (A :> 3) @@ (B :> 4) @@ (k1 :> 5) @@ (k2 :> 6)

\* A call with no arguments.
Ask(op) == [op |-> op, rs |-> {}, room |-> None, type |-> A, nights |-> {},
            kind |-> "OUT_OF_ORDER", allowOverbooking |-> FALSE, fitsCapacity |-> TRUE]

Reservations(op) == {[Ask(op) EXCEPT !.rs = {r}] : r \in Res}

MCJobs ==
    UNION {
        {[j EXCEPT !.room = k] : j \in Reservations("Create"), k \in Room \union {None}},
        {[Ask("Create") EXCEPT !.rs = {r1}, !.allowOverbooking = TRUE]},
        {[Ask("Create") EXCEPT !.rs = Res]},
        {[j EXCEPT !.room = k] : j \in Reservations("Assign"), k \in Room},
        {[Ask("AutoAssign") EXCEPT !.rs = {r1}, !.room = k1]},
        Reservations("Unassign"),
        {[Ask("Update") EXCEPT !.rs = {r1}, !.type = ty, !.nights = ns] :
            ty \in RoomType, ns \in {{1}, Nights}},
        {[Ask("Update") EXCEPT !.rs = {r1}, !.nights = Nights, !.fitsCapacity = FALSE],
         [Ask("Update") EXCEPT !.rs = {r1}, !.nights = Nights, !.allowOverbooking = TRUE]},
        Reservations("Cancel"),
        {[Ask("CancelGroup") EXCEPT !.rs = Res]},
        {[Ask("Reinstate") EXCEPT !.rs = {r1}]},
        {[Ask(op) EXCEPT !.room = k1, !.nights = {1}, !.kind = d] :
            op \in {"Block", "Unblock"}, d \in {"OUT_OF_ORDER", "OUT_OF_SERVICE"}},
        {[Ask("ChangeType") EXCEPT !.room = k, !.type = ty] : k \in Room, ty \in RoomType},
        {[Ask("DeleteRoom") EXCEPT !.room = k] : k \in Room},
        {[Ask("CreateRoom") EXCEPT !.room = k2, !.type = B]}}

\* Hotels the services can have built: k1 of type A, k2 of type A, B or not
\* yet there, r1 sold as A, r2 open as either type or not there, k1 out of order on
\* the first night or not, and nothing the database refuses.
NoStay == [status |-> "NONE", type |-> A, room |-> None, nights |-> {}]

MCHotels ==
    {h \in [room : {(k1 :> A) @@ (k2 :> x) : x \in {A, B, "ABSENT"}},
            res : {(r1 :> v) @@ (r2 :> w) :
                      v \in {NoStay} \union [status : {"OPEN", "CLOSED"}, type : {A},
                                room : Room \union {None}, nights : {{1}, Nights}],
                      w \in {NoStay} \union [status : {"OPEN"}, type : RoomType,
                                room : Room \union {None}, nights : {{1}}]},
            blocks : {{}, {[room |-> k1, kind |-> "OUT_OF_ORDER", nights |-> {1}]}}] :
        /\ DbAccepts(h.res, h.blocks)
        /\ h.room[k2] = "ABSENT" => \A r \in Res : h.res[r].room # k2 /\ h.res[r].status # "CLOSED"}

Symmetry == Permutations(Tx)
=============================================================================
