------------------------------- MODULE Folios -------------------------------
(***************************************************************************)
(* The folios of stays: what is charged, to which folio, and how a stay    *)
(* leaves with its account settled.                                        *)
(*                                                                         *)
(* Most operations lock the folios they touch, check, write and recompute  *)
(* the totals in one transaction: one step here.  Three things are not one *)
(* step.  A posting of room nights, fees and consumption holds only the    *)
(* lock of the reservation while it plans what is missing and chooses a    *)
(* folio; the folio is locked afterwards and looked at again.  A route is  *)
(* checked and written under the lock of the reservation alone.  And the   *)
(* decision on a void reads the item before it locks the item's folio.     *)
(*                                                                         *)
(* One night per stay, which is over; only room charges are routed.  Left  *)
(* out: taxes, currencies, invoices, alerts, early departure, the fees of  *)
(* early check-in and cancellation (they are posted and reversed as the    *)
(* late fee is), the limits on windows and attempts.  The night and the    *)
(* fee of a settlement choose their folio once; the code chooses again for *)
(* the fee, and finds another only if one was reopened in between.         *)
(***************************************************************************)
EXTENDS Integers, FiniteSets, Functions

CONSTANTS
    Stays,
    Folios,         \* rows of Folio, used or not
    Charges,        \* requests for manual charges and events of consumption
    Pays,           \* requests for payments
    Amounts,        \* amounts of charges, discounts and payments
    Prices,         \* amounts the night may have
    LateFee,
    None,
    MaxChanges,     \* bound: changes of a night's price
    MaxDepartures,  \* bound: check-outs of a stay
    MaxOps          \* bound: operations of the staff, decisions, consumption

NightOf(g) == {<<g, "night", i>> : i \in 0..MaxChanges}
LateOf(g) == {<<g, "late", i>> : i \in 1..MaxDepartures}
ChargeItems == {<<c, "charge", 0>> : c \in Charges}
Items == ChargeItems \union UNION {NightOf(g) \union LateOf(g) : g \in Stays}

\* Check-outs, and check-outs taken back, for the billing worker.
Events == [kind : {"out", "back"}, stay : Stays, n : Nat, late : BOOLEAN, fees : SUBSET Items]

ASSUME FolioAssumption ==
    /\ None \notin Folios \union Stays \union Charges \union Events
    /\ Amounts \subseteq Int /\ Prices \subseteq Nat /\ LateFee \in Nat \ {0}
    /\ {MaxChanges, MaxDepartures, MaxOps} \subseteq Nat
    /\ \A S \in {Stays, Folios, Charges, Pays} : IsFiniteSet(S)

VARIABLES
    folio,     \* folio[f]: of, window, status, charges, balance (the stored totals)
    item,      \* item[k]: at, amount, void; back is the folio of its reversal
    pay,       \* pay[p]: at, amount, status, void, back
    route,     \* the folio that receives the room charges of a stay, or None
    house,     \* house[g]: in, price, late and due as of the check-out; counts
    inbox,     \* events for the billing worker
    job,       \* job[g]: what holds the lock of reservation g, or None
    deciding,  \* decisions on voids between their read and their lock
    ops,       \* operations so far
    quiet      \* stays whose accounts only their own postings touched since
               \* their first check-out

vars == <<folio, item, pay, route, house, inbox, job, deciding, ops, quiet>>
accounts == <<folio, item, pay, route>>

-----------------------------------------------------------------------------
(* Totals and rules *)

At(rows, f) == {k \in DOMAIN rows : rows[k].at = f}
Back(rows, f) == {k \in DOMAIN rows : rows[k].back = f}

\* Reversals are rows with the opposite amount.
SumAt(rows, f) ==
    SumFunction([k \in At(rows, f) |-> rows[k].amount]) - SumFunction([k \in Back(rows, f) |-> rows[k].amount])

PostedRows(rows) == [p \in {q \in DOMAIN rows : rows[q].status = "POSTED"} |-> rows[p]]

Charged(f) == SumAt(item, f)
Paid(f) == SumAt(PostedRows(pay), f)
Balance(f) == Charged(f) - Paid(f)

\* refreshFolioTotals, over the items and payments as they are after the step.
Refresh(folios, S) ==
    folio' = [f \in Folios |->
        IF f \in S
        THEN [folios[f] EXCEPT !.charges = SumAt(item', f), !.balance = SumAt(item', f) - SumAt(PostedRows(pay'), f)]
        ELSE folios[f]]

IsOpen(f) == folio[f].status = "OPEN"
OpenOf(g) == {f \in Folios : folio[f].of = g /\ IsOpen(f)}
FirstOf(S) == CHOOSE f \in S : \A o \in S : folio[f].window <= folio[o].window
NextWindow(g) == Cardinality({f \in Folios : folio[f].of = g}) + 1
Unused == {f \in Folios : folio[f].status = "NEW"}
NewFolio(g) == [of |-> g, window |-> NextWindow(g), status |-> "OPEN", charges |-> 0, balance |-> 0]

Locked(g) == job[g] # None

Op == ops < MaxOps /\ ops' = ops + 1 /\ quiet' = {}
Unasked == ops' = ops /\ quiet' = {}
OwnDoing == ops' = ops /\ quiet' = quiet

\* An event whose transaction is through is done with, or comes again: the
\* worker ended, or could not mark it, before it was known as handled.
Handled(e) ==
    \/ inbox' = inbox \ {e} /\ ops' = ops
    \/ e # None /\ ops < MaxOps /\ inbox' = inbox /\ ops' = ops + 1

NoItem == [at |-> None, amount |-> 0, void |-> "no", back |-> None]
ItemAt(f, a) == [at |-> f, amount |-> a, void |-> "no", back |-> None]
Free(k) == item[k].at = None

\* Void and payment decisions that are still open.
Awaited(f) ==
    \/ \E k \in At(item, f) : item[k].void = "asked"
    \/ \E p \in At(pay, f) : pay[p].void = "asked" \/ pay[p].status = "PENDING"

\* resolvePostingFolio; None when a folio must be opened.
Resolve(r, g) ==
    IF r # None /\ IsOpen(r) THEN r ELSE IF OpenOf(g) # {} THEN FirstOf(OpenOf(g)) ELSE None

PostedNights(g) == {k \in NightOf(g) : ~Free(k)}
NightSum(g) == SumFunction([k \in PostedNights(g) |-> item[k].amount])
NightVoided(g) == \E k \in PostedNights(g) : item[k].void = "done"

\* Mutant: a night that is charged already is charged once more.
PlanNightBlindly(g) ==
    IF house[g].price = 0 \/ NightVoided(g) THEN {}
    ELSE {[key |-> <<g, "night", Cardinality(PostedNights(g))>>, amount |-> house[g].price]}

\* planRoomPostings: the difference to what is posted, unless any of it was voided.
PlanNight(g) ==
    IF house[g].price = NightSum(g) \/ NightVoided(g) THEN {}
    ELSE {[key |-> <<g, "night", Cardinality(PostedNights(g))>>, amount |-> house[g].price - NightSum(g)]}

LiveFees(g) == {k \in LateOf(g) : ~Free(k) /\ item[k].void # "done"}

\* Mutant: the fee of every check-out event is posted.
PlanLateAlways(g, n, late) == IF late THEN {[key |-> <<g, "late", n>>, amount |-> LateFee]} ELSE {}

PlanLate(g, n, late) ==
    IF late /\ LiveFees(g) = {} THEN {[key |-> <<g, "late", n>>, amount |-> LateFee]} ELSE {}

Init ==
    /\ \E first \in [Stays -> Folios] :
         /\ \A g, h \in Stays : first[g] = first[h] => g = h
         /\ folio = [f \in Folios |->
              IF \E g \in Stays : first[g] = f
              THEN [of |-> CHOOSE g \in Stays : first[g] = f, window |-> 1, status |-> "OPEN", charges |-> 0, balance |-> 0]
              ELSE [of |-> None, window |-> 0, status |-> "NEW", charges |-> 0, balance |-> 0]]
    /\ item = [k \in Items |-> NoItem]
    /\ pay = [p \in Pays |-> [at |-> None, amount |-> 0, status |-> "NONE", void |-> "no", back |-> None]]
    /\ route = [g \in Stays |-> None]
    /\ house \in [Stays ->
         {[in |-> TRUE, price |-> a, late |-> FALSE, due |-> 0, changes |-> 0, departures |-> 0] : a \in Prices}]
    /\ inbox = {} /\ deciding = {} /\ quiet = {}
    /\ job = [g \in Stays |-> None]
    /\ ops = 0

-----------------------------------------------------------------------------
(* Staff: charges, voids, transfers *)

\* postCharge; a discount is at most the stored charges.
PostCharge(f, c, a) ==
    LET k == <<c, "charge", 0>>
    IN  /\ Op
        /\ IsOpen(f) /\ Free(k)
        /\ a < 0 => -a <= folio[f].charges
        /\ item' = [item EXCEPT ![k] = ItemAt(f, a)] /\ pay' = pay
        /\ Refresh(folio, {f})
        /\ UNCHANGED <<route, house, inbox, job, deciding>>

RequestVoid(k) ==
    /\ Op
    /\ ~Free(k) /\ IsOpen(item[k].at) /\ item[k].void = "no"
    /\ item' = [item EXCEPT ![k].void = "asked"]
    /\ UNCHANGED <<folio, pay, route, house, inbox, job, deciding>>

\* applyVoidDecision reads the item, then locks the folio it read.  A decision
\* may be delivered again before the first delivery is through; what is open
\* for one item has one outcome.
ReadDecision(k, granted) ==
    /\ Op
    /\ item[k].void = "asked" /\ \A d \in deciding : d.key = k => d.granted = granted
    /\ deciding' = deciding \union {[key |-> k, at |-> item[k].at, granted |-> granted]}
    /\ UNCHANGED <<accounts, house, inbox, job>>

\* reverseItems: the reversal goes to where the item is.
Reversed(rows, S) ==
    [k \in DOMAIN rows |-> IF k \in S THEN [rows[k] EXCEPT !.void = "done", !.back = rows[k].at] ELSE rows[k]]

\* One delivery of the decision is through; another that read the same may be
\* under way.
Delivered(d) ==
    /\ d \in deciding /\ quiet' = {}
    /\ \/ deciding' = deciding \ {d} /\ ops' = ops
       \/ ops < MaxOps /\ deciding' = deciding /\ ops' = ops + 1

\* Mutant: the reversal goes to the folio that was read, whatever became of it.
DecideWhereRead(d) ==
    /\ Delivered(d)
    /\ item' = [item EXCEPT ![d.key].void = IF d.granted THEN "done" ELSE "no",
                            ![d.key].back = IF d.granted THEN d.at ELSE None]
    /\ pay' = pay /\ Refresh(folio, {d.at})
    /\ UNCHANGED <<route, house, inbox, job>>

\* Granted: the item is reversed, if the folio that was read is still open and
\* the item was not reversed meanwhile.  Otherwise the request is dropped.
Decide(d) ==
    /\ Delivered(d)
    /\ IF d.granted /\ IsOpen(d.at)
       THEN /\ IsOpen(item[d.key].at)
            /\ item' = Reversed(item, {k \in {d.key} : item[k].void # "done"})
            /\ pay' = pay /\ Refresh(folio, {item[d.key].at})
       ELSE /\ item' = [item EXCEPT ![d.key].void = IF @ = "asked" THEN "no" ELSE @]
            /\ UNCHANGED <<folio, pay>>
    /\ UNCHANGED <<route, house, inbox, job>>

\* Mutant: only the totals of the target are computed again.
TransferIn(k, t) ==
    /\ Op
    /\ ~Free(k) /\ item[k].at # t /\ IsOpen(item[k].at) /\ IsOpen(t)
    /\ item[k].void = "no"
    /\ item' = [item EXCEPT ![k].at = t] /\ pay' = pay
    /\ Refresh(folio, {t})
    /\ UNCHANGED <<route, house, inbox, job, deciding>>

\* transferItems; what was voided, or waits to be, stays.
Transfer(k, t) ==
    /\ Op
    /\ ~Free(k) /\ item[k].at # t /\ IsOpen(item[k].at) /\ IsOpen(t)
    /\ item[k].void = "no"
    /\ item' = [item EXCEPT ![k].at = t] /\ pay' = pay
    /\ Refresh(folio, {item[k].at, t})
    /\ UNCHANGED <<route, house, inbox, job, deciding>>

\* splitFolio
Split(f, n, S, routed) ==
    /\ Op
    /\ IsOpen(f) /\ n \in Unused /\ ~Locked(folio[f].of)
    /\ S \subseteq At(item, f) /\ \A k \in S : item[k].void = "no"
    /\ item' = [k \in Items |-> IF k \in S THEN [item[k] EXCEPT !.at = n] ELSE item[k]] /\ pay' = pay
    /\ Refresh([folio EXCEPT ![n] = NewFolio(folio[f].of)], {f, n})
    /\ route' = IF routed THEN [route EXCEPT ![folio[f].of] = n] ELSE route
    /\ UNCHANGED <<house, inbox, job, deciding>>

Moved(rows, s, t) ==
    [k \in DOMAIN rows |-> [rows[k] EXCEPT !.at = IF @ = s THEN t ELSE @, !.back = IF @ = s THEN t ELSE @]]

\* mergeFolios, with one source: everything on it goes to the target, pending
\* voids too, and so does what would be posted to it later.
Merge(s, t) ==
    /\ Op
    /\ s # t /\ IsOpen(s) /\ IsOpen(t)
    /\ item' = Moved(item, s, t) /\ pay' = Moved(pay, s, t)
    /\ Refresh([folio EXCEPT ![s].status = "TRANSFERRED"], {s, t})
    /\ route' = [g \in Stays |->
         IF route[g] = s \/ (g = folio[s].of /\ g # folio[t].of /\ Resolve(route[g], g) = s) THEN t ELSE route[g]]
    /\ UNCHANGED <<house, inbox, job, deciding>>

-----------------------------------------------------------------------------
(* Staff: routes, opening, closing *)

\* setRoutes: the target is looked at, and not locked.
BeginRoute(g, f) ==
    /\ Op
    /\ ~Locked(g) /\ IsOpen(f)
    /\ job' = [job EXCEPT ![g] = [kind |-> "route", specs |-> {}, target |-> f, opens |-> FALSE, event |-> None]]
    /\ UNCHANGED <<accounts, house, inbox, deciding>>

SetRoute(g) ==
    /\ Locked(g) /\ job[g].kind = "route"
    /\ route' = [route EXCEPT ![g] = job[g].target]
    /\ job' = [job EXCEPT ![g] = None]
    /\ Unasked /\ UNCHANGED <<folio, item, pay, house, inbox, deciding>>

RemoveRoute(g) ==
    /\ Op
    /\ ~Locked(g) /\ route[g] # None
    /\ route' = [route EXCEPT ![g] = None]
    /\ UNCHANGED <<folio, item, pay, house, inbox, job, deciding>>

\* openFolio; the worker at a check-in does the same.
OpenFolio(g, n) ==
    /\ Op
    /\ ~Locked(g) /\ OpenOf(g) = {} /\ n \in Unused
    /\ folio' = [folio EXCEPT ![n] = NewFolio(g)]
    /\ UNCHANGED <<item, pay, route, house, inbox, job, deciding>>

Without(r, S) == [g \in Stays |-> IF r[g] \in S THEN None ELSE r[g]]

\* Mutant: only the balance is looked at.
CloseWhateverIsAwaited(f) ==
    /\ IsOpen(f) /\ ~Locked(folio[f].of)
    /\ Balance(f) = 0
    /\ ~(house[folio[f].of].in /\ OpenOf(folio[f].of) = {f})
    /\ item' = item /\ pay' = pay /\ Refresh([folio EXCEPT ![f].status = "CLOSED"], {f})
    /\ route' = Without(route, {f})
    /\ UNCHANGED <<house, inbox, job, deciding>>

\* closeLocked
Close(f) ==
    /\ IsOpen(f) /\ ~Locked(folio[f].of)
    /\ Balance(f) = 0 /\ ~Awaited(f)
    /\ ~(house[folio[f].of].in /\ OpenOf(folio[f].of) = {f})
    /\ item' = item /\ pay' = pay /\ Refresh([folio EXCEPT ![f].status = "CLOSED"], {f})
    /\ route' = Without(route, {f})
    /\ UNCHANGED <<house, inbox, job, deciding>>

CloseFolio(f) == Op /\ Close(f)

\* The worker, after a payment of a guest who has left.
CloseFolioIfSettled(f) ==
    /\ Unasked
    /\ \E p \in At(pay, f) : pay[p].status = "POSTED"
    /\ IsOpen(f) /\ ~house[folio[f].of].in
    /\ Close(f)

ReopenFolio(f) ==
    /\ Op
    /\ folio[f].status = "CLOSED"
    /\ folio' = [folio EXCEPT ![f].status = "OPEN"]
    /\ UNCHANGED <<item, pay, route, house, inbox, job, deciding>>

-----------------------------------------------------------------------------
(* Postings by the worker and the night run *)

\* Under the lock of the reservation: what to post, and where.
Begin(g, kind, specs, target, event) ==
    /\ ~Locked(g)
    /\ job' = [job EXCEPT ![g] =
         [kind |-> kind, specs |-> specs, target |-> target, opens |-> specs # {} /\ OpenOf(g) = {}, event |-> event]]
    /\ UNCHANGED <<accounts, house, inbox, deciding>>

\* The night run, for the stays in house; the staff's button, for any stay.
BeginRoomCharges(g) ==
    /\ PlanNight(g) # {}
    /\ Begin(g, "night", PlanNight(g), Resolve(route[g], g), None)
    /\ OwnDoing

\* postExternalCharge: a guest who has left is charged only into an open folio.
BeginExternal(g, c, a) ==
    LET k == <<c, "charge", 0>>
    IN  /\ Op
        /\ Free(k) /\ \A h \in Stays : Locked(h) => \A s \in job[h].specs : s.key # k
        /\ house[g].in \/ OpenOf(g) # {}
        /\ Begin(g, "external", {[key |-> k, amount |-> a]}, Resolve(None, g), None)

BeginSettle(g, e) ==
    /\ e \in inbox /\ e.stay = g /\ e.kind = "out" /\ ~house[g].in
    /\ Begin(g, "settle", PlanNight(g) \union PlanLate(g, e.n, e.late), Resolve(route[g], g), e)
    /\ OwnDoing

\* The check-out was taken back before its event was handled.
SkipSettle(g, e) ==
    /\ e \in inbox /\ e.stay = g /\ e.kind = "out" /\ house[g].in /\ ~Locked(g)
    /\ inbox' = inbox \ {e}
    /\ OwnDoing /\ UNCHANGED <<accounts, house, job, deciding>>

Posting(g) == Locked(g) /\ job[g].kind \in {"night", "external", "settle"}

\* The folio was closed or merged between the read and the lock: chosen again.
Retarget(g) ==
    /\ Posting(g) /\ job[g].target # None /\ ~IsOpen(job[g].target) /\ job[g].specs # {}
    /\ job' = [job EXCEPT ![g].target = Resolve(IF job[g].kind = "external" THEN None ELSE route[g], g),
                          ![g].opens = @ \/ OpenOf(g) = {}]
    /\ OwnDoing /\ UNCHANGED <<accounts, house, inbox, deciding>>

\* createManyAndReturn with skipDuplicates.
Posted(rows, specs, f) ==
    [k \in Items |->
        IF rows[k].at = None /\ \E s \in specs : s.key = k
        THEN ItemAt(f, (CHOOSE s \in specs : s.key = k).amount)
        ELSE rows[k]]

\* The items are written to folio f; a settlement then closes the folios of the
\* stay that allow it.
Commit(g, f, folios) ==
    LET specs == job[g].specs
        own == {o \in Folios : folios[o].of = g /\ folios[o].status = "OPEN"}
        settled == {o \in own : SumAt(item', o) = SumAt(PostedRows(pay), o) /\ ~Awaited(o)}
        closed == IF job[g].kind = "settle" THEN settled ELSE {}
    IN  /\ item' = Posted(item, specs, f) /\ pay' = pay
        /\ Refresh([o \in Folios |-> IF o \in closed THEN [folios[o] EXCEPT !.status = "CLOSED"] ELSE folios[o]],
                   (IF specs = {} THEN {} ELSE {f}) \union (IF job[g].kind = "settle" THEN own ELSE {}))
        /\ route' = Without(route, closed)
        /\ Handled(job[g].event)
        /\ job' = [job EXCEPT ![g] = None]
        /\ quiet' = quiet \intersect {g}
        /\ UNCHANGED <<house, deciding>>

\* Mutant: the target is not looked at again under its lock.
CommitWhereRead(g) ==
    /\ Posting(g) /\ job[g].target # None /\ ~job[g].opens
    /\ Commit(g, job[g].target, folio)

\* The first open folio of the stay is opened if it has none, be it only to
\* stay empty because the charge is routed elsewhere.
CommitPosting(g) ==
    /\ Posting(g)
    /\ LET f == job[g].target IN
       \/ job[g].specs = {} /\ Commit(g, f, folio)
       \/ /\ job[g].specs # {} /\ ~job[g].opens /\ IsOpen(f)
          /\ Commit(g, f, folio)
       \/ /\ job[g].opens
          /\ \E n \in Unused :
               /\ f # None => IsOpen(f)
               /\ Commit(g, IF f = None THEN n ELSE f, [folio EXCEPT ![n] = NewFolio(g)])

\* A deadlock, a lost connection, a folio that changed once too often: the
\* transaction is rolled back and the event stays for another attempt or a task.
Abort(g) ==
    /\ Locked(g)
    /\ job' = [job EXCEPT ![g] = None]
    /\ OwnDoing /\ UNCHANGED <<accounts, house, inbox, deciding>>

-----------------------------------------------------------------------------
(* The stay *)

ChangePrice(g, a) ==
    /\ Op
    /\ ~Locked(g) /\ house[g].in /\ house[g].changes < MaxChanges
    /\ a # house[g].price
    /\ house' = [house EXCEPT ![g].price = a, ![g].changes = @ + 1]
    /\ UNCHANGED <<accounts, inbox, job, deciding>>

OwnBalance(g) ==
    SumFunction([f \in {o \in Folios : folio[o].of = g /\ folio[o].status # "TRANSFERRED"} |-> Balance(f)])

\* pendingStayCharges: what the settlement will post to the stay's own folios.
Pending(g, late) ==
    LET specs == PlanNight(g) \union PlanLate(g, house[g].departures + 1, late)
        elsewhere == route[g] # None /\ IsOpen(route[g]) /\ folio[route[g]].of # g
    IN  IF elsewhere THEN 0 ELSE SumFunction([s \in specs |-> s.amount])

\* A check-out with the due already computed.
Leave(g, late, due) ==
    LET n == house[g].departures + 1
    IN  /\ ops < MaxOps /\ ops' = ops + 1
        /\ quiet' = IF n = 1 THEN {g} ELSE {}
        /\ ~Locked(g) /\ house[g].in /\ n <= MaxDepartures
        /\ house' = [house EXCEPT ![g].in = FALSE, ![g].late = late, ![g].due = due, ![g].departures = n]
        /\ inbox' = inbox \union {[kind |-> "out", stay |-> g, n |-> n, late |-> late, fees |-> {}]}
        /\ UNCHANGED <<accounts, job, deciding>>

\* Mutant: what is not posted yet is not counted.
CheckOutByBalance(g, late) == Leave(g, late, OwnBalance(g))

\* checkOut: the balance is read under the locks of all folios of the stay.  A
\* guest may leave with an amount due, or be owed one, if the staff allow it.
CheckOut(g, late) == Leave(g, late, OwnBalance(g) + Pending(g, late))

RevertCheckOut(g) ==
    /\ Op
    /\ ~Locked(g) /\ ~house[g].in
    /\ house' = [house EXCEPT ![g].in = TRUE, ![g].late = FALSE, ![g].due = 0]
    /\ inbox' = inbox \union
         {[kind |-> "back", stay |-> g, n |-> house[g].departures, late |-> FALSE, fees |-> {k \in LateOf(g) : ~Free(k)}]}
    /\ UNCHANGED <<accounts, job, deciding>>

\* reopenStayOnCheckOutRevert, whatever the stay is by now: the fees posted before
\* the revert are reversed, their folios and the first folio opened for it.
UndoSettle(g, e) ==
    /\ e \in inbox /\ e.stay = g /\ e.kind = "back" /\ ~Locked(g)
    /\ LET fees == e.fees \intersect LiveFees(g)
           places == {item[k].at : k \in fees}
           closed == {f \in Folios : folio[f].of = g /\ folio[f].status = "CLOSED"}
           first == IF OpenOf(g) = {} /\ closed # {} THEN {FirstOf(closed)} ELSE {}
       IN  /\ item' = Reversed(item, fees) /\ pay' = pay
           /\ Refresh([f \in Folios |->
                         IF f \in first \union places THEN [folio[f] EXCEPT !.status = "OPEN"] ELSE folio[f]],
                      places)
    /\ Handled(e)
    /\ quiet' = {} /\ UNCHANGED <<route, house, job, deciding>>

-----------------------------------------------------------------------------

FolioNext ==
    \/ \E f \in Folios, c \in Charges, a \in Amounts : PostCharge(f, c, a)
    \/ \E k \in Items : RequestVoid(k) \/ ReadDecision(k, TRUE) \/ ReadDecision(k, FALSE)
    \/ \E d \in deciding : Decide(d)
    \/ \E k \in Items, t \in Folios : Transfer(k, t)
    \/ \E f, n \in Folios, routed \in BOOLEAN : \E S \in SUBSET At(item, f) : Split(f, n, S, routed)
    \/ \E s, t \in Folios : Merge(s, t)
    \/ \E g \in Stays, f \in Folios : BeginRoute(g, f) \/ OpenFolio(g, f)
    \/ \E f \in Folios : CloseFolio(f) \/ CloseFolioIfSettled(f) \/ ReopenFolio(f)
    \/ \E g \in Stays, c \in Charges, a \in Amounts : BeginExternal(g, c, a)
    \/ \E g \in Stays, e \in inbox : BeginSettle(g, e) \/ SkipSettle(g, e) \/ UndoSettle(g, e)
    \/ \E g \in Stays, a \in Prices : ChangePrice(g, a)
    \/ \E g \in Stays, late \in BOOLEAN : CheckOut(g, late)
    \/ \E g \in Stays :
          \/ SetRoute(g) \/ RemoveRoute(g) \/ RevertCheckOut(g)
          \/ BeginRoomCharges(g) \/ Retarget(g) \/ CommitPosting(g) \/ Abort(g)

-----------------------------------------------------------------------------
(* Properties *)

FolioRows == [of : Stays \union {None}, window : Nat, status : {"NEW", "OPEN", "CLOSED", "TRANSFERRED"},
              charges : Int, balance : Int]
ItemRows == [at : Folios \union {None}, amount : Int, void : {"no", "asked", "done"}, back : Folios \union {None}]
PayRows == [at : Folios \union {None}, amount : Int, status : {"NONE", "PENDING", "POSTED", "DECLINED"},
            void : {"no", "asked", "done"}, back : Folios \union {None}]
Jobs == [kind : {"route", "night", "external", "settle"}, specs : SUBSET [key : Items, amount : Int],
         target : Folios \union {None}, opens : BOOLEAN, event : inbox \union {None}]

FolioTypeOK ==
    /\ folio \in [Folios -> FolioRows]
    /\ \A f \in Folios : folio[f].of = None <=> folio[f].status = "NEW"
    /\ item \in [Items -> ItemRows] /\ pay \in [Pays -> PayRows]
    /\ route \in [Stays -> Folios \union {None}]
    /\ house \in [Stays -> [in : BOOLEAN, price : Prices, late : BOOLEAN, due : Int, changes : Nat, departures : Nat]]
    /\ inbox \subseteq Events
    /\ job \in [Stays -> Jobs \union {None}]
    /\ deciding \subseteq [key : Items, at : Folios, granted : BOOLEAN]
    /\ ops \in Nat /\ quiet \subseteq Stays

\* The totals stored with a folio, which lists and discounts go by, are those of
\* its rows, whatever moved or was reversed (refreshFolioTotals).
TotalsAreTrue ==
    \A f \in Folios : folio[f].charges = Charged(f) /\ folio[f].balance = Balance(f)

\* A closed folio, which is invoiced, owes nothing and waits for no decision:
\* nothing is posted to it, moved from or to it, or decided on it (closeLocked).
ClosedIsSettled ==
    \A f \in Folios : folio[f].status = "CLOSED" => Balance(f) = 0 /\ ~Awaited(f)

\* Nothing stays on, or comes later to, a folio that was merged into another
\* one (mergeFolios, and the second look of postSpecs and of a void decision).
MergedIsEmpty ==
    \A f \in Folios : folio[f].status = "TRANSFERRED" =>
        /\ At(item, f) = {} /\ Back(item, f) = {}
        /\ At(pay, f) = {} /\ Back(pay, f) = {}

\* What is voided and its reversal are on the same folio, so that both stay out
\* of every balance (reverseItems, transferItems, mergeFolios).
VoidsCancelOut ==
    /\ \A k \in Items : item[k].back = IF item[k].void = "done" THEN item[k].at ELSE None
    /\ \A p \in Pays : pay[p].back = IF pay[p].void = "done" THEN pay[p].at ELSE None

\* However often the night run, the button and the settlement repeat and are
\* rolled back, a night is charged its price once: right after a posting the
\* rows of a night of which nothing was voided add up to it (planRoomPostings).
NightIsCharged ==
    [][\A g \in Stays : Locked(g) /\ ~Locked(g)' /\ (PostedNights(g))' # PostedNights(g) /\ ~(NightVoided(g))'
           => (NightSum(g))' = house[g].price]_vars

\* One stay is charged for one late check-out, through check-outs that are taken
\* back and repeated and whose events come late (settleStayOnCheckOut).
OneLateFee == \A g \in Stays : Cardinality(LiveFees(g)) <= 1

\* What the check-out found due, counting what was not posted yet, is the balance
\* the guest is left with once the settlement has run, if nothing else touched
\* the account in between (pendingStayCharges and settleStayOnCheckOut agree).
SettlesAsCounted ==
    \A g \in quiet : (\A e \in inbox : e.stay # g) => OwnBalance(g) = house[g].due

=============================================================================
