------------------------------ MODULE Payments ------------------------------
(***************************************************************************)
(* Payments into the folios of stays, refunds, and the voids of either.    *)
(*                                                                         *)
(* Every operation and every decision locks the folio the payment is on,   *)
(* finding it again when a merge moved the payment meanwhile: one step.    *)
(* A refund is a payment with a negative amount.  Refunds and payments of  *)
(* at least Large wait for a decision, as does the void of any payment.    *)
(*                                                                         *)
(* Left out: methods, currencies and rates, cash sessions, ledgers, and    *)
(* the withdrawal of a deposit when its check-in is taken back.            *)
(***************************************************************************)
EXTENDS Folios

CONSTANT Large  \* largePaymentThreshold

ASSUME LargeAssumption == Large \in Nat \ {0}

Sum(rows, S) == SumFunction([p \in S |-> rows[p].amount])

\* folioPaymentState
PostedNet(f) == Paid(f)
PendingRefunds(f) == Sum(pay, {p \in At(pay, f) : pay[p].status = "PENDING" /\ pay[p].amount < 0})

\* Mutant: refunds that wait are not taken off.
RefundablePosted(f) == IF PostedNet(f) < 0 THEN 0 ELSE PostedNet(f)

\* refundableAmount
Refundable(f) ==
    LET left == PostedNet(f) + PendingRefunds(f) IN IF left < 0 THEN 0 ELSE left

PayAt(f, a, s) == [at |-> f, amount |-> a, status |-> s, void |-> "no", back |-> None]
StatusOf(a) == IF a < 0 \/ a >= Large THEN "PENDING" ELSE "POSTED"

\* writePayment, into the folio f of folios; a second call with the same
\* request finds the row of the first.
Write(p, f, a, folios) ==
    /\ Op
    /\ pay[p].status = "NONE"
    /\ pay' = [pay EXCEPT ![p] = PayAt(f, a, StatusOf(a))] /\ item' = item
    /\ Refresh(folios, IF StatusOf(a) = "POSTED" THEN {f} ELSE {})
    /\ UNCHANGED <<route, house, inbox, job, deciding>>

\* receivePayment, receiveStayPayment and the deposit of a check-in.
Receive(f, p, a) == IsOpen(f) /\ Write(p, f, a, folio)

\* receiveStayPayment of a guest without an open folio: one is opened.
ReceiveForStay(g, n, p, a) ==
    /\ ~Locked(g) /\ house[g].in /\ OpenOf(g) = {} /\ n \in Unused
    /\ Write(p, n, a, [folio EXCEPT ![n] = NewFolio(g)])

RequestRefund(f, p, a) ==
    /\ IsOpen(f) /\ a <= Refundable(f)
    /\ Write(p, f, -a, folio)

\* requestPaymentVoid; voidLeavesRefundsCovered is asked of payments.
RequestPaymentVoid(p) ==
    /\ Op
    /\ pay[p].status = "POSTED" /\ pay[p].void = "no" /\ IsOpen(pay[p].at)
    /\ pay[p].amount > 0 => PostedNet(pay[p].at) - pay[p].amount + PendingRefunds(pay[p].at) >= 0
    /\ pay' = [pay EXCEPT ![p].void = "asked"]
    /\ UNCHANGED <<folio, item, route, house, inbox, job, deciding>>

\* applyPending
DecidePending(p, granted) ==
    /\ Op
    /\ pay[p].status = "PENDING"
    /\ LET applied == granted /\ IsOpen(pay[p].at)
       IN  /\ pay' = [pay EXCEPT ![p].status = IF applied THEN "POSTED" ELSE "DECLINED"] /\ item' = item
           /\ Refresh(folio, IF applied THEN {pay[p].at} ELSE {})
    /\ UNCHANGED <<route, house, inbox, job, deciding>>

\* applyVoid; the reversal is posted where the payment is.
DecidePaymentVoid(p, granted) ==
    /\ Op
    /\ pay[p].void = "asked"
    /\ LET applied == granted /\ IsOpen(pay[p].at) /\ pay[p].status = "POSTED"
       IN  /\ pay' = IF applied THEN Reversed(pay, {p}) ELSE [pay EXCEPT ![p].void = "no"]
           /\ item' = item
           /\ Refresh(folio, IF applied THEN {pay[p].at} ELSE {})
    /\ UNCHANGED <<route, house, inbox, job, deciding>>

Next ==
    \/ FolioNext
    \/ \E f \in Folios, p \in Pays, a \in Amounts : a > 0 /\ (Receive(f, p, a) \/ RequestRefund(f, p, a))
    \/ \E g \in Stays, n \in Folios, p \in Pays, a \in Amounts : a > 0 /\ ReceiveForStay(g, n, p, a)
    \/ \E p \in Pays :
          \/ RequestPaymentVoid(p)
          \/ \E granted \in BOOLEAN : DecidePending(p, granted) \/ DecidePaymentVoid(p, granted)

Spec == Init /\ [][Next]_vars

-----------------------------------------------------------------------------
(* Properties *)

\* On every folio the money taken, voided since or not, covers what was given
\* back and what waits to be: two refunds never give the same money back, and a
\* merge takes both sides along (refundableAmount).
GivenWasTaken ==
    \A f \in Folios :
        LET rows == At(pay, f)
            taken == {p \in rows : pay[p].status = "POSTED" /\ pay[p].amount > 0}
            given == {p \in rows : pay[p].amount < 0 /\ pay[p].status \in {"PENDING", "POSTED"} /\ pay[p].void # "done"}
        IN  Sum(pay, taken) + Sum(pay, given) >= 0
=============================================================================
