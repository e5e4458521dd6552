---------------------------- MODULE AtLeastOnce -----------------------------
(***************************************************************************)
(* What a subscriber of the event bus may rely on (the contract stated in  *)
(* the headers of lib/write.js, lib/events.js and lib/outbox.js): an event *)
(* exists only if its transaction committed, nothing else is delivered,    *)
(* and a committed event is delivered once, or a second time when the      *)
(* relay took it over from the request that wrote it.                      *)
(***************************************************************************)
EXTENDS Naturals

CONSTANT Events

VARIABLES committed, delivered

absVars == <<committed, delivered>>

MaxDeliveries == 2

Init ==
    /\ committed = {}
    /\ delivered = [e \in Events |-> 0]

\* A transaction commits the events it staged.
CommitEvents ==
    /\ \E es \in SUBSET (Events \ committed) :
          /\ es # {}
          /\ committed' = committed \cup es
    /\ UNCHANGED delivered

Deliver(e) ==
    /\ e \in committed
    /\ delivered[e] < MaxDeliveries
    /\ delivered' = [delivered EXCEPT ![e] = @ + 1]
    /\ UNCHANGED committed

Next == CommitEvents \/ \E e \in Events : Deliver(e)

Spec == Init /\ [][Next]_absVars
=============================================================================
