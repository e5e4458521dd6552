---------------------------- MODULE MCBaseWorker ----------------------------
(* One actor on a small instance: e1 is an event whose listing allows it to *)
(* be skipped while the actor is off, e2 asks for approval and is resumed.  *)
EXTENDS BaseWorker

CONSTANTS e1, e2, request, relay, again, resume

\* Behaviours that deliver one of the two: the other is lost before it starts.
InitSmall ==
    /\ Started
    /\ \E coming \in {{e1} \X {request, relay, again}, {e2} \X {request, resume}} :
           pc = [j \in Jobs |-> IF j \in coming THEN "absent" ELSE "lost"]

FairSmall == InitSmall /\ [][Next]_vars /\ GoesOn
=============================================================================
