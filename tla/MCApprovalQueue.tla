--------------------------- MODULE MCApprovalQueue ---------------------------
(* One gated actor on two processes, the request and its grant delivered    *)
(* twice each, every time on both processes.                                *)
EXTENDS ApprovalQueue

CONSTANTS request, grant1, p1, p2

\* The bus of one process delivers first, the relay of the other again.
InitSmall ==
    /\ InitApprovals
    /\ \A j \in Jobs : at[j] = IF j[2] \in {request, grant1} THEN p1 ELSE p2

FairSmall == InitSmall /\ [][NextApprovals]_allVars /\ KeptGoing
=============================================================================
