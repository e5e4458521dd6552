----------------------------- MODULE MCHandoff -----------------------------
(* A conversation with two messages, two proposals and two requests.      *)
EXTENDS Handoff
=============================================================================
