------------------------------ MODULE MCOutbox ------------------------------
(* The outbox of one write with three events, on two processes that relay:  *)
(* rows of several writes never meet but in a relay's batch, and three rows *)
(* over batches of two already split a write between two relays.            *)
EXTENDS Outbox
=============================================================================
