-------------------------- MODULE MCNotifications --------------------------
(* Small instances of the message queue: senders are alike, and so are rows. *)
EXTENDS Notifications, TLC

Symmetry == Permutations(Rows) \union Permutations(Senders)
=============================================================================
