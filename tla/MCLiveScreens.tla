--------------------------- MODULE MCLiveScreens ---------------------------
(* Two screens share the subscription of one channel. *)
EXTENDS LiveScreens
=============================================================================
