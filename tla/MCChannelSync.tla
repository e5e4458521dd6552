--------------------------- MODULE MCChannelSync ---------------------------
(* Two days make an interval, two values a change and the way back. *)
EXTENDS ChannelSync
=============================================================================
