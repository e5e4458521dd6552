---------------------------- MODULE MCStayRooms ----------------------------
(* Small instances of the day: nothing tells two reservations or two rooms  *)
(* apart.                                                                    *)
EXTENDS StayRooms, TLC

Symmetry == Permutations(Stays) \union Permutations(Rooms)
=============================================================================
