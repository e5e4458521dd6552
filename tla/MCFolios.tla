------------------------------ MODULE MCFolios ------------------------------
(* Small instances of the folios and their payments: the names of folios, and  *)
(* of payments, are alike.                                                     *)
EXTENDS Payments, TLC

Signed == {1, -1}

Symmetry == Permutations(Folios) \union Permutations(Pays) \union Permutations(Stays)
=============================================================================
