---------------------------- MODULE MCReadCaches ----------------------------
EXTENDS ReadCaches, TLC
CONSTANTS s1, l1, l2, c1, c2, q1, q2, r1
MCRow == {s1, r1}
MCSetting == {s1}
MCCommits == s1 :> 2 @@ r1 :> 1
\* Nothing tells two productions, computations or requests apart.
Alike == Permutations({l1, l2}) \union Permutations({c1, c2}) \union Permutations({q1, q2})
=============================================================================
