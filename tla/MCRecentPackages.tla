-------------------------- MODULE MCRecentPackages --------------------------
EXTENDS RecentPackages, TLC
CONSTANTS p1, p2, u1, u2, r1, r2
(* One request at a time for each of two users, or two for the first.      *)
OneEach == r1 :> u1 @@ r2 :> u2
BothOfFirst == r1 :> u1 @@ r2 :> u1
Symmetry == Permutations(Packages)
=============================================================================
