--------------------------- MODULE ClientAccessMC ---------------------------
(* Instances of ClientAccess: client c1 has two places, c2 has one. *)
EXTENDS ClientAccess, TLC

CONSTANTS r1, r2, c1, c2, p1, p2, p3, a, b

MCClientOf == (p1 :> c1) @@ (p2 :> c1) @@ (p3 :> c2)
MCTwoPlaces == (p1 :> c1) @@ (p3 :> c2)

MCSymmetry == Permutations(Reqs) \cup Permutations(Roles)
=============================================================================
