------------------------ MODULE InspectionSessionsMC ------------------------
(* Instances of InspectionSessions: a route of two points and, when there  *)
(* is a third, another route that may share an asset.                      *)
EXTENDS InspectionSessions, TLC

CONSTANTS r1, r2, rt1, rt2, p1, p2, p3, a1, a2

RouteTable == [p \in Points |-> IF p = p3 THEN rt2 ELSE rt1]
CycleTable == [a \in Assets |-> IF a = a1 THEN 0 ELSE None]
Symmetry == Permutations({r1, r2} \cap Reqs) \cup Permutations({p1, p2} \cap Points)
=============================================================================
