--------------------------- MODULE InvitationsMC ---------------------------
(* Instances of Invitations: two people, two sites of one client, and      *)
(* invitations that live for one day.  In a behaviour requests either come *)
(* one after another, with a clock, or overlap, with one id less and no    *)
(* clock.                                                                  *)
EXTENDS InvitationsAlone, TLC

CONSTANTS r1, r2, i1, i2, i3, i4, p1, p2, e1, e2, s1, s2, c1

MCEmailOf == p1 :> e1 @@ p2 :> e2
MCOneEmail == p1 :> e1
MCClientOf == s1 :> c1 @@ s2 :> c1
(* Ids, request slots and sites are interchangeable, and so are the two    *)
(* people when each takes the email along.                                 *)
MCSymmetry ==
    UNION {Permutations(Ids), Permutations(Reqs), Permutations(Sites),
           IF Persons = {p1, p2}
           THEN {p1 :> p2 @@ p2 :> p1 @@ e1 :> e2 @@ e2 :> e1} ELSE {}}
=============================================================================
