-------------------------- MODULE AdministrationMC --------------------------
(* Roles, people and groups, which share no state: a behaviour of the run  *)
(* is one of one of them.  One role exists and one can be created; one     *)
(* user with two names; a user who is in one of three groups.              *)
EXTENDS Roles, People, KeycloakGroups, TLC

CONSTANTS r1, r2, e1, e2, n1, n2, read, write, g1, g2, g3

VARIABLE part

vars == <<part, rolesVars, peopleVars, groupVars>>

Role(n, w, a, C) == [name |-> n, wide |-> w, assignable |-> a, capabilities |-> C]
RoleTable == r1 :> [name |-> n1, wide |-> FALSE, assignable |-> FALSE,
                    capabilities |-> {read}, system |-> FALSE]
             @@ r2 :> Unset
DtoSet == {Role(n2, Unset, TRUE, Unset), Role(Unset, TRUE, Unset, {write}),
           Role(Unset, Unset, TRUE, Unset)}
EditSet == {[name |-> n2, active |-> Absent], [name |-> Absent, active |-> FALSE]}

Init == RolesInit /\ PeopleInit /\ GroupsInit /\ part \in {"roles", "people", "groups"}

Next ==
    \/ part = "roles" /\ RolesNext /\ UNCHANGED <<part, peopleVars, groupVars>>
    \/ part = "people" /\ PeopleNext /\ UNCHANGED <<part, rolesVars, groupVars>>
    \/ part = "groups" /\ GroupsNext /\ UNCHANGED <<part, rolesVars, peopleVars>>

FairSpec ==
    /\ Init /\ [][Next]_vars
    /\ part = "roles" => RolesFairness
    /\ part = "people" => PeopleFairness

(* The name of a user who is enabled and keeps coming comes to be the one  *)
(* in Keycloak, whatever webhooks were lost or overtaken, rows cached, and *)
(* old tokens used (savePersonFromUserData repairs the row).               *)
NamesSettle == <>[](part = "people" => NameSettled)
=============================================================================
