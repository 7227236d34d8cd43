--------------------------- MODULE KeycloakGroups ---------------------------
(***************************************************************************)
(* addUserToGroupsTransactional and removeUserFromGroupsTransactional of   *)
(* KeycloakService: the calls to Keycloak are made at once and end in any  *)
(* order; when one is rejected, those that were fulfilled are undone.  A   *)
(* call may be rejected although Keycloak carried it out: the answer was   *)
(* lost.  Keycloak answers alike whether or not the membership was there   *)
(* before.  The process may die between any two answers.                   *)
(***************************************************************************)
EXTENDS Naturals

CONSTANTS Groups, StartGroups, MaxGroupEvents

ASSUME StartGroupsAssumption == StartGroups \subseteq Groups

VARIABLES
    member,      \* the groups of the user in Keycloak
    groupOp,     \* the change under way
    groupResult, \* how the last change ended
    groupError,  \* failures and rollbackFailures of the last error
    groupEvents  \* changes by others and crashes (bound)

groupVars == <<member, groupOp, groupResult, groupError, groupEvents>>

NoGroupOp == [kind |-> "none", pc |-> "idle", groups |-> {}, todo |-> {},
              ok |-> {}, failed |-> {}, before |-> {}]

GroupsInit ==
    /\ member = StartGroups
    /\ groupOp = NoGroupOp
    /\ groupResult = "none" /\ groupError = {}
    /\ groupEvents = 0

(* users.addToGroup and users.delFromGroup *)
Call(kind, g) == IF kind = "add" THEN member \cup {g} ELSE member \ {g}
Opposite(kind) == IF kind = "add" THEN "remove" ELSE "add"

StartGroupOp(kind, S) ==
    /\ groupOp.pc = "idle" /\ S # {}
    /\ groupOp' = [kind |-> kind, pc |-> "calls", groups |-> S, todo |-> S,
                   ok |-> {}, failed |-> {}, before |-> member]
    /\ UNCHANGED <<member, groupResult, groupError, groupEvents>>

(* Promise.allSettled over the calls, and over the calls that undo them. *)
CallSettles(g) ==
    /\ groupOp.pc \in {"calls", "rollback"} /\ g \in groupOp.todo
    /\ LET kind == IF groupOp.pc = "calls" THEN groupOp.kind ELSE Opposite(groupOp.kind)
           rest == [groupOp EXCEPT !.todo = @ \ {g}]
       IN \/ /\ member' = Call(kind, g)
             /\ groupOp' = IF groupOp.pc = "calls" THEN [rest EXCEPT !.ok = @ \cup {g}] ELSE rest
          \/ /\ member' \in {member, Call(kind, g)}
             /\ groupOp' = [rest EXCEPT !.failed = @ \cup {g}]
    /\ UNCHANGED <<groupResult, groupError, groupEvents>>

AllFulfilled ==
    /\ groupOp.pc = "calls" /\ groupOp.todo = {} /\ groupOp.failed = {}
    /\ groupOp' = NoGroupOp
    /\ groupResult' = IF groupOp.kind = "add" THEN "added" ELSE "removed"
    /\ groupError' = {}
    /\ UNCHANGED <<member, groupEvents>>

(* Faulty variant: only the failure is reported. *)
RollBackNothing ==
    /\ groupOp.pc = "calls" /\ groupOp.todo = {} /\ groupOp.failed # {}
    /\ groupOp' = [groupOp EXCEPT !.pc = "rollback"]
    /\ UNCHANGED <<member, groupResult, groupError, groupEvents>>

RollBack ==
    /\ groupOp.pc = "calls" /\ groupOp.todo = {} /\ groupOp.failed # {}
    /\ groupOp' = [groupOp EXCEPT !.pc = "rollback", !.todo = groupOp.ok]
    /\ UNCHANGED <<member, groupResult, groupError, groupEvents>>

ThrowGroupError ==
    /\ groupOp.pc = "rollback" /\ groupOp.todo = {}
    /\ groupOp' = NoGroupOp
    /\ groupResult' = IF groupOp.kind = "add" THEN "add failed" ELSE "remove failed"
    /\ groupError' = groupOp.failed
    /\ UNCHANGED <<member, groupEvents>>

GroupEvent == groupEvents < MaxGroupEvents /\ groupEvents' = groupEvents + 1

GroupCrash ==
    /\ groupOp.pc # "idle" /\ GroupEvent
    /\ groupOp' = NoGroupOp
    /\ groupResult' = "interrupted" /\ groupError' = {}
    /\ UNCHANGED member

(* An administrator of Keycloak changes another membership. *)
GroupChangedElsewhere(g) ==
    /\ g \notin groupOp.groups /\ GroupEvent
    /\ member' = IF g \in member THEN member \ {g} ELSE member \cup {g}
    /\ UNCHANGED <<groupOp, groupResult, groupError>>

GroupsNext ==
    \/ \E k \in {"add", "remove"}, S \in SUBSET Groups : StartGroupOp(k, S)
    \/ \E g \in Groups : CallSettles(g) \/ GroupChangedElsewhere(g)
    \/ AllFulfilled \/ RollBack \/ ThrowGroupError
    \/ GroupCrash

GroupsSpec == GroupsInit /\ [][GroupsNext]_groupVars

-----------------------------------------------------------------------------
(* Refinement: while a change is under way its groups count as they were   *)
(* before.                                                                 *)
Settled == (groupOp.before \cap groupOp.groups) \cup (member \ groupOp.groups)
Membership == INSTANCE GroupMembership WITH held <- Settled, result <- groupResult, reported <- groupError

(* Adding a user to groups, and removing one, takes place as a whole, or   *)
(* leaves nothing done that its error does not report, whatever calls and  *)
(* rollbacks fail or lose their answers.                                   *)
GroupsAllOrReported == Membership!Spec
=============================================================================
