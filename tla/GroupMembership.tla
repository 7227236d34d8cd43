-------------------------- MODULE GroupMembership --------------------------
(***************************************************************************)
(* What a change of several group memberships of a user promises: it takes *)
(* place as a whole; or it fails, and then every membership that differs   *)
(* in the direction of the change is among those the error reports; or the *)
(* process dies on the way, and only the groups of the change may differ.  *)
(* A failed change may undo more than it did: a membership that was there  *)
(* before is not told apart from one the change made.                      *)
(***************************************************************************)
CONSTANT Groups

VARIABLES
    held,     \* the groups of the user
    result,   \* how the last change ended
    reported  \* what its error reports

vars == <<held, result, reported>>

Init == held \in SUBSET Groups /\ result = "none" /\ reported = {}

(* Somebody else changes one membership. *)
Other(g) ==
    /\ held' \in {held \cup {g}, held \ {g}}
    /\ UNCHANGED <<result, reported>>

AllAdded(S) == held' = held \cup S /\ result' = "added" /\ reported' = {}
AllRemoved(S) == held' = held \ S /\ result' = "removed" /\ reported' = {}

AddFailed(S) ==
    /\ result' = "add failed"
    /\ reported' \in (SUBSET S) \ {{}}
    /\ held' \in {H \in SUBSET (held \cup reported') : held \ S \subseteq H}

RemoveFailed(S) ==
    /\ result' = "remove failed"
    /\ reported' \in (SUBSET S) \ {{}}
    /\ held' \in {H \in SUBSET (held \cup S) : held \ reported' \subseteq H}

Interrupted(S) ==
    /\ result' = "interrupted" /\ reported' = {}
    /\ held' \in {(held \ S) \cup T : T \in SUBSET S}

Next ==
    \/ \E g \in Groups : Other(g)
    \/ \E S \in (SUBSET Groups) \ {{}} :
          AllAdded(S) \/ AllRemoved(S) \/ AddFailed(S) \/ RemoveFailed(S) \/ Interrupted(S)

Spec == Init /\ [][Next]_vars
=============================================================================
