-------------------------- MODULE InvitationsAlone --------------------------
(***************************************************************************)
(* Invitations whose requests, in a behaviour, either come one after       *)
(* another or overlap, and what can be relied on in the first case only:   *)
(* no handler of InvitationsService locks what it has checked.             *)
(***************************************************************************)
EXTENDS Invitations

CONSTANT OverlapRows    \* bound on the rows created while requests overlap

VARIABLE alone          \* requests come one after another

AloneInit == Init /\ alone \in BOOLEAN

(* While a request is under way, alone, every step is its own or the       *)
(* clock's.                                                                *)
AloneNext ==
    /\ Next /\ UNCHANGED alone
    /\ \/ alone /\ \A r \in Reqs : At(r, "idle") \/ req'[r] # req[r] \/ now' # now
       \/ ~alone /\ now' = now
          /\ Cardinality({i \in Ids : status'[i] # "ABSENT"}) <= OverlapRows

AloneOrNot == AloneInit /\ [][AloneNext]_<<alone, vars>>

(* One request is under way at most.                                       *)
OneUnderWay == \A r, s \in Reqs : At(r, "idle") \/ At(s, "idle") \/ r = s

(* What a request has read is still so when it writes.                     *)
ReadsCurrent(q) ==
    /\ q.pc \in {"acceptPrimary", "acceptCommit", "renewRevoke"} => q.todo \subseteq Pending
    /\ q.pc = "acceptCommit" =>
         q.existing \in IF primary[q.person] = {} THEN {None}
                        ELSE {k[1] : k \in primary[q.person]}
    /\ q.pc = "revoke" => status[q.target] # "ACCEPTED"
    /\ q.pc = "insert" \/ (q.pc = "dedup" /\ q.todo # {}) => Conflicts(q.entries) = {}

(* The inductive invariant of requests that come one after another.        *)
AloneInv ==
    alone => /\ OneUnderWay /\ NoDuplicatePending /\ SinglePrimarySite
             /\ \A r \in Reqs : ReadsCurrent(req[r])

(* What holds when nothing overlaps: createBulk leaves no two open         *)
(* invitations for the same email, site and role; all primary rows of a    *)
(* person are for one site (accept looks for one first); renew, having     *)
(* revoked the old rows, is not refused the new ones; and ACCEPTED and     *)
(* REVOKED are final, as revoke and renew write the row they have checked. *)
OneAtATime ==
    /\ [](alone => NoDuplicatePending /\ SinglePrimarySite /\ RenewNotRefused)
    /\ [][alone => KeepsFinal]_vars
=============================================================================
