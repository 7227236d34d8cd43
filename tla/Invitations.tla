---------------------------- MODULE Invitations ----------------------------
(***************************************************************************)
(* The invitation workflow of src/clients/invitations/.  Rows of the       *)
(* Invitation and PersonClientAccess tables are shared by concurrent       *)
(* requests; a request is a program counter and what it has read so far,   *)
(* and every await on the database is a step of its own.                   *)
(*                                                                         *)
(* The database runs at READ COMMITTED.  Every query outside $transaction  *)
(* is one atomic step.  Inside the interactive transaction of accept each  *)
(* read sees what is committed when it runs; its writes become visible     *)
(* together, at the commit, and a conflicting writer is ordered before or  *)
(* after that commit by the row locks.                                     *)
(*                                                                         *)
(* Abstractions: a site determines its client (validated by createBulk),   *)
(* emails are case-folded, the id of a group is the set of its members'    *)
(* ids (an opaque fresh token in the code, only ever compared), codes are  *)
(* identified with ids (both unique per row), legacy rows with status      *)
(* EXPIRED are not represented (no code writes it), and e-mails queued     *)
(* after a commit are left to the notification queues.                     *)
(***************************************************************************)
EXTENDS Naturals, FiniteSets, Functions

CONSTANTS
    Reqs,       \* slots for concurrent HTTP requests
    Ids,        \* the ids invitation rows can get: bounds the rows ever created
    Persons, Emails, EmailOf,
    Clients, Sites, ClientOf, Roles,
    Days,       \* the values of expiresInDays
    MaxBatch,   \* bound on the entries of one createBulk
    MaxNow,     \* bound on the clock, in days
    None

ASSUME InvitationsAssumption ==
    /\ EmailOf \in [Persons -> Emails]
    /\ ClientOf \in [Sites -> Clients]
    /\ Days \subseteq Nat \ {0}
    /\ MaxBatch \in Nat
    /\ MaxNow \in Nat
    /\ None \notin Ids \cup Persons \cup Sites

VARIABLES
    now,        \* the clock
    row,        \* what an invitation says: fixed when it is created
    status,     \* its status; ABSENT before it is created
    acceptedBy, \* its acceptedById
    access,     \* person -> the PersonClientAccess rows, as <<site, role>>
    primary,    \* person -> those of them with isPrimary
    req         \* slot -> the request being served there

vars == <<now, row, status, acceptedBy, access, primary, req>>
data == <<row, status, acceptedBy>>
grants == <<access, primary>>

Status == {"ABSENT", "PENDING", "ACCEPTED", "REVOKED"}

(* One element of dto.invitations. *)
Entry == [email : Emails, site : Sites, role : Roles]

(* The columns of an invitation that are never updated. *)
Row == [email : Emails, site : Sites, role : Roles,
        group : SUBSET Ids, expiresOn : Nat]

PCs == {"idle", "dedup", "insert", "acceptGroup", "acceptPrimary",
        "acceptCommit", "revoke", "renewGroup", "renewRevoke"}

(* A request: the caller, the row it was sent for, the rows and entries it *)
(* has collected, the expiry it computed, and the site of the primary      *)
(* access it found.                                                        *)
Request == [pc : PCs, person : Persons \cup {None}, target : Ids \cup {None},
            todo : SUBSET Ids, entries : SUBSET Entry, expiresOn : Nat,
            existing : Sites \cup {None}]

Idle == [pc |-> "idle", person |-> None, target |-> None, todo |-> {},
         entries |-> {}, expiresOn |-> 0, existing |-> None]

At(r, l) == req[r].pc = l
Become(r, q) == req' = [req EXCEPT ![r] = q]
Return(r) == Become(r, Idle)

EntryOf(i) == [email |-> row[i].email, site |-> row[i].site, role |-> row[i].role]
Key(i) == <<row[i].site, row[i].role>>
Pending == {i \in Ids : status[i] = "PENDING"}
Fresh == {i \in Ids : status[i] = "ABSENT"}
Grouped(i) == row[i].group # {}
PendingSiblings(i) == {j \in Pending : row[j].group = row[i].group}

-----------------------------------------------------------------------------

Init ==
    /\ now = 0
    /\ row = [i \in Ids |-> None]
    /\ status = [i \in Ids |-> "ABSENT"]
    /\ acceptedBy = [i \in Ids |-> None]
    /\ access = [p \in Persons |-> {}]
    /\ primary = [p \in Persons |-> {}]
    /\ req = [r \in Reqs |-> Idle]

(* A day passes. *)
Tick ==
    /\ now < MaxNow
    /\ now' = now + 1
    /\ UNCHANGED <<data, grants, req>>

(* Any await may reject (a database error, a validation that fails, the    *)
(* process going down): the request ends where it is and an open           *)
(* transaction is rolled back.                                             *)
Fail(r) ==
    /\ ~At(r, "idle")
    /\ Return(r)
    /\ UNCHANGED <<now, data, grants>>

-----------------------------------------------------------------------------
(* createBulk                                                              *)

(* The bodies the schema accepts: at least one entry, no duplicates, every *)
(* site of the target client.                                              *)
Bodies(c) == {d \in SUBSET {e \in Entry : ClientOf[e.site] = c} :
                d # {} /\ Cardinality(d) <= MaxBatch}

CreateBulk(r) ==
    /\ At(r, "idle")
    /\ \E c \in Clients : \E d \in Bodies(c) :
         Become(r, [Idle EXCEPT !.pc = "dedup", !.entries = d])
    /\ UNCHANGED <<now, data, grants>>

Conflicts(d) == {i \in Pending : EntryOf(i) \in d}

(* The check for PENDING duplicates, then the expiry date. *)
CreateDedup(r) ==
    /\ At(r, "dedup")
    /\ \/ Conflicts(req[r].entries) # {} /\ Return(r)
       \/ /\ Conflicts(req[r].entries) = {}
          /\ \E days \in Days :
               Become(r, [req[r] EXCEPT !.pc = "insert", !.expiresOn = now + days])
    /\ UNCHANGED <<now, data, grants>>

(* Faulty variant: the group key leaves the email out. *)
GroupMatesByClient(d, e) == IF d = {e} THEN {} ELSE d

(* The entries of d that share a group with e: those for the same email,   *)
(* when there are several.                                                 *)
GroupMates(d, e) ==
    LET same == {x \in d : x.email = e.email}
    IN  IF same = {e} THEN {} ELSE same

(* createManyAndReturn: one fresh row for each entry. *)
CreateInsert(r) ==
    LET d == req[r].entries IN
    /\ At(r, "insert")
    /\ \E f \in Injection(d, Fresh) :
         LET RowFor(e) == [email |-> e.email, site |-> e.site, role |-> e.role,
                           group |-> {f[x] : x \in GroupMates(d, e)},
                           expiresOn |-> req[r].expiresOn]
         IN  /\ row' = [i \in Ids |-> IF \E e \in d : f[e] = i
                                      THEN RowFor(CHOOSE e \in d : f[e] = i)
                                      ELSE row[i]]
             /\ status' = [i \in Ids |-> IF \E e \in d : f[e] = i
                                         THEN "PENDING" ELSE status[i]]
    /\ Return(r)
    /\ UNCHANGED <<now, acceptedBy, grants>>

-----------------------------------------------------------------------------
(* accept                                                                  *)

(* The first read of the transaction and the checks on what it returned. *)
Accept(r) ==
    /\ At(r, "idle")
    /\ \E p \in Persons, i \in Ids :
         /\ status[i] = "PENDING"
         /\ now <= row[i].expiresOn
         /\ EmailOf[p] = row[i].email
         /\ Become(r, [Idle EXCEPT
                         !.pc = IF Grouped(i) THEN "acceptGroup" ELSE "acceptPrimary",
                         !.person = p, !.target = i,
                         !.todo = IF Grouped(i) THEN {} ELSE {i}])
    /\ UNCHANGED <<now, data, grants>>

(* The PENDING rows of the group, whatever has become of the clicked one. *)
AcceptGroup(r) ==
    /\ At(r, "acceptGroup")
    /\ Become(r, [req[r] EXCEPT !.pc = "acceptPrimary",
                                !.todo = PendingSiblings(req[r].target)])
    /\ UNCHANGED <<now, data, grants>>

(* findFirst with isPrimary, no order: any primary row, or none. *)
AcceptPrimary(r) ==
    LET held == primary[req[r].person] IN
    /\ At(r, "acceptPrimary")
    /\ \E site \in IF held = {} THEN {None} ELSE {k[1] : k \in held} :
         Become(r, [req[r] EXCEPT !.pc = "acceptCommit", !.existing = site])
    /\ UNCHANGED <<now, data, grants>>

(* The row that may become primary: the clicked one, or the oldest of the  *)
(* list when that one is no longer in it.  The rows of a group are created *)
(* by one statement with one timestamp, so any of them may come first.     *)
Anchors(r) == IF req[r].target \in req[r].todo THEN {req[r].target} ELSE req[r].todo

(* The rows the transaction makes primary, when i is the anchor. *)
NewPrimary(r, i) ==
    IF req[r].existing \in {None, row[i].site} THEN {Key(i)} ELSE {}

(* Faulty variant: only the clicked row is marked. *)
MarkedClicked(r) == {req[r].target} \cap req[r].todo

(* The rows updateMany marks: the ones that were read. *)
Marked(r) == req[r].todo

(* The upserts, the update of the invitations and the commit. *)
AcceptCommit(r) ==
    LET p == req[r].person
        todo == req[r].todo
        keys == {Key(i) : i \in todo}
        made == IF todo = {} THEN {{}} ELSE {NewPrimary(r, i) : i \in Anchors(r)}
    IN  /\ At(r, "acceptCommit")
        /\ access' = [access EXCEPT ![p] = @ \cup keys]
        /\ \E new \in made : primary' = [primary EXCEPT ![p] = (@ \ keys) \cup new]
        /\ status' = [i \in Ids |-> IF i \in Marked(r) THEN "ACCEPTED" ELSE status[i]]
        /\ acceptedBy' = [i \in Ids |-> IF i \in Marked(r) THEN p ELSE acceptedBy[i]]
        /\ Return(r)
        /\ UNCHANGED <<now, row>>

-----------------------------------------------------------------------------
(* revoke, renew and expireStale                                           *)

(* Faulty variant: an accepted invitation is not refused. *)
RevokeAny(r) ==
    /\ At(r, "idle")
    /\ \E i \in Ids :
         /\ status[i] # "ABSENT"
         /\ Become(r, [Idle EXCEPT !.pc = "revoke", !.target = i])
    /\ UNCHANGED <<now, data, grants>>

(* Everything but an accepted invitation passes the check. *)
Revoke(r) ==
    /\ At(r, "idle")
    /\ \E i \in Ids :
         /\ status[i] \notin {"ABSENT", "ACCEPTED"}
         /\ Become(r, [Idle EXCEPT !.pc = "revoke", !.target = i])
    /\ UNCHANGED <<now, data, grants>>

MarkRevoked(S) ==
    /\ status' = [i \in Ids |-> IF i \in S THEN "REVOKED" ELSE status[i]]
    /\ UNCHANGED <<row, acceptedBy>>

(* Only the update of a group filters on the status. *)
RevokeWrite(r) ==
    LET i == req[r].target IN
    /\ At(r, "revoke")
    /\ MarkRevoked(IF Grouped(i) THEN PendingSiblings(i) ELSE {i})
    /\ Return(r)
    /\ UNCHANGED <<now, grants>>

(* PENDING rows only, past their date or not. *)
Renew(r) ==
    /\ At(r, "idle")
    /\ \E i \in Pending :
         Become(r, [Idle EXCEPT
                      !.pc = IF Grouped(i) THEN "renewGroup" ELSE "renewRevoke",
                      !.target = i,
                      !.todo = IF Grouped(i) THEN {} ELSE {i}])
    /\ UNCHANGED <<now, data, grants>>

RenewGroup(r) ==
    LET todo == PendingSiblings(req[r].target) IN
    /\ At(r, "renewGroup")
    /\ \/ todo = {} /\ Return(r)
       \/ todo # {} /\ Become(r, [req[r] EXCEPT !.pc = "renewRevoke", !.todo = todo])
    /\ UNCHANGED <<now, data, grants>>

(* Faulty variant: the old rows are kept open instead of being replaced. *)
RenewInPlace(r) ==
    /\ At(r, "renewRevoke")
    /\ status' = [i \in Ids |-> IF i \in req[r].todo THEN "PENDING" ELSE status[i]]
    /\ Return(r)
    /\ UNCHANGED <<now, row, acceptedBy, grants>>

(* Revoke the old rows, by id, and go on as createBulk. *)
RenewRevoke(r) ==
    /\ At(r, "renewRevoke")
    /\ MarkRevoked(req[r].todo)
    /\ Become(r, [req[r] EXCEPT !.pc = "dedup",
                                !.entries = {EntryOf(i) : i \in req[r].todo}])
    /\ UNCHANGED <<now, grants>>

(* One statement, scoped by row level security to the caller's client. *)
ExpireStale(r) ==
    /\ At(r, "idle")
    /\ \E c \in Clients :
         MarkRevoked({i \in Pending : ClientOf[row[i].site] = c /\ row[i].expiresOn < now})
    /\ UNCHANGED <<now, grants, req>>

-----------------------------------------------------------------------------

Next ==
    \/ Tick
    \/ \E r \in Reqs :
         \/ CreateBulk(r) \/ CreateDedup(r) \/ CreateInsert(r)
         \/ Accept(r) \/ AcceptGroup(r) \/ AcceptPrimary(r) \/ AcceptCommit(r)
         \/ Revoke(r) \/ RevokeWrite(r)
         \/ Renew(r) \/ RenewGroup(r) \/ RenewRevoke(r)
         \/ ExpireStale(r)
         \/ Fail(r)

Spec == Init /\ [][Next]_vars

-----------------------------------------------------------------------------
(* What is checked.                                                        *)

(* Type invariant of the tables and of the requests: in particular no      *)
(* handler writes the deprecated status EXPIRED.                           *)
TypeOK ==
    /\ now \in Nat
    /\ row \in [Ids -> Row \cup {None}]
    /\ status \in [Ids -> Status]
    /\ acceptedBy \in [Ids -> Persons \cup {None}]
    /\ access \in [Persons -> SUBSET (Sites \X Roles)]
    /\ primary \in [Persons -> SUBSET (Sites \X Roles)]
    /\ req \in [Reqs -> Request]

(* A row has its columns from the moment it exists. *)
RowsDefined == \A i \in Ids : status[i] # "ABSENT" => row[i] \in Row

(* Rows of one group were created together, for one email. *)
GroupsUniform ==
    \A i, j \in Ids \ Fresh :
        /\ row[i].group \subseteq Ids \ Fresh
        /\ Grouped(i) /\ row[j].group = row[i].group =>
             /\ row[j].email = row[i].email
             /\ row[j].expiresOn = row[i].expiresOn

(* What a request has collected stays what it was sent for: existing rows, *)
(* and, on the way to an acceptance, rows for the caller's email.          *)
RequestSound(q) ==
    /\ q.todo \subseteq Ids \ Fresh
    /\ q.pc \notin {"idle", "dedup", "insert"} => q.target \in Ids \ Fresh
    /\ q.pc = "acceptGroup" => Grouped(q.target)
    /\ q.pc \in {"acceptGroup", "acceptPrimary", "acceptCommit"} =>
         /\ q.person \in Persons
         /\ \A i \in q.todo \cup {q.target} : row[i].email = EmailOf[q.person]

RequestsSound == \A r \in Reqs : RequestSound(req[r])

(* An invitation is accepted only by the person it was sent to.  accept    *)
(* compares the email of the clicked row alone and then takes the whole    *)
(* group, so this rests on how createBulk forms groups.                    *)
AcceptedByInvitee ==
    \A i \in Ids :
        /\ status[i] = "ACCEPTED" => acceptedBy[i] # None
        /\ acceptedBy[i] # None => /\ status[i] # "ABSENT"
                                   /\ row[i].email = EmailOf[acceptedBy[i]]

(* Access and acceptances agree, whatever other requests interleave with   *)
(* accept and wherever it fails: an invitation recorded as accepted has    *)
(* given its access, and every access row comes from an invitation to that *)
(* person's email that is recorded as accepted.                            *)
AccessMatchesAccepts ==
    /\ \A i \in Ids : acceptedBy[i] # None => Key(i) \in access[acceptedBy[i]]
    /\ \A p \in Persons : \A k \in access[p] :
         \E i \in Ids : /\ acceptedBy[i] # None
                        /\ row[i].email = EmailOf[p]
                        /\ Key(i) = k

(* Primary rows are access rows. *)
PrimaryHeld == \A p \in Persons : primary[p] \subseteq access[p]

(* The inductive invariant that the safety properties follow from. *)
Inv ==
    /\ TypeOK /\ RowsDefined /\ GroupsUniform /\ RequestsSound
    /\ AcceptedByInvitee /\ AccessMatchesAccepts /\ PrimaryHeld

(* An invitation that was used or withdrawn is never open again and never  *)
(* changes its text: renew makes new rows, it does not reopen old ones.    *)
NeverReopened ==
    [][\A i \in Ids : status[i] # "ABSENT" =>
          /\ row'[i] = row[i]
          /\ status'[i] # "ABSENT"
          /\ status'[i] = "PENDING" => status[i] = "PENDING"]_vars

(* No two open invitations of one client for the same email, site and      *)
(* role: what the duplicate check of createBulk is for.                    *)
NoDuplicatePending ==
    \A i, j \in Pending : EntryOf(i) = EntryOf(j) => i = j

(* ACCEPTED and REVOKED are final: an accepted invitation is not revoked,  *)
(* and a revoked one is not accepted.                                      *)
KeepsFinal ==
    \A i \in Ids : status[i] \in {"ACCEPTED", "REVOKED"} => status'[i] = status[i]

(* All primary rows of a person are for one client and site. *)
SinglePrimarySite ==
    \A p \in Persons : \A k, l \in primary[p] : k[1] = l[1]

(* An invitation recorded as accepted by someone still has that status:    *)
(* "Cannot revoke accepted invitations", which revoke and renew check on   *)
(* the row they have read and not on the row they write.                   *)
AcceptedNotRevoked == \A i \in Ids : acceptedBy[i] # None => status[i] = "ACCEPTED"

(* A renewal that has revoked the old rows is not refused as a duplicate   *)
(* of what it renews: alone, it loses the invitations to a failure only.   *)
RenewNotRefused ==
    \A r \in Reqs : At(r, "dedup") /\ req[r].todo # {} => Conflicts(req[r].entries) = {}
=============================================================================
