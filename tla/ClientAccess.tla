---------------------------- MODULE ClientAccess ----------------------------
(***************************************************************************)
(* The PersonClientAccess rows of one person, and every handler that       *)
(* writes them: MembersService (addRole, removeRole, remove), UsersService *)
(* (addRole, removeRole), the Keycloak access sync, and the upserts of     *)
(* InvitationsService.accept, which Invitations models in full.            *)
(*                                                                         *)
(* Rows of different persons never meet, so one person is enough.  A place *)
(* stands for a (clientId, siteId) pair: the handlers compare the two      *)
(* together.  A row is identified with its unique key, place and role; one *)
(* removed and created again under the same key counts as the same row.    *)
(*                                                                         *)
(* Every query is a step.  Inside a transaction (READ COMMITTED) a read    *)
(* sees what is committed and the transaction's own deletes, and its       *)
(* writes are visible from its last step on.  MembersService works through *)
(* prisma.build(): row level security hides the rows of other clients,     *)
(* unless a SYSTEM user asks for the intent 'system'.                      *)
(***************************************************************************)
EXTENDS Naturals, FiniteSets

CONSTANTS
    Reqs,       \* slots for concurrent requests about the person
    Clients, Places, ClientOf, Roles,
    Intents,    \* the access intents MembersService is called with
    MaxGroup,   \* bound on the invitations one accept takes
    None

ASSUME ClientAccessAssumption ==
    /\ ClientOf \in [Places -> Clients]
    /\ Intents \subseteq {"user", "system"}
    /\ MaxGroup \in Nat
    /\ None \notin Places \cup Clients \cup (Places \X Roles)

VARIABLES
    rows,       \* the rows of the person, as <<place, role>>
    primary,    \* those with isPrimary
    older,      \* pairs of rows, the first with the earlier createdOn
    req         \* slot -> the request being served there

vars == <<rows, primary, older, req>>
table == <<rows, primary, older>>

Keys == Places \X Roles
AtPlace(p) == {k \in Keys : k[1] = p}
OfClient(c) == {k \in Keys : ClientOf[k[1]] = c}

Ops == {"idle", "addRole", "upsert", "sync", "removeRole", "userRemoveRole", "remove"}
PCs == {"idle", "create", "upsert", "sync", "count", "delete", "remaining",
        "oldest", "promote"}

(* A request: the handler, the client and intent it runs under, the row it *)
(* is about (for upsert the one that may become primary), whether the rows *)
(* it asked for were there, the place it has read, and the rows it writes  *)
(* or deletes.                                                             *)
Request == [op : Ops, pc : PCs, client : Clients \cup {None}, intent : {"user", "system"},
            key : Keys \cup {None}, found : {"none", "some"}, place : Places \cup {None},
            set : SUBSET Keys]

Idle == [op |-> "idle", pc |-> "idle", client |-> None, intent |-> "system",
         key |-> None, found |-> "none", place |-> None, set |-> {}]

At(r, l) == req[r].pc = l
Become(r, q) == req' = [req EXCEPT ![r] = q]
Goto(r, l) == Become(r, [req[r] EXCEPT !.pc = l])
Return(r) == Become(r, Idle)

(* Faulty variant: row level security is not applied. *)
VisibleAll(q) == rows

(* What row level security lets a request see. *)
Visible(q) == IF q.intent = "system" THEN rows ELSE rows \cap OfClient(q.client)

(* The order of creation once S has been inserted, or once only S is left. *)
OlderWith(S) == older \cup (rows \X (S \ rows))
OlderAmong(S) == older \cap (S \X S)

Oldest(S) == {k \in S : \A j \in S : <<j, k>> \notin older}

Found(S) == IF S = {} THEN "none" ELSE "some"

Init ==
    /\ rows = {}
    /\ primary = {}
    /\ older = {}
    /\ req = [r \in Reqs |-> Idle]

(* Any await may reject: the request ends and its transaction is undone. *)
Fail(r) ==
    /\ ~At(r, "idle")
    /\ Return(r)
    /\ UNCHANGED table

-----------------------------------------------------------------------------
(* Adding roles                                                            *)

(* MembersService.addRole: is the place primary?  The person must be       *)
(* visible, and is through a row of the client.                            *)
AddRole(r) ==
    /\ At(r, "idle")
    /\ \E i \in Intents, k \in Keys :
         LET q == [Idle EXCEPT !.op = "addRole", !.pc = "create",
                               !.client = ClientOf[k[1]], !.intent = i, !.key = k]
         IN  /\ i = "system" \/ Visible(q) # {}
             /\ Become(r, [q EXCEPT !.found = Found(primary \cap AtPlace(k[1]))])
    /\ UNCHANGED table

(* create: the unique index refuses a row that exists. *)
AddRoleCreate(r) ==
    LET k == req[r].key IN
    /\ At(r, "create")
    /\ \/ k \in rows /\ UNCHANGED table
       \/ /\ k \notin rows
          /\ rows' = rows \cup {k}
          /\ primary' = IF req[r].found = "some" THEN primary \cup {k} ELSE primary
          /\ older' = OlderWith({k})
    /\ Return(r)

(* findFirst with isPrimary, no order: the place of any primary row. *)
PrimaryPlaces == IF primary = {} THEN {None} ELSE {k[1] : k \in primary}

(* UsersService.addRole, and accept: the existing primary row is read for  *)
(* the rows S that will be written, of which k may become primary.         *)
ReadPrimary(r, k, S) ==
    \E p \in PrimaryPlaces :
        Become(r, [Idle EXCEPT !.op = "upsert", !.pc = "upsert", !.key = k,
                               !.place = p, !.set = S])

UserAddRole(r) ==
    /\ At(r, "idle")
    /\ \E k \in Keys : ReadPrimary(r, k, {k})
    /\ UNCHANGED table

Accept(r) ==
    /\ At(r, "idle")
    /\ \E S \in SUBSET Keys :
         /\ Cardinality(S) <= MaxGroup
         /\ \E k \in S : ReadPrimary(r, k, S)
    /\ UNCHANGED table

(* Faulty variant: the new row is primary whatever was read. *)
UpsertAlways(r) ==
    LET q == req[r] IN
    /\ At(r, "upsert")
    /\ rows' = rows \cup q.set
    /\ primary' = (primary \ q.set) \cup {q.key}
    /\ older' = OlderWith(q.set)
    /\ Return(r)

(* The upserts write isPrimary on rows that exist, too. *)
Upsert(r) ==
    LET q == req[r] IN
    /\ At(r, "upsert")
    /\ rows' = rows \cup q.set
    /\ primary' = (primary \ q.set)
                    \cup (IF q.place \in {None, q.key[1]} THEN {q.key} ELSE {})
    /\ older' = OlderWith(q.set)
    /\ Return(r)

(* KeycloakAccessSyncService.syncUser: is this the first access? *)
SyncUser(r) ==
    /\ At(r, "idle")
    /\ \E p \in Places : \E S \in SUBSET AtPlace(p) :
         /\ S # {}
         /\ Become(r, [Idle EXCEPT !.op = "sync", !.pc = "sync", !.set = S,
                                   !.found = Found(rows)])
    /\ UNCHANGED table

(* Rows that exist are left as they are. *)
SyncUpsert(r) ==
    LET q == req[r] IN
    /\ At(r, "sync")
    /\ rows' = rows \cup q.set
    /\ primary' = IF q.found = "none" THEN primary \cup (q.set \ rows) ELSE primary
    /\ older' = OlderWith(q.set)
    /\ Return(r)

-----------------------------------------------------------------------------
(* Removing roles                                                          *)

(* The row is found, with its isPrimary, by either removeRole. *)
FindRow(r, q) ==
    /\ q.key \in Visible(q)
    /\ Become(r, [q EXCEPT !.found = Found(primary \cap {q.key}), !.set = {q.key}])

RemoveRole(r) ==
    /\ At(r, "idle")
    /\ \E i \in Intents, k \in Keys :
         FindRow(r, [Idle EXCEPT !.op = "removeRole", !.pc = "count", !.intent = i,
                                 !.client = ClientOf[k[1]], !.key = k])
    /\ UNCHANGED table

UserRemoveRole(r) ==
    /\ At(r, "idle")
    /\ \E k \in Keys :
         FindRow(r, [Idle EXCEPT !.op = "userRemoveRole", !.pc = "delete", !.key = k])
    /\ UNCHANGED table

(* The last role for the client is not removed. *)
RemoveRoleCount(r) ==
    LET n == Cardinality(rows \cap OfClient(req[r].client)) IN
    /\ At(r, "count")
    /\ \/ n <= 1 /\ Return(r)
       \/ n > 1 /\ Goto(r, "delete")
    /\ UNCHANGED table

(* The commit of a transaction that deletes the rows of req[r].set and     *)
(* makes the rest of S primary.  removeRole deletes one row, by id: when   *)
(* it is gone by then the transaction is undone.                           *)
CommitRemoval(r, S) ==
    LET q == req[r]
        left == rows \ q.set
    IN  /\ \/ q.key # None /\ q.key \notin rows /\ UNCHANGED table
           \/ /\ q.key = None \/ q.key \in rows
              /\ rows' = left
              /\ primary' = (primary \cup (rows \cap S)) \ q.set
              /\ older' = OlderAmong(left)
        /\ Return(r)

(* Faulty variant: nothing is promoted. *)
DeleteRowOnly(r) ==
    /\ At(r, "delete") /\ req[r].op # "remove"
    /\ CommitRemoval(r, {})

(* The delete; a row that was not primary needs nothing else. *)
DeleteRow(r) ==
    /\ At(r, "delete") /\ req[r].op # "remove"
    /\ \/ req[r].found = "none" /\ CommitRemoval(r, {})
       \/ req[r].found = "some" /\ Goto(r, "remaining") /\ UNCHANGED table

(* Is another row still primary? *)
RemainingPrimary(r) ==
    LET q == req[r]
        held == (primary \cap Visible(q)) \ q.set
    IN  /\ At(r, "remaining")
        /\ \/ held # {} /\ CommitRemoval(r, {})
           \/ held = {} /\ Goto(r, "oldest") /\ UNCHANGED table

(* Members.remove: hadPrimaryAccess is over all the rows it may see. *)
Remove(r) ==
    /\ At(r, "idle")
    /\ \E i \in Intents, c \in Clients :
         LET q == [Idle EXCEPT !.op = "remove", !.pc = "delete", !.client = c,
                               !.intent = i]
         IN  /\ i = "system" \/ Visible(q) # {}
             /\ Become(r, [q EXCEPT !.found = Found(primary \cap Visible(q))])
    /\ UNCHANGED table

(* deleteMany: the rows of the client at this moment. *)
RemoveDelete(r) ==
    LET S == rows \cap OfClient(req[r].client) IN
    /\ At(r, "delete") /\ req[r].op = "remove"
    /\ \/ /\ req[r].found = "none"
          /\ rows' = rows \ S
          /\ primary' = primary \ S
          /\ older' = OlderAmong(rows \ S)
          /\ Return(r)
       \/ /\ req[r].found = "some"
          /\ Become(r, [req[r] EXCEPT !.pc = "oldest", !.set = S])
          /\ UNCHANGED table

(* The oldest row that is left, in all three handlers. *)
OldestRemaining(r) ==
    LET q == req[r]
        left == Visible(q) \ q.set
    IN  /\ At(r, "oldest")
        /\ \/ left = {} /\ CommitRemoval(r, {})
           \/ /\ \E k \in Oldest(left) :
                   Become(r, [q EXCEPT !.pc = "promote", !.place = k[1]])
              /\ UNCHANGED table

(* updateMany: all rows of its place become primary. *)
Promote(r) ==
    /\ At(r, "promote")
    /\ CommitRemoval(r, AtPlace(req[r].place))

-----------------------------------------------------------------------------

Step(r) ==
    \/ AddRole(r) \/ AddRoleCreate(r)
    \/ UserAddRole(r) \/ Accept(r) \/ Upsert(r)
    \/ SyncUser(r) \/ SyncUpsert(r)
    \/ RemoveRole(r) \/ UserRemoveRole(r) \/ RemoveRoleCount(r)
    \/ DeleteRow(r) \/ RemainingPrimary(r)
    \/ Remove(r) \/ RemoveDelete(r)
    \/ OldestRemaining(r) \/ Promote(r)
    \/ Fail(r)

Next == \E r \in Reqs : Step(r)

Spec == Init /\ [][Next]_vars

-----------------------------------------------------------------------------
(* What is checked.                                                        *)

(* Type invariant of the table and the requests. *)
TypeOK ==
    /\ rows \in SUBSET Keys
    /\ primary \in SUBSET Keys
    /\ older \in SUBSET (Keys \X Keys)
    /\ req \in [Reqs -> Request]

(* The order of creation is a strict partial order of the rows that exist, *)
(* so that there is an oldest among any that remain, and only rows that    *)
(* exist are primary: no promotion marks, or resurrects, a row that a      *)
(* concurrent request has deleted.                                         *)
TableSound ==
    /\ primary \subseteq rows
    /\ older \subseteq rows \X rows
    /\ \A k \in rows : <<k, k>> \notin older
    /\ \A i, j, k \in rows : <<i, j>> \in older /\ <<j, k>> \in older => <<i, k>> \in older

(* A request knows the client it runs under, the row it is about and the   *)
(* place it promotes, and under row level security that place is its own   *)
(* client's.                                                               *)
RequestSound(q) ==
    /\ q.pc = "idle" => q = Idle
    /\ q.pc = "create" => q.op = "addRole" /\ q.key \in Keys
    /\ q.pc = "upsert" => q.op = "upsert" /\ q.key \in q.set
    /\ q.pc = "sync" => q.op = "sync" /\ \A j, k \in q.set : j[1] = k[1]
    /\ q.pc \in {"count", "delete", "remaining", "oldest", "promote"} =>
         q.op \in {"removeRole", "userRemoveRole", "remove"}
    /\ q.pc \in {"count", "remaining"} => q.op # "remove"
    /\ q.op \in {"removeRole", "userRemoveRole"} => q.key \in Keys /\ q.set = {q.key}
    /\ q.op = "remove" => q.key = None /\ q.set \subseteq OfClient(q.client)
    /\ q.pc = "promote" => q.place \in Places
    /\ q.op \in {"addRole", "removeRole", "remove"} => q.intent \in Intents
    /\ q.intent = "user" =>
         /\ q.op \in {"addRole", "removeRole", "remove"}
         /\ q.client \in Clients
         /\ q.key # None => q.key \in OfClient(q.client)
         /\ q.pc = "promote" => ClientOf[q.place] = q.client

(* The inductive invariant. *)
Inv == TypeOK /\ TableSound /\ \A r \in Reqs : RequestSound(req[r])

(* A request that MembersService serves for a user of one client leaves    *)
(* the rows of other clients as they are, the promotion included.          *)
ClientIsolation ==
    [][\A r \in Reqs : req[r].intent = "user" /\ req'[r] # req[r] =>
          \A k \in Keys \ OfClient(req[r].client) :
              /\ (k \in rows') <=> (k \in rows)
              /\ (k \in primary') <=> (k \in primary)]_vars

(* All primary rows are for one client and site, the context of a request  *)
(* that names none.                                                        *)
SinglePrimarySite == \A j, k \in primary : j[1] = k[1]

(* What a request has read is still so when it writes: true as long as no  *)
(* other request is served for the same person, which nothing ensures.     *)
ReadsCurrent(q) ==
    /\ q.pc = "create" /\ q.found = "some" => primary \cap AtPlace(q.key[1]) # {}
    /\ q.pc = "upsert" => q.place \in PrimaryPlaces
    /\ q.pc = "sync" /\ q.found = "none" => rows = {}
    /\ q.pc \in {"count", "delete", "remaining"} /\ q.op # "remove" /\ q.found = "some" =>
         q.key \in primary
    /\ q.pc = "remaining" => q.found = "some"
    /\ q.pc = "delete" /\ q.op = "remove" /\ q.found = "some" => primary \cap Visible(q) # {}
    /\ q.pc \in {"oldest", "promote"} => primary \subseteq q.set

(* One request at a time and no RLS bypass: one primary site, because what *)
(* was read about it stays true.                                           *)
SequentialInv == SinglePrimarySite /\ \A r \in Reqs : ReadsCurrent(req[r])

(* What a removal of a role leaves: a row that was not primary is not, the *)
(* client still has another row than the one that goes, and the place to   *)
(* promote has a row that stays.                                           *)
LeavesRows(q) ==
    /\ q.pc \in {"count", "delete"} /\ q.op # "remove" /\ q.found = "none" =>
         q.key \notin primary
    /\ q.op = "removeRole" /\ q.pc \in {"delete", "remaining", "oldest", "promote"} =>
         \E k \in rows \cap OfClient(q.client) : k # q.key
    /\ q.pc = "promote" => \E k \in rows \ q.set : k[1] = q.place

(* Together with SequentialInv, what the removals need.                    *)
RemovalsInv == \A r \in Reqs : LeavesRows(req[r])

(* "Cannot remove the last role": MembersService.removeRole leaves the     *)
(* member a role for the client.                                           *)
LastRoleKept ==
    [][\A r \in Reqs : req[r].op = "removeRole" /\ rows' # rows /\ req'[r] # req[r] =>
          rows' \cap OfClient(req[r].client) # {}]_vars

(* Whoever has access and a primary row keeps a primary row, but for       *)
(* remove and for the upserts of accept, which demote.                     *)
PrimaryKept ==
    [][primary # {} /\ rows' # {} /\ primary' = {} =>
          \E r \in Reqs : req[r].op \in {"remove", "upsert"}]_vars

(* remove of a member "promotes the oldest remaining client to primary":   *)
(* it does not leave a person who has access elsewhere without a primary   *)
(* row.                                                                    *)
RemovePromotes ==
    [][\A r \in Reqs : req[r].op = "remove" /\ req'[r].pc = "idle" =>
          (primary # {} /\ rows' # {} => primary' # {})]_vars

(* What the removals of roles promise when they come one at a time: the    *)
(* member keeps a role, the person a primary row.                          *)
RemovalsKeep == LastRoleKept /\ PrimaryKept
=============================================================================
