------------------------------- MODULE Roles -------------------------------
(***************************************************************************)
(* Roles and their administration (src/admin/roles/): every operation      *)
(* reads the role, checks what it read, and writes by id without a         *)
(* condition; then it deletes the two cached values of the role.  The      *)
(* cached access grants, which were built from the role, are left to their *)
(* time to live.  Roles are assigned by the users component, which here    *)
(* only adds or removes a row of the person in question.                   *)
(*                                                                         *)
(* A role has a name, a scope that is wide (GLOBAL or SYSTEM) or not, and  *)
(* capabilities.  overtaken marks requests whose role was changed between  *)
(* their read and their write (history).                                   *)
(***************************************************************************)
EXTENDS Naturals, FiniteSets

CONSTANTS
    RoleReqs,     \* the requests that can be under way
    RoleIds, RoleNames, Capabilities,
    StartRoles,   \* role -> its row, or Unset
    RoleDtos,     \* bodies of create and update: [name, wide, assignable, capabilities], Unset where absent
    MaxRoleReqs,  \* bound on the requests
    Deleted, Unset

VARIABLES
    role,         \* role -> its row, or Unset before and Deleted after it has one
    roleReq,      \* request -> its progress
    roleCount,    \* requests so far (bound)
    assigned,     \* the roles of the person's access rows
    roleInvited,  \* roles with open invitations
    roleCache,    \* role -> what the memory cache has for role-capabilities and role-scope, or Unset
    roleFill,     \* role -> what a getOrSet has read of it and not yet cached, or Unset
    grant,        \* role -> the cached grant that was built from it, or Unset
    skewed        \* roles written by a request that had been overtaken (history)

rolesVars == <<role, roleReq, roleCount, assigned, roleInvited, roleCache, roleFill, grant, skewed>>

RoleRow == [name : RoleNames, wide : BOOLEAN, assignable : BOOLEAN,
            capabilities : SUBSET Capabilities, system : BOOLEAN]
RoleDto == [name : {Unset} \cup RoleNames, wide : {Unset} \cup BOOLEAN,
            assignable : {Unset} \cup BOOLEAN, capabilities : {Unset} \cup SUBSET Capabilities]

ASSUME RolesAssumption ==
    /\ Unset # Deleted /\ Unset \notin RoleRow
    /\ StartRoles \in [RoleIds -> {Unset} \cup RoleRow]
    /\ \A r \in RoleIds : StartRoles[r] # Unset => ~(StartRoles[r].assignable /\ StartRoles[r].wide)
    /\ RoleDtos \subseteq RoleDto

NoRoleReq == [op |-> "idle", pc |-> "idle", id |-> Unset, arg |-> Unset, seen |-> Unset, overtaken |-> FALSE]

RolesInit ==
    /\ role = StartRoles
    /\ roleReq = [q \in RoleReqs |-> NoRoleReq]
    /\ roleCount = 0
    /\ assigned = {} /\ roleInvited = {}
    /\ roleCache = [r \in RoleIds |-> Unset]
    /\ roleFill = [r \in RoleIds |-> Unset]
    /\ grant = [r \in RoleIds |-> Unset]
    /\ skewed = {}

-----------------------------------------------------------------------------
(* Reads and checks                                                        *)

Exists(r) == role[r] \notin {Unset, Deleted}
Given(x, old) == IF x = Unset THEN old ELSE x
NameTaken(n, r) == \E s \in RoleIds \ {r} : Exists(s) /\ role[s].name = n

(* A client-assignable role must not be GLOBAL or SYSTEM. *)
ScopeAllowed(assignable, wide) == ~(assignable /\ wide)

StartRoleReq(q, op, r, arg, pc) ==
    /\ roleReq[q].pc = "idle"
    /\ roleCount < MaxRoleReqs
    /\ roleCount' = roleCount + 1
    /\ roleReq' = [roleReq EXCEPT ![q] = [op |-> op, pc |-> pc, id |-> r, arg |-> arg,
                                          seen |-> role[r], overtaken |-> FALSE]]
    /\ UNCHANGED <<role, assigned, roleInvited, roleCache, roleFill, grant, skewed>>

(* The new role gets an id of its own. *)
FreshRole(r) ==
    role[r] = Unset /\ \A p \in RoleReqs : roleReq[p].op = "create" => roleReq[p].id # r

CreateRole(q, r, dto) ==
    /\ FreshRole(r) /\ dto.name # Unset
    /\ ~NameTaken(dto.name, r)
    /\ ScopeAllowed(dto.assignable = TRUE, dto.wide = TRUE)
    /\ StartRoleReq(q, "create", r, dto, "write")

(* updateRole: a changed name is looked up in a second query. *)
UpdateRole(q, r, dto) ==
    /\ Exists(r)
    /\ role[r].system => Given(dto.wide, role[r].wide) = role[r].wide
    /\ ScopeAllowed(Given(dto.assignable, role[r].assignable), Given(dto.wide, role[r].wide))
    /\ StartRoleReq(q, "update", r, dto,
                    IF Given(dto.name, role[r].name) # role[r].name THEN "name" ELSE "write")

UpdateRoleName(q) ==
    /\ roleReq[q].pc = "name"
    /\ roleReq' = [roleReq EXCEPT ![q] = IF NameTaken(@.arg.name, @.id) THEN NoRoleReq
                                         ELSE [@ EXCEPT !.pc = "write"]]
    /\ UNCHANGED <<role, roleCount, assigned, roleInvited, roleCache, roleFill, grant, skewed>>

DeleteRole(q, r) ==
    /\ Exists(r) /\ ~role[r].system /\ r \notin assigned
    /\ StartRoleReq(q, "delete", r, Unset, "write")

AddCapabilities(q, r, C) == Exists(r) /\ StartRoleReq(q, "add", r, C, "write")
RemoveCapabilities(q, r, C) == Exists(r) /\ StartRoleReq(q, "remove", r, C, "write")

SetScope(q, r, w) ==
    /\ Exists(r) /\ ~role[r].system
    /\ ScopeAllowed(role[r].assignable, w)
    /\ StartRoleReq(q, "scope", r, w, "write")

-----------------------------------------------------------------------------
(* Writes                                                                  *)

(* Faulty variant: the new capabilities replace the ones the role has. *)
CapabilitiesReplaced(seen, C) == C

(* addCapabilities: the union of what was read and what was asked. *)
CapabilitiesAdded(seen, C) == seen.capabilities \cup C

(* The row after the write: an update sets the fields that were given, the *)
(* others write one field, computed from what was read.                    *)
Written(q) ==
    LET d == roleReq[q].arg
        now == role[roleReq[q].id]
    IN CASE roleReq[q].op = "create" ->
              [name |-> d.name, wide |-> Given(d.wide, FALSE), assignable |-> Given(d.assignable, FALSE),
               capabilities |-> Given(d.capabilities, {}), system |-> FALSE]
         [] roleReq[q].op = "update" ->
              [name |-> Given(d.name, now.name), wide |-> Given(d.wide, now.wide),
               assignable |-> Given(d.assignable, now.assignable),
               capabilities |-> Given(d.capabilities, now.capabilities), system |-> now.system]
         [] roleReq[q].op = "add" -> [now EXCEPT !.capabilities = CapabilitiesAdded(roleReq[q].seen, d)]
         [] roleReq[q].op = "remove" -> [now EXCEPT !.capabilities = roleReq[q].seen.capabilities \ d]
         [] roleReq[q].op = "scope" -> [now EXCEPT !.wide = d]

(* The unique index on the name, the foreign keys of the access rows, and  *)
(* a row that is gone make the statement fail.                             *)
Writable(q) ==
    LET r == roleReq[q].id IN
    CASE roleReq[q].op = "create" -> ~NameTaken(roleReq[q].arg.name, r)
      [] roleReq[q].op = "delete" -> Exists(r) /\ r \notin assigned
      [] OTHER -> Exists(r) /\ ~NameTaken(Written(q).name, r)

Overtake(reqs, q) ==
    [p \in RoleReqs |-> IF p # q /\ reqs[p].id = reqs[q].id /\ reqs[p].pc \in {"name", "write"}
                        THEN [reqs[p] EXCEPT !.overtaken = TRUE] ELSE reqs[p]]

(* Deleting a role deletes its invitations with it. *)
WriteRole(q) ==
    LET r == roleReq[q].id
        next == IF roleReq[q].op = "create" THEN "idle" ELSE "clear"
    IN
    /\ roleReq[q].pc = "write" /\ Writable(q)
    /\ role' = [role EXCEPT ![r] = IF roleReq[q].op = "delete" THEN Deleted ELSE Written(q)]
    /\ roleInvited' = IF roleReq[q].op = "delete" THEN roleInvited \ {r} ELSE roleInvited
    /\ roleReq' = [Overtake(roleReq, q) EXCEPT ![q] = IF next = "idle" THEN NoRoleReq
                                                      ELSE [@ EXCEPT !.pc = next]]
    /\ skewed' = IF roleReq[q].overtaken THEN skewed \cup {r} ELSE skewed
    /\ roleFill' = IF roleFill[r] = Unset THEN roleFill ELSE [roleFill EXCEPT ![r].late = TRUE]
    /\ UNCHANGED <<roleCount, assigned, roleCache, grant>>

WriteRoleFails(q) ==
    /\ roleReq[q].pc = "write" /\ ~Writable(q)
    /\ roleReq' = [roleReq EXCEPT ![q] = NoRoleReq]
    /\ UNCHANGED <<role, roleCount, assigned, roleInvited, roleCache, roleFill, grant, skewed>>

InvalidateRoleCache(q) ==
    /\ roleReq[q].pc = "clear"
    /\ roleCache' = [roleCache EXCEPT ![roleReq[q].id] = Unset]
    /\ roleReq' = [roleReq EXCEPT ![q] = NoRoleReq]
    /\ UNCHANGED <<role, roleCount, assigned, roleInvited, roleFill, grant, skewed>>

-----------------------------------------------------------------------------
(* Readers, and the users of roles                                         *)

Rights(r) == IF Exists(r) THEN [wide |-> role[r].wide, capabilities |-> role[r].capabilities]
             ELSE [wide |-> FALSE, capabilities |-> {}]

(* getRoleCapabilities and getRoleScope: getOrSet finds nothing cached and *)
(* reads the role, once for all who ask; then it caches what was read,     *)
(* even if the role was written and its cached values deleted in between   *)
(* (late, history).                                                        *)
ReadRole(r) ==
    /\ role[r] # Unset /\ roleCache[r] = Unset /\ roleFill[r] = Unset
    /\ roleFill' = [roleFill EXCEPT ![r] = [rights |-> Rights(r), late |-> FALSE]]
    /\ UNCHANGED <<role, roleReq, roleCount, assigned, roleInvited, roleCache, grant, skewed>>

CacheRole(r) ==
    /\ roleFill[r] # Unset
    /\ roleCache' = [roleCache EXCEPT ![r] = roleFill[r]]
    /\ roleFill' = [roleFill EXCEPT ![r] = Unset]
    /\ UNCHANGED <<role, roleReq, roleCount, assigned, roleInvited, grant, skewed>>

(* ROLE_CACHE_TTL ends. *)
ExpireRole(r) ==
    /\ roleCache[r] # Unset
    /\ roleCache' = [roleCache EXCEPT ![r] = Unset]
    /\ UNCHANGED <<role, roleReq, roleCount, assigned, roleInvited, roleFill, grant, skewed>>

(* Faulty variant: the grant is kept without a time to live. *)
GetGrantForever(r) ==
    /\ r \in assigned /\ grant[r] = Unset
    /\ grant' = [grant EXCEPT ![r] = [rights |-> Rights(r), ttl |-> FALSE]]
    /\ UNCHANGED <<role, roleReq, roleCount, assigned, roleInvited, roleCache, roleFill, skewed>>

(* getAccessGrantForUser: built from the role of the row, for five minutes. *)
GetGrant(r) ==
    /\ r \in assigned /\ grant[r] = Unset
    /\ grant' = [grant EXCEPT ![r] = [rights |-> Rights(r), ttl |-> TRUE]]
    /\ UNCHANGED <<role, roleReq, roleCount, assigned, roleInvited, roleCache, roleFill, skewed>>

ExpireGrant(r) ==
    /\ grant[r] # Unset /\ grant[r].ttl
    /\ grant' = [grant EXCEPT ![r] = Unset]
    /\ UNCHANGED <<role, roleReq, roleCount, assigned, roleInvited, roleCache, roleFill, skewed>>

(* addRole and removeRole of the person, which clear the grant. *)
AssignRole(r) ==
    /\ Exists(r)
    /\ assigned' = IF r \in assigned THEN assigned \ {r} ELSE assigned \cup {r}
    /\ grant' = [grant EXCEPT ![r] = Unset]
    /\ UNCHANGED <<role, roleReq, roleCount, roleInvited, roleCache, roleFill, skewed>>

(* A client's administrator can invite for client-assignable roles only. *)
InviteForRole(r) ==
    /\ Exists(r) /\ role[r].assignable
    /\ r \notin roleInvited
    /\ roleInvited' = roleInvited \cup {r}
    /\ UNCHANGED <<role, roleReq, roleCount, assigned, roleCache, roleFill, grant, skewed>>

RoleStep(q) == UpdateRoleName(q) \/ WriteRole(q) \/ WriteRoleFails(q) \/ InvalidateRoleCache(q)

RolesNext ==
    \/ \E q \in RoleReqs : RoleStep(q)
    \/ \E q \in RoleReqs, r \in RoleIds :
          \/ \E d \in RoleDtos : CreateRole(q, r, d) \/ UpdateRole(q, r, d)
          \/ DeleteRole(q, r)
          \/ \E C \in (SUBSET Capabilities) \ {{}} : AddCapabilities(q, r, C) \/ RemoveCapabilities(q, r, C)
          \/ \E w \in BOOLEAN : SetScope(q, r, w)
    \/ \E r \in RoleIds : ReadRole(r) \/ CacheRole(r) \/ ExpireRole(r) \/ GetGrant(r) \/ ExpireGrant(r) \/ AssignRole(r) \/ InviteForRole(r)

(* Requests and fills go on, and the time to live of a cached value ends. *)
RolesFairness ==
    /\ \A q \in RoleReqs : WF_rolesVars(RoleStep(q))
    /\ \A r \in RoleIds : WF_rolesVars(CacheRole(r)) /\ WF_rolesVars(ExpireRole(r)) /\ WF_rolesVars(ExpireGrant(r))

RolesSpec == RolesInit /\ [][RolesNext]_rolesVars

-----------------------------------------------------------------------------
(* Properties                                                              *)

(* A role that clients can assign has neither GLOBAL nor SYSTEM scope,     *)
(* unless a request wrote to it what another had decided on before: one    *)
(* checks the scope and sets clientAssignable, the other the reverse       *)
(* (updateRole, setScope).                                                 *)
AssignableIsNarrow ==
    \A r \in RoleIds : (Exists(r) /\ role[r].assignable /\ role[r].wide) => r \in skewed

(* Adding and removing capabilities changes the ones that were asked for   *)
(* and no others, unless the request was overtaken by another write.       *)
CapabilitiesAsAsked ==
    [][\A q \in RoleReqs :
         LET r == roleReq[q].id
             gone == role[r].capabilities \ role'[r].capabilities
             new == role'[r].capabilities \ role[r].capabilities
         IN (roleReq[q].pc = "write" /\ roleReq'[q].pc = "clear" /\ ~roleReq[q].overtaken) =>
               /\ roleReq[q].op = "add" => gone = {} /\ new \subseteq roleReq[q].arg
               /\ roleReq[q].op = "remove" => new = {} /\ gone \subseteq roleReq[q].arg]_rolesVars

(* The cached scope and capabilities of a role are those of the table but  *)
(* while a request is between its write and its invalidation, and when a   *)
(* reader that had read the role before the write caches it after: that is *)
(* stale until its time to live ends.                                      *)
RoleCacheFresh ==
    \A r \in RoleIds : \/ roleCache[r] = Unset \/ roleCache[r].late
                       \/ roleCache[r].rights = Rights(r)
                       \/ \E q \in RoleReqs : roleReq[q].pc = "clear" /\ roleReq[q].id = r

(* When the roles are left alone, every cached grant comes to have the     *)
(* rights of its role, although no change of a role clears it, and so do   *)
(* the cached rights of the role, although a late reader can cache stale   *)
(* ones.                                                                   *)
GrantsCatchUp == <>[](\A r \in RoleIds : /\ grant[r] = Unset \/ grant[r].rights = Rights(r)
                                         /\ roleCache[r] = Unset \/ roleCache[r].rights = Rights(r))

(* Requests on a role that overlap, each writing by id what it decided on  *)
(* the row it read: the role stays one that may be assigned, its caches    *)
(* follow, and its capabilities change as asked (RolesService).            *)
RolesSound == [](AssignableIsNarrow /\ RoleCacheFresh) /\ CapabilitiesAsAsked
=============================================================================
