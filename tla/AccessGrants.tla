---------------------------- MODULE AccessGrants ----------------------------
(***************************************************************************)
(* What a request may do: AuthService resolves the access rows of a person *)
(* and the context of the request (client, site, intent) to a grant,       *)
(* AuthGuard admits it, and the result is cached under the context for     *)
(* five minutes unless a handler that changes the rows clears the key.     *)
(*                                                                         *)
(* One person and one context, `watch`, whose cache entry is followed: the *)
(* entries of other keys never meet it.  A site determines its client.     *)
(* The handlers are the ones of ClientAccess, here in one step each, with  *)
(* the invalidation that ends them; MemoryCache models the races between   *)
(* filling and clearing, and ClientAccess those between the handlers.      *)
(***************************************************************************)
EXTENDS Naturals, FiniteSets, Sequences, Functions

CONSTANTS
    Clients, Sites, ClientOf,
    DefaultSite,    \* client -> its primary or oldest site, or None
    Roles, ScopeOf, CapabilitiesOf,
    Capabilities,   \* VALID_CAPABILITIES
    Contexts,       \* the contexts of requests that are followed
    MaxRows,        \* bound on the rows of the person
    MaxInactive,    \* bound on the clients and sites that are not active
    None

SCOPE_HIERARCHY == <<"SYSTEM", "GLOBAL", "CLIENT", "SITE_GROUP", "SITE", "SELF">>
Intents == {"user", "elevated", "system"}

(* Who asks, whether with an e-mail of SYSTEM_ADMIN_EMAILS, and the headers. *)
Context == [bootstrap : BOOLEAN, client : Clients \cup {None}, site : Sites \cup {None},
            intent : Intents]

ASSUME AccessGrantsAssumption ==
    /\ None \notin Clients \cup Sites /\ "ephemeral" \notin Roles
    /\ ClientOf \in [Sites -> Clients]
    /\ DefaultSite \in [Clients -> Sites \cup {None}]
    /\ ScopeOf \in [Roles -> Range(SCOPE_HIERARCHY)]
    /\ CapabilitiesOf \in [Roles -> SUBSET Capabilities]
    /\ Contexts \subseteq Context

VARIABLES
    log,        \* the rows of the person, [site, role], oldest first
    primary,    \* the rows with isPrimary
    active,     \* the clients and sites that are active
    watch,      \* the context that is followed
    cached,     \* its cache entry, or None
    excused     \* whether a change that clears no key has come since (history)

grantVars == <<log, primary, active, watch, cached, excused>>

Row == [site : Sites, role : Roles]
Rows == Range(log)

-----------------------------------------------------------------------------
(* Scopes and grants                                                       *)

Rank(scope) == CHOOSE i \in DOMAIN SCOPE_HIERARCHY : SCOPE_HIERARCHY[i] = scope
IsScopeAtLeast(scope, required) == Rank(scope) <= Rank(required)

Grant(scope, caps, client, site, role) ==
    [reason |-> "granted", scope |-> scope, capabilities |-> caps, client |-> client,
     site |-> site, role |-> role]
Denied(reason) ==
    [reason |-> reason, scope |-> "SELF", capabilities |-> {}, client |-> None,
     site |-> None, role |-> None]

(* The grants that rows give. *)
Grants == [reason : {"granted"}, scope : Range(SCOPE_HIERARCHY), capabilities : SUBSET Capabilities,
           client : Clients, site : Sites, role : Roles]
GrantOf(row, caps) == Grant(ScopeOf[row.role], caps, ClientOf[row.site], row.site, row.role)

(* Faulty variant: capabilities of less permissive roles are dropped. *)
MergedTopOnly ==
    [g \in Grants |-> [row \in Row |->
       IF IsScopeAtLeast(ScopeOf[row.role], g.scope) THEN GrantOf(row, CapabilitiesOf[row.role]) ELSE g]]

(* One step of reduceAccessGrants. *)
Merged ==
    [g \in Grants |-> [row \in Row |->
       LET caps == g.capabilities \cup CapabilitiesOf[row.role] IN
       IF IsScopeAtLeast(ScopeOf[row.role], g.scope)
       THEN GrantOf(row, caps) ELSE [g EXCEPT !.capabilities = caps]]]

(* reduceAccessGrants, from the least permissive scope at the first row's  *)
(* place on.                                                               *)
ReduceAccessGrants ==
    [rs \in Seq(Row) |->
       LET start == Grant("SELF", {}, ClientOf[rs[1].site], rs[1].site, rs[1].role)
           after[i \in 0 .. Len(rs)] == IF i = 0 THEN start ELSE Merged[after[i - 1]][rs[i]]
       IN  after[Len(rs)]]

(* Faulty variant: only the site is looked at, not its client. *)
ValidateSiteOnly(g) ==
    IF IsScopeAtLeast(g.scope, "CLIENT") \/ g.site \in active THEN g ELSE Denied("site_inactive")

(* Scopes below GLOBAL need an active client, those below CLIENT an active *)
(* site.                                                                   *)
Validated(g) ==
    CASE IsScopeAtLeast(g.scope, "GLOBAL") -> g
      [] ~IsScopeAtLeast(g.scope, "GLOBAL") /\ g.client \notin active -> Denied("client_inactive")
      [] ~IsScopeAtLeast(g.scope, "GLOBAL") /\ g.client \in active ->
            IF IsScopeAtLeast(g.scope, "CLIENT") \/ g.site \in active
            THEN g ELSE Denied("site_inactive")

ValidateAndBuildAccessGrantResult(rs) ==
    LET result == [g \in Grants |-> Validated(g)] IN result[ReduceAccessGrants[rs]]

(* The elements of a sequence that are in a set, in their order. *)
Kept(s, S) ==
    LET kept[i \in 0 .. Len(s)] ==
          IF i = 0 THEN <<>> ELSE IF s[i] \in S THEN Append(kept[i - 1], s[i]) ELSE kept[i - 1]
    IN  kept[Len(s)]

(* The records of the query that are in S: primary ones first, then by age. *)
AccessRecords(S) == Kept(log, S \cap primary) \o Kept(log, S \ primary)

EphemeralGrant(x) == Grant("SYSTEM", Capabilities, x.client, x.site, "ephemeral")

(* The rows at the client, and the site if one is named. *)
RequestedBy(x) == {row \in Row : ClientOf[row.site] = x.client /\ x.site \in {None, row.site}}

(* The decision on the records: those requested, or the primary ones, or   *)
(* the first.                                                              *)
FromRecords(x) ==
    LET requested == AccessRecords(RequestedBy(x))
        first == AccessRecords(primary)
        all == AccessRecords(Rows)
    IN  CASE x.client # None /\ requested # <<>> ->
                ValidateAndBuildAccessGrantResult(requested)
          [] x.client # None /\ requested = <<>> ->
                IF x.bootstrap THEN EphemeralGrant(x) ELSE Denied("access_grant_request_denied")
          [] x.client = None /\ first # <<>> -> ValidateAndBuildAccessGrantResult(first)
          [] x.client = None /\ first = <<>> /\ all # <<>> ->
                ValidateAndBuildAccessGrantResult(SubSeq(all, 1, 1))
          [] x.client = None /\ all = <<>> ->
                IF x.bootstrap /\ x.intent # "user" THEN EphemeralGrant(x)
                ELSE Denied("no_access_grant")

(* getMostPermissiveRole for SYSTEM: of the roles with that scope, one     *)
(* with the most capabilities, read in no order.                           *)
MostPermissiveRoles ==
    LET S == {row.role : row \in {r \in Rows : ScopeOf[r.role] = "SYSTEM"}} IN
    {r \in S : \A q \in S : Cardinality(CapabilitiesOf[q]) <= Cardinality(CapabilitiesOf[r])}

(* The results getAccessGrantForUserFromDatabase may return. *)
FromDatabase(x) ==
    LET site == IF x.site # None \/ x.client = None THEN x.site ELSE DefaultSite[x.client] IN
    IF x.client # None /\ x.intent # "user" /\ site # None /\ MostPermissiveRoles # {}
    THEN {Grant("SYSTEM", CapabilitiesOf[r], x.client, site, r) : r \in MostPermissiveRoles}
    ELSE {FromRecords(x)}

(* AuthGuard.canActivate: a grant, and SYSTEM scope for other intents,     *)
(* 'elevated' with a client.                                               *)
Admitted(x, g) ==
    /\ g.reason = "granted"
    /\ x.intent # "user" => g.scope = "SYSTEM"
    /\ x.intent = "elevated" => x.client # None

-----------------------------------------------------------------------------
(* The cache entry and the handlers                                        *)

GrantsInit ==
    /\ log = <<>>
    /\ primary = {}
    /\ active = Clients \cup Sites
    /\ watch \in Contexts
    /\ cached = None
    /\ excused = FALSE

(* Faulty variant: the keys of the sites are not cleared. *)
ClearedClientOnly(c, S) ==
    {x \in Context : (x.client = None /\ x.site = None) \/ (x.client = c /\ x.site = None)}

(* clearAccessGrantResponseCache: no client, the client, and the client    *)
(* with each of the sites S, under all intents.                            *)
Cleared(c, S) ==
    {x \in Context : \/ x.client = None /\ x.site = None
                     \/ x.client = c /\ x.site \in S \cup {None}}

(* A handler ends by clearing its keys. Not cleared although it may change *)
(* the result: another client's context, when a SYSTEM role comes or goes  *)
(* or when a promotion reorders the rows there.                            *)
ClearAfter(c, S) ==
    /\ IF watch \in Cleared(c, S)
       THEN cached' = None /\ excused' = FALSE
       ELSE /\ UNCHANGED cached
            /\ excused' = (\/ excused
                           \/ MostPermissiveRoles' # MostPermissiveRoles
                           \/ ~(primary' \cap Rows \subseteq primary))
    /\ UNCHANGED <<active, watch>>

Resolve ==
    /\ cached = None
    /\ \E g \in FromDatabase(watch) : cached' = g
    /\ excused' = FALSE
    /\ UNCHANGED <<log, primary, active, watch>>

ExpireGrant ==
    /\ cached # None
    /\ cached' = None
    /\ excused' = FALSE
    /\ UNCHANGED <<log, primary, active, watch>>

PrimaryIs(s) == primary = {} \/ \E row \in primary : row.site = s

(* UsersService.addRole *)
AddRole ==
    \E row \in Row :
        /\ row \in Rows \/ Len(log) < MaxRows
        /\ log' = IF row \in Rows THEN log ELSE Append(log, row)
        /\ primary' = IF PrimaryIs(row.site) THEN primary \cup {row} ELSE primary \ {row}
        /\ ClearAfter(ClientOf[row.site], {row.site})

(* The rows of the site of the oldest row that is left. *)
Promoted(rest) == {row \in Range(rest) : row.site = rest[1].site}

(* Rows are deleted and, if asked for and if no row is primary, the oldest *)
(* place is promoted.                                                      *)
Delete(S, promote) ==
    /\ log' = Kept(log, Rows \ S)
    /\ primary' = (primary \ S) \cup (IF promote /\ log' # <<>> THEN Promoted(log') ELSE {})

(* UsersService.removeRole *)
RemoveRole ==
    \E row \in Rows :
        /\ Delete({row}, row \in primary /\ primary = {row})
        /\ ClearAfter(ClientOf[row.site], {row.site})

(* MembersService.remove: a promotion needs the intent 'system', since     *)
(* otherwise the rows of other clients are not visible.                    *)
RemoveMember ==
    \E c \in Clients, intent \in {"user", "system"} :
        LET S == {row \in Rows : ClientOf[row.site] = c} IN
        /\ S # {}
        /\ Delete(S, intent = "system" /\ primary # {})
        /\ ClearAfter(c, {row.site : row \in S})

(* KeycloakAccessSyncService.syncUser clears nothing. *)
SyncUser ==
    \E row \in Row \ Rows :
        /\ Len(log) < MaxRows
        /\ log' = Append(log, row)
        /\ primary' = IF log = <<>> THEN {row} ELSE primary
        /\ excused' = TRUE
        /\ UNCHANGED <<active, watch, cached>>

(* Clients and sites are activated and deactivated; nothing is cleared. *)
SetActive ==
    /\ \E a \in Clients \cup Sites :
         active' = IF a \in active THEN active \ {a} ELSE active \cup {a}
    /\ Cardinality((Clients \cup Sites) \ active') <= MaxInactive
    /\ excused' = TRUE
    /\ UNCHANGED <<log, primary, watch, cached>>

GrantSteps == Resolve \/ ExpireGrant \/ AddRole \/ RemoveRole \/ RemoveMember \/ SyncUser \/ SetActive

GrantsSpec == GrantsInit /\ [][GrantSteps]_grantVars

-----------------------------------------------------------------------------
(* What is checked.                                                        *)

(* The rows a request of context x is decided on. *)
Deciding(x) ==
    IF x.client # None
    THEN {row \in Rows : ClientOf[row.site] = x.client /\ x.site \in {None, row.site}}
    ELSE IF primary # {} THEN primary
    ELSE {row \in Rows : row = log[1]}

(* Whatever the rows, the statuses and the context, a grant that is not    *)
(* ephemeral says what the rows say: its place and role are of one of      *)
(* them, none has a more permissive scope, its capabilities are theirs and *)
(* nobody is admitted to a client or a site that is inactive for the       *)
(* scope. And AuthGuard admits nobody with another intent than 'user' who  *)
(* has no SYSTEM role, but for the bootstrap of the first administrator.   *)
GrantSound ==
    \A g \in FromDatabase(watch) :
        /\ /\ g.reason = "granted" /\ g.role \in Roles
           /\ watch.intent = "user" \/ MostPermissiveRoles = {}
           =>
              LET D == Deciding(watch) IN
              /\ \E row \in D : /\ row.site = g.site /\ row.role = g.role
                                /\ ClientOf[row.site] = g.client
              /\ \A row \in D : IsScopeAtLeast(g.scope, ScopeOf[row.role])
              /\ g.scope = ScopeOf[g.role]
              /\ g.capabilities = UNION {CapabilitiesOf[row.role] : row \in D}
              /\ IsScopeAtLeast(g.scope, "GLOBAL") \/ g.client \in active
              /\ IsScopeAtLeast(g.scope, "CLIENT") \/ g.site \in active
        /\ (watch.intent # "user" /\ Admitted(watch, g)) =>
              watch.bootstrap \/ \E row \in Rows : ScopeOf[row.role] = "SYSTEM"

(* A cached result is one the database would give now, unless something    *)
(* has happened that no handler clears, or the request named a site and no *)
(* client: the keys cleared are all that a role change can touch.          *)
StaleOnlyExcused ==
    cached # None /\ cached \notin FromDatabase(watch) =>
        excused \/ (watch.client = None /\ watch.site # None)

(* A role that is added never weakens what a context that names a client   *)
(* is granted under 'user', as long as everything is active: neither the   *)
(* scope nor a capability is lost, whatever the order of the rows.         *)
AddNeverWeakens ==
    [][/\ Len(log') > Len(log) /\ active = Clients \cup Sites
       /\ watch.client # None /\ watch.intent = "user"
       =>
       \A g \in FromDatabase(watch), h \in FromDatabase(watch)' :
          g.reason = "granted" /\ g.role \in Roles =>
               /\ h.reason = "granted"
               /\ IsScopeAtLeast(h.scope, g.scope)
               /\ g.capabilities \subseteq h.capabilities]_grantVars
=============================================================================
