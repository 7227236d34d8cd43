-------------------------------- MODULE Tags --------------------------------
(***************************************************************************)
(* TagsService: registration of tags, and what a scan resolves to.         *)
(*                                                                         *)
(* A registration reads the tag past row level security, claims it for the *)
(* caller's client and site if it has none, and then updates it within the *)
(* caller's scope, each in a transaction of its own.                        *)
(***************************************************************************)
EXTENDS SiteVisibility

CONSTANTS
    TagIds,         \* external ids
    AssetIds,
    Grants,         \* rows [person, client, site, scope] of PersonClientAccess
    Callers,        \* those under which requests are made
    SiteParent,     \* site |-> parent
    SiteClient,     \* site |-> client
    SiteOfAsset,    \* asset |-> site
    AskedSites,     \* the sites, or None, that registrations ask for
    Calls,          \* registrations in flight at once
    MaxRow          \* bound on the rows created

VARIABLES
    tag,        \* external id |-> None or [row, client, site]
    tagOf,      \* asset |-> its tag, or None (tagId is unique)
    rows,       \* rows created so far
    call        \* the registrations in flight

tagVars == <<tag, tagOf, rows, call>>

Sites == DOMAIN SiteParent
Clients == {SiteClient[s] : s \in Sites}
TagRows == [row : Nat, client : Clients \cup {None}, site : Sites \cup {None}]

(* Foreign keys: a grant is for a client and a site, an asset at a site. *)
ASSUME TagsAssumption ==
    /\ None \notin TagIds \cup Sites \cup Clients \cup TagRows
    /\ DOMAIN SiteClient = Sites
    /\ SiteOfAsset \in [AssetIds -> Sites]
    /\ AskedSites \subseteq Sites \cup {None}
    /\ Callers \subseteq Grants
    /\ \A g \in Grants : /\ g.site \in Sites /\ g.client \in Clients
                         /\ \E i \in DOMAIN SCOPE_HIERARCHY : SCOPE_HIERARCHY[i] = g.scope

Idle == [step |-> "idle"]

TagsInit ==
    /\ tag = [t \in TagIds |-> None]
    /\ tagOf = [a \in AssetIds |-> None]
    /\ rows = 0
    /\ call = [c \in Calls |-> Idle]

(***************************************************************************)
(* Row level security: validate_client and validate_site, in the context   *)
(* buildPrimaryExtension sets for a grant.                                 *)
(***************************************************************************)
SiteAllowed(g, s) ==
    \/ ScopeAtLeast(g.scope, "CLIENT")
    \/ s = g.site
    \/ g.scope = "SITE_GROUP" /\ s \in AllowedSiteIds(SiteParent, g.site)
Visible(g, client, s) == client = g.client /\ SiteAllowed(g, s)
TagVisible(g, t) == tag[t] # None /\ Visible(g, tag[t].client, tag[t].site)
AssetVisible(g, a) == Visible(g, SiteClient[SiteOfAsset[a]], SiteOfAsset[a])

(* connect: an asset has one tag and a tag one asset.  The asset that had  *)
(* the tag loses it, if the caller can see it; else the index refuses.     *)
Holders(t) == {a \in AssetIds : tagOf[a] = t}
Connectable(g, a, t) == AssetVisible(g, a) /\ \A b \in Holders(t) \ {a} : AssetVisible(g, b)
Connect(a, t) == tagOf' = [b \in AssetIds |-> IF b = a THEN t ELSE IF tagOf[b] = t THEN None ELSE tagOf[b]]

(***************************************************************************)
(* registerTag.                                                            *)
(***************************************************************************)
(* Faulty variant: every tag that exists is claimed. *)
NeedsClaimAlways(row) == row # None

(* No client or no site: the caller's are written first. *)
NeedsClaim(row) == row.client = None \/ row.site = None
Register(c, g, t, a, s) ==
    /\ call[c] = Idle
    /\ call' = [call EXCEPT ![c] =
          [step |-> IF tag[t] = None THEN "create" ELSE IF NeedsClaim(tag[t]) THEN "claim" ELSE "update",
           grant |-> g, tag |-> t, asset |-> a, site |-> s,
           row |-> IF tag[t] = None THEN None ELSE tag[t].row,
           read |-> IF tag[t] # None /\ NeedsClaim(tag[t]) THEN tag[t] ELSE None]]
    /\ UNCHANGED <<tag, tagOf, rows>>

Finish(c) == call' = [call EXCEPT ![c] = Idle]

(* The row the registration read, by its id; a deleted one is not found. *)
SeenRow(c) == tag[call[c].tag] # None /\ tag[call[c].tag].row = call[c].row

Claim(c) ==
    /\ call[c].step = "claim"
    /\ UNCHANGED <<tagOf, rows>>
    /\ \/ /\ SeenRow(c)
          /\ tag' = [tag EXCEPT ![call[c].tag].client = call[c].grant.client,
                                ![call[c].tag].site = call[c].grant.site]
          /\ call' = [call EXCEPT ![c].step = "update", ![c].read = None]
       \/ ~SeenRow(c) /\ Finish(c) /\ UNCHANGED tag

(* The update of the tag and its asset, all or nothing; the policy holds   *)
(* for the row before and after.                                           *)
NewSite(c) == IF call[c].site # None THEN call[c].site ELSE tag[call[c].tag].site
CanUpdate(c) ==
    LET k == call[c] IN
    /\ SeenRow(c)
    /\ TagVisible(k.grant, k.tag)
    /\ NewSite(c) # None => SiteClient[NewSite(c)] = k.grant.client
    /\ SiteAllowed(k.grant, NewSite(c))
    /\ Connectable(k.grant, k.asset, k.tag)

UpdateRegistered(c) ==
    /\ call[c].step = "update"
    /\ Finish(c)
    /\ UNCHANGED rows
    /\ \/ /\ CanUpdate(c)
          /\ tag' = [tag EXCEPT ![call[c].tag].site = NewSite(c)]
          /\ Connect(call[c].asset, call[c].tag)
       \/ ~CanUpdate(c) /\ UNCHANGED <<tag, tagOf>>

(* A new tag, unless another request has created it (externalId is unique). *)
CreateSite(c) == IF call[c].site # None THEN call[c].site ELSE call[c].grant.site
CanCreate(c) ==
    LET k == call[c] IN
    /\ tag[k.tag] = None
    /\ SiteClient[CreateSite(c)] = k.grant.client /\ SiteAllowed(k.grant, CreateSite(c))
    /\ Connectable(k.grant, k.asset, k.tag)

CreateRegistered(c) ==
    /\ call[c].step = "create"
    /\ Finish(c)
    /\ \/ /\ CanCreate(c)
          /\ rows < MaxRow
          /\ rows' = rows + 1
          /\ tag' = [tag EXCEPT ![call[c].tag] =
                [row |-> rows, client |-> call[c].grant.client, site |-> CreateSite(c)]]
          /\ Connect(call[c].asset, call[c].tag)
       \/ ~CanCreate(c) /\ UNCHANGED <<tag, tagOf, rows>>

(* A system administrator names the client, and upserts past row level     *)
(* security; without a site the row keeps the one it has.                  *)
SystemRegister(t, a, client, s) ==
    /\ tag[t] # None \/ rows < MaxRow
    /\ rows' = IF tag[t] = None THEN rows + 1 ELSE rows
    /\ tag' = [tag EXCEPT ![t] =
          [row |-> IF tag[t] = None THEN rows ELSE tag[t].row,
           client |-> client,
           site |-> IF tag[t] # None /\ s = None THEN tag[t].site ELSE s]]
    /\ Connect(a, t)
    /\ UNCHANGED call

(***************************************************************************)
(* create, update and remove.                                              *)
(***************************************************************************)
(* Tags are imported without a client. *)
CreateTag(t) ==
    /\ tag[t] = None /\ rows < MaxRow
    /\ rows' = rows + 1
    /\ tag' = [tag EXCEPT ![t] = [row |-> rows, client |-> None, site |-> None]]
    /\ UNCHANGED <<tagOf, call>>

(* A tag is moved to another site or disconnected from its site: only who  *)
(* sees every site still sees the result.                                  *)
UpdateTag(g, t, s) ==
    /\ TagVisible(g, t)
    /\ s # None => SiteClient[s] = g.client
    /\ SiteAllowed(g, s)
    /\ tag' = [tag EXCEPT ![t].site = s]
    /\ UNCHANGED <<tagOf, rows, call>>

RemoveTag(g, t) ==
    /\ TagVisible(g, t)
    /\ tag' = [tag EXCEPT ![t] = None]
    /\ tagOf' = [a \in AssetIds |-> IF tagOf[a] = t THEN None ELSE tagOf[a]]
    /\ UNCHANGED <<rows, call>>

(* AssetsService.addTag: a tag the caller sees is connected, and taken     *)
(* from the asset that has it.  One the caller does not see would be       *)
(* created without a client, which the policy refuses.                     *)
AddTag(g, a, t) ==
    /\ TagVisible(g, t) /\ Connectable(g, a, t)
    /\ Connect(a, t)
    /\ UNCHANGED <<tag, rows, call>>

(***************************************************************************)
(* resolveAccessForClient: the first row of the person that reaches the    *)
(* tag, in no order.                                                       *)
(***************************************************************************)
Resolves(g, client, s) ==
    /\ g.client = client
    /\ \/ s = None
       \/ ScopeAtLeast(g.scope, "CLIENT")
       \/ g.site = s
       \/ ScopeAtLeast(g.scope, "SITE_GROUP") /\ s \in AllowedSiteIds(SiteParent, g.site)

TagSteps ==
    \/ \E c \in Calls :
          \/ \E g \in Callers, t \in TagIds, a \in AssetIds, s \in AskedSites : Register(c, g, t, a, s)
          \/ Claim(c) \/ UpdateRegistered(c) \/ CreateRegistered(c)
    \/ \E t \in TagIds, a \in AssetIds, s \in AskedSites :
          \E client \in IF s = None THEN Clients ELSE {SiteClient[s]} : SystemRegister(t, a, client, s)
    \/ \E t \in TagIds : CreateTag(t)
    \/ \E g \in Callers, t \in TagIds :
          \/ \E s \in Sites \cup {None} : UpdateTag(g, t, s)
          \/ RemoveTag(g, t)
          \/ \E a \in AssetIds : AddTag(g, a, t)

TagsSpec == TagsInit /\ [][TagSteps]_tagVars

(***************************************************************************)
(* Properties.                                                             *)
(***************************************************************************)
Agrees(t) == tag[t] # None => \A a \in Holders(t) : SiteClient[SiteOfAsset[a]] = tag[t].client

(* A tag and the asset it is on stay with one client through every         *)
(* registration that read the tag as it is: they come apart only when a    *)
(* claim is made on a row that has changed since it was read or that has   *)
(* no site (registerTag reads, claims and updates in three transactions),  *)
(* or a system administrator registers the tag for another client.         *)
TagStaysWithAsset ==
    [][\A t \in TagIds : Agrees(t) /\ ~Agrees(t)' =>
          \/ \E a \in AssetIds, client \in Clients, s \in Sites \cup {None} : SystemRegister(t, a, client, s)
          \/ \E c \in Calls : /\ call[c].step = "claim" /\ call[c].tag = t
                              /\ call[c].read # tag[t] \/ tag[t].site = None]_tagVars

(* The rows a scan may be answered with (resolveAccessForClient) are       *)
(* exactly those under which row level security shows the tag: the context *)
(* the scan returns can open what was scanned, and none is left out.       *)
ScanAgreesWithRowSecurity ==
    \A t \in TagIds : tag[t] # None /\ tag[t].client # None /\ tag[t].site # None =>
        \A g \in Grants : Resolves(g, tag[t].client, tag[t].site) <=> TagVisible(g, t)

=============================================================================
