-------------------------- MODULE LegacyMigration --------------------------
(***************************************************************************)
(* The import of a client from the legacy system (src/legacy-migration/):  *)
(* LegacyMigrationGateway talks to an operator over a socket and           *)
(* LegacyMigrationService copies client, sites, assets, catalogue, tags    *)
(* and route points inside one interactive transaction that waits for the  *)
(* operator's answers.  Imports run side by side, fail, and are run again. *)
(*                                                                         *)
(* A step handles one legacy row with all its queries.  A transaction sees *)
(* its own writes over what is committed (READ COMMITTED).  No legacy id   *)
(* is unique in the database.  The prompts of one row are one prompt, and  *)
(* an answer that does not validate leaves the prompt where it is.         *)
(***************************************************************************)
EXTENDS Naturals, Sequences, FiniteSets

CONSTANTS
    Sockets,
    MaxRuns,        \* bound on the imports ever started
    LegacyClients,
    LegacyGroups,   \* client -> its groups in order: [no, id]
    LegacySites,    \* client -> its locations in order: [no, id, group, data]
    LegacyAssets,   \* client -> its assets in order: [no, id, site, product, tag, sort]
    LegacyProducts, \* product -> [id, type, category, maker, name]
    LegacyCategories, \* category -> [id, nick, owner]
    LegacyMakers,   \* manufacturer -> [id, name, owner]
    LegacyTags,     \* tag -> [id, serial]
    Existing,       \* the rows the new system starts with
    Early,          \* the legacy assets that are there at the start
    None

Runs == 1 .. MaxRuns

Table(V, t) == {x \in V : x.t = t}

(* The primary keys and the external ids of a legacy table tell its rows   *)
(* apart; a row may lack the external one.                                 *)
Apart(T) ==
    /\ \A c \in LegacyClients : Len(T[c]) \in Nat /\ DOMAIN T[c] = 1 .. Len(T[c])
    /\ \A c, d \in LegacyClients : \A i \in DOMAIN T[c], j \in DOMAIN T[d] :
          \/ T[c][i].no = T[d][j].no
          \/ T[c][i].id = T[d][j].id /\ T[c][i].id # None
          => c = d /\ i = j

(* Rows without legacy ids whose references lead to rows of the client.    *)
Tables == {"client", "group", "site", "asset", "product", "category", "maker", "tag", "route", "point"}
NoLegacy(V) ==
    /\ \A x \in V : /\ DOMAIN x = {"t", "id", "legacy", "name", "client", "site", "ref", "maker", "tag"}
                     /\ x.t \in Tables /\ x.id[1] \notin Runs /\ x.id[2] = x.t
                     /\ x.id # None /\ x.legacy = None
                     /\ \A y \in V : x.id = y.id => x = y
    /\ \A s \in Table(V, "site") :
          /\ s.client # None
          /\ s.ref # None => \E g \in V : g.t \in {"group", "site"} /\ g.id = s.ref /\ g.client = s.client
    /\ \A a \in Table(V, "asset") :
          /\ \E s \in Table(V, "site") : s.id = a.site /\ s.client = a.client
          /\ \E p \in Table(V, "product"), c \in Table(V, "category") :
                p.id = a.ref /\ c.id = p.ref /\ c.client \in {None, a.client}
          /\ a.tag # None =>
                /\ \E x \in Table(V, "tag") : x.id = a.tag /\ x.client = a.client /\ x.site = a.site
                /\ \A b \in Table(V, "asset") : b.tag = a.tag => b = a
    /\ \A p \in Table(V, "point") : \E x \in Table(V, "route"), a \in Table(V, "asset") :
          x.id = p.site /\ a.id = p.ref /\ x.client = a.client

(* Legacy ids come by imports alone; Existing is before the first.         *)
ASSUME MigrationAssumption ==
    /\ MaxRuns \in Nat /\ None \notin Runs /\ None \notin LegacyClients
    /\ Apart(LegacyGroups) /\ Apart(LegacySites) /\ Apart(LegacyAssets)
    /\ NoLegacy(Existing)
    /\ \A r \in Runs, c \in LegacyClients :
          /\ None # <<r, "client", c>>
          /\ \A i \in DOMAIN LegacySites[c] : None # <<r, "site", LegacySites[c][i].no>>

VARIABLES
    db,         \* the committed rows of the new system
    inUse,      \* the legacy assets entered so far: the old system stays in use
    run,        \* import -> its progress
    socket,     \* socket -> "open" or "closed"
    pending,    \* socket -> the import whose prompt an answer resolves
    overlapped  \* whether two transactions were ever open at once (history)

migrationVars == <<db, inUse, run, socket, pending, overlapped>>

(* A row of any table: t is the table, id its key, made of the import that *)
(* created it, and ref, maker, tag and site its references.                *)
New(t, n, key) == [t |-> t, id |-> <<n, t, key>>, legacy |-> None, name |-> None,
                   client |-> None, site |-> None, ref |-> None, maker |-> None, tag |-> None]

(* What a search for a row gives that finds and creates none. *)
NoRow == New("none", 0, None)

(* An import: the legacy client, the new one, the rows written so far, the *)
(* rows found at the start of a phase, the new sites by legacy key, the    *)
(* default routes by site, and the assets known to have a route point.     *)
Fresh == [pc |-> "new", socket |-> None, asked |-> "no", legacy |-> None, client |-> None,
          i |-> 1, wrote |-> {}, seen |-> {}, sites |-> {}, groups |-> {}, routes |-> {},
          placed |-> {}]

Open(r) == run[r].pc \notin {"new", "select", "ended"}
Waiting(r) == run[r].asked = "waiting"
View(r) == {x \in db : \A y \in run[r].wrote : y.id # x.id} \cup run[r].wrote
Over(W, S) == {x \in W : \A y \in S : y.id # x.id} \cup S

MigrationInit ==
    /\ db = Existing
    /\ inUse = Early
    /\ run = [r \in Runs |-> Fresh]
    /\ socket = [w \in Sockets |-> "open"]
    /\ pending = [w \in Sockets |-> None]
    /\ overlapped = FALSE

-----------------------------------------------------------------------------
(* The gateway                                                             *)

(* Imports that end without a commit, and a socket that closes: the import *)
(* whose prompt is pending there is rejected, and ends too.                *)
EndRuns(S) == run' = [r \in Runs |-> IF r \in S THEN [run[r] EXCEPT !.pc = "ended", !.asked = "no",
                                                                    !.wrote = {}]
                                     ELSE run[r]]

CloseSocket(w, S) ==
    /\ socket' = [socket EXCEPT ![w] = "closed"]
    /\ pending' = [pending EXCEPT ![w] = None]
    /\ EndRuns(S \cup ({pending[w]} \cap Runs))
    /\ UNCHANGED <<db, inUse, overlapped>>

HandleDisconnect(w) == socket[w] = "open" /\ CloseSocket(w, {})

(* migrate catches what an import throws and closes the socket. *)
Fail(r) ==
    /\ run[r].pc \notin {"new", "ended"} /\ ~Waiting(r)
    /\ CloseSocket(run[r].socket, {r})

(* An answer resolves the prompt that is pending; there may be none. *)
PromptResponse(w) ==
    /\ socket[w] = "open" /\ pending[w] # None
    /\ run' = [run EXCEPT ![pending[w]].asked = "answered"]
    /\ pending' = [pending EXCEPT ![w] = None]
    /\ UNCHANGED <<db, inUse, socket, overlapped>>

(* The prompt of an import replaces the one that is pending at its socket. *)
InitPrompt(r) ==
    LET w == run[r].socket IN
    /\ socket[w] = "open"
    /\ run' = [run EXCEPT ![r].asked = "waiting"]
    /\ pending' = [pending EXCEPT ![w] = r]
    /\ UNCHANGED <<db, inUse, socket, overlapped>>

Ask(r) == run[r].asked = "no" /\ InitPrompt(r)
Answered(r) == run[r].asked = "answered"

-----------------------------------------------------------------------------
(* selectClient and migrateClient                                          *)

ProcessMigration(r, w) ==
    /\ run[r].pc = "new" /\ \A q \in Runs : q < r => run[q].pc # "new"
    /\ socket[w] = "open"
    /\ run' = [run EXCEPT ![r].pc = "select", ![r].socket = w]
    /\ UNCHANGED <<db, inUse, socket, pending, overlapped>>

Proceed(r, q) ==
    /\ ~Waiting(r)
    /\ run' = [run EXCEPT ![r] = [q EXCEPT !.asked = "no"]]
    /\ UNCHANGED <<db, inUse, socket, pending>>

(* The transaction opens once the operator has chosen. *)
SelectClient(r) ==
    /\ run[r].pc = "select"
    /\ \/ Ask(r)
       \/ /\ Answered(r)
          /\ \E c \in LegacyClients : Proceed(r, [run[r] EXCEPT !.pc = "client", !.legacy = c])
          /\ overlapped' = (overlapped \/ \E q \in Runs \ {r} : Open(q))

(* A client that is not there is created, from legacy data or answers; for *)
(* one that is, the operator confirms, or cancels and the socket closes.   *)
MigrateClient(r) ==
    LET c == run[r].legacy
        found == {x \in Table(View(r), "client") : x.legacy = c}
        made == [New("client", r, c) EXCEPT !.legacy = c]
    IN  /\ run[r].pc = "client" /\ ~Waiting(r)
        /\ \/ Ask(r)
           \/ /\ found = {}
              /\ Proceed(r, [run[r] EXCEPT !.pc = "sites", !.client = made.id,
                                           !.wrote = Over(@, {made})])
              /\ UNCHANGED overlapped
           \/ /\ found # {} /\ Answered(r)
              /\ \E x \in found : Proceed(r, [run[r] EXCEPT !.pc = "sites", !.client = x.id])
              /\ UNCHANGED overlapped
           \/ found # {} /\ Answered(r) /\ CloseSocket(run[r].socket, {r})

-----------------------------------------------------------------------------
(* migrateSites                                                            *)

(* Faulty variant: the assets are not looked for. *)
MigratedSites(r, tables) ==
    LET mine == {x.id : x \in {y \in Table(View(r), "client") : y.legacy = run[r].legacy}}
    IN  {x \in View(r) : x.t \in tables \ {"asset"} /\ x.client \in mine}

(* The rows of every client with this legacy id. *)
Migrated(r, tables) ==
    LET mine == {x.id : x \in {y \in Table(View(r), "client") : y.legacy = run[r].legacy}}
    IN  {x \in View(r) : x.t \in tables /\ x.client \in mine}

MigrateSites(r) ==
    /\ run[r].pc = "sites"
    /\ Proceed(r, [run[r] EXCEPT !.pc = "group", !.i = 1, !.seen = Migrated(r, {"site", "group"})])
    /\ UNCHANGED overlapped

(* A group that is there already is only remembered. *)
MigrateGroup(r) ==
    LET q == run[r]
        g == LegacyGroups[q.legacy][q.i]
        next == [q EXCEPT !.i = @ + 1]
        found == {x \in q.seen : x.t = "group" /\ x.legacy = g.id}
        made == [New("group", r, g.no) EXCEPT !.legacy = g.id, !.client = q.client]
    IN  /\ q.pc = "group" /\ ~Waiting(r)
        /\ IF q.i > Len(LegacyGroups[q.legacy])
           THEN Proceed(r, [q EXCEPT !.pc = "site", !.i = 1]) /\ UNCHANGED overlapped
           ELSE \/ g.id = None /\ Proceed(r, next) /\ UNCHANGED overlapped
                \/ /\ g.id # None
                   /\ \E x \in found : Proceed(r, [next EXCEPT !.groups = @ \cup {<<g.no, x.id>>}])
                   /\ UNCHANGED overlapped
                \/ g.id # None /\ found = {} /\ Ask(r)
                \/ /\ g.id # None /\ found = {} /\ Answered(r)
                   /\ Proceed(r, [next EXCEPT !.groups = @ \cup {<<g.no, made.id>>},
                                              !.wrote = Over(@, {made})])
                   /\ UNCHANGED overlapped

(* A location without name, address and assets is skipped. *)
Skipped(r, s) ==
    \/ s.id = None
    \/ s.data = "blank" /\ \A a \in inUse : a.site # s.no

ParentOf(r, s) ==
    IF \E g \in run[r].groups : g[1] = s.group
    THEN (CHOOSE g \in run[r].groups : g[1] = s.group)[2] ELSE None

(* A site that is there already is remembered for its assets. *)
RecallNothing(q, s, x) == q
Recall(q, s, x) == [q EXCEPT !.sites = @ \cup {<<s.no, x.id>>}]

MigrateSite(r) ==
    LET q == run[r]
        s == LegacySites[q.legacy][q.i]
        next == [q EXCEPT !.i = @ + 1]
        found == {x \in q.seen : x.t = "site" /\ x.legacy = s.id}
        made == [New("site", r, s.no) EXCEPT !.legacy = s.id, !.client = q.client,
                                             !.ref = ParentOf(r, s)]
    IN  /\ q.pc = "site" /\ ~Waiting(r)
        /\ IF q.i > Len(LegacySites[q.legacy])
           THEN Proceed(r, [q EXCEPT !.pc = "assets", !.i = 1]) /\ UNCHANGED overlapped
           ELSE \/ /\ s.id # None
                   /\ \E x \in found : Proceed(r, Recall(next, s, x))
                   /\ UNCHANGED overlapped
                \/ found = {} /\ Skipped(r, s) /\ Proceed(r, next) /\ UNCHANGED overlapped
                \/ found = {} /\ ~Skipped(r, s) /\ s.data # "full" /\ Ask(r)
                \/ /\ found = {} /\ ~Skipped(r, s) /\ (s.data = "full" \/ Answered(r))
                   /\ Proceed(r, [next EXCEPT !.sites = @ \cup {<<s.no, made.id>>},
                                              !.wrote = Over(@, {made})])
                   /\ UNCHANGED overlapped

-----------------------------------------------------------------------------
(* The catalogue and the tags: find or create.  Each yields the rows that  *)
(* may be found or made, or NoRow.                                         *)

(* Rows with the legacy id come before the others that match. *)
Preferred(S, legacy) ==
    IF \E x \in S : x.legacy = legacy THEN {x \in S : x.legacy = legacy} ELSE S

Adopted(x, legacy) == IF x.legacy = None THEN [x EXCEPT !.legacy = legacy] ELSE x

GetOrMigrateProductCategory(r, V, k) ==
    LET m == LegacyCategories[k]
        found == {x \in Table(V, "category") : /\ x.client \in {None, run[r].client}
                                               /\ x.legacy = m.id \/ x.name = m.nick}
        made == [New("category", r, k) EXCEPT !.legacy = m.id, !.name = m.nick,
                     !.client = IF m.owner = run[r].legacy THEN run[r].client ELSE None]
    IN  IF m.id = None THEN {NoRow}
        ELSE IF found = {} THEN {made}
        ELSE {Adopted(x, m.id) : x \in Preferred(found, m.id)}

GetOrMigrateManufacturer(r, V, k) ==
    LET m == LegacyMakers[k]
        found == {x \in Table(V, "maker") : x.legacy = m.id \/ x.name = m.name}
        made == [New("maker", r, k) EXCEPT !.legacy = m.id, !.name = m.name,
                     !.client = IF m.owner = run[r].legacy THEN run[r].client ELSE None]
    IN  IF m.id = None THEN {NoRow}
        ELSE IF found = {} THEN {made}
        ELSE {Adopted(x, m.id) : x \in Preferred(found, m.id)}

NoProduct == [product |-> NoRow, rows |-> {}]

(* An asset with a category only gets the generic product of the category. *)
GenericProduct(r, V, k) ==
    UNION {IF c = NoRow THEN {NoProduct}
           ELSE LET found == {x \in Table(V, "product") : /\ x.name = k /\ x.ref = c.id
                                                          /\ x.client = run[r].client}
                    made == [New("product", r, <<k, c.id>>) EXCEPT !.name = k, !.ref = c.id,
                                                                   !.client = run[r].client]
                IN  {[product |-> x, rows |-> {c, x}] : x \in IF found = {} THEN {made} ELSE found}
           : c \in GetOrMigrateProductCategory(r, V, k)}

(* One with the name, category and manufacturer gets the legacy id. *)
ProductOf(r, V, k, c, m) ==
    LET p == LegacyProducts[k]
        named == {x \in Table(V, "product") : x.name = p.name /\ x.ref = c.id /\ x.maker = m.id}
    IN  IF named # {} THEN {[x EXCEPT !.legacy = p.id] : x \in named}
        ELSE {[New("product", r, <<k, c.id, m.id>>) EXCEPT
                  !.legacy = p.id, !.name = p.name, !.ref = c.id, !.maker = m.id]}

(* Category and manufacturer are looked up together; what one of them      *)
(* created stays when the other is missing.                                *)
MigrateProduct(r, V, k) ==
    LET p == LegacyProducts[k] IN
    IF p.category = None \/ p.maker = None THEN {NoProduct}
    ELSE UNION {IF NoRow \in {c, m} THEN {[product |-> NoRow, rows |-> {c, m} \ {NoRow}]}
                ELSE {[product |-> x, rows |-> {c, m, x}] : x \in ProductOf(r, V, k, c, m)}
                : c \in GetOrMigrateProductCategory(r, V, p.category),
                  m \in GetOrMigrateManufacturer(r, V, p.maker)}

GetOrMigrateProduct(r, V, a) ==
    LET p == LegacyProducts[a.product]
        found == {x \in Table(V, "product") : x.legacy = p.id}
    IN  IF a.product = None THEN {NoProduct}
        ELSE IF p.type = "category" THEN GenericProduct(r, V, p.category)
        ELSE IF p.id = None \/ p.type = "consumable" THEN {NoProduct}
        ELSE IF found # {} THEN {[product |-> x, rows |-> {}] : x \in found}
        ELSE MigrateProduct(r, V, a.product)

(* A tag matches if nobody has it, or the client and site it is for. *)
TagCandidates(V, m, site) ==
    {x \in Table(V, "tag") : /\ x.legacy = m.id \/ x.name = m.serial
                             /\ x.client \in {None, site.client}
                             /\ x.site \in {None, site.id}}

GetOrMigrateTag(r, V, k, site) ==
    LET m == LegacyTags[k]
        found == TagCandidates(V, m, site)
        Given(x) == IF None \in {x.client, x.site}
                    THEN [x EXCEPT !.client = site.client, !.site = site.id] ELSE x
    IN  IF k = None \/ m.id = None THEN {NoRow}
        ELSE IF found = {}
             THEN {[New("tag", r, <<k, site.id>>) EXCEPT
                     !.legacy = m.id, !.name = m.serial, !.client = site.client, !.site = site.id]}
        ELSE {Given(x) : x \in Preferred(found, m.id)}

-----------------------------------------------------------------------------
(* migrateAssets                                                           *)

MigrateAssets(r) ==
    /\ run[r].pc = "assets"
    /\ Proceed(r, [run[r] EXCEPT !.pc = "asset", !.i = 1, !.seen = Migrated(r, {"asset"})])
    /\ UNCHANGED overlapped

(* The existing default routes are loaded when one is asked for and none   *)
(* is known.                                                               *)
LoadRoutes(q, V) ==
    LET routes == {x \in Table(V, "route") : x.client = q.client}
    IN  IF q.routes # {} THEN q
        ELSE [q EXCEPT !.routes = {<<x.site, x.id>> : x \in routes},
                       !.placed = @ \cup {y.ref : y \in {z \in Table(V, "point") :
                                              \E x \in routes : z.site = x.id}}]

(* An asset with a place on the tour gets a point on the default route of  *)
(* its site, unless it is known to have one; the routes may be loaded only *)
(* after that was decided.                                                 *)
MigrateRouteAssignment(r, q, V, asset) ==
    LET l == LoadRoutes(q, V)
        known == {p \in l.routes : p[1] = asset.site}
        made == [New("route", r, asset.site) EXCEPT !.site = asset.site, !.client = q.client]
        Point(route) == [New("point", r, asset.id) EXCEPT !.site = route, !.ref = asset.id]
    IN  IF asset.id \in q.placed THEN {q}
        ELSE IF known = {}
             THEN {[l EXCEPT !.routes = @ \cup {<<asset.site, made.id>>},
                             !.placed = @ \cup {asset.id},
                             !.wrote = Over(@, {made, Point(made.id)})]}
        ELSE {[l EXCEPT !.placed = @ \cup {asset.id},
                        !.wrote = Over(@, {Point(p[2])})] : p \in known}

Toured(r, q, V, a, asset) == IF a.sort THEN MigrateRouteAssignment(r, q, V, asset) ELSE {q}

(* Connecting a tag takes it from the asset that has it. *)
Released(V, tag) ==
    {[x EXCEPT !.tag = None] : x \in {y \in Table(V, "asset") : tag # None /\ y.tag = tag}}

MigrateNewAsset(r, q, a, site) ==
    LET V == View(r) IN
    \E o \in GetOrMigrateProduct(r, V, a), g \in GetOrMigrateTag(r, V, a.tag, site) :
        LET tag == IF g = NoRow THEN None ELSE g.id
            found == (o.rows \cup ({g} \ {NoRow})) \ V
            made == [New("asset", r, a.no) EXCEPT !.legacy = a.id, !.client = site.client,
                         !.site = site.id, !.ref = o.product.id, !.tag = tag]
            W == Over(Over(q.wrote, found), Released(V, tag) \cup {made})
        IN  IF o.product = NoRow
            THEN Proceed(r, [q EXCEPT !.wrote = Over(@, found)])
            ELSE \E n \in Toured(r, [q EXCEPT !.wrote = W], Over(V, W), a, made) : Proceed(r, n)

MigrateAsset(r) ==
    LET q == run[r]
        a == LegacyAssets[q.legacy][q.i]
        next == [q EXCEPT !.i = @ + 1]
        found == {x \in q.seen : x.legacy = a.id}
        sites == {x \in View(r) : <<a.site, x.id>> \in q.sites}
    IN  /\ q.pc = "asset" /\ UNCHANGED overlapped
        /\ IF q.i > Len(LegacyAssets[q.legacy])
           THEN Proceed(r, [q EXCEPT !.pc = "commit"])
           ELSE \/ (a.id = None \/ a \notin inUse) /\ Proceed(r, next)
                \/ /\ a.id # None /\ a \in inUse
                   /\ \E x \in found : \E n \in Toured(r, next, View(r), a, x) : Proceed(r, n)
                \/ a.id # None /\ a \in inUse /\ found = {} /\ sites = {} /\ Proceed(r, next)
                \/ /\ a.id # None /\ a \in inUse /\ found = {}
                   /\ \E s \in sites : MigrateNewAsset(r, next, a, s)

(* The transaction commits: a tag that another import has connected        *)
(* meanwhile is taken from its asset, or the unique index refuses it.      *)
Commit(r) ==
    LET W == run[r].wrote
        tags == {x.tag : x \in Table(W, "asset")} \ {None}
        taken == {x \in Table(db, "asset") : x.tag \in tags /\ \A y \in W : y.id # x.id}
    IN  /\ run[r].pc = "commit"
        /\ db' = Over(db, W \cup {[x EXCEPT !.tag = None] : x \in taken})
        /\ run' = [run EXCEPT ![r] = [Fresh EXCEPT !.pc = "ended", !.socket = run[r].socket,
                                                   !.legacy = run[r].legacy]]
        /\ UNCHANGED <<inUse, socket, pending, overlapped>>

(* The legacy system stays in use: assets are entered between imports. *)
LegacyEntry ==
    /\ inUse = Early
    /\ inUse' = UNION {{LegacyAssets[c][i] : i \in DOMAIN LegacyAssets[c]} : c \in LegacyClients}
    /\ \A r \in Runs : ~Open(r)
    /\ UNCHANGED <<db, run, socket, pending, overlapped>>

-----------------------------------------------------------------------------

Step(r) ==
    \/ SelectClient(r)
    \/ MigrateClient(r) \/ MigrateSites(r) \/ MigrateGroup(r)
    \/ MigrateSite(r) \/ MigrateAssets(r) \/ MigrateAsset(r) \/ Commit(r)

MigrationSteps ==
    \/ \E r \in Runs : Step(r) \/ Fail(r) \/ \E w \in Sockets : ProcessMigration(r, w)
    \/ \E w \in Sockets : PromptResponse(w) \/ HandleDisconnect(w)
    \/ LegacyEntry

MigrationSpec == MigrationInit /\ [][MigrationSteps]_migrationVars

-----------------------------------------------------------------------------
(* What is checked.                                                        *)

(* "Don't duplicate ... that were already migrated": whatever fails and is *)
(* run again, a legacy row is in the new system at most once, as long as   *)
(* no two imports had their transactions open together.                    *)
Once(V) ==
    \A x, y \in {z \in V : z.t \in {"client", "group", "site", "asset", "product"}} :
        x.t = y.t /\ x.legacy = y.legacy /\ x.legacy # None => x = y
MigratedOnce == overlapped \/ Once(db)

(* What an import connects stays within its client, whichever imports ran  *)
(* before or at the same time: the site of an asset, its parent, and the   *)
(* tag, which is on no other asset and for the very site.  An import that  *)
(* overlaps may take the tag away and leave the asset: it gives the tag to *)
(* a site before it skips an asset that has no product.  And where two     *)
(* have created the same client, the next finds the groups of both: it may *)
(* put a site of one under a group of the other.                           *)
Named(id) == CHOOSE x \in db : x.id = id
WithinClient ==
    /\ \A a \in Table(db, "asset") :
         /\ Named(a.site).client = a.client
         /\ a.tag # None =>
              /\ overlapped \/ (Named(a.tag).client = a.client /\ Named(a.tag).site = a.site)
              /\ \A b \in Table(db, "asset") : b.tag = a.tag => b = a
    /\ \A s \in Table(db, "site") : s.ref # None =>
         LET owner == Named(s.ref).client IN
         \/ owner = s.client
         \/ overlapped /\ Named(owner).legacy = Named(s.client).legacy

(* "Make sure to only match product categories that are either global or   *)
(* belong to the current client": an asset ends up in a category of        *)
(* another client only by a legacy product that was imported for that      *)
(* client before, since products are found whoever they were imported for. *)
CategoryVisible ==
    overlapped \/
    \A a \in Table(db, "asset") :
        LET product == Named(a.ref)
            owner == Named(product.ref).client
        IN  \/ owner \in {None, a.client}
            \/ product.legacy # None /\ \E b \in Table(db, "asset") : b.ref = a.ref /\ b.client = owner

(* An import run again puts at most one asset on a second route point: the *)
(* one for which the existing routes were loaded too late.                 *)
Twice(a) == \E x, y \in Table(db', "point") : x # y /\ x.ref = a /\ y.ref = a /\ x \in db
OneSecondPoint ==
    db' # db /\ ~overlapped =>
        \A a, b \in {x.ref : x \in Table(db' \ db, "point")} : Twice(a) /\ Twice(b) => a = b
RepeatsOnePoint == [][OneSecondPoint]_migrationVars

(* An import that waits for an answer gets it: its prompt is the pending   *)
(* one of an open socket, unless a later import was started on the socket. *)
WaitingHeard ==
    \A r \in Runs : Waiting(r) =>
        \/ socket[run[r].socket] = "open" /\ pending[run[r].socket] = r
        \/ \E q \in Runs \ {r} : run[q].pc # "new" /\ run[q].socket = run[r].socket

(* A committed import has copied every legacy asset in use that has a      *)
(* product and a location, those entered since an earlier import too.      *)
Importable(a) ==
    LET p == LegacyProducts[a.product] IN
    /\ a \in inUse /\ a.id # None /\ a.product # None
    /\ p.category # None /\ LegacyCategories[p.category].id # None
    /\ \/ p.type = "category"
       \/ p.type = "primary" /\ p.id # None /\ p.maker # None /\ LegacyMakers[p.maker].id # None
CopiesAll ==
    \A r \in Runs : run[r].pc = "commit" /\ run'[r].pc = "ended" /\ db' # db =>
        \A i \in DOMAIN LegacyAssets[run[r].legacy] :
            LET a == LegacyAssets[run[r].legacy][i] IN
            (/\ Importable(a)
             /\ \E j \in DOMAIN LegacySites[run[r].legacy] :
                  LET s == LegacySites[run[r].legacy][j] IN s.no = a.site /\ s.id # None)
            => \E x \in Table(db', "asset") : x.legacy = a.id
CommitComplete == [][CopiesAll]_migrationVars

(* What imports leave behind, whatever failed, overlapped or was repeated: *)
(* each legacy row once, connections within the client, categories that    *)
(* the client sees or shares, and no import that waits for an answer that  *)
(* nobody can give.                                                        *)
ImportSound == MigratedOnce /\ WithinClient /\ CategoryVisible /\ WaitingHeard

(* What the commit of an import adds: everything that can be imported, and *)
(* when it is a repetition one second route point at most.                 *)
ImportComplete == CommitComplete /\ RepeatsOnePoint
=============================================================================
