------------------------------ MODULE Clients ------------------------------
(***************************************************************************)
(* Clients and sites (src/clients/clients/, src/clients/sites/) and the    *)
(* jobs on demo clients: duplicateDemo copies one in a transaction, and    *)
(* inspections are cleared, generated and, by a request or the daily cron  *)
(* job of any instance, renewed.  Requests and jobs interleave at every    *)
(* query; a transaction may fail at any point and then has no effect.      *)
(*                                                                         *)
(* Time is counted in days and a month is MonthDays long.  Ids are never   *)
(* used again; the id of a copy names the original.  Deleting a client or  *)
(* a site deletes sites, assets and access rows with it; the foreign keys  *)
(* of Inspection refuse to.  Inspections of one asset on one day that were *)
(* made the same way are one row.                                          *)
(***************************************************************************)
EXTENDS Integers, Sequences, FiniteSets

CONSTANTS
    Jobs,           \* the requests and cron jobs that can be under way
    StartClients,   \* client -> [demo]
    StartSites,     \* site -> [client, parent]
    StartAssets,    \* asset -> [site, tagged, setup, created]
    StartAccess,    \* access rows: [person, client, site, primary, inspector]
    StartInspections, \* [asset, at, by]
    MonthDays, Cycle, Today,
    FirstId,        \* the first id that is not taken
    MaxRequests, MaxDay, \* bounds on the requests and cron jobs, and on time
    NoClient

AccessRow(r) ==
    /\ r = [person |-> r.person, client |-> r.client, site |-> r.site, primary |-> r.primary,
            inspector |-> r.inspector]
    /\ r.primary \in BOOLEAN

AssetRow(a) ==
    /\ a = [site |-> a.site, tagged |-> a.tagged, setup |-> a.setup, created |-> a.created]
    /\ a.created \in Int

(* Ids are sequences that begin with a number, foreign keys lead to rows,  *)
(* the ids of the first people are no copies, and their rows are in order. *)
ASSUME ClientsAssumption ==
    /\ FirstId \in Nat /\ Today \in Nat /\ Cycle \in Nat /\ MonthDays \in Nat \ {0}
    /\ \A x \in DOMAIN StartClients \cup DOMAIN StartSites \cup DOMAIN StartAssets :
          x[1] \in Nat /\ x[1] < FirstId
    /\ \A s \in DOMAIN StartSites : StartSites[s].client \in DOMAIN StartClients
    /\ IsFiniteSet(DOMAIN StartAssets)
    /\ \A a \in DOMAIN StartAssets :
          AssetRow(StartAssets[a]) /\ StartAssets[a].site \in DOMAIN StartSites
    /\ \A i \in StartInspections : i.asset \in DOMAIN StartAssets /\ i.at \in Int
    /\ \A r \in StartAccess :
          /\ AccessRow(r) /\ Len(r.person) = 1
          /\ r.site \in DOMAIN StartSites /\ StartSites[r.site].client = r.client
          /\ \E q \in StartAccess :
                /\ q.person = r.person /\ q.primary
                /\ \A o \in StartAccess : (o.person = r.person /\ o.primary) => o = q

VARIABLES
    client, site, asset, access, inspection,
    day,
    nextId,     \* a fresh id for every request
    job,        \* job -> its progress
    everDemo,   \* clients that have been in demo mode (history)
    late,       \* sites created while a copy was being made (history)
    excused     \* people who lost a primary row by a cascade, or whose original
                \* has it elsewhere (history)

tables == <<client, site, asset, access, inspection>>
history == <<everDemo, late, excused>>
clientVars == <<tables, history, day, nextId, job>>

(* A job: what it does, for which client, and what it has read.  raced says *)
(* that another job wrote inspections since (history).                      *)
Idle == [op |-> "idle", pc |-> "idle", id |-> 0, client |-> NoClient, sites |-> <<>>, assets |-> <<>>,
         todo |-> {}, raced |-> FALSE]

ClientOf(a) == site[asset[a].site].client
SitesOf(c) == {s \in DOMAIN site : site[s].client = c}
AssetsOf(c) == {a \in DOMAIN asset : ClientOf(a) = c}
Sub(f, S) == [x \in DOMAIN f \cap S |-> f[x]]
Also(f, g) == [x \in DOMAIN f \cup DOMAIN g |-> IF x \in DOMAIN g THEN g[x] ELSE f[x]]
MonthStart(d) == d - (d % MonthDays)

ClientsInit ==
    /\ client = StartClients /\ site = StartSites /\ asset = StartAssets
    /\ access = StartAccess /\ inspection = StartInspections
    /\ day = Today
    /\ nextId = FirstId
    /\ job = [j \in Jobs |-> Idle]
    /\ everDemo = {c \in DOMAIN StartClients : StartClients[c].demo}
    /\ late = {}
    /\ excused = {}

-----------------------------------------------------------------------------
(* Clients and sites                                                       *)

NewId == <<nextId>>
Request == nextId < FirstId + MaxRequests /\ nextId' = nextId + 1

(* create: a client and its headquarters, in one transaction. *)
Create(d) ==
    /\ Request
    /\ client' = Also(client, [c \in {NewId} |-> [demo |-> d]])
    /\ site' = Also(site, [s \in {NewId} |-> [client |-> NewId, parent |-> NoClient]])
    /\ everDemo' = IF d THEN everDemo \cup {NewId} ELSE everDemo
    /\ UNCHANGED <<asset, access, inspection, day, job, late, excused>>

(* update can switch the demo mode, whatever is under way. *)
Update(c) ==
    /\ Request
    /\ client' = [client EXCEPT ![c].demo = ~@]
    /\ everDemo' = everDemo \cup {c}
    /\ UNCHANGED <<site, asset, access, inspection, day, job, late, excused>>

(* What deleting the clients C and the sites S takes along. *)
Cascade(C, S) ==
    LET gone == {r \in access : r.site \in S \/ r.client \in C} IN
    /\ \A t \in DOMAIN site \ S : site[t].parent \notin S
    /\ \A i \in inspection : asset[i.asset].site \notin S
    /\ client' = Sub(client, DOMAIN client \ C)
    /\ site' = Sub(site, DOMAIN site \ S)
    /\ asset' = Sub(asset, {a \in DOMAIN asset : asset[a].site \notin S})
    /\ access' = access \ gone
    /\ excused' = excused \cup {r.person : r \in {q \in gone : q.primary}}
    /\ Request
    /\ UNCHANGED <<inspection, day, job, everDemo, late>>

Remove(c) == Cascade({c}, SitesOf(c))

CreateSite(c, p) ==
    /\ Request
    /\ site' = Also(site, [s \in {NewId} |-> [client |-> c, parent |-> p]])
    /\ late' = IF \E j \in Jobs : job[j].op = "duplicate" THEN late \cup {NewId} ELSE late
    /\ UNCHANGED <<client, asset, access, inspection, day, job, everDemo, excused>>

(* A parent is protected from removal, the access rows are not. *)
RemoveSite(s) == Cascade({}, {s})

(* MembersService.addRole: the first row of a person is the primary one. *)
AddMember(p, s) ==
    /\ \A r \in access : ~(r.person = p /\ r.site = s)
    /\ access' = access \cup {[person |-> p, client |-> site[s].client, site |-> s,
                               primary |-> \A r \in access : r.person # p, inspector |-> TRUE]}
    /\ Request
    /\ UNCHANGED <<client, site, asset, inspection, history, day, job>>

-----------------------------------------------------------------------------
(* Jobs                                                                    *)

Continue(j, q) == job' = [job EXCEPT ![j] = q]

EndOf(q) == IF q.todo = {} THEN Idle ELSE [Idle EXCEPT !.op = "cron", !.todo = q.todo]

(* A job has written inspections: those under way may have read too early. *)
Done(j) ==
    job' = [k \in Jobs |-> IF k = j THEN EndOf(job[j])
                           ELSE [job[k] EXCEPT !.raced = job[k].op # "idle"]]

(* A query or a transaction that fails ends the job; cron goes on with the *)
(* next client.                                                            *)
JobFails(j) ==
    /\ job[j].pc # "idle"
    /\ Continue(j, EndOf(job[j]))
    /\ UNCHANGED <<tables, history, day, nextId>>

Read(j, q) ==
    /\ Continue(j, q)
    /\ UNCHANGED <<tables, history, day, nextId>>

Start(j, op, c, q) ==
    /\ job[j].op = "idle" /\ Request
    /\ Continue(j, [q EXCEPT !.op = op, !.client = c, !.id = nextId])
    /\ UNCHANGED <<tables, history, day>>

(* duplicateDemo: the client with its sites, its assets, its members. *)
Duplicate(j, c) ==
    /\ client[c].demo
    /\ Start(j, "duplicate", c, [Idle EXCEPT !.pc = "assets", !.sites = Sub(site, SitesOf(c))])

DuplicateAssets(j) ==
    /\ job[j].op = "duplicate" /\ job[j].pc = "assets"
    /\ Read(j, [job[j] EXCEPT !.pc = "members", !.assets = Sub(asset, AssetsOf(job[j].client))])

(* Faulty variant: the parent is set when the site is created, and only if *)
(* the parent was copied before.                                           *)
CopySitesOnePass(n, S) ==
    [t \in {<<n, s>> : s \in DOMAIN S} |->
        [client |-> <<n>>,
         parent |-> IF S[t[2]].parent \in {s \in DOMAIN S : s[1] > t[2][1]}
                    THEN <<n, S[t[2]].parent>> ELSE NoClient]]

(* The copies of the sites, and in a second pass their parents. *)
CopySites(n, S) ==
    [t \in {<<n, s>> : s \in DOMAIN S} |->
        [client |-> <<n>>,
         parent |-> IF S[t[2]].parent \in DOMAIN S THEN <<n, S[t[2]].parent>> ELSE NoClient]]

(* The copies of the assets at copied sites; nothing is set up yet. *)
CopyAssets(n, S, A) ==
    [b \in {<<n, a>> : a \in {x \in DOMAIN A : A[x].site \in DOMAIN S}} |->
        [site |-> <<n, A[b[2]].site>>, tagged |-> A[b[2]].tagged, setup |-> FALSE, created |-> day]]

(* Faulty variant: the site of a member's row is kept. *)
CopyRowsUnmapped(n, S, R) ==
    {[r EXCEPT !.person = <<n, r.person>>, !.client = <<n>>] : r \in R}

(* The rows of new people: siteIdsMap.get(access.siteId) || access.siteId. *)
CopyRows(n, S, R) ==
    {[r EXCEPT !.person = <<n, r.person>>, !.client = <<n>>,
               !.site = IF r.site \in DOMAIN S THEN <<n, r.site>> ELSE r.site] : r \in R}

(* The members are read and everything is committed. *)
DuplicateCommit(j) ==
    LET n == job[j].id
        copied == CopyRows(n, job[j].sites, {r \in access : r.client = job[j].client})
    IN
    /\ job[j].op = "duplicate" /\ job[j].pc = "members"
    /\ client' = Also(client, [d \in {<<n>>} |-> [demo |-> TRUE]])
    /\ site' = Also(site, CopySites(n, job[j].sites))
    /\ \A r \in copied : r.site \in DOMAIN site'
    /\ asset' = Also(asset, CopyAssets(n, job[j].sites, job[j].assets))
    /\ access' = access \cup copied
    /\ excused' = excused \cup {r.person : r \in {q \in copied :
                     \A o \in copied : o.person = q.person => ~o.primary}}
    /\ everDemo' = everDemo \cup {<<n>>}
    /\ Continue(j, Idle)
    /\ UNCHANGED <<inspection, day, nextId, late>>

(* clearInspectionsForDemoClient: check, then delete, in a transaction     *)
(* that keeps nobody from switching the mode in between.                   *)
Clear(j, c) ==
    /\ client[c].demo
    /\ Start(j, "clear", c, [Idle EXCEPT !.pc = "delete"])

ClearDelete(j) ==
    /\ job[j].op = "clear"
    /\ \E from \in 0 .. day :
         inspection' = {i \in inspection : ~(ClientOf(i.asset) = job[j].client /\ i.at >= from)}
    /\ Done(j)
    /\ UNCHANGED <<client, site, asset, access, history, day, nextId>>

Inspectors(c) == {r.person : r \in {q \in access : q.client = c /\ q.inspector}}

(* generateInspectionsForDemoClient: everything is read and checked before *)
(* the transaction.                                                        *)
Generate(j, c) ==
    /\ client[c].demo
    /\ Inspectors(c) # {} /\ AssetsOf(c) # {}
    /\ Start(j, "generate", c, [Idle EXCEPT !.pc = "write", !.assets = Sub(asset, AssetsOf(c))])

(* generateRandomDemoInspection: any day of the month that is not in the   *)
(* future, for an inspector of the client.                                 *)
InspectionDays(first) == {d \in first .. first + MonthDays - 1 : d <= day}
DemoInspection(a, t, by) == [asset |-> a, at |-> t, by |-> by]

(* onCheckAssetCreatedOn: an inspection before the asset was created moves *)
(* the creation to the day before.                                         *)
MovedBack(created, t) == IF t < created THEN t - 1 ELSE created

(* All assets are inspected this month, some in the month before: on any   *)
(* day of it, and never in the future.  The dates of creation are the ones *)
(* read.                                                                   *)
GenerateWrite(j) ==
    LET A == job[j].assets
        first == MonthStart(day)
    IN
    /\ job[j].op = "generate" /\ DOMAIN A \subseteq DOMAIN asset
    /\ \E reset \in BOOLEAN, some \in SUBSET DOMAIN A,
          now \in InspectionDays(first), before \in InspectionDays(first - MonthDays) :
         LET kept == IF reset THEN {i \in inspection : ~(ClientOf(i.asset) = job[j].client
                                                         /\ i.at >= day - 2 * MonthDays)}
                     ELSE inspection
             onOf(a) == MovedBack(IF a \in some THEN MovedBack(A[a].created, before)
                                             ELSE A[a].created, now)
         IN
         /\ inspection' = kept \cup {DemoInspection(a, now, "generate") : a \in DOMAIN A}
                               \cup {DemoInspection(a, before, "generate") : a \in some}
         /\ asset' = [a \in DOMAIN asset |->
              IF a \notin DOMAIN A THEN asset[a]
              ELSE [asset[a] EXCEPT !.setup = TRUE,
                                    !.created = IF onOf(a) # A[a].created THEN onOf(a) ELSE @]]
    /\ Done(j)
    /\ UNCHANGED <<client, site, access, history, day, nextId>>

(* ClientsScheduler: the demo clients are listed, then renewed one by one. *)
Cron(j) ==
    LET demo == {c \in DOMAIN client : client[c].demo} IN
    /\ demo # {}
    /\ Start(j, "cron", NoClient, [Idle EXCEPT !.todo = demo])

Compliant(a) == \E i \in inspection : i.asset = a /\ i.at + Cycle >= day

(* getAssetsToRenewForDemoClient.sql *)
AssetsToRenew(c) == {a \in AssetsOf(c) : client[c].demo /\ ~asset[a].tagged /\ ~Compliant(a)}

(* renewNoncompliantDemoAssets: the client, then the overdue assets. *)
Renew(j, c) == client[c].demo /\ Start(j, "renew", c, [Idle EXCEPT !.pc = "assets"])

RenewNext(j, c) ==
    /\ job[j].op = "cron" /\ c \in job[j].todo
    /\ IF c \in DOMAIN client /\ client[c].demo
       THEN Read(j, [job[j] EXCEPT !.op = "renew", !.pc = "assets", !.client = c, !.todo = @ \ {c}])
       ELSE Read(j, EndOf([job[j] EXCEPT !.todo = @ \ {c}]))

RenewRead(j) ==
    /\ job[j].op = "renew" /\ job[j].pc = "assets" /\ job[j].client \in DOMAIN client
    /\ Read(j, [job[j] EXCEPT !.pc = "write", !.raced = FALSE,
                           !.assets = Sub(asset, AssetsToRenew(job[j].client))])

(* The inspections are dated within this month; without an inspector there *)
(* are none.  The asset's creation is not looked at.                       *)
RenewWrite(j) ==
    LET A == IF Inspectors(job[j].client) = {} THEN {} ELSE DOMAIN job[j].assets IN
    /\ job[j].op = "renew" /\ job[j].pc = "write" /\ A \subseteq DOMAIN asset
    /\ \E t \in InspectionDays(MonthStart(day)) :
         inspection' = inspection \cup {DemoInspection(a, t, "renew") : a \in A}
    /\ Done(j)
    /\ UNCHANGED <<client, site, asset, access, history, day, nextId>>

NextDay ==
    /\ day < MaxDay
    /\ day' = day + 1
    /\ UNCHANGED <<tables, history, nextId, job>>

ClientSteps ==
    \/ \E d \in BOOLEAN : Create(d)
    \/ \E c \in DOMAIN client :
         \/ Update(c) \/ Remove(c)
         \/ \E p \in SitesOf(c) \cup {NoClient} : CreateSite(c, p)
         \/ \E j \in Jobs : Duplicate(j, c) \/ Clear(j, c) \/ Generate(j, c) \/ Renew(j, c)
    \/ \E s \in DOMAIN site :
         \/ RemoveSite(s)
         \/ \E r \in access : AddMember(r.person, s)
    \/ \E j \in Jobs :
         \/ DuplicateAssets(j) \/ DuplicateCommit(j)
         \/ ClearDelete(j) \/ GenerateWrite(j)
         \/ Cron(j) \/ RenewRead(j) \/ RenewWrite(j) \/ JobFails(j)
         \/ \E c \in job[j].todo : RenewNext(j, c)
    \/ NextDay

ClientsSpec == ClientsInit /\ [][ClientSteps]_clientVars

-----------------------------------------------------------------------------
(* Properties                                                              *)

(* The inspections of a client that never was in demo mode stay as they    *)
(* are, whatever job is given its id and however jobs and updates          *)
(* interleave (clearInspectionsForDemoClient, generate..., renew...).      *)
RealClientsUntouched ==
    [][\A c \in DOMAIN client \ everDemo :
         c \in DOMAIN client' =>
            {i \in inspection' : i.asset \in AssetsOf(c)}
            = {i \in inspection : i.asset \in AssetsOf(c)}]_clientVars

(* An access row leads into a site of its own client, in a copy too, unless *)
(* the site was created while the copy was being made: duplicateDemo reads  *)
(* the members after the sites and falls back on the original site.         *)
RowsStayInside ==
    \A r \in access : site[r.site].client # r.client => r.site \in late

(* A copy has the sites that were read, under the same parents, and every   *)
(* asset at one of them (duplicateDemo).                                    *)
CopyMirrors ==
    [][\A c \in DOMAIN client' \ DOMAIN client, j \in Jobs :
         job[j].pc = "members" /\ job'[j].pc = "idle" =>
            LET S == job[j].sites
                T == {s \in DOMAIN site' : site'[s].client = c}
            IN \E f \in [DOMAIN S -> T] :
                 /\ \A t \in T : \E s \in DOMAIN S : f[s] = t
                 /\ \A s, t \in DOMAIN S : s # t => f[s] # f[t]
                 /\ \A s \in DOMAIN S :
                        site'[f[s]].parent = IF S[s].parent \in DOMAIN S
                                             THEN f[S[s].parent] ELSE NoClient
                 /\ \A s \in DOMAIN S :
                        Cardinality({a \in DOMAIN job[j].assets : job[j].assets[a].site = s})
                        = Cardinality({a \in DOMAIN asset' : asset'[a].site = f[s]})]_clientVars

(* An asset that has a recent inspection is renewed only by a job that had *)
(* read it as overdue before another job wrote (two cron instances at 10   *)
(* AM, or cron and a request).                                             *)
RenewedTwiceOnlyByRace ==
    [][\A j \in Jobs : job[j].op = "renew" /\ job[j].pc = "write"
          /\ job'[j].pc = "idle" /\ inspection' # inspection =>
         \A a \in DOMAIN job[j].assets : Compliant(a) => job[j].raced]_clientVars

(* Generated inspections are not dated before the asset's creation, unless *)
(* two jobs overlap: each moves the date back from what it has read.       *)
GeneratedAfterCreation ==
    [][\A j \in Jobs : job[j].op = "generate" /\ job'[j].pc = "idle" /\ ~job[j].raced =>
         \A i \in inspection' : i.by = "generate" /\ i.asset \in DOMAIN job[j].assets
                                 =>
              \/ i.at >= asset'[i.asset].created
              \/ \E k \in inspection : k = i /\ k.at < asset[i.asset].created]_clientVars

(* A person with access has a primary row, and no more than one site of it, *)
(* unless a cascade took it or the original's is at another client: the     *)
(* removal of a site promotes nobody.                                       *)
PrimaryLostByCascadeOnly ==
    \A r \in access :
       LET prim == {q \in access : q.person = r.person /\ q.primary} IN
       /\ Cardinality(prim) <= 1
       /\ prim = {} => r.person \in excused

(* Access rows under copies, cascades and new members: each leads into its *)
(* own client, and each person has one primary row (duplicateDemo,         *)
(* SitesService.remove, ClientsService.remove).                            *)
AccessRowsSound == RowsStayInside /\ PrimaryLostByCascadeOnly

(* The jobs on demo clients, overlapping one another and edits: a copy     *)
(* mirrors what was read, real clients keep their inspections, and what is *)
(* generated or renewed is dated right and due, unless two jobs raced.     *)
DemoJobsApart ==
    RealClientsUntouched /\ CopyMirrors /\ RenewedTwiceOnlyByRace /\ GeneratedAfterCreation
=============================================================================
