------------------------- MODULE LegacyRowsProofs ---------------------------
(***************************************************************************)
(* What LegacyMigrationProofs rests on: the invariant of the imports, and  *)
(* what each kind of row that an import writes does to it, for any legacy  *)
(* rows and any number of imports.                                         *)
(*                                                                         *)
(* ImportInv says, for every import that is under way, how far its tour of *)
(* the legacy rows has come (what was Copied, what is Behind it), what it  *)
(* has written over what is committed (RunSound), and, for what is         *)
(* committed, that the constant part of the rows is coherent.  A row is    *)
(* followed by its constant part (Bare), which no later import changes:    *)
(* so what others commit meanwhile never spoils what an import has read.   *)
(***************************************************************************)
EXTENDS LegacyMigration, TLAPS
-----------------------------------------------------------------------------
(* Rows.                                                                   *)

(* What never changes of a row once it is there.                           *)
RowFields == {"t", "id", "legacy", "name", "client", "site", "ref", "maker", "tag"}
IsRow(x) == DOMAIN x = RowFields /\ x.t \in Tables /\ x.id[2] = x.t
Bare(x) ==
    [t |-> x.t, id |-> x.id,
     legacy |-> IF x.t \in {"client", "group", "site", "asset"} THEN x.legacy ELSE None,
     client |-> IF x.t \in {"group", "site", "asset", "category", "route"} THEN x.client ELSE None,
     site |-> IF x.t \in {"asset", "point"} THEN x.site ELSE None,
     ref |-> IF x.t \in {"site", "asset", "product", "point"} THEN x.ref ELSE None]
BareOf(V) == {Bare(x) : x \in V}

AllRows(V) == \A x \in V : IsRow(x)
OneEach(V) == \A x, y \in V : x.id = y.id => x = y

(* Rows that agree in what never changes have the same constant part. *)
LEMMA BareSame ==
    ASSUME NEW x, NEW y, x.t = y.t, x.id = y.id, x.legacy = y.legacy \/ x.t \notin {"client", "group", "site", "asset"},
           x.client = y.client \/ x.t \notin {"group", "site", "asset", "category", "route"},
           x.site = y.site \/ x.t \notin {"asset", "point"},
           x.ref = y.ref \/ x.t \notin {"site", "asset", "product", "point"}
    PROVE  Bare(x) = Bare(y)
BY DEF Bare

(* The constant part has the fields of the row that count for its table. *)
LEMMA BareFields ==
    ASSUME NEW x
    PROVE  /\ Bare(x).t = x.t /\ Bare(x).id = x.id
           /\ x.t \in {"client", "group", "site", "asset"} => Bare(x).legacy = x.legacy
           /\ x.t \in {"group", "site", "asset", "category", "route"} => Bare(x).client = x.client
           /\ x.t \in {"asset", "point"} => Bare(x).site = x.site
           /\ x.t \in {"site", "asset", "product", "point"} => Bare(x).ref = x.ref
BY DEF Bare

(* Writing rows over others keeps one row for each key. *)
LEMMA OverOneEach ==
    ASSUME NEW W, NEW S, OneEach(W), OneEach(S)
    PROVE  OneEach(Over(W, S))
BY DEF OneEach, Over

(* Writes over writes. *)
LEMMA OverOver ==
    ASSUME NEW D, NEW W, NEW S
    PROVE  Over(D, Over(W, S)) = Over(Over(D, W), S)
<1>1. ASSUME NEW x \in Over(D, Over(W, S)) PROVE x \in Over(Over(D, W), S)
  <2>1. CASE x \in Over(W, S)
    BY <2>1 DEF Over
  <2>2. CASE x \in D /\ \A y \in Over(W, S) : y.id # x.id
    <3>1. \A y \in S : y.id # x.id
      BY <2>2 DEF Over
    <3>2. \A y \in W : y.id # x.id
      <4> SUFFICES ASSUME NEW y \in W, y.id = x.id PROVE FALSE
        OBVIOUS
      <4>1. y \notin Over(W, S)
        BY <2>2
      <4>2. PICK z \in S : z.id = y.id
        BY <4>1 DEF Over
      <4> QED
        BY <3>1, <4>2
    <3> QED
      BY <2>2, <3>1, <3>2 DEF Over
  <2> QED
    BY <2>1, <2>2 DEF Over
<1>2. ASSUME NEW x \in Over(Over(D, W), S) PROVE x \in Over(D, Over(W, S))
  BY DEF Over
<1> QED
  BY <1>1, <1>2

(* Rows that are written over and over again. *)
LEMMA OverGrown ==
    ASSUME NEW D, NEW W, NEW U, \A x \in W : \E y \in U : y.id = x.id
    PROVE  Over(Over(D, W), U) = Over(D, U)
BY DEF Over

(* Rows that are there as they are need not be written. *)
LEMMA OverNew ==
    ASSUME NEW V, NEW S, OneEach(V), OneEach(S)
    PROVE  Over(V, S \ V) = Over(V, S)
<1>1. ASSUME NEW x \in Over(V, S \ V) PROVE x \in Over(V, S)
  <2>1. CASE x \in S
    BY <2>1 DEF Over
  <2>2. CASE x \in V /\ x \notin S
    <3>1. \A y \in S : y.id # x.id
      BY <1>1, <2>2 DEF OneEach, Over
    <3> QED
      BY <2>2, <3>1 DEF Over
  <2> QED
    BY <1>1, <2>1, <2>2 DEF Over
<1>2. ASSUME NEW x \in Over(V, S) PROVE x \in Over(V, S \ V)
  <2>1. CASE x \in S /\ x \notin V
    BY <2>1 DEF Over
  <2>2. CASE x \in S /\ x \in V
    <3>1. \A y \in S \ V : y.id # x.id
      BY <2>2 DEF OneEach
    <3> QED
      BY <2>2, <3>1 DEF Over
  <2>3. CASE x \notin S
    BY <1>2, <2>3 DEF Over
  <2> QED
    BY <2>1, <2>2, <2>3
<1> QED
  BY <1>1, <1>2

-----------------------------------------------------------------------------
(* What is committed and what a transaction has written.                   *)

(* Rows of one key have one constant part. *)
Coherent(P) == \A b, c \in P : b.id = c.id => b = c
Store(D, W) ==
    /\ AllRows(D) /\ OneEach(D)
    /\ AllRows(W) /\ OneEach(W)
    /\ Coherent(BareOf(D) \cup BareOf(W))

(* The view of a transaction has the constant parts of both. *)
LEMMA ViewBare ==
    ASSUME NEW D, NEW W, Store(D, W)
    PROVE  /\ BareOf(Over(D, W)) = BareOf(D) \cup BareOf(W)
           /\ AllRows(Over(D, W)) /\ OneEach(Over(D, W))
<1>1. AllRows(Over(D, W)) /\ OneEach(Over(D, W))
  BY OverOneEach DEF Store, AllRows, Over
<1>2. BareOf(Over(D, W)) \subseteq BareOf(D) \cup BareOf(W)
  BY DEF Over, BareOf
<1>3. BareOf(W) \subseteq BareOf(Over(D, W))
  BY DEF Over, BareOf
<1>4. ASSUME NEW x \in D PROVE Bare(x) \in BareOf(Over(D, W))
  <2>1. CASE \A y \in W : y.id # x.id
    <3>1. x \in Over(D, W)
      BY <2>1 DEF Over
    <3> QED
      BY <3>1 DEF BareOf
  <2>2. ASSUME NEW y \in W, y.id = x.id PROVE Bare(x) \in BareOf(Over(D, W))
    <3>1. Bare(x) \in BareOf(D) \cup BareOf(W) /\ Bare(y) \in BareOf(D) \cup BareOf(W)
      BY <2>2 DEF BareOf
    <3>2. Bare(x).id = x.id /\ Bare(y).id = y.id
      BY BareFields
    <3>3. Bare(x) = Bare(y)
      BY <2>2, <3>1, <3>2 DEF Store, Coherent
    <3>4. Bare(y) \in BareOf(W)
      BY <2>2 DEF BareOf
    <3> QED
      BY <1>3, <3>3, <3>4
  <2> QED
    BY <2>1, <2>2
<1>5. BareOf(D) \subseteq BareOf(Over(D, W))
  BY <1>4 DEF BareOf
<1> QED
  BY <1>1, <1>2, <1>3, <1>5

(* Rows a transaction may write: they keep what never changes, or are new. *)
Fits(P, S) ==
    /\ AllRows(S) /\ OneEach(S)
    /\ \A y \in S : Bare(y) \in P \/ \A b \in P : b.id # y.id

(* Such writes keep the store coherent. *)
LEMMA StoreGrows ==
    ASSUME NEW D, NEW W, Store(D, W), NEW S, NEW P, P = BareOf(D) \cup BareOf(W), Fits(P, S)
    PROVE  /\ Store(D, Over(W, S))
           /\ BareOf(D) \cup BareOf(Over(W, S)) = P \cup BareOf(S)
           /\ P \subseteq P \cup BareOf(S)
<1>1. Coherent(P \cup BareOf(S))
  <2> SUFFICES ASSUME NEW b \in P \cup BareOf(S), NEW c \in P \cup BareOf(S), b.id = c.id
               PROVE  b = c
    BY DEF Coherent
  <2>1. ASSUME NEW e \in BareOf(S), NEW f \in P, e.id = f.id PROVE e = f
    <3>1. PICK y \in S : e = Bare(y)
      BY DEF BareOf
    <3>2. e.id = y.id
      BY <3>1, BareFields
    <3>3. e \in P
      BY <2>1, <3>1, <3>2 DEF Fits
    <3> QED
      BY <2>1, <3>3 DEF Store, Coherent
  <2>2. CASE b \in P /\ c \in P
    BY <2>2 DEF Store, Coherent
  <2>3. CASE b \in BareOf(S) /\ c \in BareOf(S)
    <3>1. PICK x \in S, y \in S : b = Bare(x) /\ c = Bare(y)
      BY <2>3 DEF BareOf
    <3>2. x.id = y.id
      BY <3>1, BareFields
    <3> QED
      BY <3>1, <3>2 DEF Fits, OneEach
  <2> QED
    BY <2>1, <2>2, <2>3
<1>2. BareOf(Over(W, S)) \subseteq BareOf(W) \cup BareOf(S)
  BY DEF BareOf, Over
<1>3. BareOf(S) \subseteq BareOf(Over(W, S))
  BY DEF BareOf, Over
<1>4. ASSUME NEW x \in W PROVE Bare(x) \in BareOf(Over(W, S))
  <2>1. CASE \A y \in S : y.id # x.id
    <3>1. x \in Over(W, S)
      BY <2>1 DEF Over
    <3> QED
      BY <3>1 DEF BareOf
  <2>2. ASSUME NEW y \in S, y.id = x.id PROVE Bare(x) \in BareOf(Over(W, S))
    <3>1. Bare(x) \in P \cup BareOf(S) /\ Bare(y) \in P \cup BareOf(S)
      BY <2>2 DEF BareOf
    <3>2. Bare(x).id = x.id /\ Bare(y).id = y.id
      BY BareFields
    <3>3. Bare(x) = Bare(y)
      BY <1>1, <2>2, <3>1, <3>2 DEF Coherent
    <3>4. Bare(y) \in BareOf(S)
      BY <2>2 DEF BareOf
    <3> QED
      BY <1>3, <3>3, <3>4
  <2> QED
    BY <2>1, <2>2
<1>5. BareOf(W) \subseteq BareOf(Over(W, S))
  BY <1>4 DEF BareOf
<1>6. BareOf(D) \cup BareOf(Over(W, S)) = P \cup BareOf(S)
  BY <1>2, <1>3, <1>5
<1>7. AllRows(Over(W, S)) /\ OneEach(Over(W, S))
  BY OverOneEach DEF Store, Fits, AllRows, Over
<1> QED
  BY <1>1, <1>6, <1>7 DEF Store

-----------------------------------------------------------------------------
(* What the constant parts say.                                            *)

TableOf(t) == IF t = "group" THEN LegacyGroups ELSE IF t = "site" THEN LegacySites ELSE LegacyAssets
Numbered == {"group", "site", "asset"}
Single == Numbered \cup {"client"}

BelongsTo(P, id, c) == \E y \in P : y.t = "client" /\ y.id = id /\ y.legacy = c
SameOwner(P, id, other) == \E c \in LegacyClients : BelongsTo(P, id, c) /\ BelongsTo(P, other, c)
Parented(s, P, ov) ==
    \E g \in P : /\ g.t \in {"group", "site"} /\ g.id = s.ref
                 /\ (g.client = s.client \/ (ov /\ SameOwner(P, g.client, s.client)))
Housed(a, P) == \E s \in P : s.t = "site" /\ s.id = a.site /\ s.client = a.client
Traced(b, P) ==
    \E c \in LegacyClients : /\ BelongsTo(P, b.client, c)
                             /\ \E j \in DOMAIN TableOf(b.t)[c] : b.legacy = TableOf(b.t)[c][j].id
OnTour(p, P) ==
    \E x, a \in P : x.t = "route" /\ x.id = p.site /\ a.t = "asset" /\ a.id = p.ref /\ x.client = a.client

(* N are the products that have a legacy id. *)
Catalogued(a, P, N) ==
    \E p, c \in P : /\ p.t = "product" /\ p.id = a.ref /\ c.t = "category" /\ c.id = p.ref
                    /\ (c.client \in {None, a.client} \/ p.id \in N)
Shared(p, P) ==
    \E c \in P : /\ c.t = "category" /\ c.id = p.ref
                 /\ (c.client = None
                     \/ \E a \in P : a.t = "asset" /\ a.ref = p.id /\ a.client = c.client)

RowFits(b, P, N, ov) ==
    /\ b.t \in {"client", "site"} => b.id # None
    /\ b.t = "site" => b.client # None /\ (b.ref # None => Parented(b, P, ov))
    /\ b.t = "asset" => Housed(b, P) /\ (ov \/ Catalogued(b, P, N))
    /\ b.t \in Numbered /\ b.legacy # None => Traced(b, P)
    /\ b.t = "point" => ov \/ OnTour(b, P)
    /\ b.t = "product" /\ b.id \in N => ov \/ Shared(b, P)
Distinct(P) ==
    \A b, c \in P : b.t \in Single /\ b.t = c.t /\ b.legacy = c.legacy /\ b.legacy # None => b = c
Skeleton(P, N, ov) == (\A b \in P : RowFits(b, P, N, ov)) /\ (ov \/ Distinct(P))

ProductsOf(V) == {x.id : x \in {y \in V : y.t = "product" /\ y.legacy # None}}

-----------------------------------------------------------------------------
(* The invariant.                                                          *)

TagOnce(V) == \A a, b \in V : a.t = "asset" /\ b.t = "asset" /\ a.tag = b.tag /\ a.tag # None => a = b
TagsFit(V) == \A a \in V : a.t = "asset" /\ a.tag # None =>
                 \E x \in V : x.t = "tag" /\ x.id = a.tag /\ x.client = a.client /\ x.site = a.site
ProductOnce(V) == \A x, y \in V : x.t = "product" /\ y.t = "product" /\ x.legacy = y.legacy /\ x.legacy # None
                                  => x = y
RowsFit(V) == TagOnce(V) /\ TagsFit(V) /\ ProductOnce(V)

DbSound(D, ov) ==
    /\ AllRows(D) /\ OneEach(D) /\ TagOnce(D)
    /\ Skeleton(BareOf(D), ProductsOf(D), ov)
    /\ ov \/ RowsFit(D)

Phases == {"client", "sites", "group", "site", "assets", "asset", "commit"}
Later(t) == IF t = "group" THEN {"site", "assets", "asset", "commit"}
            ELSE IF t = "site" THEN {"assets", "asset", "commit"} ELSE {"commit"}
(* The rows of a legacy table an import has handled. *)
Behind(q, t, j) == q.pc \in Later(t) \/ (q.pc = t /\ j < q.i)

(* A row the import has created. *)
Own(r, q, b) ==
    /\ b.id = <<r, b.t, b.id[3]>>
    /\ b.t \in Numbered =>
          \E j \in DOMAIN TableOf(b.t)[q.legacy] :
             b.id[3] = TableOf(b.t)[q.legacy][j].no /\ Behind(q, b.t, j)
    /\ b.t = "category" => b.client = IF LegacyCategories[b.id[3]].owner = q.legacy THEN q.client ELSE None
    /\ b.t = "product" => b.ref = b.id[3][2]
    /\ b.t = "route" => b.client = q.client
    /\ b.t = "point" => b.ref = b.id[3] /\ b.ref \in q.placed

(* An import that has done nothing yet. *)
Started(q) == /\ q.i = 1 /\ q.wrote = {} /\ q.seen = {} /\ q.sites = {}
              /\ q.groups = {} /\ q.routes = {} /\ q.placed = {}
RunTyped(q) == /\ DOMAIN q = DOMAIN Fresh /\ q.pc \in Phases
               /\ q.legacy \in LegacyClients /\ q.i \in Nat /\ q.i >= 1
OwnSays(r, q, y) == y.id[1] = r =>
    /\ y.t = "tag" => y.site = y.id[3][2] /\ y.site # None
    /\ y.t = "product" /\ y.id[3] = <<y.id[3][1], y.ref>> => y.name = y.id[3][1] /\ y.client = q.client
Mine(D, r, q) ==
    /\ \A x \in D : x.id[1] # r
    /\ \A b \in BareOf(q.wrote) : b \in BareOf(D) \/ Own(r, q, b)
    /\ \A y \in q.wrote : OwnSays(r, q, y)
Sees(P, q, x) == IsRow(x) /\ Bare(x) \in P /\ x.t \in Numbered /\ BelongsTo(P, x.client, q.legacy)
Leads(P, q, t, x) ==
    x = <<x[1], x[2]>> /\ \E b \in P : b.t = t /\ b.id = x[2] /\ BelongsTo(P, b.client, q.legacy)
Refers(P, q) ==
    /\ q.pc = "client" => Started(q)
    /\ q.pc # "client" => BelongsTo(P, q.client, q.legacy)
    /\ \A x \in q.seen : Sees(P, q, x)
    /\ q.pc = "asset" => \A x \in q.seen : x.t = "asset"
    /\ \A g \in q.groups : Leads(P, q, "group", g)
    /\ \A s \in q.sites : Leads(P, q, "site", s)

(* What a committed import has to have copied. *)
Used(a, use) ==
    LET p == LegacyProducts[a.product] IN
    /\ a \in use /\ a.id # None /\ a.product # None
    /\ p.category # None /\ LegacyCategories[p.category].id # None
    /\ \/ p.type = "category"
       \/ p.type = "primary" /\ p.id # None /\ p.maker # None /\ LegacyMakers[p.maker].id # None
Located(a, c) == \E j \in DOMAIN LegacySites[c] : LegacySites[c][j].no = a.site /\ LegacySites[c][j].id # None
Copied(P, q, use) ==
    /\ \A j \in DOMAIN LegacySites[q.legacy] :
          LET s == LegacySites[q.legacy][j] IN
          Behind(q, "site", j) /\ s.id # None /\ (\E a \in use : a.site = s.no)
             => \E x \in q.sites : x[1] = s.no
    /\ \A j \in DOMAIN LegacyAssets[q.legacy] :
          LET a == LegacyAssets[q.legacy][j] IN
          Behind(q, "asset", j) /\ Used(a, use) /\ Located(a, q.legacy)
             => \E b \in P : b.t = "asset" /\ b.legacy = a.id

(* What an import that is alone finds of its legacy client it has seen. *)
Reading(t) == IF t = "asset" THEN {"asset"} ELSE {"group", "site"}
AllSeen(P, q) ==
    \A t \in Numbered : q.pc \in Reading(t) =>
       \A b \in P, j \in DOMAIN TableOf(t)[q.legacy] :
          b.t = t /\ b.legacy = TableOf(t)[q.legacy][j].id /\ b.legacy # None /\ ~Behind(q, t, j)
             => \E y \in q.seen : y.t = t /\ y.legacy = b.legacy

(* The points of an import that is alone. *)
Touring(D, P, r, q) ==
    /\ \A y \in q.wrote : y.t = "point" => y.id[1] = r
    /\ \A p \in q.routes : \E b \in P : b.t = "route" /\ b.id = p[2] /\ b.client = q.client
    /\ q.routes = {} => q.placed = {} /\ \A y \in q.wrote : y.t # "point"
    /\ q.routes # {} => \A z, x \in BareOf(D) :
          z.t = "point" /\ x.t = "route" /\ x.id = z.site /\ x.client = q.client => z.ref \in q.placed
    /\ \E one : \A y \in q.wrote : y.t = "point" /\ (\E z \in BareOf(D) : z.t = "point" /\ z.ref = y.ref)
                                   => y.ref = one

Held(D, q) == BareOf(D) \cup BareOf(q.wrote)
RunSound(D, r, q, ov, use) ==
    /\ RunTyped(q)
    /\ Store(D, q.wrote)
    /\ Mine(D, r, q)
    /\ Skeleton(Held(D, q), ProductsOf(Over(D, q.wrote)), ov)
    /\ Refers(Held(D, q), q)
    /\ Copied(Held(D, q), q, use)
    /\ TagOnce(q.wrote)
    /\ ov \/ AllSeen(Held(D, q), q)
    /\ ov \/ RowsFit(Over(D, q.wrote))
    /\ ov \/ Touring(D, Held(D, q), r, q)

IsOpen(q) == q.pc \notin {"new", "select", "ended"}
ImportInv ==
    /\ DbSound(db, overlapped)
    /\ overlapped \in BOOLEAN
    /\ DOMAIN run = Runs
    /\ \A r \in Runs : /\ DOMAIN run[r] = DOMAIN Fresh
                       /\ run[r].pc \in {"new", "select"} => Started(run[r])
                       /\ IsOpen(run[r]) => RunSound(db, r, run[r], overlapped, inUse)
    /\ \A x \in db : x.id[1] \in Runs => run[x.id[1]].pc = "ended"
    /\ \A r, s \in Runs : IsOpen(run[r]) /\ IsOpen(run[s]) => r = s \/ overlapped

(* What a row needs of the others it has when there are more of them. *)
LEMMA MoreBelong ==
    ASSUME NEW P, NEW Q, P \subseteq Q, NEW id, NEW c, BelongsTo(P, id, c)
    PROVE  BelongsTo(Q, id, c)
BY DEF BelongsTo

(* As MoreBelong, of everything a row needs. *)
LEMMA MoreFits ==
    ASSUME NEW P, NEW Q, P \subseteq Q, NEW N, NEW M, N \subseteq M, NEW ov, NEW on, ov => on,
           NEW b, RowFits(b, P, N, ov),
           b.t = "product" /\ b.id \in M /\ b.id \notin N => on \/ Shared(b, Q)
    PROVE  RowFits(b, Q, M, on)
<1>1. Parented(b, P, ov) => Parented(b, Q, on)
  <2> SUFFICES ASSUME Parented(b, P, ov) PROVE Parented(b, Q, on)
    OBVIOUS
  <2>1. PICK g \in P : /\ g.t \in {"group", "site"} /\ g.id = b.ref
                       /\ (g.client = b.client \/ (ov /\ SameOwner(P, g.client, b.client)))
    BY DEF Parented
  <2>2. SameOwner(P, g.client, b.client) => SameOwner(Q, g.client, b.client)
    BY MoreBelong DEF SameOwner
  <2> QED
    BY <2>1, <2>2 DEF Parented
<1>2. Housed(b, P) => Housed(b, Q)
  BY DEF Housed
<1>3. Catalogued(b, P, N) => Catalogued(b, Q, M)
  BY DEF Catalogued
<1>4. Traced(b, P) => Traced(b, Q)
  <2> SUFFICES ASSUME Traced(b, P) PROVE Traced(b, Q)
    OBVIOUS
  <2>1. PICK c \in LegacyClients : /\ BelongsTo(P, b.client, c)
                                   /\ \E j \in DOMAIN TableOf(b.t)[c] : b.legacy = TableOf(b.t)[c][j].id
    BY DEF Traced
  <2>2. BelongsTo(Q, b.client, c)
    BY <2>1, MoreBelong
  <2> QED
    BY <2>1, <2>2 DEF Traced
<1>5. OnTour(b, P) => OnTour(b, Q)
  BY DEF OnTour
<1>6. Shared(b, P) => Shared(b, Q)
  <2> SUFFICES ASSUME Shared(b, P) PROVE Shared(b, Q)
    OBVIOUS
  <2>1. PICK c \in P : /\ c.t = "category" /\ c.id = b.ref
                       /\ (c.client = None \/ \E a \in P : a.t = "asset" /\ a.ref = b.id /\ a.client = c.client)
    BY DEF Shared
  <2> QED
    BY <2>1 DEF Shared
<1> QED
  BY <1>1, <1>2, <1>3, <1>4, <1>5, <1>6 DEF RowFits

(* A skeleton with more rows that fit. *)
LEMMA SkeletonGrows ==
    ASSUME NEW P, NEW Q, P \subseteq Q, NEW N, NEW M, N \subseteq M, NEW ov,
           Skeleton(P, N, ov),
           \A b \in Q \ P : RowFits(b, Q, M, ov),
           \A b \in P : b.t = "product" /\ b.id \in M /\ b.id \notin N => ov \/ Shared(b, Q),
           ov \/ \A b \in Q \ P, c \in Q :
                    b.t \in Single /\ b.t = c.t /\ b.legacy = c.legacy /\ b.legacy # None => b = c
    PROVE  Skeleton(Q, M, ov)
<1>1. ASSUME NEW b \in Q PROVE RowFits(b, Q, M, ov)
  <2>1. CASE b \in P
    BY <2>1, MoreFits DEF Skeleton
  <2>2. CASE b \notin P
    BY <2>2
  <2> QED
    BY <2>1, <2>2
<1>2. ov \/ Distinct(Q)
  BY DEF Skeleton, Distinct
<1> QED
  BY <1>1, <1>2 DEF Skeleton

(* Two skeletons together, once imports have overlapped. *)
LEMMA SkeletonsJoin ==
    ASSUME NEW P, NEW Q, NEW N, NEW M, NEW on, Skeleton(P, N, TRUE), Skeleton(Q, M, TRUE),
           NEW K, N \cup M \subseteq K
    PROVE  Skeleton(P \cup Q, K, TRUE)
<1>1. ASSUME NEW b \in P PROVE RowFits(b, P \cup Q, K, TRUE)
  <2>1. RowFits(b, P, N, TRUE)
    BY DEF Skeleton
  <2>2. PICK U : U = P \cup Q
    OBVIOUS
  <2>3. P \subseteq U /\ N \subseteq K
    BY <2>2
  <2>4. RowFits(b, U, K, TRUE)
    BY <2>1, <2>3, MoreFits
  <2> QED
    BY <2>2, <2>4
<1>2. ASSUME NEW b \in Q PROVE RowFits(b, P \cup Q, K, TRUE)
  <2>1. RowFits(b, Q, M, TRUE)
    BY DEF Skeleton
  <2>2. PICK U : U = P \cup Q
    OBVIOUS
  <2>3. Q \subseteq U /\ M \subseteq K
    BY <2>2
  <2>4. RowFits(b, U, K, TRUE)
    BY <2>1, <2>3, MoreFits
  <2> QED
    BY <2>2, <2>4
<1> QED
  BY <1>1, <1>2 DEF Skeleton

(* A skeleton stays one when imports come to overlap. *)
LEMMA SkeletonRelaxes ==
    ASSUME NEW P, NEW N, NEW ov, NEW on, ov => on, Skeleton(P, N, ov)
    PROVE  Skeleton(P, N, on)
<1>1. ASSUME NEW b \in P PROVE RowFits(b, P, N, on)
  <2>1. RowFits(b, P, N, ov) /\ P \subseteq P /\ N \subseteq N
    BY DEF Skeleton
  <2> QED
    BY <2>1, MoreFits
<1> QED
  BY <1>1 DEF Skeleton

-----------------------------------------------------------------------------
(* How one moves.                                                          *)

(* The legacy tables have rows that are told apart. *)
LEMMA TablesApart ==
    ASSUME NEW t \in Numbered
    PROVE  Apart(TableOf(t))
BY MigrationAssumption DEF Numbered, TableOf

(* Rows of one key or one id are one row. *)
LEMMA OneLegacyRow ==
    ASSUME NEW t \in Numbered, NEW c \in LegacyClients, NEW d \in LegacyClients,
           NEW i \in DOMAIN TableOf(t)[c], NEW j \in DOMAIN TableOf(t)[d],
           \/ TableOf(t)[c][i].no = TableOf(t)[d][j].no
           \/ TableOf(t)[c][i].id = TableOf(t)[d][j].id /\ TableOf(t)[c][i].id # None
    PROVE  c = d /\ i = j
<1>1. PICK T : T = TableOf(t)
  OBVIOUS
<1>2. Apart(T)
  BY <1>1, TablesApart
<1> QED
  BY <1>1, <1>2 DEF Apart

(* Their places are numbers. *)
LEMMA TablePlaces ==
    ASSUME NEW t \in Numbered, NEW c \in LegacyClients
    PROVE  Len(TableOf(t)[c]) \in Nat /\ DOMAIN TableOf(t)[c] = 1 .. Len(TableOf(t)[c])
BY TablesApart DEF Apart

(* From q to n an import handles the rows in T and no others. *)
Handles(q, n, T) ==
    \A t \in Numbered : \A j \in DOMAIN TableOf(t)[q.legacy] :
        Behind(n, t, j) <=> Behind(q, t, j) \/ <<t, j>> \in T

Goes(q, n, T) ==
    /\ RunTyped(q) /\ RunTyped(n) /\ q.pc # "client" /\ n.pc # "client"
    /\ n.legacy = q.legacy /\ n.client = q.client /\ q.placed \subseteq n.placed
    /\ Handles(q, n, T)

(* One row of a table is handled. *)
LEMMA HandlesOne ==
    ASSUME NEW q, NEW n, RunTyped(q), NEW t \in Numbered, q.pc = t, n.pc = t, n.i = q.i + 1
    PROVE  Handles(q, n, {<<t, q.i>>})
<1> SUFFICES ASSUME NEW u \in Numbered, NEW j \in DOMAIN TableOf(u)[q.legacy]
             PROVE  Behind(n, u, j) <=> Behind(q, u, j) \/ <<u, j>> \in {<<t, q.i>>}
  BY DEF Handles
<1>1. j \in Nat /\ q.i \in Nat
  BY TablePlaces DEF RunTyped
<1>2. CASE u = t
  <2>1. t \notin Later(t)
    BY DEF Later, Numbered
  <2>2. Behind(n, u, j) <=> j < q.i + 1
    BY <1>2, <2>1 DEF Behind
  <2>3. Behind(q, u, j) <=> j < q.i
    BY <1>2, <2>1 DEF Behind
  <2>4. j < q.i + 1 <=> j < q.i \/ j = q.i
    BY <1>1
  <2> QED
    BY <1>2, <2>2, <2>3, <2>4
<1>3. CASE u # t
  BY <1>3 DEF Behind
<1> QED
  BY <1>2, <1>3

(* The order of the phases. *)
Follows(q, n) ==
    \/ q.pc = "sites" /\ n.pc = "group" /\ n.i = 1
    \/ q.pc = "group" /\ n.pc = "site" /\ n.i = 1 /\ q.i > Len(LegacyGroups[q.legacy])
    \/ q.pc = "site" /\ n.pc = "assets" /\ q.i > Len(LegacySites[q.legacy])
    \/ q.pc = "assets" /\ n.pc = "asset" /\ n.i = 1
    \/ q.pc = "asset" /\ n.pc = "commit" /\ q.i > Len(LegacyAssets[q.legacy])

(* A phase that follows another handles nothing. *)
LEMMA HandlesNone ==
    ASSUME NEW q, NEW n, RunTyped(q), Follows(q, n)
    PROVE  Handles(q, n, {})
<1> SUFFICES ASSUME NEW t \in Numbered, NEW j \in DOMAIN TableOf(t)[q.legacy]
             PROVE  Behind(n, t, j) <=> Behind(q, t, j)
  BY DEF Handles
<1>1. /\ j \in Nat /\ j >= 1 /\ Len(TableOf(t)[q.legacy]) \in Nat /\ j <= Len(TableOf(t)[q.legacy])
      /\ q.i \in Nat
  BY TablePlaces DEF RunTyped
<1>2. ~(j < 1)
  BY <1>1
<1>3. CASE q.pc = "sites" /\ n.pc = "group" /\ n.i = 1
  BY <1>2, <1>3 DEF Behind, Later, Numbered
<1>4. CASE q.pc = "group" /\ n.pc = "site" /\ n.i = 1 /\ q.i > Len(LegacyGroups[q.legacy])
  <2>1. CASE t = "group"
    <3>1. j < q.i
      BY <1>1, <1>4, <2>1 DEF TableOf
    <3> QED
      BY <1>4, <2>1, <3>1 DEF Behind, Later
  <2>2. CASE t # "group"
    BY <1>2, <1>4, <2>2 DEF Behind, Later
  <2> QED
    BY <2>1, <2>2
<1>5. CASE q.pc = "site" /\ n.pc = "assets" /\ q.i > Len(LegacySites[q.legacy])
  <2>1. CASE t = "site"
    <3>1. j < q.i
      BY <1>1, <1>5, <2>1 DEF TableOf
    <3> QED
      BY <1>5, <2>1, <3>1 DEF Behind, Later
  <2>2. CASE t # "site"
    BY <1>5, <2>2 DEF Behind, Later, Numbered
  <2> QED
    BY <2>1, <2>2
<1>6. CASE q.pc = "assets" /\ n.pc = "asset" /\ n.i = 1
  <2>1. CASE t = "asset"
    BY <1>2, <1>6, <2>1 DEF Behind, Later
  <2>2. CASE t # "asset"
    <3>1. Behind(n, t, j) /\ Behind(q, t, j)
      BY <1>6, <2>2 DEF Behind, Later, Numbered
    <3> QED
      BY <3>1
  <2> QED
    BY <2>1, <2>2
<1>7. CASE q.pc = "asset" /\ n.pc = "commit" /\ q.i > Len(LegacyAssets[q.legacy])
  <2>1. CASE t = "asset"
    <3>1. j < q.i
      BY <1>1, <1>7, <2>1 DEF TableOf
    <3> QED
      BY <1>7, <2>1, <3>1 DEF Behind, Later
  <2>2. CASE t # "asset"
    BY <1>7, <2>2 DEF Behind, Later, Numbered
  <2> QED
    BY <2>1, <2>2
<1> QED
  BY <1>3, <1>4, <1>5, <1>6, <1>7 DEF Follows

(* A row that the import has created it has still created further on. *)
LEMMA OwnGoes ==
    ASSUME NEW r, NEW q, NEW n, NEW T, Goes(q, n, T), NEW b, Own(r, q, b)
    PROVE  Own(r, n, b)
<1>1. b.t \in Numbered =>
        \E j \in DOMAIN TableOf(b.t)[n.legacy] : b.id[3] = TableOf(b.t)[n.legacy][j].no /\ Behind(n, b.t, j)
  <2> SUFFICES ASSUME b.t \in Numbered
               PROVE  \E j \in DOMAIN TableOf(b.t)[n.legacy] :
                         b.id[3] = TableOf(b.t)[n.legacy][j].no /\ Behind(n, b.t, j)
    OBVIOUS
  <2>1. PICK j \in DOMAIN TableOf(b.t)[q.legacy] : b.id[3] = TableOf(b.t)[q.legacy][j].no /\ Behind(q, b.t, j)
    BY DEF Own
  <2>2. Behind(n, b.t, j)
    BY <2>1 DEF Goes, Handles
  <2>3. n.legacy = q.legacy
    BY DEF Goes
  <2> QED
    BY <2>1, <2>2, <2>3
<1> QED
  BY <1>1 DEF Own, Goes

(* What an open import has created is its own. *)
LEMMA OwnOnly ==
    ASSUME NEW D, NEW r, NEW q, Mine(D, r, q), NEW b \in Held(D, q), b.id[1] = r
    PROVE  Own(r, q, b)
<1>1. ASSUME b \in BareOf(D) PROVE FALSE
  <2>1. PICK x \in D : b = Bare(x)
    BY <1>1 DEF BareOf
  <2>2. x.id[1] = r
    BY <2>1, BareFields
  <2> QED
    BY <2>2 DEF Mine
<1> QED
  BY <1>1 DEF Mine, Held

(* The table of a row is in its key. *)
LEMMA KeyTable ==
    ASSUME NEW D, NEW q, Store(D, q.wrote), NEW b \in Held(D, q)
    PROVE  b.id[2] = b.t /\ b.t \in Tables
<1>1. PICK x \in D \cup q.wrote : b = Bare(x)
  BY DEF Held, BareOf
<1>2. IsRow(x)
  BY DEF Store, AllRows
<1> QED
  BY <1>1, <1>2, BareFields DEF IsRow

(* What an import refers to it still does further on. *)
LEMMA LeadsOn ==
    ASSUME NEW P, NEW Q, P \subseteq Q, NEW q, NEW n, n.legacy = q.legacy, NEW t, NEW x, Leads(P, q, t, x)
    PROVE  Leads(Q, n, t, x)
BY MoreBelong DEF Leads

(* One move of an import that writes the rows S. *)
MovesWell(D, r, q, n, ov, use, S, P, Q, V, T) ==
    /\ P = Held(D, q) /\ V = Over(D, q.wrote) /\ Q = P \cup BareOf(S)
    /\ Goes(q, n, T) /\ n.wrote = Over(q.wrote, S) /\ Fits(P, S)
    /\ \A y \in S : Bare(y) \in P \/ Own(r, n, Bare(y))
    /\ \A y \in S : OwnSays(r, n, y)
    /\ Skeleton(Q, ProductsOf(Over(V, S)), ov)
    /\ \A x \in n.seen : x \in q.seen \/ Sees(P, q, x)
    /\ n.pc = "asset" => \A x \in n.seen : x.t = "asset"
    /\ \A g \in n.groups : g \in q.groups \/ Leads(Q, n, "group", g)
    /\ \A s \in n.sites : s \in q.sites \/ Leads(Q, n, "site", s)
    /\ Copied(Q, n, use) /\ TagOnce(n.wrote)
    /\ ov \/ (AllSeen(Q, n) /\ RowsFit(Over(V, S)) /\ Touring(D, Q, r, n))

(* It leaves the import as it should be. *)
LEMMA Moves ==
    ASSUME NEW D, NEW r, NEW q, NEW n, NEW ov, NEW use, NEW S, NEW P, NEW Q, NEW V, NEW T,
           RunSound(D, r, q, ov, use), MovesWell(D, r, q, n, ov, use, S, P, Q, V, T)
    PROVE  RunSound(D, r, n, ov, use)
<1> USE DEF MovesWell
<1>1. /\ RunTyped(q) /\ Store(D, q.wrote) /\ Mine(D, r, q) /\ Refers(P, q)
  BY DEF RunSound
<1>2. P = BareOf(D) \cup BareOf(q.wrote)
  BY DEF Held
<1>3. /\ Store(D, n.wrote) /\ BareOf(D) \cup BareOf(n.wrote) = P \cup BareOf(S)
  BY <1>1, <1>2, StoreGrows
<1>4. Held(D, n) = Q /\ P \subseteq Q
  BY <1>3 DEF Held
<1>5. Over(D, n.wrote) = Over(V, S)
  BY OverOver
<1>6. Mine(D, r, n)
  <2>1. ASSUME NEW b \in BareOf(n.wrote) PROVE b \in BareOf(D) \/ Own(r, n, b)
    <3>1. b \in BareOf(q.wrote) => b \in BareOf(D) \/ Own(r, q, b)
      BY <1>1 DEF Mine
    <3>2. CASE b \in P
      BY <1>2, <3>1, <3>2, OwnGoes
    <3>3. CASE b \in BareOf(S)
      <4>1. PICK y \in S : b = Bare(y)
        BY <3>3 DEF BareOf
      <4> QED
        BY <3>2, <4>1
    <3> QED
      BY <1>3, <3>2, <3>3
  <2>2. ASSUME NEW y \in n.wrote PROVE OwnSays(r, n, y)
    <3>1. y \in q.wrote \/ y \in S
      BY DEF Over
    <3>2. n.client = q.client
      BY DEF Goes
    <3> QED
      BY <1>1, <3>1, <3>2 DEF Mine, OwnSays
  <2> QED
    BY <1>1, <2>1, <2>2 DEF Mine
<1>7. Refers(Q, n)
  <2>1. n.legacy = q.legacy /\ n.client = q.client /\ n.pc # "client" /\ q.pc # "client"
    BY DEF Goes
  <2>2. BelongsTo(Q, n.client, n.legacy)
    BY <1>1, <1>4, <2>1, MoreBelong DEF Refers
  <2>3. ASSUME NEW x \in n.seen PROVE Sees(Q, n, x)
    <3>1. Sees(P, q, x)
      BY <1>1 DEF Refers, Sees
    <3> QED
      BY <1>4, <2>1, <3>1, MoreBelong DEF Sees
  <2>4. ASSUME NEW g \in n.groups PROVE Leads(Q, n, "group", g)
    <3>1. CASE g \in q.groups
      <4>1. Leads(P, q, "group", g)
        BY <1>1, <3>1 DEF Refers, Leads
      <4> QED
        BY <1>4, <2>1, <4>1, LeadsOn
    <3> QED
      BY <3>1
  <2>5. ASSUME NEW s \in n.sites PROVE Leads(Q, n, "site", s)
    <3>1. CASE s \in q.sites
      <4>1. Leads(P, q, "site", s)
        BY <1>1, <3>1 DEF Refers, Leads
      <4> QED
        BY <1>4, <2>1, <4>1, LeadsOn
    <3> QED
      BY <3>1
  <2> QED
    BY <2>1, <2>2, <2>3, <2>4, <2>5 DEF Refers, Sees, Leads
<1> QED
  BY <1>3, <1>4, <1>5, <1>6, <1>7 DEF RunSound, Goes

-----------------------------------------------------------------------------
(* Moves that write nothing.                                               *)

(* What has been copied stays so, and what is handled now is copied.       *)
LEMMA CopiedOn ==
    ASSUME NEW P, NEW Q, P \subseteq Q, NEW q, NEW n, NEW T, NEW use, Copied(P, q, use), Handles(q, n, T),
           n.legacy = q.legacy, q.sites \subseteq n.sites,
           \A j \in DOMAIN LegacySites[q.legacy] :
              <<"site", j>> \in T /\ LegacySites[q.legacy][j].id # None
              /\ (\E a \in use : a.site = LegacySites[q.legacy][j].no)
              => \E x \in n.sites : x[1] = LegacySites[q.legacy][j].no,
           \A j \in DOMAIN LegacyAssets[q.legacy] :
              <<"asset", j>> \in T /\ Used(LegacyAssets[q.legacy][j], use)
              /\ Located(LegacyAssets[q.legacy][j], q.legacy)
              => \E b \in Q : b.t = "asset" /\ b.legacy = LegacyAssets[q.legacy][j].id
    PROVE  Copied(Q, n, use)
<1>1. TableOf("site") = LegacySites /\ TableOf("asset") = LegacyAssets /\ "site" \in Numbered /\ "asset" \in Numbered
  BY DEF TableOf, Numbered
<1>2. ASSUME NEW j \in DOMAIN LegacySites[n.legacy], Behind(n, "site", j), LegacySites[n.legacy][j].id # None,
             \E a \in use : a.site = LegacySites[n.legacy][j].no
      PROVE  \E x \in n.sites : x[1] = LegacySites[n.legacy][j].no
  <2>1. j \in DOMAIN LegacySites[q.legacy]
    OBVIOUS
  <2>2. Behind(q, "site", j) \/ <<"site", j>> \in T
    BY <1>1, <1>2, <2>1 DEF Handles
  <2>3. CASE Behind(q, "site", j)
    BY <1>2, <2>1, <2>3 DEF Copied
  <2>4. CASE <<"site", j>> \in T
    BY <1>2, <2>1, <2>4
  <2> QED
    BY <2>2, <2>3, <2>4
<1>3. ASSUME NEW j \in DOMAIN LegacyAssets[n.legacy], Behind(n, "asset", j), Used(LegacyAssets[n.legacy][j], use),
             Located(LegacyAssets[n.legacy][j], n.legacy)
      PROVE  \E b \in Q : b.t = "asset" /\ b.legacy = LegacyAssets[n.legacy][j].id
  <2>1. j \in DOMAIN LegacyAssets[q.legacy]
    OBVIOUS
  <2>2. Behind(q, "asset", j) \/ <<"asset", j>> \in T
    BY <1>1, <1>3, <2>1 DEF Handles
  <2>3. CASE Behind(q, "asset", j)
    BY <1>3, <2>1, <2>3 DEF Copied
  <2>4. CASE <<"asset", j>> \in T
    BY <1>3, <2>1, <2>4
  <2> QED
    BY <2>2, <2>3, <2>4
<1> QED
  BY <1>2, <1>3 DEF Copied

(* Of what is there everything has been seen, but what was handled.        *)
LEMMA AllSeenOn ==
    ASSUME NEW P, NEW Q, P \subseteq Q, NEW q, NEW n, NEW T, AllSeen(P, q), Handles(q, n, T),
           n.legacy = q.legacy, n.seen = q.seen,
           \A t \in Numbered : n.pc \in Reading(t) => q.pc \in Reading(t),
           \A b \in Q \ P, t \in Numbered : \A j \in DOMAIN TableOf(t)[q.legacy] :
              b.t = t /\ b.legacy = TableOf(t)[q.legacy][j].id /\ b.legacy # None => <<t, j>> \in T
    PROVE  AllSeen(Q, n)
<1> SUFFICES ASSUME NEW t \in Numbered, n.pc \in Reading(t), NEW b \in Q, NEW j \in DOMAIN TableOf(t)[q.legacy],
                    b.t = t, b.legacy = TableOf(t)[q.legacy][j].id, b.legacy # None, ~Behind(n, t, j)
             PROVE  \E y \in q.seen : y.t = t /\ y.legacy = b.legacy
  BY DEF AllSeen
<1>1. ~Behind(q, t, j) /\ <<t, j>> \notin T
  BY DEF Handles
<1>2. b \in P
  BY <1>1
<1> QED
  BY <1>1, <1>2 DEF AllSeen

(* Rows of a legacy client are found by its legacy id. *)
LEMMA AllSeenAtFirst ==
    ASSUME NEW V, NEW P, P = BareOf(V), NEW N, NEW ov, Skeleton(P, N, ov), NEW n, n.legacy \in LegacyClients,
           NEW tables, \A t \in Numbered : n.pc \in Reading(t) => t \in tables,
           n.seen = {x \in V : x.t \in tables /\ x.client \in {z.id : z \in {y \in Table(V, "client") : y.legacy = n.legacy}}}
    PROVE  AllSeen(P, n)
<1> SUFFICES ASSUME NEW t \in Numbered, n.pc \in Reading(t), NEW b \in P, NEW j \in DOMAIN TableOf(t)[n.legacy],
                    b.t = t, b.legacy = TableOf(t)[n.legacy][j].id, b.legacy # None
             PROVE  \E y \in n.seen : y.t = t /\ y.legacy = b.legacy
  BY DEF AllSeen
<1>1. Traced(b, P)
  BY DEF Skeleton, RowFits
<1>2. PICK c \in LegacyClients : BelongsTo(P, b.client, c) /\ \E k \in DOMAIN TableOf(t)[c] : b.legacy = TableOf(t)[c][k].id
  BY <1>1 DEF Traced
<1>3. c = n.legacy
  <2>1. PICK k \in DOMAIN TableOf(t)[c] : b.legacy = TableOf(t)[c][k].id
    BY <1>2
  <2>2. PICK e : e = n.legacy
    OBVIOUS
  <2>3. /\ e \in LegacyClients /\ j \in DOMAIN TableOf(t)[e]
        /\ TableOf(t)[c][k].id = TableOf(t)[e][j].id /\ TableOf(t)[c][k].id # None
    BY <2>1, <2>2
  <2>4. c = e
    BY <2>1, <2>3, OneLegacyRow
  <2> QED
    BY <2>2, <2>4
<1>4. PICK y \in P : y.t = "client" /\ y.id = b.client /\ y.legacy = n.legacy
  BY <1>2, <1>3 DEF BelongsTo
<1>5. PICK x \in V, z \in V : y = Bare(x) /\ b = Bare(z)
  BY <1>4 DEF BareOf
<1>6. x.t = "client" /\ x.id = b.client /\ x.legacy = n.legacy
  BY <1>4, <1>5, BareFields
<1>7. z.t = t /\ z.client = b.client /\ z.legacy = b.legacy
  BY <1>5, BareFields DEF Numbered
<1>8. x \in {u \in Table(V, "client") : u.legacy = n.legacy}
  BY <1>6 DEF Table
<1>9. z.client \in {u.id : u \in {v \in Table(V, "client") : v.legacy = n.legacy}}
  BY <1>6, <1>7, <1>8
<1>10. z \in n.seen
  BY <1>7, <1>9
<1> QED
  BY <1>7, <1>10

(* The fields that only writes change. *)
Keeps(n, q) ==
    /\ DOMAIN n = DOMAIN Fresh /\ n.legacy = q.legacy /\ n.client = q.client /\ n.wrote = q.wrote
    /\ n.routes = q.routes /\ n.placed = q.placed

(* A move that writes nothing. *)
LEMMA Walks ==
    ASSUME NEW D, NEW r, NEW q, NEW n, NEW ov, NEW use, NEW P, NEW T,
           RunSound(D, r, q, ov, use), P = Held(D, q), Goes(q, n, T), Keeps(n, q),
           \A x \in n.seen : x \in q.seen \/ Sees(P, q, x),
           n.pc = "asset" => \A x \in n.seen : x.t = "asset",
           \A g \in n.groups : g \in q.groups \/ Leads(P, q, "group", g),
           \A s \in n.sites : s \in q.sites \/ Leads(P, q, "site", s),
           Copied(P, n, use), ov \/ AllSeen(P, n)
    PROVE  RunSound(D, r, n, ov, use)
<1>1. PICK V, W, S, Q : V = Over(D, q.wrote) /\ W = q.wrote /\ S = {} /\ Q = P
  OBVIOUS
<1>2. Over(W, S) = W /\ BareOf(S) = {} /\ Over(V, S) = V /\ Fits(P, S)
  BY <1>1 DEF Over, BareOf, Fits, AllRows, OneEach
<1>3. Q = P \cup BareOf(S) /\ n.wrote = Over(q.wrote, S) /\ n.legacy = q.legacy /\ n.wrote = q.wrote
  BY <1>1, <1>2 DEF Keeps
<1>4. Skeleton(Q, ProductsOf(Over(V, S)), ov) /\ TagOnce(n.wrote) /\ (ov \/ RowsFit(Over(V, S)))
  BY <1>1, <1>2, <1>3 DEF RunSound
<1>5. ov \/ Touring(D, Q, r, n)
  BY <1>1 DEF RunSound, Touring, Keeps
<1>6. P \subseteq Q
  BY <1>1
<1>7. \A g \in n.groups : g \in q.groups \/ Leads(Q, n, "group", g)
  BY <1>3, <1>6, LeadsOn
<1>8. \A s \in n.sites : s \in q.sites \/ Leads(Q, n, "site", s)
  BY <1>3, <1>6, LeadsOn
<1>9. /\ \A y \in S : Bare(y) \in P \/ Own(r, n, Bare(y))
      /\ \A y \in S : OwnSays(r, n, y)
  BY <1>1
<1>10. Copied(Q, n, use) /\ (ov \/ AllSeen(Q, n))
  BY <1>1
<1>11. MovesWell(D, r, q, n, ov, use, S, P, Q, V, T)
  BY <1>1, <1>2, <1>3, <1>4, <1>5, <1>7, <1>8, <1>9, <1>10 DEF MovesWell
<1> QED
  BY <1>11, Moves

(* The rows found at the start of a phase. *)
Finds(V, c, tables) ==
    {x \in V : x.t \in tables /\ x.client \in {z.id : z \in {y \in Table(V, "client") : y.legacy = c}}}

(* They are rows of the legacy client. *)
LEMMA FindsMine ==
    ASSUME NEW D, NEW q, Store(D, q.wrote), NEW V, V = Over(D, q.wrote), NEW tables \in SUBSET Numbered,
           NEW x \in Finds(V, q.legacy, tables)
    PROVE  Sees(Held(D, q), q, x) /\ x.t \in tables
<1>1. PICK P : P = Held(D, q)
  OBVIOUS
<1>2. P = BareOf(V) /\ AllRows(V)
  BY <1>1, ViewBare DEF Held
<1>3. x \in V /\ x.t \in tables
  BY DEF Finds
<1>4. PICK z \in V : z.t = "client" /\ z.legacy = q.legacy /\ z.id = x.client
  BY DEF Finds, Table
<1>5. Bare(x) \in P /\ Bare(z) \in P /\ IsRow(x)
  BY <1>2, <1>3, <1>4 DEF BareOf, AllRows
<1>6. Bare(z).t = "client" /\ Bare(z).id = x.client /\ Bare(z).legacy = q.legacy
  BY <1>4, BareFields
<1>7. BelongsTo(P, x.client, q.legacy)
  BY <1>5, <1>6 DEF BelongsTo
<1>8. x.t \in Numbered
  BY <1>3
<1> QED
  BY <1>1, <1>3, <1>5, <1>7, <1>8 DEF Sees

(* A phase starts by looking for what is there. *)
LEMMA PhaseReads ==
    ASSUME NEW D, NEW r, NEW q, NEW n, NEW ov, NEW use, RunSound(D, r, q, ov, use),
           NEW tables, \/ q.pc = "sites" /\ n.pc = "group" /\ tables = {"site", "group"}
                       \/ q.pc = "assets" /\ n.pc = "asset" /\ tables = {"asset"},
           n.i = 1, Keeps(n, q), n.sites = q.sites, n.groups = q.groups,
           n.seen = Finds(Over(D, q.wrote), q.legacy, tables)
    PROVE  RunSound(D, r, n, ov, use)
<1>1. PICK P, V, T : P = Held(D, q) /\ V = Over(D, q.wrote) /\ T = {}
  OBVIOUS
<1>2. RunTyped(q) /\ Store(D, q.wrote) /\ Refers(P, q) /\ Copied(P, q, use) /\ Skeleton(P, ProductsOf(V), ov)
  BY <1>1 DEF RunSound
<1>3. Follows(q, n) /\ RunTyped(n) /\ n.pc # "client" /\ q.pc # "client"
  BY <1>2 DEF Follows, RunTyped, Keeps, Phases
<1>4. Handles(q, n, T)
  BY <1>1, <1>2, <1>3, HandlesNone
<1>5. Goes(q, n, T)
  BY <1>2, <1>3, <1>4 DEF Goes, Keeps
<1>6. tables \in SUBSET Numbered
  BY DEF Numbered
<1>7. \A x \in n.seen : Sees(P, q, x) /\ x.t \in tables
  BY <1>1, <1>2, <1>6, FindsMine
<1>8. Copied(P, n, use)
  <2>1. P \subseteq P /\ n.legacy = q.legacy /\ q.sites \subseteq n.sites /\ \A x : x \notin T
    BY <1>1 DEF Keeps
  <2> QED
    BY <1>2, <1>4, <2>1, CopiedOn
<1>9. AllSeen(P, n)
  <2>1. P = BareOf(V)
    BY <1>1, <1>2, ViewBare DEF Held
  <2>2. n.legacy \in LegacyClients /\ n.legacy = q.legacy
    BY <1>2 DEF RunTyped, Keeps
  <2>3. \A t \in Numbered : n.pc \in Reading(t) => t \in tables
    BY DEF Numbered, Reading
  <2>4. n.seen = {x \in V : x.t \in tables /\ x.client \in {z.id : z \in {y \in Table(V, "client") : y.legacy = n.legacy}}}
    BY <1>1, <2>2 DEF Finds
  <2> QED
    BY <1>2, <2>1, <2>2, <2>3, <2>4, AllSeenAtFirst
<1>10. n.pc = "asset" => \A x \in n.seen : x.t = "asset"
  BY <1>7
<1>11. /\ \A g \in n.groups : g \in q.groups
       /\ \A s \in n.sites : s \in q.sites
  OBVIOUS
<1> QED
  BY <1>1, <1>5, <1>7, <1>8, <1>9, <1>10, <1>11, Walks

(* A phase ends when its rows are handled. *)
LEMMA PhaseEnds ==
    ASSUME NEW D, NEW r, NEW q, NEW n, NEW ov, NEW use, RunSound(D, r, q, ov, use),
           Follows(q, n), q.pc \in Numbered, n.i \in Nat, n.i >= 1, Keeps(n, q),
           n.sites = q.sites, n.groups = q.groups, n.seen = q.seen
    PROVE  RunSound(D, r, n, ov, use)
<1>1. PICK P, T : P = Held(D, q) /\ T = {}
  OBVIOUS
<1>2. RunTyped(q) /\ Refers(P, q) /\ Copied(P, q, use) /\ (ov \/ AllSeen(P, q))
  BY <1>1 DEF RunSound
<1>3. RunTyped(n) /\ n.pc # "client" /\ q.pc # "client" /\ n.pc # "asset"
  BY <1>2 DEF Follows, RunTyped, Keeps, Phases, Numbered
<1>4. Handles(q, n, T)
  BY <1>1, <1>2, HandlesNone
<1>5. Goes(q, n, T)
  BY <1>2, <1>3, <1>4 DEF Goes, Keeps
<1>6. P \subseteq P /\ n.legacy = q.legacy /\ q.sites \subseteq n.sites /\ (\A x : x \notin T) /\ P \ P = {}
  BY <1>1 DEF Keeps
<1>7. Copied(P, n, use)
  BY <1>2, <1>4, <1>6, CopiedOn
<1>8. \A t \in Numbered : n.pc \in Reading(t) => q.pc \in Reading(t)
  BY DEF Reading, Follows, Numbered
<1>9. AllSeen(P, q) => AllSeen(P, n)
  BY <1>4, <1>6, <1>8, AllSeenOn
<1>10. /\ \A g \in n.groups : g \in q.groups
       /\ \A s \in n.sites : s \in q.sites
       /\ \A x \in n.seen : x \in q.seen
       /\ ov \/ AllSeen(P, n)
  BY <1>2, <1>9
<1> QED
  BY <1>1, <1>3, <1>5, <1>7, <1>10, Walks

(* A row is skipped, or found and remembered. *)
LEMMA RowPasses ==
    ASSUME NEW D, NEW r, NEW q, NEW n, NEW ov, NEW use, RunSound(D, r, q, ov, use), NEW P, P = Held(D, q),
           q.pc \in Numbered, n.pc = q.pc, n.i = q.i + 1, Keeps(n, q), n.seen = q.seen,
           \A g \in n.groups : g \in q.groups \/ Leads(P, q, "group", g),
           \A s \in n.sites : s \in q.sites \/ Leads(P, q, "site", s), q.sites \subseteq n.sites,
           q.pc = "site" /\ q.i \in DOMAIN LegacySites[q.legacy]
              /\ LegacySites[q.legacy][q.i].id # None
              /\ (\E a \in use : a.site = LegacySites[q.legacy][q.i].no)
              => \E x \in n.sites : x[1] = LegacySites[q.legacy][q.i].no,
           q.pc = "asset" /\ q.i \in DOMAIN LegacyAssets[q.legacy]
              /\ Used(LegacyAssets[q.legacy][q.i], use) /\ Located(LegacyAssets[q.legacy][q.i], q.legacy)
              => \E b \in P : b.t = "asset" /\ b.legacy = LegacyAssets[q.legacy][q.i].id
    PROVE  RunSound(D, r, n, ov, use)
<1>1. PICK t, T : t = q.pc /\ T = {<<t, q.i>>}
  OBVIOUS
<1>2. RunTyped(q) /\ Refers(P, q) /\ Copied(P, q, use) /\ (ov \/ AllSeen(P, q))
  BY DEF RunSound
<1>3. RunTyped(n) /\ n.pc # "client" /\ q.pc # "client"
  BY <1>2 DEF RunTyped, Keeps, Numbered
<1>4. Handles(q, n, T)
  BY <1>1, <1>2, HandlesOne
<1>5. Goes(q, n, T)
  BY <1>2, <1>3, <1>4 DEF Goes, Keeps
<1>6. P \subseteq P /\ n.legacy = q.legacy /\ P \ P = {}
  BY DEF Keeps
<1>7. Copied(P, n, use)
  <2>1. \A j \in DOMAIN LegacySites[q.legacy] :
              <<"site", j>> \in T /\ LegacySites[q.legacy][j].id # None
              /\ (\E a \in use : a.site = LegacySites[q.legacy][j].no)
              => \E x \in n.sites : x[1] = LegacySites[q.legacy][j].no
    BY <1>1
  <2>2. \A j \in DOMAIN LegacyAssets[q.legacy] :
              <<"asset", j>> \in T /\ Used(LegacyAssets[q.legacy][j], use)
              /\ Located(LegacyAssets[q.legacy][j], q.legacy)
              => \E b \in P : b.t = "asset" /\ b.legacy = LegacyAssets[q.legacy][j].id
    BY <1>1
  <2> QED
    BY <1>2, <1>4, <1>6, <2>1, <2>2, CopiedOn
<1>8. AllSeen(P, q) => AllSeen(P, n)
  BY <1>4, <1>6, AllSeenOn
<1>9. /\ \A x \in n.seen : x \in q.seen
      /\ n.pc = "asset" => \A x \in n.seen : x.t = "asset"
      /\ ov \/ AllSeen(P, n)
  BY <1>2, <1>8 DEF Refers
<1> QED
  BY <1>5, <1>7, <1>9, Walks

-----------------------------------------------------------------------------
(* Clients, groups and sites.                                              *)

(* Rows of other tables leave those of a table as they are. *)
LEMMA OtherTables ==
    ASSUME NEW V, NEW S, AllRows(V), AllRows(S), NEW t, \A y \in S : y.t # t
    PROVE  \A x : x \in Over(V, S) /\ x.t = t <=> x \in V /\ x.t = t
<1>1. ASSUME NEW x \in V, x.t = t PROVE x \in Over(V, S)
  <2>1. \A y \in S : y.id # x.id
    BY <1>1 DEF AllRows, IsRow
  <2> QED
    BY <2>1 DEF Over
<1>2. ASSUME NEW x \in Over(V, S), x.t = t PROVE x \in V
  BY <1>2 DEF Over
<1> QED
  BY <1>1, <1>2

(* Rows that are no assets, tags or products disturb none of them. *)
LEMMA SideRows ==
    ASSUME NEW V, NEW S, AllRows(V), AllRows(S), \A y \in S : y.t \notin {"asset", "tag", "product"}
    PROVE  /\ RowsFit(V) => RowsFit(Over(V, S))
           /\ TagOnce(V) => TagOnce(Over(V, S))
           /\ ProductsOf(Over(V, S)) = ProductsOf(V)
<1>1. PICK U : U = Over(V, S)
  OBVIOUS
<1>2. /\ \A x : x \in U /\ x.t = "asset" <=> x \in V /\ x.t = "asset"
      /\ \A x : x \in U /\ x.t = "tag" <=> x \in V /\ x.t = "tag"
      /\ \A x : x \in U /\ x.t = "product" <=> x \in V /\ x.t = "product"
  BY <1>1, OtherTables
<1>3. TagOnce(V) => TagOnce(U)
  BY <1>2 DEF TagOnce
<1>4. TagsFit(V) => TagsFit(U)
  BY <1>2 DEF TagsFit
<1>5. ProductOnce(V) => ProductOnce(U)
  BY <1>2 DEF ProductOnce
<1>6. ProductsOf(U) = ProductsOf(V)
  BY <1>2 DEF ProductsOf
<1> QED
  BY <1>1, <1>3, <1>4, <1>5, <1>6 DEF RowsFit

(* Rows that are no points leave the tour as it is. *)
LEMMA TouringOn ==
    ASSUME NEW D, NEW P, NEW Q, P \subseteq Q, NEW r, NEW q, NEW n, NEW S, Touring(D, P, r, q),
           n.routes = q.routes, n.placed = q.placed, n.client = q.client, n.wrote = Over(q.wrote, S),
           \A y \in S : y.t # "point"
    PROVE  Touring(D, Q, r, n)
<1>1. \A y \in n.wrote : y.t = "point" => y \in q.wrote
  BY DEF Over
<1>2. PICK one : \A y \in q.wrote : y.t = "point" /\ (\E z \in BareOf(D) : z.t = "point" /\ z.ref = y.ref)
                                   => y.ref = one
  BY DEF Touring
<1>3. \E e : \A y \in n.wrote : y.t = "point" /\ (\E z \in BareOf(D) : z.t = "point" /\ z.ref = y.ref)
                                => y.ref = e
  BY <1>1, <1>2
<1>4. \A y \in n.wrote : y.t = "point" => y.id[1] = r
  BY <1>1 DEF Touring
<1>5. n.routes = {} => n.placed = {} /\ \A y \in n.wrote : y.t # "point"
  BY <1>1 DEF Touring
<1>6. \A p \in n.routes : \E b \in Q : b.t = "route" /\ b.id = p[2] /\ b.client = n.client
  BY DEF Touring
<1>7. n.routes # {} => \A z, x \in BareOf(D) :
          z.t = "point" /\ x.t = "route" /\ x.id = z.site /\ x.client = n.client => z.ref \in n.placed
  BY DEF Touring
<1> QED
  BY <1>3, <1>4, <1>5, <1>6, <1>7 DEF Touring

(* The client of an import, and every other of its legacy client. *)
LEMMA ClientIs ==
    ASSUME NEW P, NEW N, NEW ov, Skeleton(P, N, ov), NEW c \in LegacyClients, NEW id, BelongsTo(P, id, c)
    PROVE  /\ id # None
           /\ \A other : BelongsTo(P, other, c) /\ ~ov => other = id
<1>1. PICK y \in P : y.t = "client" /\ y.id = id /\ y.legacy = c
  BY DEF BelongsTo
<1>2. id # None
  BY <1>1 DEF Skeleton, RowFits
<1>3. c # None
  BY MigrationAssumption
<1>4. ASSUME NEW other, BelongsTo(P, other, c), ~ov PROVE other = id
  <2>1. PICK z \in P : z.t = "client" /\ z.id = other /\ z.legacy = c
    BY <1>4 DEF BelongsTo
  <2>2. y = z
    BY <1>1, <1>3, <1>4, <2>1 DEF Skeleton, Distinct, Single
  <2> QED
    BY <1>1, <2>1, <2>2
<1> QED
  BY <1>2, <1>4

(* The client is found or made. *)
LEMMA ClientChosen ==
    ASSUME NEW D, NEW r \in Runs, NEW q, NEW n, NEW ov, NEW use, RunSound(D, r, q, ov, use), q.pc = "client",
           DOMAIN n = DOMAIN Fresh, n.pc = "sites", n.legacy = q.legacy, n.i = 1, n.seen = {}, n.sites = {},
           n.groups = {}, n.routes = {}, n.placed = {}, NEW S, n.wrote = S,
           \/ S = {} /\ \E x \in D : x.t = "client" /\ x.legacy = q.legacy /\ x.id = n.client
           \/ /\ \A x \in D : ~(x.t = "client" /\ x.legacy = q.legacy)
              /\ \E m : S = {m} /\ IsRow(m) /\ m.t = "client" /\ m.id = <<r, "client", q.legacy>>
                        /\ m.legacy = q.legacy /\ n.client = m.id
    PROVE  RunSound(D, r, n, ov, use)
<1>1. PICK P, Q, V, L : /\ P = BareOf(D) /\ Q = P \cup BareOf(S) /\ V = Over(D, S) /\ L = q.legacy
  OBVIOUS
<1>2. /\ q.wrote = {} /\ RunTyped(q) /\ Store(D, q.wrote) /\ Mine(D, r, q)
      /\ BareOf(q.wrote) = {} /\ Over(D, q.wrote) = D
      /\ L \in LegacyClients /\ L # None
  BY <1>1, MigrationAssumption DEF RunSound, Refers, Started, BareOf, Over, RunTyped
<1>3. Held(D, q) = P
  BY <1>1, <1>2 DEF Held
<1>4. AllRows(D) /\ OneEach(D) /\ Coherent(P)
  BY <1>1, <1>2 DEF Store
<1>5. /\ Skeleton(P, ProductsOf(D), ov)
      /\ ov \/ RowsFit(D)
  BY <1>2, <1>3 DEF RunSound
<1>6. AllRows(S) /\ OneEach(S) /\ \A y \in S : y.t = "client" /\ y.id = <<r, "client", L>> /\ y.legacy = L
  BY <1>1 DEF AllRows, OneEach
<1>7. Fits(P, S)
  <2>1. ASSUME NEW y \in S, NEW b \in P PROVE b.id # y.id
    <3>1. PICK x \in D : b = Bare(x)
      BY <1>1 DEF BareOf
    <3>2. b.id[1] # r
      BY <1>2, <3>1, BareFields DEF Mine
    <3> QED
      BY <1>6, <3>2
  <2> QED
    BY <1>6, <2>1 DEF Fits
<1>8. /\ Store(D, S) /\ Held(D, n) = Q /\ P \subseteq Q
  <2>1. PICK W : W = q.wrote
    OBVIOUS
  <2>2. Over(W, S) = S /\ P = BareOf(D) \cup BareOf(W) /\ Store(D, W)
    BY <1>1, <1>2, <2>1 DEF Over
  <2>3. /\ Store(D, Over(W, S)) /\ BareOf(D) \cup BareOf(Over(W, S)) = P \cup BareOf(S)
    BY <1>7, <2>2, StoreGrows
  <2> QED
    BY <1>1, <2>2, <2>3 DEF Held
<1>9. \A y \in S : y.t \notin {"asset", "tag", "product"} /\ y.t # "point"
  BY <1>6
<1>10. (ov \/ RowsFit(V)) /\ TagOnce(S) /\ ProductsOf(V) = ProductsOf(D)
  <2>1. TagOnce(S)
    BY <1>6 DEF TagOnce
  <2> QED
    BY <1>1, <1>4, <1>5, <1>6, <1>9, <2>1, SideRows
<1>11. \A b \in Q \ P : b.t = "client" /\ b.id = <<r, "client", L>> /\ b.legacy = L
  BY <1>1, <1>6, BareFields DEF BareOf
<1>12. Skeleton(Q, ProductsOf(V), ov)
  <2>1. \A b \in Q \ P : RowFits(b, Q, ProductsOf(V), ov)
    <3> SUFFICES ASSUME NEW b \in Q \ P PROVE RowFits(b, Q, ProductsOf(V), ov)
      OBVIOUS
    <3>1. b.t = "client" /\ b.id # None
      BY <1>2, <1>11, MigrationAssumption
    <3> QED
      BY <3>1 DEF RowFits, Numbered
  <2>2. ASSUME NEW b \in Q \ P, NEW c \in Q, b.t = c.t, b.legacy = c.legacy PROVE b = c
    <3>1. c.t = "client" /\ c.legacy = L
      BY <1>11, <2>2
    <3>2. c \notin P
      <4> SUFFICES ASSUME c \in P PROVE FALSE
        OBVIOUS
      <4>1. PICK x \in D : c = Bare(x)
        BY <1>1 DEF BareOf
      <4>2. x.t = "client" /\ x.legacy = L
        BY <3>1, <4>1, BareFields
      <4>3. S = {}
        BY <1>1, <4>2
      <4> QED
        BY <1>1, <4>3 DEF BareOf
    <3>3. PICK x \in S, y \in S : b = Bare(x) /\ c = Bare(y)
      BY <1>1, <3>2 DEF BareOf
    <3>4. x = y
      BY <1>6 DEF OneEach
    <3> QED
      BY <3>3, <3>4
  <2> QED
    BY <1>5, <1>8, <1>10, <2>1, <2>2, SkeletonGrows
<1>13. BelongsTo(Q, n.client, L)
  <2>1. CASE S = {}
    <3>1. PICK x \in D : x.t = "client" /\ x.legacy = L /\ x.id = n.client
      BY <1>1, <2>1
    <3>2. Bare(x) \in Q
      BY <1>1 DEF BareOf
    <3> QED
      BY <3>1, <3>2, BareFields DEF BelongsTo
  <2>2. CASE S # {}
    <3>1. PICK m \in S : m.t = "client" /\ m.legacy = L /\ m.id = n.client
      BY <1>1, <1>6, <2>2
    <3>2. Bare(m) \in Q
      BY <1>1 DEF BareOf
    <3> QED
      BY <3>1, <3>2, BareFields DEF BelongsTo
  <2> QED
    BY <2>1, <2>2
<1>14. RunTyped(n) /\ Refers(Q, n)
  BY <1>1, <1>2, <1>13 DEF RunTyped, Phases, Refers
<1>15. Mine(D, r, n)
  <2>1. ASSUME NEW b \in BareOf(S) PROVE Own(r, n, b)
    <3>1. b.t = "client" /\ b.id = <<r, "client", L>>
      BY <1>6, BareFields DEF BareOf
    <3> QED
      BY <3>1 DEF Own, Numbered
  <2>2. \A y \in S : OwnSays(r, n, y)
    BY <1>6 DEF OwnSays
  <2> QED
    BY <1>2, <2>1, <2>2 DEF Mine
<1>16. Copied(Q, n, use) /\ AllSeen(Q, n) /\ Touring(D, Q, r, n)
  <2>1. \A t \in Numbered : \A j : ~Behind(n, t, j)
    BY DEF Behind, Later, Numbered
  <2>2. Copied(Q, n, use)
    BY <2>1 DEF Copied, Numbered
  <2>3. AllSeen(Q, n)
    BY DEF AllSeen, Reading, Numbered
  <2>4. Touring(D, Q, r, n)
    BY <1>9 DEF Touring
  <2> QED
    BY <2>2, <2>3, <2>4
<1> QED
  BY <1>1, <1>8, <1>10, <1>12, <1>14, <1>15, <1>16 DEF RunSound

(* A key that an import is about to give is not given yet. *)
LEMMA KeyFree ==
    ASSUME NEW D, NEW r, NEW q, NEW P, P = Held(D, q), RunTyped(q), Store(D, q.wrote), Mine(D, r, q),
           NEW t \in Numbered, q.pc = t, NEW j, j = q.i, j \in DOMAIN TableOf(t)[q.legacy],
           NEW b \in P
    PROVE  b.id # <<r, t, TableOf(t)[q.legacy][j].no>>
<1> SUFFICES ASSUME b.id = <<r, t, TableOf(t)[q.legacy][j].no>> PROVE FALSE
  OBVIOUS
<1>1. Own(r, q, b) /\ b.t = t
  BY OwnOnly, KeyTable
<1>2. PICK k \in DOMAIN TableOf(t)[q.legacy] : b.id[3] = TableOf(t)[q.legacy][k].no /\ Behind(q, t, k)
  BY <1>1 DEF Own
<1>3. PICK c : c = q.legacy
  OBVIOUS
<1>4. c \in LegacyClients /\ k \in DOMAIN TableOf(t)[c] /\ j \in DOMAIN TableOf(t)[c]
      /\ TableOf(t)[c][k].no = TableOf(t)[c][j].no
  BY <1>2, <1>3 DEF RunTyped
<1>5. k = j
  BY <1>4, OneLegacyRow
<1>6. t \notin Later(t)
  BY DEF Later, Numbered
<1>7. q.i \in Nat
  BY DEF RunTyped
<1> QED
  BY <1>2, <1>5, <1>6, <1>7 DEF Behind

(* A legacy group or location that is not there. *)
Place(D, r, q, ov, use, t, j, g) ==
    /\ RunSound(D, r, q, ov, use) /\ q.pc = t /\ j = q.i /\ j \in DOMAIN TableOf(t)[q.legacy]
    /\ g = TableOf(t)[q.legacy][j] /\ g.id # None /\ \A x \in q.seen : ~(x.t = t /\ x.legacy = g.id)
RowOf(r, q, t, g, m) ==
    /\ IsRow(m) /\ m.t = t /\ m.id = <<r, t, g.no>> /\ m.legacy = g.id /\ m.client = q.client
    /\ t = "site" /\ m.ref # None => \E x \in q.groups : m.ref = x[2]
AfterPlace(q, n, t, g, m) ==
    /\ DOMAIN n = DOMAIN Fresh /\ n.pc = t /\ n.legacy = q.legacy /\ n.client = q.client /\ n.i = q.i + 1
    /\ n.wrote = Over(q.wrote, {m}) /\ n.seen = q.seen /\ n.routes = q.routes /\ n.placed = q.placed
    /\ n.groups = IF t = "group" THEN q.groups \cup {<<g.no, m.id>>} ELSE q.groups
    /\ n.sites = IF t = "site" THEN q.sites \cup {<<g.no, m.id>>} ELSE q.sites

(* A group or a location that was not there becomes a group or a site. *)
LEMMA PlaceMade ==
    ASSUME NEW D, NEW r \in Runs, NEW q, NEW n, NEW ov, NEW use, NEW t \in {"group", "site"}, NEW j, NEW g,
           Place(D, r, q, ov, use, t, j, g), NEW m, RowOf(r, q, t, g, m), AfterPlace(q, n, t, g, m)
    PROVE  RunSound(D, r, n, ov, use)
<1> SUFFICES ASSUME RunSound(D, r, q, ov, use), q.pc = t, j = q.i, j \in DOMAIN TableOf(t)[q.legacy],
                    g = TableOf(t)[q.legacy][j], g.id # None,
                    \A x \in q.seen : ~(x.t = t /\ x.legacy = g.id),
                    IsRow(m), m.t = t, m.id = <<r, t, g.no>>, m.legacy = g.id, m.client = q.client,
                    t = "site" /\ m.ref # None => \E x \in q.groups : m.ref = x[2],
                    DOMAIN n = DOMAIN Fresh, n.pc = t, n.legacy = q.legacy, n.client = q.client, n.i = q.i + 1,
                    n.wrote = Over(q.wrote, {m}), n.seen = q.seen, n.routes = q.routes, n.placed = q.placed,
                    n.groups = IF t = "group" THEN q.groups \cup {<<g.no, m.id>>} ELSE q.groups,
                    n.sites = IF t = "site" THEN q.sites \cup {<<g.no, m.id>>} ELSE q.sites
             PROVE  RunSound(D, r, n, ov, use)
  BY DEF Place, RowOf, AfterPlace
<1>1. PICK P, S, Q, V, T, L, M, N : /\ P = Held(D, q) /\ S = {m} /\ Q = P \cup BareOf(S)
                                    /\ V = Over(D, q.wrote) /\ T = {<<t, q.i>>} /\ L = q.legacy
                                    /\ M = Bare(m) /\ N = ProductsOf(V)
  OBVIOUS
<1>2. /\ RunTyped(q) /\ Store(D, q.wrote) /\ Mine(D, r, q) /\ Refers(P, q) /\ Copied(P, q, use)
      /\ Skeleton(P, N, ov) /\ TagOnce(q.wrote)
      /\ ov \/ (AllSeen(P, q) /\ RowsFit(V) /\ Touring(D, P, r, q))
      /\ L \in LegacyClients /\ q.i \in Nat
  BY <1>1 DEF RunSound, RunTyped
<1>3. t \in Numbered /\ t \in Single /\ t \notin Later(t)
  BY DEF Numbered, Single, Later
<1>4. /\ M.t = t /\ M.id = <<r, t, g.no>> /\ M.legacy = g.id /\ M.client = q.client
      /\ t = "site" => M.ref = m.ref
  BY <1>1, BareFields
<1>5. BareOf(S) = {M} /\ Q = P \cup {M} /\ P \subseteq Q /\ M \in Q
  BY <1>1 DEF BareOf
<1>6. \A b \in P : b.id # M.id
  BY <1>1, <1>2, <1>3, <1>4, KeyFree
<1>7. RunTyped(n) /\ n.pc # "client" /\ q.pc # "client" /\ n.pc # "asset"
  BY <1>2, <1>3 DEF RunTyped, Numbered
<1>8. Handles(q, n, T)
  BY <1>1, <1>2, <1>3, HandlesOne
<1>9. Goes(q, n, T)
  BY <1>2, <1>7, <1>8 DEF Goes
<1>10. Fits(P, S)
  BY <1>1, <1>4, <1>6 DEF Fits, AllRows, OneEach
<1>11. Own(r, n, M)
  <2>1. <<t, j>> \in T
    BY <1>1
  <2>2. Behind(n, t, j)
    BY <1>3, <1>8, <2>1 DEF Handles
  <2>3. M.id = <<r, M.t, M.id[3]>> /\ M.id[3] = TableOf(t)[n.legacy][j].no /\ j \in DOMAIN TableOf(t)[n.legacy]
    BY <1>4
  <2> QED
    BY <1>4, <2>2, <2>3 DEF Own
<1>12. BelongsTo(P, q.client, L) /\ q.client # None
  <2>1. BelongsTo(P, q.client, L)
    BY <1>1, <1>2, <1>7 DEF Refers
  <2> QED
    BY <1>2, <2>1, ClientIs
<1>13. BelongsTo(Q, q.client, L)
  BY <1>5, <1>12, MoreBelong
<1>14. t = "site" /\ M.ref # None => Parented(M, Q, ov)
  <2> SUFFICES ASSUME t = "site", M.ref # None PROVE Parented(M, Q, ov)
    OBVIOUS
  <2>1. PICK x \in q.groups : M.ref = x[2]
    BY <1>4
  <2>2. PICK b \in P : b.t = "group" /\ b.id = x[2] /\ BelongsTo(P, b.client, L)
    BY <1>1, <1>2 DEF Refers, Leads
  <2>3. CASE ov
    <3>1. BelongsTo(Q, b.client, L)
      BY <1>5, <2>2, MoreBelong
    <3>2. SameOwner(Q, b.client, M.client)
      BY <1>2, <1>4, <1>13, <3>1 DEF SameOwner
    <3> QED
      BY <1>5, <2>1, <2>2, <2>3, <3>2 DEF Parented
  <2>4. CASE ~ov
    <3>1. PICK id, other : id = q.client /\ other = b.client
      OBVIOUS
    <3>2. other = id
      BY <1>2, <1>12, <2>2, <2>4, <3>1, ClientIs
    <3>3. b.client = M.client
      BY <1>4, <3>1, <3>2
    <3> QED
      BY <1>5, <2>1, <2>2, <3>3 DEF Parented
  <2> QED
    BY <2>3, <2>4
<1>15. Traced(M, Q)
  <2>1. BelongsTo(Q, M.client, L) /\ M.legacy = TableOf(M.t)[L][j].id /\ j \in DOMAIN TableOf(M.t)[L]
    BY <1>1, <1>4, <1>13
  <2> QED
    BY <1>2, <2>1 DEF Traced
<1>16. AllRows(V) /\ AllRows(q.wrote) /\ AllRows(S) /\ \A y \in S : y.t \notin {"asset", "tag", "product"} /\ y.t # "point"
  BY <1>1, <1>2, ViewBare DEF Store, AllRows
<1>17. ProductsOf(Over(V, S)) = N /\ TagOnce(n.wrote) /\ (RowsFit(V) => RowsFit(Over(V, S)))
  BY <1>1, <1>2, <1>16, SideRows
<1>18. Skeleton(Q, N, ov)
  <2>1. ASSUME NEW b \in Q \ P PROVE RowFits(b, Q, N, ov)
    <3>1. b = M
      BY <1>5
    <3>2. t = "site" => M.id # None
      <4>1. t = "site" => TableOf(t) = LegacySites
        BY DEF TableOf
      <4> QED
        BY <1>1, <1>2, <1>4, <4>1, MigrationAssumption
    <3>3. M.t \in {"group", "site"}
      BY <1>4
    <3> QED
      BY <1>4, <1>12, <1>14, <1>15, <3>1, <3>2, <3>3 DEF RowFits, Numbered
  <2>2. ASSUME ~ov, NEW b \in Q \ P, NEW c \in Q, b.t = c.t, b.legacy = c.legacy, b.legacy # None PROVE b = c
    <3>1. b = M
      BY <1>5
    <3>2. ASSUME c \in P PROVE FALSE
      <4>1. c.t = t /\ c.legacy = TableOf(t)[q.legacy][j].id /\ c.legacy # None
        BY <1>4, <2>2, <3>1
      <4>2. t \in Reading(t) /\ ~Behind(q, t, j)
        BY <1>2, <1>3 DEF Reading, Behind
      <4>3. \E y \in q.seen : y.t = t /\ y.legacy = c.legacy
        BY <1>2, <1>3, <2>2, <3>2, <4>1, <4>2 DEF AllSeen
      <4> QED
        BY <4>1, <4>3
    <3> QED
      BY <1>5, <3>1, <3>2
  <2>3. \A b \in P : ~(b.id \in N /\ b.id \notin N)
    OBVIOUS
  <2> QED
    BY <1>2, <1>5, <2>1, <2>2, <2>3, SkeletonGrows
<1>19. Leads(Q, n, t, <<g.no, m.id>>)
  <2>1. M.t = t /\ M.id = m.id /\ M.client = q.client /\ n.legacy = L
    BY <1>1, <1>4
  <2> QED
    BY <1>5, <1>13, <2>1 DEF Leads
<1>20. /\ \A x \in n.groups : x \in q.groups \/ Leads(Q, n, "group", x)
       /\ \A x \in n.sites : x \in q.sites \/ Leads(Q, n, "site", x)
       /\ q.sites \subseteq n.sites
  BY <1>19
<1>21. Copied(Q, n, use)
  <2>1. \A k \in DOMAIN LegacySites[q.legacy] :
              <<"site", k>> \in T /\ LegacySites[q.legacy][k].id # None
              /\ (\E a \in use : a.site = LegacySites[q.legacy][k].no)
              => \E x \in n.sites : x[1] = LegacySites[q.legacy][k].no
    <3> SUFFICES ASSUME NEW k \in DOMAIN LegacySites[q.legacy], <<"site", k>> \in T
                 PROVE  \E x \in n.sites : x[1] = LegacySites[q.legacy][k].no
      OBVIOUS
    <3>1. t = "site" /\ k = j
      BY <1>1
    <3>2. g = LegacySites[q.legacy][k]
      BY <3>1 DEF TableOf
    <3>3. <<g.no, m.id>> \in n.sites
      BY <3>1
    <3> QED
      BY <3>2, <3>3
  <2>2. \A k : <<"asset", k>> \notin T
    BY <1>1
  <2>3. n.legacy = q.legacy
    OBVIOUS
  <2> QED
    BY <1>2, <1>5, <1>8, <1>20, <2>1, <2>2, <2>3, CopiedOn
<1>22. AllSeen(P, q) => AllSeen(Q, n)
  <2>1. ASSUME NEW b \in Q \ P, NEW u \in Numbered, NEW k \in DOMAIN TableOf(u)[q.legacy],
               b.t = u, b.legacy = TableOf(u)[q.legacy][k].id, b.legacy # None
        PROVE  <<u, k>> \in T
    <3>1. b = M /\ u = t
      BY <1>4, <1>5, <2>1
    <3>2. TableOf(t)[L][k].id = TableOf(t)[L][j].id /\ TableOf(t)[L][k].id # None
      <4>1. b.legacy = g.id /\ g.id # None
        BY <1>4, <3>1
      <4>2. TableOf(t)[L][k].id = b.legacy
        BY <1>1, <2>1, <3>1
      <4>3. TableOf(t)[L][j] = g
        BY <1>1
      <4> QED
        BY <4>1, <4>2, <4>3
    <3>3. k = j
      BY <1>1, <1>2, <1>3, <2>1, <3>1, <3>2, OneLegacyRow
    <3> QED
      BY <1>1, <3>1, <3>3
  <2>2. n.legacy = q.legacy /\ n.seen = q.seen /\ \A u \in Numbered : n.pc \in Reading(u) => q.pc \in Reading(u)
    OBVIOUS
  <2> QED
    BY <1>5, <1>8, <2>1, <2>2, AllSeenOn
<1>23. Touring(D, P, r, q) => Touring(D, Q, r, n)
  <2>1. \A y \in S : y.t # "point"
    BY <1>16
  <2>2. n.wrote = Over(q.wrote, S)
    BY <1>1
  <2> QED
    BY <1>5, <2>1, <2>2, TouringOn
<1>24. \A y \in S : Bare(y) \in P \/ Own(r, n, Bare(y))
  BY <1>1, <1>11
<1>25. \A y \in S : OwnSays(r, n, y)
  BY <1>16 DEF OwnSays
<1>26. MovesWell(D, r, q, n, ov, use, S, P, Q, V, T)
  BY <1>1, <1>2, <1>7, <1>9, <1>10, <1>17, <1>18, <1>20, <1>21, <1>22, <1>23, <1>24, <1>25 DEF MovesWell
<1> QED
  BY <1>26, Moves


-----------------------------------------------------------------------------
(* The catalogue.                                                          *)

(* What an import has at hand when it handles an asset. *)
Ground(D, r, q, P, V) ==
    /\ r \in Runs /\ P = Held(D, q) /\ V = Over(D, q.wrote)
    /\ Store(D, q.wrote) /\ Mine(D, r, q)

(* An import as it is before the step. *)
Now(r, q) == run[r] = q

(* A row that it may write. *)
Writes(P, r, q, x) ==
    /\ IsRow(x) /\ OwnSays(r, q, x)
    /\ Bare(x) \in P \/ (Own(r, q, Bare(x)) /\ \A b \in P : b.id # x.id)

(* The rows it sees are rows, and those of its own are as it makes them. *)
LEMMA GroundRows ==
    ASSUME NEW D, NEW r, NEW q, NEW P, NEW V, Ground(D, r, q, P, V), NEW x \in V
    PROVE  /\ IsRow(x) /\ Bare(x) \in P /\ Bare(x).id = x.id /\ OwnSays(r, q, x)
           /\ x.id[1] = r => Own(r, q, Bare(x))
<1>1. P = BareOf(V) /\ AllRows(V)
  BY ViewBare DEF Ground, Held
<1>2. Bare(x) \in P /\ IsRow(x) /\ Bare(x).id = x.id
  BY <1>1, BareFields DEF BareOf, AllRows
<1>3. OwnSays(r, q, x)
  <2>1. x \in D => x.id[1] # r
    BY DEF Ground, Mine
  <2>2. x \in D \/ x \in q.wrote
    BY DEF Ground, Over
  <2> QED
    BY <2>1, <2>2 DEF Ground, Mine, OwnSays
<1>4. x.id[1] = r => Own(r, q, Bare(x))
  BY <1>2, OwnOnly DEF Ground
<1> QED
  BY <1>2, <1>3, <1>4

(* A key whose row is there already has the row it would have. *)
LEMMA KeyKept ==
    ASSUME NEW D, NEW r, NEW q, NEW P, NEW V, Ground(D, r, q, P, V),
           NEW x, IsRow(x), x.t \in {"category", "maker", "product", "tag", "route"}, Own(r, q, Bare(x))
    PROVE  Bare(x) \in P \/ \A b \in P : b.id # x.id
<1> SUFFICES ASSUME NEW b \in P, b.id = x.id PROVE Bare(x) \in P
  OBVIOUS
<1>1. P = BareOf(V)
  BY ViewBare DEF Ground, Held
<1>2. PICK y \in V : b = Bare(y)
  BY <1>1 DEF BareOf
<1>3. PICK B : B = Bare(x)
  OBVIOUS
<1>4. B.t = x.t /\ B.id = x.id /\ B.id = <<r, B.t, B.id[3]>>
  BY <1>3, BareFields DEF Own
<1>5. IsRow(y) /\ y.id = x.id /\ Own(r, q, b)
  <2>1. b.id = y.id
    BY <1>2, BareFields
  <2> QED
    BY <1>2, <1>4, <2>1, GroundRows
<1>6. y.t = x.t /\ b.t = x.t
  BY <1>2, <1>5, BareFields DEF IsRow
<1>7. x.t = "category" => y.client = x.client
  <2>1. x.t = "category" => b.client = y.client /\ B.client = x.client
    BY <1>2, <1>3, <1>6, BareFields
  <2> QED
    BY <1>3, <1>4, <1>5, <1>6, <2>1 DEF Own
<1>8. x.t = "route" => y.client = x.client
  <2>1. x.t = "route" => b.client = y.client /\ B.client = x.client
    BY <1>2, <1>3, <1>6, BareFields
  <2> QED
    BY <1>3, <1>4, <1>5, <1>6, <2>1 DEF Own
<1>9. x.t = "product" => y.ref = x.ref
  <2>1. x.t = "product" => b.ref = y.ref /\ B.ref = x.ref
    BY <1>2, <1>3, <1>6, BareFields
  <2> QED
    BY <1>3, <1>4, <1>5, <1>6, <2>1 DEF Own
<1>10. Bare(y) = Bare(x)
  BY <1>5, <1>6, <1>7, <1>8, <1>9, BareSame
<1> QED
  BY <1>2, <1>10

(* A new row has its table, its key and nothing else. *)
LEMMA NewRow ==
    ASSUME NEW t \in Tables, NEW r, NEW key
    PROVE  /\ IsRow(New(t, r, key)) /\ New(t, r, key).t = t /\ New(t, r, key).id = <<r, t, key>>
           /\ New(t, r, key).legacy = None
BY DEF IsRow, New, RowFields

(* A category that is found is global or of the client; one is only missing *)
(* when the legacy one has no id.                                           *)
LEMMA CategoryGiven ==
    ASSUME NEW D, NEW r, NEW q, NEW P, NEW V, Ground(D, r, q, P, V), Now(r, q), NEW k,
           NEW c \in GetOrMigrateProductCategory(r, V, k)
    PROVE  \/ c = NoRow /\ LegacyCategories[k].id = None
           \/ c.t = "category" /\ c.client \in {None, q.client} /\ Writes(P, r, q, c)
<1>1. PICK m, found : /\ m = LegacyCategories[k]
                      /\ found = {x \in Table(V, "category") : /\ x.client \in {None, run[r].client}
                                                               /\ x.legacy = m.id \/ x.name = m.nick}
  OBVIOUS
<1>2. run[r] = q
  BY DEF Now
<1>3. CASE m.id = None
  <2>1. c = NoRow
    BY <1>1, <1>3 DEF GetOrMigrateProductCategory
  <2> QED
    BY <1>1, <1>3, <2>1
<1>4. CASE m.id # None /\ found = {}
  <2>1. c = [New("category", r, k) EXCEPT !.legacy = m.id, !.name = m.nick,
                     !.client = IF m.owner = run[r].legacy THEN run[r].client ELSE None]
    BY <1>1, <1>4 DEF GetOrMigrateProductCategory
  <2>2. /\ IsRow(c) /\ c.t = "category" /\ c.id = <<r, "category", k>>
        /\ c.client = IF m.owner = q.legacy THEN q.client ELSE None
    BY <1>2, <2>1 DEF New, IsRow, RowFields, Tables
  <2>3. PICK B : B = Bare(c)
    OBVIOUS
  <2>4. B.t = "category" /\ B.id = <<r, "category", k>> /\ B.client = c.client
    BY <2>2, <2>3, BareFields
  <2>5. Own(r, q, B)
    BY <1>1, <2>2, <2>4 DEF Own, Numbered
  <2>6. OwnSays(r, q, c)
    BY <2>2 DEF OwnSays
  <2> QED
    BY <2>2, <2>3, <2>5, <2>6, KeyKept DEF Writes
<1>5. CASE m.id # None /\ found # {}
  <2>1. PICK x \in found : c = Adopted(x, m.id)
    BY <1>1, <1>5 DEF GetOrMigrateProductCategory, Preferred
  <2>2. x \in V /\ x.t = "category" /\ x.client \in {None, q.client}
    BY <1>1, <1>2 DEF Table
  <2>3. IsRow(x) /\ Bare(x) \in P
    BY <2>2, GroundRows
  <2>4. IsRow(c) /\ c.t = "category" /\ c.id = x.id /\ c.client = x.client
    BY <2>1, <2>2, <2>3 DEF Adopted, IsRow, RowFields
  <2>5. Bare(c) = Bare(x)
    BY <2>2, <2>4, BareSame
  <2>6. OwnSays(r, q, c)
    BY <2>4 DEF OwnSays
  <2> QED
    BY <2>2, <2>3, <2>4, <2>5, <2>6 DEF Writes
<1> QED
  BY <1>3, <1>4, <1>5

(* So is a manufacturer, whoever it belongs to. *)
LEMMA MakerGiven ==
    ASSUME NEW D, NEW r, NEW q, NEW P, NEW V, Ground(D, r, q, P, V), Now(r, q), NEW k,
           NEW c \in GetOrMigrateManufacturer(r, V, k)
    PROVE  \/ c = NoRow /\ LegacyMakers[k].id = None
           \/ c.t = "maker" /\ Writes(P, r, q, c)
<1>1. PICK m, found : /\ m = LegacyMakers[k]
                      /\ found = {x \in Table(V, "maker") : x.legacy = m.id \/ x.name = m.name}
  OBVIOUS
<1>2. run[r] = q
  BY DEF Now
<1>3. CASE m.id = None
  <2>1. c = NoRow
    BY <1>1, <1>3 DEF GetOrMigrateManufacturer
  <2> QED
    BY <1>1, <1>3, <2>1
<1>4. CASE m.id # None /\ found = {}
  <2>1. c = [New("maker", r, k) EXCEPT !.legacy = m.id, !.name = m.name,
                     !.client = IF m.owner = run[r].legacy THEN run[r].client ELSE None]
    BY <1>1, <1>4 DEF GetOrMigrateManufacturer
  <2>2. IsRow(c) /\ c.t = "maker" /\ c.id = <<r, "maker", k>>
    BY <2>1 DEF New, IsRow, RowFields, Tables
  <2>3. PICK B : B = Bare(c)
    OBVIOUS
  <2>4. B.t = "maker" /\ B.id = <<r, "maker", k>>
    BY <2>2, <2>3, BareFields
  <2>5. Own(r, q, B)
    BY <2>4 DEF Own, Numbered
  <2>6. OwnSays(r, q, c)
    BY <2>2 DEF OwnSays
  <2> QED
    BY <2>2, <2>3, <2>5, <2>6, KeyKept DEF Writes
<1>5. CASE m.id # None /\ found # {}
  <2>1. PICK x \in found : c = Adopted(x, m.id)
    BY <1>1, <1>5 DEF GetOrMigrateManufacturer, Preferred
  <2>2. x \in V /\ x.t = "maker"
    BY <1>1, <1>2 DEF Table
  <2>3. IsRow(x) /\ Bare(x) \in P
    BY <2>2, GroundRows
  <2>4. IsRow(c) /\ c.t = "maker" /\ c.id = x.id
    BY <2>1, <2>2, <2>3 DEF Adopted, IsRow, RowFields
  <2>5. Bare(c) = Bare(x)
    BY <2>2, <2>4, BareSame
  <2>6. OwnSays(r, q, c)
    BY <2>4 DEF OwnSays
  <2> QED
    BY <2>2, <2>3, <2>4, <2>5, <2>6 DEF Writes
<1> QED
  BY <1>3, <1>4, <1>5

(* What a search for the product of an asset gives.                        *)
Offers(o, V, P, r, q) ==
    /\ \A x \in o.rows : Writes(P, r, q, x) /\ x.t \in {"category", "maker", "product"}
    /\ \A x, y \in o.rows : x.t = y.t => x = y
    /\ \A x \in o.rows : x.t = "product" =>
          x = o.product /\ (x \in V \/ (x.legacy = None /\ Bare(x) \notin P)
                              \/ (x.legacy # None /\ \A y \in V : y.t = "product" => y.legacy # x.legacy))
    /\ o.product # NoRow =>
          /\ o.product.t = "product"
          /\ \/ o.product \in V /\ o.product.legacy # None /\ o.rows = {}
             \/ /\ o.product \in o.rows
                /\ \E c \in o.rows : c.t = "category" /\ c.id = o.product.ref /\ c.client \in {None, q.client}

(* Nothing at all. *)
LEMMA OffersNothing ==
    ASSUME NEW V, NEW P, NEW r, NEW q
    PROVE  Offers(NoProduct, V, P, r, q)
BY DEF Offers, NoProduct

(* The generic product of a category is found by name and client, or made. *)
LEMMA GenericGiven ==
    ASSUME NEW D, NEW r, NEW q, NEW P, NEW V, Ground(D, r, q, P, V), Now(r, q), NEW k, NEW o \in GenericProduct(r, V, k)
    PROVE  /\ Offers(o, V, P, r, q)
           /\ LegacyCategories[k].id # None => o.product # NoRow
<1>1. PICK c \in GetOrMigrateProductCategory(r, V, k) :
         o \in IF c = NoRow THEN {NoProduct}
               ELSE LET found == {x \in Table(V, "product") : /\ x.name = k /\ x.ref = c.id
                                                              /\ x.client = run[r].client}
                        made == [New("product", r, <<k, c.id>>) EXCEPT !.name = k, !.ref = c.id,
                                                                       !.client = run[r].client]
                    IN  {[product |-> x, rows |-> {c, x}] : x \in IF found = {} THEN {made} ELSE found}
  BY DEF GenericProduct
<1>2. run[r] = q /\ r \in Runs
  BY DEF Ground, Now
<1>3. NoRow.t = "none"
  BY DEF NoRow, New
<1>4. \/ c = NoRow /\ LegacyCategories[k].id = None
      \/ c.t = "category" /\ c.client \in {None, q.client} /\ Writes(P, r, q, c)
  BY CategoryGiven
<1>5. CASE c = NoRow
  <2>1. o = NoProduct /\ LegacyCategories[k].id = None
    BY <1>1, <1>3, <1>4, <1>5
  <2> QED
    BY <2>1, OffersNothing
<1>6. CASE c # NoRow
  <2>1. PICK found : found = {x \in Table(V, "product") : /\ x.name = k /\ x.ref = c.id /\ x.client = q.client}
    OBVIOUS
  <2>2. PICK made : made = [New("product", r, <<k, c.id>>) EXCEPT !.name = k, !.ref = c.id, !.client = q.client]
    OBVIOUS
  <2>3. PICK x \in IF found = {} THEN {made} ELSE found : o = [product |-> x, rows |-> {c, x}]
    BY <1>1, <1>2, <1>6, <2>1, <2>2
  <2>4. c.t = "category" /\ c.client \in {None, q.client} /\ Writes(P, r, q, c)
    BY <1>4, <1>6
  <2>5. /\ Writes(P, r, q, x) /\ x.t = "product" /\ x.ref = c.id
        /\ x \in V \/ (x.legacy = None /\ Bare(x) \notin P)
    <3>1. CASE found # {}
      <4>1. x \in V /\ x.t = "product" /\ x.ref = c.id
        BY <2>1, <2>3, <3>1 DEF Table
      <4>2. Writes(P, r, q, x)
        BY <4>1, GroundRows DEF Writes
      <4> QED
        BY <4>1, <4>2
    <3>2. CASE found = {}
      <4>1. x = made
        BY <2>3, <3>2
      <4>2. /\ IsRow(x) /\ x.t = "product" /\ x.id = <<r, "product", <<k, c.id>>>> /\ x.ref = c.id
            /\ x.legacy = None /\ x.name = k /\ x.client = q.client
        BY <2>2, <4>1 DEF New, IsRow, RowFields, Tables
      <4>3. PICK B : B = Bare(x)
        OBVIOUS
      <4>4. B.t = "product" /\ B.id = <<r, "product", <<k, c.id>>>> /\ B.ref = c.id
        BY <4>2, <4>3, BareFields
      <4>5. Own(r, q, B)
        BY <4>4 DEF Own, Numbered
      <4>6. OwnSays(r, q, x)
        BY <4>2 DEF OwnSays
      <4>7. Bare(x) \notin P
        <5> SUFFICES ASSUME B \in P PROVE FALSE
          BY <4>3
        <5>1. P = BareOf(V)
          BY ViewBare DEF Ground, Held
        <5>2. PICK y \in V : B = Bare(y)
          BY <5>1 DEF BareOf
        <5>3. y.t = "product" /\ y.id = <<r, "product", <<k, c.id>>>> /\ y.ref = c.id
          <6>1. B.t = y.t /\ B.id = y.id
            BY <5>2, BareFields
          <6>2. y.t = "product"
            BY <4>4, <6>1
          <6>3. B.ref = y.ref
            BY <5>2, <6>2, BareFields
          <6> QED
            BY <4>4, <6>1, <6>3
        <5>4. OwnSays(r, q, y)
          BY GroundRows
        <5>5. y.id[1] = r /\ y.id[3] = <<k, c.id>> /\ y.id[3] = <<y.id[3][1], y.ref>>
          BY <5>3
        <5>6. y.name = k /\ y.client = q.client
          BY <5>3, <5>4, <5>5 DEF OwnSays
        <5>7. y \in found
          BY <2>1, <5>3, <5>6 DEF Table
        <5> QED
          BY <3>2, <5>7
      <4> QED
        BY <4>2, <4>3, <4>5, <4>6, <4>7, KeyKept DEF Writes
    <3> QED
      BY <3>1, <3>2
  <2>6. o.product = x /\ o.rows = {c, x} /\ x # NoRow
    BY <1>3, <2>3, <2>5
  <2> QED
    BY <2>4, <2>5, <2>6 DEF Offers
<1> QED
  BY <1>5, <1>6

(* A pair is no triple. *)
LEMMA NoPair ==
    ASSUME NEW a, NEW b, NEW c, NEW d, NEW e
    PROVE  <<a, b, c>> # <<d, e>>
<1>1. Len(<<a, b, c>>) = 3 /\ Len(<<d, e>>) = 2
  OBVIOUS
<1> QED
  BY <1>1

Obtainable(p) == /\ p.category # None /\ LegacyCategories[p.category].id # None
                 /\ p.maker # None /\ LegacyMakers[p.maker].id # None

(* The product of a legacy product that nothing is known of: one with its  *)
(* name, category and manufacturer, or a new one.                          *)
LEMMA ProductMigrated ==
    ASSUME NEW D, NEW r, NEW q, NEW P, NEW V, Ground(D, r, q, P, V), Now(r, q), NEW k, LegacyProducts[k].id # None,
           \A y \in V : y.t = "product" => y.legacy # LegacyProducts[k].id,
           NEW o \in MigrateProduct(r, V, k)
    PROVE  /\ Offers(o, V, P, r, q)
           /\ Obtainable(LegacyProducts[k]) => o.product # NoRow
<1>1. PICK p : p = LegacyProducts[k]
  OBVIOUS
<1>2. run[r] = q /\ r \in Runs
  BY DEF Ground, Now
<1>3. NoRow.t = "none"
  BY DEF NoRow, New
<1>4. CASE p.category = None \/ p.maker = None
  <2>1. o = NoProduct
    BY <1>1, <1>4 DEF MigrateProduct
  <2> QED
    BY <1>1, <1>4, <2>1, OffersNothing DEF Obtainable
<1>5. CASE ~(p.category = None \/ p.maker = None)
  <2>1. PICK c \in GetOrMigrateProductCategory(r, V, p.category), m \in GetOrMigrateManufacturer(r, V, p.maker) :
           o \in IF NoRow \in {c, m} THEN {[product |-> NoRow, rows |-> {c, m} \ {NoRow}]}
                 ELSE {[product |-> x, rows |-> {c, m, x}] : x \in ProductOf(r, V, k, c, m)}
    BY <1>1, <1>5 DEF MigrateProduct
  <2>2. \/ c = NoRow /\ LegacyCategories[p.category].id = None
        \/ c.t = "category" /\ c.client \in {None, q.client} /\ Writes(P, r, q, c)
    BY CategoryGiven
  <2>3. \/ m = NoRow /\ LegacyMakers[p.maker].id = None
        \/ m.t = "maker" /\ Writes(P, r, q, m)
    BY MakerGiven
  <2>4. CASE NoRow \in {c, m}
    <3>1. o.product = NoRow /\ o.rows = {c, m} \ {NoRow}
      BY <2>1, <2>4
    <3>2. \A x \in o.rows : Writes(P, r, q, x) /\ x.t \in {"category", "maker"}
      BY <2>2, <2>3, <3>1
    <3>3. \A x, y \in o.rows : x.t = y.t => x = y
      BY <2>2, <2>3, <3>1
    <3>4. LegacyCategories[p.category].id = None \/ LegacyMakers[p.maker].id = None
      BY <1>3, <2>2, <2>3, <2>4
    <3>5. Offers(o, V, P, r, q)
      BY <3>1, <3>2, <3>3 DEF Offers
    <3> QED
      BY <1>1, <3>4, <3>5 DEF Obtainable
  <2>5. CASE NoRow \notin {c, m}
    <3>1. c.t = "category" /\ c.client \in {None, q.client} /\ Writes(P, r, q, c)
      BY <2>2, <2>5
    <3>2. m.t = "maker" /\ Writes(P, r, q, m)
      BY <2>3, <2>5
    <3>3. PICK named : named = {x \in Table(V, "product") : x.name = p.name /\ x.ref = c.id /\ x.maker = m.id}
      OBVIOUS
    <3>4. PICK x : /\ o = [product |-> x, rows |-> {c, m, x}]
                   /\ x \in ProductOf(r, V, k, c, m)
      BY <2>1, <2>5
    <3>5. Writes(P, r, q, x) /\ x.t = "product" /\ x.ref = c.id /\ x.legacy = p.id
      <4>1. CASE named # {}
        <5>1. PICK y \in named : x = [y EXCEPT !.legacy = p.id]
          BY <1>1, <3>3, <3>4, <4>1 DEF ProductOf
        <5>2. y \in V /\ y.t = "product" /\ y.ref = c.id
          BY <3>3 DEF Table
        <5>3. IsRow(y) /\ Bare(y) \in P /\ OwnSays(r, q, y)
          BY <5>2, GroundRows
        <5>4. /\ IsRow(x) /\ x.t = "product" /\ x.id = y.id /\ x.ref = y.ref /\ x.legacy = p.id
              /\ x.name = y.name /\ x.client = y.client
          BY <5>1, <5>2, <5>3 DEF IsRow, RowFields
        <5>5. Bare(x) = Bare(y)
          BY <5>2, <5>4, BareSame
        <5>6. OwnSays(r, q, x)
          BY <5>2, <5>3, <5>4 DEF OwnSays
        <5> QED
          BY <5>2, <5>3, <5>4, <5>5, <5>6 DEF Writes
      <4>2. CASE named = {}
        <5>1. x = [New("product", r, <<k, c.id, m.id>>) EXCEPT
                      !.legacy = p.id, !.name = p.name, !.ref = c.id, !.maker = m.id]
          BY <1>1, <3>3, <3>4, <4>2 DEF ProductOf
        <5>2. /\ IsRow(x) /\ x.t = "product" /\ x.id = <<r, "product", <<k, c.id, m.id>>>> /\ x.ref = c.id
              /\ x.legacy = p.id
          BY <5>1 DEF New, IsRow, RowFields, Tables
        <5>3. PICK B : B = Bare(x)
          OBVIOUS
        <5>4. B.t = "product" /\ B.id = <<r, "product", <<k, c.id, m.id>>>> /\ B.ref = c.id
          BY <5>2, <5>3, BareFields
        <5>5. Own(r, q, B)
          BY <5>4 DEF Own, Numbered
        <5>6. OwnSays(r, q, x)
          <6>1. x.id[3] = <<k, c.id, m.id>> /\ x.t # "tag"
            BY <5>2
          <6>2. x.id[3] # <<x.id[3][1], x.ref>>
            BY <6>1, NoPair
          <6> QED
            BY <6>1, <6>2 DEF OwnSays
        <5> QED
          BY <5>2, <5>3, <5>5, <5>6, KeyKept DEF Writes
      <4> QED
        BY <4>1, <4>2
    <3>6. o.product = x /\ o.rows = {c, m, x} /\ x # NoRow
      BY <1>3, <3>4, <3>5
    <3>7. \A y \in V : y.t = "product" => y.legacy # x.legacy
      BY <1>1, <3>5
    <3>8. x.legacy # None
      BY <1>1, <3>5
    <3>9. Offers(o, V, P, r, q)
      BY <3>1, <3>2, <3>5, <3>6, <3>7, <3>8 DEF Offers
    <3> QED
      BY <3>6, <3>9
  <2> QED
    BY <2>4, <2>5
<1> QED
  BY <1>4, <1>5

(* The product of an asset. *)
LEMMA ProductGiven ==
    ASSUME NEW D, NEW r, NEW q, NEW P, NEW V, Ground(D, r, q, P, V), Now(r, q), NEW a, NEW o \in GetOrMigrateProduct(r, V, a)
    PROVE  Offers(o, V, P, r, q) /\ \A use : Used(a, use) => o.product # NoRow
<1>1. PICK p, found : p = LegacyProducts[a.product] /\ found = {x \in Table(V, "product") : x.legacy = p.id}
  OBVIOUS
<1>2. CASE a.product = None
  <2>1. o = NoProduct
    BY <1>2 DEF GetOrMigrateProduct
  <2>2. \A use : ~Used(a, use)
    BY <1>2 DEF Used
  <2> QED
    BY <2>1, <2>2, OffersNothing
<1>3. CASE a.product # None /\ p.type = "category"
  <2>1. o \in GenericProduct(r, V, p.category)
    BY <1>1, <1>3 DEF GetOrMigrateProduct
  <2>2. Offers(o, V, P, r, q) /\ (LegacyCategories[p.category].id # None => o.product # NoRow)
    BY <2>1, GenericGiven
  <2> QED
    BY <1>1, <2>2 DEF Used
<1>4. CASE a.product # None /\ p.type # "category" /\ (p.id = None \/ p.type = "consumable")
  <2>1. o = NoProduct
    BY <1>1, <1>4 DEF GetOrMigrateProduct
  <2>2. \A use : ~Used(a, use)
    BY <1>1, <1>4 DEF Used
  <2> QED
    BY <2>1, <2>2, OffersNothing
<1>5. CASE a.product # None /\ p.type # "category" /\ ~(p.id = None \/ p.type = "consumable") /\ found # {}
  <2>1. PICK x \in found : o = [product |-> x, rows |-> {}]
    BY <1>1, <1>5 DEF GetOrMigrateProduct
  <2>2. x \in V /\ x.t = "product" /\ x.legacy = p.id /\ p.id # None
    BY <1>1, <1>5 DEF Table
  <2>3. NoRow.t = "none"
    BY DEF NoRow, New
  <2>4. o.product = x /\ o.rows = {} /\ x # NoRow
    BY <2>1, <2>2, <2>3
  <2> QED
    BY <2>2, <2>4 DEF Offers
<1>6. CASE a.product # None /\ p.type # "category" /\ ~(p.id = None \/ p.type = "consumable") /\ found = {}
  <2>1. o \in MigrateProduct(r, V, a.product)
    BY <1>1, <1>6 DEF GetOrMigrateProduct
  <2>2. \A y \in V : y.t = "product" => y.legacy # LegacyProducts[a.product].id
    BY <1>1, <1>6 DEF Table
  <2>3. PICK k : k = a.product
    OBVIOUS
  <2>4. /\ Offers(o, V, P, r, q)
        /\ Obtainable(p) => o.product # NoRow
    BY <1>1, <1>6, <2>1, <2>2, <2>3, ProductMigrated
  <2> QED
    BY <1>1, <1>6, <2>4 DEF Used, Obtainable
<1> QED
  BY <1>2, <1>3, <1>4, <1>5, <1>6

-----------------------------------------------------------------------------
(* Tags.                                                                   *)

(* An asset that has the tag of a row keeps one that fits. *)
TagFits(g, V) ==
    \A b \in V : b.t = "asset" /\ b.tag = g.id
                 /\ (\E y \in V : y.t = "tag" /\ y.id = g.id /\ y.client = b.client /\ y.site = b.site)
                 => g.client = b.client /\ g.site = b.site

(* The site of an asset is there, with a client. *)
LEMMA HousedAt ==
    ASSUME NEW P, NEW V, P = BareOf(V), NEW N, NEW ov, Skeleton(P, N, ov), NEW b \in V, b.t = "asset"
    PROVE  \E s \in V : /\ s.t = "site" /\ s.id = b.site /\ s.client = b.client
                        /\ b.site # None /\ b.client # None
<1>1. PICK B : B = Bare(b)
  OBVIOUS
<1>2. B \in P /\ B.t = "asset" /\ B.site = b.site /\ B.client = b.client
  BY <1>1, BareFields DEF BareOf
<1>3. PICK e \in P : e.t = "site" /\ e.id = b.site /\ e.client = b.client
  BY <1>2 DEF Skeleton, RowFits, Housed
<1>4. e.id # None /\ e.client # None
  BY <1>3 DEF Skeleton, RowFits
<1>5. PICK s \in V : e = Bare(s)
  BY DEF BareOf
<1>6. s.t = "site" /\ s.id = e.id /\ s.client = e.client
  BY <1>3, <1>5, BareFields
<1> QED
  BY <1>3, <1>4, <1>6

(* A tag that is found or made is for the site, and an asset that has it   *)
(* already is there.                                                       *)
LEMMA TagGiven ==
    ASSUME NEW D, NEW r, NEW q, NEW P, NEW V, Ground(D, r, q, P, V), NEW N, NEW ov, Skeleton(P, N, ov),
           NEW site \in V, site.t = "site", NEW k, NEW g \in GetOrMigrateTag(r, V, k, site)
    PROVE  \/ g = NoRow
           \/ /\ g.t = "tag" /\ g.client = site.client /\ g.site = site.id
              /\ Writes(P, r, q, g) /\ TagFits(g, V)
<1>1. PICK m, found : m = LegacyTags[k] /\ found = TagCandidates(V, m, site)
  OBVIOUS
<1>2. P = BareOf(V) /\ OneEach(V)
  BY ViewBare DEF Ground, Held
<1>3. site.id # None
  <2>1. Bare(site) \in P /\ Bare(site).t = "site" /\ Bare(site).id = site.id
    BY <1>2, BareFields DEF BareOf
  <2> QED
    BY <2>1 DEF Skeleton, RowFits
<1>4. CASE k = None \/ m.id = None
  BY <1>1, <1>4 DEF GetOrMigrateTag
<1>5. CASE ~(k = None \/ m.id = None) /\ found = {}
  <2>1. g = [New("tag", r, <<k, site.id>>) EXCEPT
                     !.legacy = m.id, !.name = m.serial, !.client = site.client, !.site = site.id]
    BY <1>1, <1>5 DEF GetOrMigrateTag
  <2>2. /\ IsRow(g) /\ g.t = "tag" /\ g.id = <<r, "tag", <<k, site.id>>>> /\ g.client = site.client
        /\ g.site = site.id
    BY <2>1 DEF New, IsRow, RowFields, Tables
  <2>3. PICK B : B = Bare(g)
    OBVIOUS
  <2>4. B.t = "tag" /\ B.id = <<r, "tag", <<k, site.id>>>>
    BY <2>2, <2>3, BareFields
  <2>5. Own(r, q, B)
    BY <2>4 DEF Own, Numbered
  <2>6. OwnSays(r, q, g)
    BY <1>3, <2>2 DEF OwnSays
  <2>7. Writes(P, r, q, g)
    BY <2>2, <2>3, <2>5, <2>6, KeyKept DEF Writes
  <2>8. TagFits(g, V)
    <3> SUFFICES ASSUME NEW b \in V, b.t = "asset", NEW y \in V, y.t = "tag", y.id = g.id, y.client = b.client,
                        y.site = b.site
                 PROVE  g.client = b.client /\ g.site = b.site
      BY DEF TagFits
    <3>1. OwnSays(r, q, y)
      BY GroundRows
    <3>2. y.site = site.id
      BY <2>2, <3>1 DEF OwnSays
    <3>3. PICK s \in V : s.id = b.site /\ s.client = b.client
      BY <1>2, HousedAt
    <3>4. s = site
      BY <1>2, <3>2, <3>3 DEF OneEach
    <3> QED
      BY <2>2, <3>2, <3>3, <3>4
  <2> QED
    BY <2>2, <2>7, <2>8
<1>6. CASE ~(k = None \/ m.id = None) /\ found # {}
  <2>1. PICK x \in found : g = IF None \in {x.client, x.site}
                               THEN [x EXCEPT !.client = site.client, !.site = site.id] ELSE x
    BY <1>1, <1>6 DEF GetOrMigrateTag, Preferred
  <2>2. x \in V /\ x.t = "tag" /\ x.client \in {None, site.client} /\ x.site \in {None, site.id}
    BY <1>1 DEF TagCandidates, Table
  <2>3. IsRow(x) /\ Bare(x) \in P /\ OwnSays(r, q, x)
    BY <2>2, GroundRows
  <2>4. IsRow(g) /\ g.t = "tag" /\ g.id = x.id /\ g.client = site.client /\ g.site = site.id
    BY <2>1, <2>2, <2>3 DEF IsRow, RowFields
  <2>5. Bare(g) = Bare(x)
    BY <2>2, <2>4, BareSame
  <2>6. OwnSays(r, q, g)
    BY <2>2, <2>3, <2>4 DEF OwnSays
  <2>7. TagFits(g, V)
    <3> SUFFICES ASSUME NEW b \in V, b.t = "asset", NEW y \in V, y.t = "tag", y.id = g.id, y.client = b.client,
                        y.site = b.site
                 PROVE  g.client = b.client /\ g.site = b.site
      BY DEF TagFits
    <3>1. y = x
      BY <1>2, <2>2, <2>4 DEF OneEach
    <3>2. b.site # None /\ b.client # None
      BY <1>2, HousedAt
    <3> QED
      BY <2>2, <2>4, <3>1, <3>2
  <2> QED
    BY <2>3, <2>4, <2>5, <2>6, <2>7 DEF Writes
<1> QED
  BY <1>4, <1>5, <1>6

-----------------------------------------------------------------------------
(* The rows of an asset.                                                   *)

(* What a move that writes may write, it may write seen from its end. *)
LEMMA WritesOn ==
    ASSUME NEW P, NEW r, NEW q, NEW n, NEW T, Goes(q, n, T), NEW y, Writes(P, r, q, y)
    PROVE  Writes(P, r, n, y)
<1>1. OwnSays(r, n, y)
  BY DEF Goes, Writes, OwnSays
<1>2. Own(r, q, Bare(y)) => Own(r, n, Bare(y))
  <2>1. PICK b : b = Bare(y)
    OBVIOUS
  <2>2. Own(r, q, b) => Own(r, n, b)
    BY OwnGoes
  <2> QED
    BY <2>1, <2>2
<1> QED
  BY <1>1, <1>2 DEF Writes

(* An asset as it is made. *)
IsMade(P, r, n, o, site, tag, m) ==
    /\ Writes(P, r, n, m) /\ Bare(m) \notin P /\ m.t = "asset"
    /\ m.client = site.client /\ m.site = site.id /\ m.ref = o.product.id /\ m.tag = tag

(* What an import writes for an asset: F of the catalogue and the tags, A  *)
(* of the assets, and S altogether.                                        *)
Adds(D, r, q, n, T, P, V, o, g, site, tag, m, A, S) ==
    /\ Ground(D, r, q, P, V) /\ Goes(q, n, T) /\ Offers(o, V, P, r, q)
    /\ site \in V /\ site.t = "site"
    /\ g = NoRow \/ (/\ g.t = "tag" /\ g.client = site.client /\ g.site = site.id
                     /\ Writes(P, r, q, g) /\ TagFits(g, V))
    /\ tag = IF g = NoRow THEN None ELSE g.id
    /\ \/ A = {} /\ o.product = NoRow
       \/ A = Released(V, tag) \cup {m} /\ o.product # NoRow /\ IsMade(P, r, n, o, site, tag, m)
    /\ S = ((o.rows \cup ({g} \ {NoRow})) \ V) \cup A

Kind(P, V, r, n, o, g, m, A, y) ==
    /\ Writes(P, r, n, y) /\ y.t \in {"category", "maker", "product", "tag", "asset"}
    /\ y.t \in {"category", "maker", "product"} => y \in o.rows /\ y \notin V
    /\ y.t = "tag" => y = g /\ g # NoRow /\ y \notin V
    /\ y.t = "asset" => y \in A /\ (y = m \/ (y.tag = None /\ Bare(y) \in P))

(* What kinds of rows these are. *)
LEMMA AddsKinds ==
    ASSUME NEW D, NEW r, NEW q, NEW n, NEW T, NEW P, NEW V, NEW o, NEW g, NEW site, NEW tag, NEW m, NEW A, NEW S,
           Adds(D, r, q, n, T, P, V, o, g, site, tag, m, A, S), NEW y \in S
    PROVE  Kind(P, V, r, n, o, g, m, A, y)
<1> USE DEF Kind
<1>1. NoRow.t = "none"
  BY DEF NoRow, New
<1>2. CASE y \in o.rows /\ y \notin V
  <2>1. Writes(P, r, q, y) /\ y.t \in {"category", "maker", "product"}
    BY <1>2 DEF Adds, Offers
  <2>2. Writes(P, r, n, y)
    BY <2>1, WritesOn DEF Adds
  <2> QED
    BY <1>2, <2>1, <2>2
<1>3. CASE y = g /\ g # NoRow /\ y \notin V
  <2>1. Writes(P, r, q, y) /\ y.t = "tag"
    BY <1>3 DEF Adds
  <2>2. Writes(P, r, n, y)
    BY <2>1, WritesOn DEF Adds
  <2> QED
    BY <1>3, <2>1, <2>2
<1>4. CASE y = m /\ y \in A
  <2>1. IsMade(P, r, n, o, site, tag, m)
    BY <1>4 DEF Adds
  <2> QED
    BY <1>4, <2>1 DEF IsMade
<1>5. CASE y \in Released(V, tag) /\ y \in A
  <2>1. PICK x \in V : x.t = "asset" /\ y = [x EXCEPT !.tag = None]
    BY <1>5 DEF Released, Table
  <2>2. IsRow(x) /\ Bare(x) \in P
    BY GroundRows DEF Adds
  <2>3. /\ IsRow(y) /\ y.t = "asset" /\ y.id = x.id /\ y.legacy = x.legacy /\ y.client = x.client
        /\ y.site = x.site /\ y.ref = x.ref /\ y.tag = None
    BY <2>1, <2>2 DEF IsRow, RowFields
  <2>4. Bare(y) = Bare(x)
    BY <2>1, <2>3, BareSame
  <2>5. OwnSays(r, n, y)
    BY <2>3 DEF OwnSays
  <2> QED
    BY <1>5, <2>2, <2>3, <2>4, <2>5 DEF Writes
<1> QED
  BY <1>2, <1>3, <1>4, <1>5 DEF Adds

(* They have one key each. *)
LEMMA AddsOnce ==
    ASSUME NEW D, NEW r, NEW q, NEW n, NEW T, NEW P, NEW V, NEW o, NEW g, NEW site, NEW tag, NEW m, NEW A, NEW S,
           Adds(D, r, q, n, T, P, V, o, g, site, tag, m, A, S)
    PROVE  OneEach(S) /\ AllRows(S) /\ Fits(P, S)
<1>0. \A y \in S : Kind(P, V, r, n, o, g, m, A, y)
  BY AddsKinds
<1>1. \A y \in S : Writes(P, r, n, y) /\ IsRow(y)
  BY <1>0 DEF Writes, Kind
<1>2. ASSUME NEW x \in S, NEW y \in S, x.id = y.id PROVE x = y
  <2>1. x.t = y.t
    BY <1>1, <1>2 DEF IsRow
  <2>2. CASE x.t \in {"category", "maker", "product"}
    <3>1. x \in o.rows /\ y \in o.rows
      BY <1>0, <2>1, <2>2 DEF Kind
    <3> QED
      BY <2>1, <3>1 DEF Adds, Offers
  <2>3. CASE x.t = "tag"
    BY <1>0, <2>1, <2>3 DEF Kind
  <2>4. CASE x.t = "asset"
    <3>1. x \in A /\ y \in A
      BY <1>0, <2>1, <2>4 DEF Kind
    <3>2. CASE x = m \/ y = m
      <4>1. IsMade(P, r, n, o, site, tag, m)
        BY <3>1 DEF Adds
      <4>2. \A b \in P : b.id # m.id
        BY <4>1 DEF IsMade, Writes
      <4>3. ASSUME NEW z \in S, z.t = "asset", z # m, z.id = m.id PROVE FALSE
        <5>1. Bare(z) \in P /\ Bare(z).id = z.id
          BY <1>0, <4>3, BareFields DEF Kind
        <5> QED
          BY <4>2, <4>3, <5>1
      <4> QED
        BY <1>2, <2>1, <2>4, <3>2, <4>3
    <3>3. CASE x # m /\ y # m
      <4>1. x \in Released(V, tag) /\ y \in Released(V, tag)
        BY <3>1, <3>3 DEF Adds
      <4>2. PICK u \in V, w \in V : x = [u EXCEPT !.tag = None] /\ y = [w EXCEPT !.tag = None]
        BY <4>1 DEF Released, Table
      <4>3. IsRow(u) /\ IsRow(w)
        BY <4>2, GroundRows DEF Adds
      <4>4. x.id = u.id /\ y.id = w.id
        BY <4>2, <4>3 DEF IsRow, RowFields
      <4>5. OneEach(V)
        BY ViewBare DEF Adds, Ground
      <4>6. u = w
        BY <1>2, <4>2, <4>4, <4>5 DEF OneEach
      <4> QED
        BY <4>2, <4>6
    <3> QED
      BY <3>2, <3>3
  <2> QED
    BY <1>0, <2>2, <2>3, <2>4 DEF Kind
<1>3. OneEach(S) /\ AllRows(S)
  BY <1>1, <1>2 DEF OneEach, AllRows
<1> QED
  BY <1>1, <1>3 DEF Fits, Writes

(* What was found is there, and what was made, after they are written. *)
LEMMA AddsThere ==
    ASSUME NEW D, NEW r, NEW q, NEW n, NEW T, NEW P, NEW V, NEW o, NEW g, NEW site, NEW tag, NEW m, NEW A, NEW S,
           Adds(D, r, q, n, T, P, V, o, g, site, tag, m, A, S)
    PROVE  /\ g # NoRow => g \in Over(V, S)
           /\ \A y \in o.rows : Bare(y) \in P \cup BareOf(S)
<1>0. \A y \in S : Kind(P, V, r, n, o, g, m, A, y)
  BY AddsKinds
<1>1. ASSUME g # NoRow, g \in V, NEW y \in S PROVE y.id # g.id
  <2> SUFFICES ASSUME y.id = g.id PROVE FALSE
    OBVIOUS
  <2>1. IsRow(y) /\ IsRow(g) /\ g.t = "tag"
    BY <1>0, <1>1 DEF Writes, Adds, Kind
  <2>2. y.t = "tag"
    BY <2>1 DEF IsRow
  <2> QED
    BY <1>0, <1>1, <2>2 DEF Kind
<1>2. g # NoRow => g \in Over(V, S)
  BY <1>1 DEF Adds, Over
<1>3. ASSUME NEW y \in o.rows PROVE Bare(y) \in P \cup BareOf(S)
  <2>1. CASE y \in V
    <3>1. Bare(y) \in P
      BY <2>1, GroundRows DEF Adds
    <3> QED
      BY <3>1
  <2>2. CASE y \notin V
    <3>1. y \in S
      BY <2>2 DEF Adds
    <3> QED
      BY <3>1 DEF BareOf
  <2> QED
    BY <2>1, <2>2
<1> QED
  BY <1>2, <1>3

(* A tag stays on one asset, since connecting it releases it. *)
LEMMA AddsTagOnce ==
    ASSUME NEW D, NEW r, NEW q, NEW n, NEW T, NEW P, NEW V, NEW o, NEW g, NEW site, NEW tag, NEW m, NEW A, NEW S,
           Adds(D, r, q, n, T, P, V, o, g, site, tag, m, A, S), NEW U \in SUBSET V, TagOnce(U)
    PROVE  TagOnce(Over(U, S))
<1>0. \A y \in S : Kind(P, V, r, n, o, g, m, A, y)
  BY AddsKinds
<1>1. ASSUME NEW b \in U, b.t = "asset", b.tag # None, m \in S, m.t = "asset", b.tag = m.tag, \A y \in S : y.id # b.id
      PROVE  FALSE
  <2>1. m \in A
    BY <1>0, <1>1 DEF Kind
  <2>2. IsMade(P, r, n, o, site, tag, m) /\ A = Released(V, tag) \cup {m}
    BY <2>1 DEF Adds
  <2>3. b \in {y \in Table(V, "asset") : tag # None /\ y.tag = tag}
    BY <1>1, <2>2 DEF IsMade, Table
  <2>4. PICK x : x = [b EXCEPT !.tag = None]
    OBVIOUS
  <2>5. x \in S
    BY <2>2, <2>3, <2>4 DEF Released, Adds
  <2>6. IsRow(b)
    BY GroundRows DEF Adds
  <2>7. x.id = b.id
    BY <2>4, <2>6 DEF IsRow, RowFields
  <2> QED
    BY <1>1, <2>5, <2>7
<1>2. ASSUME NEW b \in Over(U, S), b.t = "asset", b.tag # None
      PROVE  (b = m /\ m \in S) \/ (b \in U /\ \A y \in S : y.id # b.id)
  BY <1>0, <1>2 DEF Over, Kind
<1>3. ASSUME NEW a \in Over(U, S), NEW b \in Over(U, S), a.t = "asset", b.t = "asset", a.tag = b.tag, a.tag # None
      PROVE  a = b
  <2>1. CASE a \in U /\ b \in U
    BY <1>3, <2>1 DEF TagOnce
  <2>2. CASE a = m /\ m \in S /\ b \in U /\ \A y \in S : y.id # b.id
    BY <1>1, <1>3, <2>2
  <2>3. CASE b = m /\ m \in S /\ a \in U /\ \A y \in S : y.id # a.id
    BY <1>1, <1>3, <2>3
  <2> QED
    BY <1>2, <1>3, <2>1, <2>2, <2>3
<1> QED
  BY <1>3 DEF TagOnce

(* The tag of an asset stays with its client and site. *)
LEMMA AddsTags ==
    ASSUME NEW D, NEW r, NEW q, NEW n, NEW T, NEW P, NEW V, NEW o, NEW g, NEW site, NEW tag, NEW m, NEW A, NEW S,
           Adds(D, r, q, n, T, P, V, o, g, site, tag, m, A, S), TagsFit(V)
    PROVE  TagsFit(Over(V, S))
<1>0. \A y \in S : Kind(P, V, r, n, o, g, m, A, y)
  BY AddsKinds
<1>1. g # NoRow => g \in Over(V, S) /\ g.t = "tag" /\ g.client = site.client /\ g.site = site.id /\ TagFits(g, V)
  BY AddsThere DEF Adds
<1>2. ASSUME NEW b \in V, b.t = "asset", b.tag # None
      PROVE  \E x \in Over(V, S) : x.t = "tag" /\ x.id = b.tag /\ x.client = b.client /\ x.site = b.site
  <2>1. PICK x \in V : x.t = "tag" /\ x.id = b.tag /\ x.client = b.client /\ x.site = b.site
    BY <1>2 DEF TagsFit
  <2>2. CASE \A y \in S : y.id # x.id
    <3>1. x \in Over(V, S)
      BY <2>2 DEF Over
    <3> QED
      BY <2>1, <3>1
  <2>3. ASSUME NEW y \in S, y.id = x.id
        PROVE  \E z \in Over(V, S) : z.t = "tag" /\ z.id = b.tag /\ z.client = b.client /\ z.site = b.site
    <3>1. IsRow(x) /\ IsRow(y)
      BY <1>0, GroundRows DEF Adds, Kind, Writes
    <3>2. y.t = "tag"
      BY <2>1, <2>3, <3>1 DEF IsRow
    <3>3. y = g /\ g # NoRow
      BY <1>0, <3>2 DEF Kind
    <3>4. g.client = b.client /\ g.site = b.site
      BY <1>1, <1>2, <2>1, <2>3, <3>3 DEF TagFits
    <3> QED
      BY <1>1, <2>1, <2>3, <3>3, <3>4
  <2> QED
    BY <2>2, <2>3
<1>3. ASSUME NEW b \in Over(V, S), b.t = "asset", b.tag # None
      PROVE  \E x \in Over(V, S) : x.t = "tag" /\ x.id = b.tag /\ x.client = b.client /\ x.site = b.site
  <2>1. CASE b \in V
    BY <1>2, <1>3, <2>1
  <2>2. CASE b \in S
    <3>1. b = m /\ m \in A
      BY <1>0, <1>3, <2>2 DEF Kind
    <3>2. IsMade(P, r, n, o, site, tag, m)
      BY <3>1 DEF Adds
    <3>3. m.tag = tag /\ m.client = site.client /\ m.site = site.id
      BY <3>2 DEF IsMade
    <3>4. g # NoRow /\ g.id = tag
      BY <1>3, <3>1, <3>3 DEF Adds
    <3> QED
      BY <1>1, <3>1, <3>3, <3>4
  <2> QED
    BY <2>1, <2>2 DEF Over
<1> QED
  BY <1>3 DEF TagsFit

(* A product that is there before it is written is written with a legacy   *)
(* id of its own.                                                          *)
LEMMA AddsProduct ==
    ASSUME NEW D, NEW r, NEW q, NEW n, NEW T, NEW P, NEW V, NEW o, NEW g, NEW site, NEW tag, NEW m, NEW A, NEW S,
           Adds(D, r, q, n, T, P, V, o, g, site, tag, m, A, S), NEW x \in S, x.t = "product"
    PROVE  /\ x = o.product /\ x \in o.rows /\ x # NoRow
           /\ \/ x.legacy = None /\ \A b \in P : b.id # x.id
              \/ x.legacy # None /\ \A y \in V : y.t = "product" => y.legacy # x.legacy
<1>1. Kind(P, V, r, n, o, g, m, A, x)
  BY AddsKinds
<1>2. x \in o.rows /\ x \notin V
  BY <1>1 DEF Kind
<1>3. NoRow.t = "none"
  BY DEF NoRow, New
<1>4. Writes(P, r, q, x)
  BY <1>2 DEF Adds, Offers
<1> QED
  BY <1>2, <1>3, <1>4 DEF Adds, Offers, Writes

(* Products with legacy ids stay, and each legacy id stays with one. *)
LEMMA AddsProducts ==
    ASSUME NEW D, NEW r, NEW q, NEW n, NEW T, NEW P, NEW V, NEW o, NEW g, NEW site, NEW tag, NEW m, NEW A, NEW S,
           Adds(D, r, q, n, T, P, V, o, g, site, tag, m, A, S)
    PROVE  /\ ProductsOf(V) \subseteq ProductsOf(Over(V, S))
           /\ ProductOnce(V) => ProductOnce(Over(V, S))
<1>1. \A x \in S : x.t = "product" =>
           /\ x = o.product
           /\ \/ x.legacy = None /\ \A b \in P : b.id # x.id
              \/ x.legacy # None /\ \A y \in V : y.t = "product" => y.legacy # x.legacy
  BY AddsProduct
<1>2. \A x \in S : IsRow(x)
  BY AddsOnce DEF AllRows
<1>3. \A y \in V : IsRow(y) /\ Bare(y) \in P /\ Bare(y).id = y.id
  BY GroundRows DEF Adds
<1>4. ASSUME NEW y \in V, y.t = "product", y.legacy # None
      PROVE  \E z \in Over(V, S) : z.t = "product" /\ z.id = y.id /\ z.legacy # None
  <2>1. CASE \A x \in S : x.id # y.id
    <3>1. y \in Over(V, S)
      BY <2>1 DEF Over
    <3> QED
      BY <1>4, <3>1
  <2>2. ASSUME NEW x \in S, x.id = y.id
        PROVE  \E z \in Over(V, S) : z.t = "product" /\ z.id = y.id /\ z.legacy # None
    <3>1. x.t = "product"
      BY <1>2, <1>3, <1>4, <2>2 DEF IsRow
    <3>2. x.legacy # None
      BY <1>1, <1>3, <2>2, <3>1
    <3>3. x \in Over(V, S)
      BY DEF Over
    <3> QED
      BY <2>2, <3>1, <3>2, <3>3
  <2> QED
    BY <2>1, <2>2
<1>5. ProductsOf(V) \subseteq ProductsOf(Over(V, S))
  <2> SUFFICES ASSUME NEW i \in ProductsOf(V) PROVE i \in ProductsOf(Over(V, S))
    OBVIOUS
  <2>1. PICK y \in V : y.t = "product" /\ y.legacy # None /\ i = y.id
    BY DEF ProductsOf
  <2>2. PICK z \in Over(V, S) : z.t = "product" /\ z.id = y.id /\ z.legacy # None
    BY <1>4, <2>1
  <2> QED
    BY <2>1, <2>2 DEF ProductsOf
<1>6. ASSUME ProductOnce(V), NEW x \in Over(V, S), NEW y \in Over(V, S), x.t = "product", y.t = "product",
             x.legacy = y.legacy, x.legacy # None
      PROVE  x = y
  <2>1. (x \in V \/ x \in S) /\ (y \in V \/ y \in S)
    BY DEF Over
  <2>2. CASE x \in V /\ y \in V
    BY <1>6, <2>2 DEF ProductOnce
  <2>3. CASE x \in S /\ y \in S
    BY <1>1, <1>6, <2>3
  <2>4. CASE x \in V /\ y \in S
    BY <1>1, <1>6, <2>4
  <2>5. CASE x \in S /\ y \in V
    BY <1>1, <1>6, <2>5
  <2> QED
    BY <2>1, <2>2, <2>3, <2>4, <2>5
<1> QED
  BY <1>5, <1>6 DEF ProductOnce

(* The rows of an asset fit: it has a site, a category that its client     *)
(* sees or shares, and a product with a legacy id has such a category too. *)
LEMMA AddsSkeleton ==
    ASSUME NEW D, NEW r, NEW q, NEW n, NEW T, NEW P, NEW V, NEW o, NEW g, NEW site, NEW tag, NEW m, NEW A, NEW S,
           Adds(D, r, q, n, T, P, V, o, g, site, tag, m, A, S),
           NEW ov, NEW N, N = ProductsOf(V), Skeleton(P, N, ov), NEW Q, Q = P \cup BareOf(S),
           NEW M, M = ProductsOf(Over(V, S)), NEW c \in LegacyClients, BelongsTo(P, site.client, c),
           ov \/ site.client = q.client,
           A # {} => \E j \in DOMAIN LegacyAssets[c] : m.legacy = LegacyAssets[c][j].id,
           ov \/ A = {} \/ m.legacy = None \/ \A b \in P : ~(b.t = "asset" /\ b.legacy = m.legacy)
    PROVE  Skeleton(Q, M, ov)
<1>0. \A y \in S : Kind(P, V, r, n, o, g, m, A, y)
  BY AddsKinds
<1>1. \A x \in S : x.t = "product" => x = o.product /\ x \in o.rows /\ x # NoRow
  BY AddsProduct
<1>2. N \subseteq M /\ P \subseteq Q
  BY AddsProducts
<1>3. PICK B : B = Bare(m)
  OBVIOUS
<1>4. ASSUME A # {}
      PROVE  /\ B \in Q \ P /\ B.t = "asset" /\ B.client = site.client /\ B.site = site.id
             /\ B.ref = o.product.id /\ B.legacy = m.legacy /\ o.product # NoRow
  <2>1. IsMade(P, r, n, o, site, tag, m) /\ m \in S /\ o.product # NoRow
    BY <1>4 DEF Adds
  <2>2. B \in Q \ P
    BY <1>3, <2>1 DEF IsMade, BareOf
  <2> QED
    BY <1>3, <2>1, <2>2, BareFields DEF IsMade
<1>5. \A y \in o.rows : Bare(y) \in Q
  BY AddsThere
<1>6. ASSUME o.product # NoRow, o.product \in o.rows
      PROVE  \E e \in Q : e.t = "category" /\ e.id = o.product.ref /\ e.client \in {None, q.client}
  <2>1. PICK y \in o.rows : y.t = "category" /\ y.id = o.product.ref /\ y.client \in {None, q.client}
    BY <1>6 DEF Adds, Offers
  <2>2. Bare(y).t = "category" /\ Bare(y).id = o.product.ref /\ Bare(y).client = y.client
    BY <2>1, BareFields
  <2> QED
    BY <1>5, <2>1, <2>2
<1>7. ASSUME NEW b \in Q, b.t = "product", NEW y \in S, y.t = "product", y.id = b.id, ~ov
      PROVE  Shared(b, Q)
  <2>1. y = o.product /\ y \in o.rows /\ o.product # NoRow
    BY <1>1, <1>7
  <2>2. b.ref = y.ref
    <3>1. Bare(y).ref = y.ref /\ Bare(y).id = y.id
      BY <1>7, BareFields
    <3>2. Bare(y) = b
      <4>1. Store(D, q.wrote) /\ P = BareOf(D) \cup BareOf(q.wrote)
        BY DEF Adds, Ground, Held
      <4>2. Fits(P, S)
        BY AddsOnce
      <4>3. Coherent(Q)
        <5>1. PICK W : W = q.wrote
          OBVIOUS
        <5>2. Store(D, Over(W, S)) /\ BareOf(D) \cup BareOf(Over(W, S)) = P \cup BareOf(S)
          BY <4>1, <4>2, <5>1, StoreGrows
        <5> QED
          BY <5>2 DEF Store
      <4>4. Bare(y) \in Q
        BY DEF BareOf
      <4> QED
        BY <1>7, <3>1, <4>3, <4>4 DEF Coherent
    <3> QED
      BY <3>1, <3>2
  <2>3. PICK e \in Q : e.t = "category" /\ e.id = o.product.ref /\ e.client \in {None, q.client}
    BY <1>6, <2>1
  <2>4. A # {}
    BY <2>1 DEF Adds
  <2>5. B \in Q /\ B.t = "asset" /\ B.ref = b.id /\ B.client = q.client
    BY <1>4, <1>7, <2>1, <2>4
  <2> QED
    BY <2>1, <2>2, <2>3, <2>5 DEF Shared
<1>8. ASSUME NEW b \in Q, b.t = "product", b \notin P \/ (b.id \in M /\ b.id \notin N) PROVE ov \/ Shared(b, Q)
  <2>1. \E y \in S : y.t = "product" /\ y.id = b.id
    <3>1. CASE b \notin P
      <4>1. PICK y \in S : b = Bare(y)
        BY <3>1 DEF BareOf
      <4> QED
        BY <1>8, <4>1, BareFields
    <3>2. CASE b.id \in M /\ b.id \notin N
      <4>1. PICK x \in Over(V, S) : x.t = "product" /\ x.legacy # None /\ x.id = b.id
        BY <3>2 DEF ProductsOf
      <4>2. x \notin V
        BY <3>2, <4>1 DEF ProductsOf
      <4> QED
        BY <4>1, <4>2 DEF Over
    <3> QED
      BY <1>8, <3>1, <3>2
  <2> QED
    BY <1>7, <1>8, <2>1
<1>9. ASSUME A # {} PROVE RowFits(B, Q, M, ov)
  <2>1. Housed(B, Q)
    <3>1. Bare(site) \in P
      BY GroundRows DEF Adds
    <3>2. Bare(site).t = "site" /\ Bare(site).id = site.id /\ Bare(site).client = site.client
      BY BareFields DEF Adds
    <3> QED
      BY <1>2, <1>4, <1>9, <3>1, <3>2 DEF Housed
  <2>2. Traced(B, Q)
    <3>1. BelongsTo(Q, B.client, c)
      <4>1. BelongsTo(P, B.client, c)
        BY <1>4, <1>9
      <4> QED
        BY <1>2, <4>1, MoreBelong
    <3>2. \E j \in DOMAIN TableOf(B.t)[c] : B.legacy = TableOf(B.t)[c][j].id
      BY <1>4, <1>9 DEF TableOf
    <3> QED
      BY <3>1, <3>2 DEF Traced
  <2>3. ASSUME ~ov PROVE Catalogued(B, Q, M)
    <3>1. B.ref = o.product.id /\ B.client = q.client /\ o.product # NoRow
      BY <1>4, <1>9, <2>3
    <3>2. PICK p : p = Bare(o.product)
      OBVIOUS
    <3>3. p.t = "product" /\ p.id = o.product.id /\ p.ref = o.product.ref
      BY <3>1, <3>2, BareFields DEF Adds, Offers
    <3>4. CASE o.product \in o.rows
      <4>1. PICK e \in Q : e.t = "category" /\ e.id = o.product.ref /\ e.client \in {None, q.client}
        BY <1>6, <3>1, <3>4
      <4>2. p \in Q
        BY <1>5, <3>2, <3>4
      <4> QED
        BY <3>1, <3>3, <4>1, <4>2 DEF Catalogued
    <3>5. CASE o.product \in V /\ o.product.legacy # None
      <4>1. p \in P
        BY <3>2, <3>5, GroundRows DEF Adds
      <4>2. p.id \in N
        BY <3>1, <3>3, <3>5 DEF ProductsOf, Adds, Offers
      <4>3. Shared(p, P)
        BY <2>3, <3>3, <4>1, <4>2 DEF Skeleton, RowFits
      <4>4. PICK e \in P : e.t = "category" /\ e.id = p.ref
        BY <4>3 DEF Shared
      <4> QED
        BY <1>2, <3>1, <3>3, <4>1, <4>2, <4>4 DEF Catalogued
    <3> QED
      BY <3>1, <3>4, <3>5 DEF Adds, Offers
  <2> QED
    BY <1>4, <1>9, <2>1, <2>2, <2>3 DEF RowFits
<1>10. ASSUME NEW b \in Q \ P PROVE b.t \in {"category", "maker", "product", "tag"} \/ (b = B /\ A # {})
  <2>1. PICK y \in S : b = Bare(y)
    BY DEF BareOf
  <2>2. b.t = y.t
    BY <2>1, BareFields
  <2>3. y.t = "asset" => y = m /\ A # {}
    BY <1>0, <2>1 DEF Kind
  <2> QED
    BY <1>0, <1>3, <2>1, <2>2, <2>3 DEF Kind
<1>11. ASSUME NEW b \in Q \ P PROVE RowFits(b, Q, M, ov)
  <2>1. CASE b.t = "product"
    BY <1>8, <2>1 DEF RowFits, Numbered
  <2>2. CASE b.t \in {"category", "maker", "tag"}
    BY <2>2 DEF RowFits, Numbered
  <2> QED
    BY <1>9, <1>10, <2>1, <2>2
<1>12. ASSUME ~ov, NEW b \in Q \ P, NEW e \in Q, b.t \in Single, b.t = e.t, b.legacy = e.legacy, b.legacy # None
       PROVE  b = e
  <2>1. b = B /\ A # {}
    BY <1>10, <1>12 DEF Single, Numbered
  <2>2. e \notin P
    BY <1>4, <1>12, <2>1
  <2>3. e = B
    BY <1>4, <1>10, <1>12, <2>1, <2>2
  <2> QED
    BY <2>1, <2>3
<1>13. /\ \A b \in P : b.t = "product" /\ b.id \in M /\ b.id \notin N => ov \/ Shared(b, Q)
       /\ \A b \in Q \ P : RowFits(b, Q, M, ov)
       /\ ov \/ \A b \in Q \ P, e \in Q :
                    b.t \in Single /\ b.t = e.t /\ b.legacy = e.legacy /\ b.legacy # None => b = e
  BY <1>2, <1>8, <1>11, <1>12
<1> QED
  BY <1>2, <1>13, SkeletonGrows

(* The rows of an asset leave an import as it should be. *)
LEMMA AssetMoved ==
    ASSUME NEW D, NEW r, NEW q, NEW n, NEW ov, NEW use, RunSound(D, r, q, ov, use),
           NEW T, NEW P, NEW V, NEW o, NEW g, NEW site, NEW tag, NEW m, NEW A, NEW S,
           Adds(D, r, q, n, T, P, V, o, g, site, tag, m, A, S),
           q.pc = "asset", NEW j, j = q.i, j \in DOMAIN LegacyAssets[q.legacy], T = {<<"asset", j>>},
           NEW a, a = LegacyAssets[q.legacy][j], \A x \in q.seen : x.legacy # a.id,
           BelongsTo(P, site.client, q.legacy),
           A # {} => m.legacy = a.id, A = {} => ~Used(a, use),
           n.pc = "asset", n.wrote = Over(q.wrote, S), n.seen = q.seen, n.routes = q.routes, n.placed = q.placed,
           n.groups = q.groups, n.sites = q.sites
    PROVE  RunSound(D, r, n, ov, use)
<1>1. PICK Q, L, N, M, U : /\ Q = P \cup BareOf(S) /\ L = q.legacy /\ N = ProductsOf(V) /\ M = ProductsOf(Over(V, S))
                           /\ U = q.wrote
  OBVIOUS
<1>2. /\ P = Held(D, q) /\ V = Over(D, q.wrote) /\ Goes(q, n, T) /\ n.legacy = q.legacy /\ n.client = q.client
      /\ Store(D, q.wrote)
  BY DEF Adds, Ground, Goes
<1>3. /\ RunTyped(q) /\ Mine(D, r, q) /\ Refers(P, q) /\ Copied(P, q, use)
      /\ Skeleton(P, N, ov) /\ TagOnce(U)
      /\ ov \/ (AllSeen(P, q) /\ RowsFit(V) /\ Touring(D, P, r, q))
      /\ L \in LegacyClients
  BY <1>1, <1>2 DEF RunSound, RunTyped
<1>4. \A y \in S : Kind(P, V, r, n, o, g, m, A, y)
  BY AddsKinds
<1>5. OneEach(S) /\ AllRows(S) /\ Fits(P, S)
  BY AddsOnce
<1>6. Handles(q, n, T)
  BY <1>2 DEF Goes
<1>7. q.client # None /\ (ov \/ site.client = q.client)
  <2>1. PICK id, other : id = q.client /\ other = site.client
    OBVIOUS
  <2>2. BelongsTo(P, id, L) /\ BelongsTo(P, other, L)
    BY <1>1, <1>3, <2>1 DEF Refers
  <2> QED
    BY <1>3, <2>1, <2>2, ClientIs
<1>8. "asset" \in Numbered /\ TableOf("asset") = LegacyAssets /\ "asset" \notin Later("asset")
  BY DEF Numbered, TableOf, Later
<1>9. ov \/ A = {} \/ m.legacy = None \/ \A b \in P : ~(b.t = "asset" /\ b.legacy = m.legacy)
  <2> SUFFICES ASSUME ~ov, A # {}, m.legacy # None, NEW b \in P, b.t = "asset", b.legacy = m.legacy
               PROVE  FALSE
    OBVIOUS
  <2>1. b.legacy = TableOf("asset")[q.legacy][j].id /\ b.legacy # None
    BY <1>8
  <2>2. "asset" \in Reading("asset") /\ ~Behind(q, "asset", j)
    BY <1>3, <1>8 DEF Reading, Behind, RunTyped
  <2>3. \E y \in q.seen : y.t = "asset" /\ y.legacy = b.legacy
    BY <1>3, <1>8, <2>1, <2>2 DEF AllSeen
  <2> QED
    BY <2>1, <2>3, <1>8
<1>10. Skeleton(Q, M, ov)
  <2>1. BelongsTo(P, site.client, L) /\ (A # {} => \E k \in DOMAIN LegacyAssets[L] : m.legacy = LegacyAssets[L][k].id)
    BY <1>1
  <2> QED
    BY <1>1, <1>3, <1>7, <1>9, <2>1, AddsSkeleton
<1>11. TagOnce(n.wrote)
  <2>1. U \in SUBSET V
    BY <1>1, <1>2 DEF Over
  <2>2. TagOnce(Over(U, S))
    BY <1>3, <2>1, AddsTagOnce
  <2> QED
    BY <1>1, <2>2
<1>12. RowsFit(V) => RowsFit(Over(V, S))
  <2>1. TagOnce(V) => TagOnce(Over(V, S))
    <3>1. V \in SUBSET V
      OBVIOUS
    <3> QED
      BY <3>1, AddsTagOnce
  <2>2. TagsFit(V) => TagsFit(Over(V, S))
    BY AddsTags
  <2>3. ProductOnce(V) => ProductOnce(Over(V, S))
    BY AddsProducts
  <2> QED
    BY <2>1, <2>2, <2>3 DEF RowsFit
<1>13. ASSUME A # {} PROVE m \in S /\ Bare(m) \in Q /\ Bare(m).t = "asset" /\ Bare(m).legacy = a.id
  <2>1. m \in S /\ m.t = "asset"
    BY <1>13 DEF Adds, IsMade
  <2>2. Bare(m) \in Q
    BY <1>1, <2>1 DEF BareOf
  <2> QED
    BY <1>13, <2>1, <2>2, BareFields
<1>14. Copied(Q, n, use)
  <2>1. \A k : <<"site", k>> \notin T
    OBVIOUS
  <2>2. \A k \in DOMAIN LegacyAssets[q.legacy] :
           <<"asset", k>> \in T /\ Used(LegacyAssets[q.legacy][k], use)
           /\ Located(LegacyAssets[q.legacy][k], q.legacy)
           => \E b \in Q : b.t = "asset" /\ b.legacy = LegacyAssets[q.legacy][k].id
    BY <1>13
  <2>3. P \subseteq Q /\ q.sites \subseteq n.sites
    BY <1>1
  <2> QED
    BY <1>2, <1>3, <1>6, <2>1, <2>2, <2>3, CopiedOn
<1>15. AllSeen(P, q) => AllSeen(Q, n)
  <2>1. ASSUME NEW b \in Q \ P, NEW u \in Numbered, NEW k \in DOMAIN TableOf(u)[q.legacy],
               b.t = u, b.legacy = TableOf(u)[q.legacy][k].id, b.legacy # None
        PROVE  <<u, k>> \in T
    <3>1. PICK y \in S : b = Bare(y)
      BY <1>1 DEF BareOf
    <3>2. y.t = u
      BY <2>1, <3>1, BareFields
    <3>3. u = "asset" /\ y = m /\ A # {}
      BY <1>1, <1>4, <2>1, <3>1, <3>2 DEF Kind, Numbered
    <3>4. b.legacy = a.id
      BY <1>13, <3>1, <3>3
    <3>5. TableOf("asset")[L][k].id = TableOf("asset")[L][j].id /\ TableOf("asset")[L][k].id # None
      BY <1>1, <1>8, <2>1, <3>3, <3>4
    <3>6. k = j
      BY <1>1, <1>3, <1>8, <2>1, <3>3, <3>5, OneLegacyRow
    <3> QED
      BY <3>3, <3>6
  <2>2. n.legacy = q.legacy /\ n.seen = q.seen /\ P \subseteq Q /\ \A u \in Numbered : n.pc \in Reading(u) => q.pc \in Reading(u)
    BY <1>1, <1>2
  <2> QED
    BY <1>6, <2>1, <2>2, AllSeenOn
<1>16. Touring(D, P, r, q) => Touring(D, Q, r, n)
  <2>1. \A y \in S : y.t # "point"
    BY <1>4 DEF Kind
  <2>2. P \subseteq Q
    BY <1>1
  <2> QED
    BY <1>2, <2>1, <2>2, TouringOn
<1>17. \A y \in S : (Bare(y) \in P \/ Own(r, n, Bare(y))) /\ OwnSays(r, n, y)
  BY <1>4 DEF Kind, Writes
<1>18. \A x \in n.seen : x \in q.seen /\ x.t = "asset"
  BY <1>3 DEF Refers
<1>19. MovesWell(D, r, q, n, ov, use, S, P, Q, V, T)
  BY <1>1, <1>2, <1>3, <1>5, <1>10, <1>11, <1>12, <1>14, <1>15, <1>16, <1>17, <1>18 DEF MovesWell
<1> QED
  BY <1>19, Moves

(* A site the import knows is there, of the legacy client. *)
LEMMA SiteKnown ==
    ASSUME NEW D, NEW r, NEW q, NEW P, NEW V, Ground(D, r, q, P, V), Refers(P, q),
           NEW site \in V, NEW key, <<key, site.id>> \in q.sites
    PROVE  site.t = "site" /\ BelongsTo(P, site.client, q.legacy)
<1>1. PICK x : x = <<key, site.id>>
  OBVIOUS
<1>2. PICK b \in P : b.t = "site" /\ b.id = x[2] /\ BelongsTo(P, b.client, q.legacy)
  BY <1>1 DEF Refers, Leads
<1>3. P = BareOf(V) /\ OneEach(V)
  BY ViewBare DEF Ground, Held
<1>4. PICK y \in V : b = Bare(y)
  BY <1>3 DEF BareOf
<1>5. y.id = site.id
  BY <1>1, <1>2, <1>4, BareFields
<1>6. y = site
  BY <1>3, <1>5 DEF OneEach
<1>7. site.t = "site"
  BY <1>2, <1>4, <1>6, BareFields
<1>8. b.client = site.client
  BY <1>4, <1>6, <1>7, BareFields
<1> QED
  BY <1>2, <1>7, <1>8

(* The tag, the rows and the asset an import comes up with. *)
Handed(r, V, a, site, o, g, tag, found, m) ==
    /\ tag = IF g = NoRow THEN None ELSE g.id
    /\ found = (o.rows \cup ({g} \ {NoRow})) \ V
    /\ m = [New("asset", r, a.no) EXCEPT !.legacy = a.id, !.client = site.client,
                         !.site = site.id, !.ref = o.product.id, !.tag = tag]
WroteOf(q, n, V, o, tag, found, m) ==
    n.wrote = IF o.product = NoRow THEN Over(q.wrote, found)
              ELSE Over(Over(q.wrote, found), Released(V, tag) \cup {m})
NextAsset(q, n) ==
    /\ DOMAIN n = DOMAIN Fresh /\ n.pc = "asset" /\ n.legacy = q.legacy /\ n.client = q.client /\ n.i = q.i + 1
    /\ n.seen = q.seen /\ n.routes = q.routes /\ n.placed = q.placed /\ n.groups = q.groups /\ n.sites = q.sites

(* A legacy asset that is not there, at a site that is. *)
Placing(D, r, q, ov, use, j, a, V, s) ==
    /\ RunSound(D, r, q, ov, use) /\ Now(r, q) /\ q.pc = "asset" /\ V = Over(D, q.wrote)
    /\ j = q.i /\ j \in DOMAIN LegacyAssets[q.legacy] /\ a = LegacyAssets[q.legacy][j]
    /\ s \in V /\ <<a.site, s.id>> \in q.sites /\ \A x \in q.seen : x.legacy # a.id
Choosing(r, V, a, s, o, g) == o \in GetOrMigrateProduct(r, V, a) /\ g \in GetOrMigrateTag(r, V, a.tag, s)

(* A legacy asset that was not there is handled: with its tag and its      *)
(* product found or made, it is made where there is a product.             *)
LEMMA AssetMade ==
    ASSUME NEW D, NEW r \in Runs, NEW q, NEW n, NEW ov, NEW use, NEW j, NEW a, NEW V, NEW site,
           Placing(D, r, q, ov, use, j, a, V, site), NEW o, NEW g, Choosing(r, V, a, site, o, g),
           NEW tag, NEW found, NEW m, Handed(r, V, a, site, o, g, tag, found, m),
           WroteOf(q, n, V, o, tag, found, m), NextAsset(q, n)
    PROVE  /\ RunSound(D, r, n, ov, use)
           /\ o.product # NoRow => /\ Bare(m) \in Held(D, n) /\ m.t = "asset"
                                   /\ BelongsTo(Held(D, n), m.client, q.legacy)
<1> SUFFICES ASSUME RunSound(D, r, q, ov, use), Now(r, q), q.pc = "asset", j = q.i,
                    j \in DOMAIN LegacyAssets[q.legacy], a = LegacyAssets[q.legacy][j],
                    \A x \in q.seen : x.legacy # a.id, V = Over(D, q.wrote), site \in V,
                    <<a.site, site.id>> \in q.sites, o \in GetOrMigrateProduct(r, V, a),
                    g \in GetOrMigrateTag(r, V, a.tag, site)
             PROVE  /\ RunSound(D, r, n, ov, use)
                    /\ o.product # NoRow => /\ Bare(m) \in Held(D, n) /\ m.t = "asset"
                                            /\ BelongsTo(Held(D, n), m.client, q.legacy)
  BY DEF Placing, Choosing
<1>1. PICK P, T, A, S, M : /\ P = Held(D, q) /\ T = {<<"asset", j>>}
                           /\ A = IF o.product = NoRow THEN {} ELSE Released(V, tag) \cup {m}
                           /\ S = found \cup A /\ M = Bare(m)
  OBVIOUS
<1>2. /\ RunTyped(q) /\ Store(D, q.wrote) /\ Mine(D, r, q) /\ Refers(P, q) /\ Skeleton(P, ProductsOf(V), ov)
  BY <1>1 DEF RunSound
<1>3. Ground(D, r, q, P, V)
  BY <1>1, <1>2 DEF Ground
<1>4. site.t = "site" /\ BelongsTo(P, site.client, q.legacy)
  BY <1>2, <1>3, SiteKnown
<1>5. "asset" \in Numbered /\ TableOf("asset") = LegacyAssets
  BY DEF Numbered, TableOf
<1>6. RunTyped(n) /\ n.pc # "client" /\ q.pc # "client"
  BY <1>2 DEF RunTyped, NextAsset
<1>7. Handles(q, n, T)
  <2>1. PICK t : t = "asset"
    OBVIOUS
  <2> QED
    <3>1. RunTyped(q) /\ t \in Numbered /\ q.pc = t /\ n.pc = t /\ n.i = q.i + 1
      BY <1>2, <1>5, <2>1 DEF NextAsset
    <3>2. Handles(q, n, {<<t, q.i>>})
      BY <3>1, HandlesOne
    <3>3. T = {<<t, q.i>>}
      BY <1>1, <2>1
    <3> QED
      BY <3>2, <3>3
<1>8. Goes(q, n, T)
  BY <1>2, <1>6, <1>7 DEF Goes, NextAsset
<1>9. Offers(o, V, P, r, q) /\ \A u : Used(a, u) => o.product # NoRow
  BY <1>3, ProductGiven
<1>10. g = NoRow \/ (/\ g.t = "tag" /\ g.client = site.client /\ g.site = site.id
                     /\ Writes(P, r, q, g) /\ TagFits(g, V))
  <2>1. PICK N, k : N = ProductsOf(V) /\ k = a.tag
    OBVIOUS
  <2> QED
    BY <1>2, <1>3, <1>4, <2>1, TagGiven
<1>11. /\ IsRow(m) /\ m.t = "asset" /\ m.id = <<r, "asset", a.no>> /\ m.legacy = a.id /\ m.client = site.client
       /\ m.site = site.id /\ m.ref = o.product.id /\ m.tag = tag
  BY DEF Handed, New, IsRow, RowFields, Tables
<1>12. M.t = "asset" /\ M.id = <<r, "asset", a.no>>
  BY <1>1, <1>11, BareFields
<1>13. \A b \in P : b.id # m.id
  <2>1. a.no = TableOf("asset")[q.legacy][j].no /\ j \in DOMAIN TableOf("asset")[q.legacy]
    BY <1>5
  <2> QED
    <3>1. PICK t : t = "asset"
      OBVIOUS
    <3>2. t \in Numbered /\ q.pc = t /\ j \in DOMAIN TableOf(t)[q.legacy]
      BY <1>5, <2>1, <3>1
    <3>3. \A b \in P : b.id # <<r, t, TableOf(t)[q.legacy][j].no>>
      BY <1>1, <1>2, <3>2, KeyFree
    <3> QED
      BY <1>11, <2>1, <3>1, <3>3
<1>14. Own(r, n, M)
  <2>1. <<"asset", j>> \in T
    BY <1>1
  <2>2. Behind(n, "asset", j)
    BY <1>5, <1>7, <2>1 DEF Handles
  <2>3. M.id = <<r, M.t, M.id[3]>> /\ M.id[3] = TableOf("asset")[n.legacy][j].no /\ j \in DOMAIN TableOf("asset")[n.legacy]
    BY <1>5, <1>12 DEF NextAsset
  <2> QED
    BY <1>12, <2>2, <2>3 DEF Own
<1>15. IsMade(P, r, n, o, site, tag, m)
  <2>1. OwnSays(r, n, m)
    BY <1>11 DEF OwnSays
  <2>2. M \notin P
    BY <1>11, <1>12, <1>13
  <2> QED
    BY <1>1, <1>11, <1>13, <1>14, <2>1, <2>2 DEF IsMade, Writes
<1>16. Adds(D, r, q, n, T, P, V, o, g, site, tag, m, A, S)
  BY <1>1, <1>3, <1>4, <1>8, <1>9, <1>10, <1>15 DEF Adds, Handed
<1>17. n.wrote = Over(q.wrote, S)
  <2>1. CASE o.product = NoRow
    <3>1. S = found
      BY <1>1, <2>1
    <3> QED
      BY <2>1, <3>1 DEF WroteOf
  <2>2. CASE o.product # NoRow
    <3>1. PICK U : U = q.wrote
      OBVIOUS
    <3>2. n.wrote = Over(U, Over(found, A))
      <4>1. n.wrote = Over(Over(U, found), A)
        BY <1>1, <2>2, <3>1 DEF WroteOf
      <4> QED
        BY <4>1, OverOver
    <3>3. \A x \in found, y \in A : x.id # y.id
      <4>1. AllRows(S) /\ OneEach(S)
        BY <1>16, AddsOnce
      <4>2. \A y \in S : Kind(P, V, r, n, o, g, m, A, y)
        BY <1>16, AddsKinds
      <4> SUFFICES ASSUME NEW x \in found, NEW y \in A, x.id = y.id PROVE FALSE
        OBVIOUS
      <4>3. x \in S /\ y \in S
        BY <1>1
      <4>4. x = y
        BY <4>1, <4>3 DEF OneEach
      <4>5. y.t = "asset"
        <5>1. y = m \/ y \in Released(V, tag)
          BY <1>1, <2>2
        <5>2. ASSUME y \in Released(V, tag) PROVE y.t = "asset"
          <6>1. PICK z \in V : z.t = "asset" /\ y = [z EXCEPT !.tag = None]
            BY <5>2 DEF Released, Table
          <6>2. IsRow(z)
            BY <1>3, GroundRows
          <6> QED
            BY <6>1, <6>2 DEF IsRow, RowFields
        <5> QED
          BY <1>11, <5>1, <5>2
      <4>6. x.t # "asset"
        <5>1. x \in o.rows \/ x = g
          BY DEF Handed
        <5>2. x \in o.rows => x.t # "asset"
          BY <1>9 DEF Offers
        <5>3. x = g => x.t # "asset"
          <6>1. NoRow.t = "none"
            BY DEF NoRow, New
          <6> QED
            BY <1>10, <6>1
        <5> QED
          BY <5>1, <5>2, <5>3
      <4> QED
        BY <4>4, <4>5, <4>6
    <3>4. Over(found, A) = S
      BY <1>1, <3>3 DEF Over
    <3> QED
      BY <3>1, <3>2, <3>4
  <2> QED
    BY <2>1, <2>2
<1>18. (A # {} => m.legacy = a.id) /\ (A = {} => ~Used(a, use))
  BY <1>1, <1>9, <1>11
<1>19. RunSound(D, r, n, ov, use)
  BY <1>1, <1>4, <1>16, <1>17, <1>18, AssetMoved DEF NextAsset
<1>20. Held(D, n) = P \cup BareOf(S)
  <2>1. PICK W : W = q.wrote
    OBVIOUS
  <2>2. Fits(P, S)
    BY <1>16, AddsOnce
  <2>3. Store(D, W) /\ P = BareOf(D) \cup BareOf(W)
    BY <1>1, <1>2, <2>1 DEF Held
  <2>4. BareOf(D) \cup BareOf(Over(W, S)) = P \cup BareOf(S)
    BY <2>2, <2>3, StoreGrows
  <2> QED
    BY <1>17, <2>1, <2>4 DEF Held
<1>21. o.product # NoRow => Bare(m) \in Held(D, n)
  <2>1. o.product # NoRow => m \in S
    BY <1>1
  <2> QED
    BY <1>20, <2>1 DEF BareOf
<1>22. BelongsTo(Held(D, n), m.client, q.legacy)
  <2>1. PICK Q : Q = Held(D, n)
    OBVIOUS
  <2>2. P \subseteq Q /\ BelongsTo(P, m.client, q.legacy)
    BY <1>4, <1>11, <1>20, <2>1
  <2> QED
    BY <2>1, <2>2, MoreBelong
<1> QED
  BY <1>11, <1>19, <1>21, <1>22
=============================================================================
