----------------------- MODULE LegacyMigrationProofs ------------------------
(***************************************************************************)
(* Proofs about imports from the legacy system, for any legacy rows, any   *)
(* number of imports and sockets, and any faults of the transactions: that *)
(* every step of an import, its commit, and what happens around it keep    *)
(* ImportInv (LegacyRowsProofs), and what imports leave behind.            *)
(***************************************************************************)
EXTENDS LegacyRowsProofs
-----------------------------------------------------------------------------
(* The tour.                                                               *)

(* Routes are loaded once they are asked for and none is known. *)
LEMMA RoutesLoaded ==
    ASSUME NEW q, DOMAIN q = DOMAIN Fresh, NEW V, NEW l, l = LoadRoutes(q, V)
    PROVE  /\ DOMAIN l = DOMAIN Fresh /\ l.pc = q.pc /\ l.legacy = q.legacy /\ l.client = q.client /\ l.i = q.i
           /\ l.wrote = q.wrote /\ l.seen = q.seen /\ l.sites = q.sites /\ l.groups = q.groups
           /\ q.placed \subseteq l.placed
           /\ q.routes # {} => l.routes = q.routes
           /\ q.routes = {} =>
                /\ l.routes = {<<x.site, x.id>> : x \in {y \in Table(V, "route") : y.client = q.client}}
                /\ \A x, z \in V : x.t = "route" /\ x.client = q.client /\ z.t = "point" /\ z.site = x.id
                                   => z.ref \in l.placed
BY DEF LoadRoutes, Fresh, Table

(* What a point and its route look like. *)
IsPoint(P, r, x, route, y) ==
    /\ IsRow(y) /\ y.t = "point" /\ y.id = <<r, "point", x.id>> /\ y.ref = x.id /\ y.site = route
TourRow(P, r, q, x, route, y) ==
    \/ IsPoint(P, r, x, route, y)
    \/ IsRow(y) /\ y.t = "route" /\ y.id = <<r, "route", x.site>> /\ y.id = route /\ y.client = q.client

(* The rows S of a point: the point, and its route where it was missing. *)
Tours(D, r, q, n, P, V, x, l, route, S) ==
    /\ Ground(D, r, q, P, V) /\ Bare(x) \in P /\ x.t = "asset" /\ x.id \notin q.placed
    /\ l = LoadRoutes(q, V)
    /\ \A y \in S : TourRow(P, r, q, x, route, y)
    /\ \E y \in S : IsPoint(P, r, x, route, y)
    /\ OneEach(S)
    /\ \/ \E y \in S : y.t = "route" /\ y.id = route /\ y.client = q.client
       \/ \E p \in l.routes : p[2] = route
    /\ n.routes = l.routes \/ \E key : n.routes = l.routes \cup {<<key, route>>}
    /\ n.routes # {} /\ n.placed = l.placed \cup {x.id} /\ n.wrote = Over(q.wrote, S)
    /\ DOMAIN n = DOMAIN Fresh /\ n.pc = q.pc /\ n.legacy = q.legacy /\ n.client = q.client /\ n.i = q.i
    /\ n.seen = q.seen /\ n.sites = q.sites /\ n.groups = q.groups

(* The move is one of these. *)
LEMMA ToursOne ==
    ASSUME NEW D, NEW r \in Runs, NEW q, NEW P, NEW V, Ground(D, r, q, P, V), DOMAIN q = DOMAIN Fresh,
           NEW x, Bare(x) \in P, x.t = "asset", NEW n \in MigrateRouteAssignment(r, q, V, x)
    PROVE  n = q \/ \E l, route, S : Tours(D, r, q, n, P, V, x, l, route, S)
<1>1. PICK l : l = LoadRoutes(q, V)
  OBVIOUS
<1>2. PICK known : known = {p \in l.routes : p[1] = x.site}
  OBVIOUS
<1>3. PICK made : made = [New("route", r, x.site) EXCEPT !.site = x.site, !.client = q.client]
  OBVIOUS
<1>4. IsRow(made) /\ made.t = "route" /\ made.id = <<r, "route", x.site>> /\ made.client = q.client
  BY <1>3 DEF New, IsRow, RowFields, Tables
<1>5. /\ DOMAIN l = DOMAIN Fresh /\ l.pc = q.pc /\ l.legacy = q.legacy /\ l.client = q.client /\ l.i = q.i
      /\ l.wrote = q.wrote /\ l.seen = q.seen /\ l.sites = q.sites /\ l.groups = q.groups
  BY <1>1, RoutesLoaded
<1>6. CASE x.id \in q.placed
  <2>1. n = q
    BY <1>6 DEF MigrateRouteAssignment
  <2> QED
    BY <2>1
<1>7. CASE x.id \notin q.placed /\ known = {}
  <2>1. PICK point : point = [New("point", r, x.id) EXCEPT !.site = made.id, !.ref = x.id]
    OBVIOUS
  <2>2. IsPoint(P, r, x, made.id, point)
    BY <2>1 DEF New, IsRow, RowFields, Tables, IsPoint
  <2>3. n = [l EXCEPT !.routes = @ \cup {<<x.site, made.id>>}, !.placed = @ \cup {x.id},
                      !.wrote = Over(@, {made, point})]
    BY <1>1, <1>2, <1>3, <1>7, <2>1 DEF MigrateRouteAssignment
  <2>4. /\ n.routes = l.routes \cup {<<x.site, made.id>>} /\ n.placed = l.placed \cup {x.id}
        /\ n.wrote = Over(q.wrote, {made, point})
        /\ DOMAIN n = DOMAIN Fresh /\ n.pc = q.pc /\ n.legacy = q.legacy /\ n.client = q.client /\ n.i = q.i
        /\ n.seen = q.seen /\ n.sites = q.sites /\ n.groups = q.groups
    BY <1>5, <2>3 DEF Fresh
  <2>5. PICK S : S = {made, point}
    OBVIOUS
  <2>6. OneEach(S)
    <3>1. made.id # point.id
      BY <1>4, <2>2 DEF IsPoint, IsRow
    <3> QED
      BY <2>5, <3>1 DEF OneEach
  <2>7. \A y \in S : TourRow(P, r, q, x, made.id, y)
    BY <1>4, <2>2, <2>5 DEF TourRow
  <2>8. n.routes # {}
    BY <2>4
  <2>9. Tours(D, r, q, n, P, V, x, l, made.id, S)
    BY <1>1, <1>4, <1>7, <2>2, <2>4, <2>5, <2>6, <2>7, <2>8 DEF Tours
  <2> QED
    BY <2>9
<1>8. CASE x.id \notin q.placed /\ known # {}
  <2>1. PICK p \in known : n = [l EXCEPT !.placed = @ \cup {x.id},
                        !.wrote = Over(@, {[New("point", r, x.id) EXCEPT !.site = p[2], !.ref = x.id]})]
    BY <1>1, <1>2, <1>8 DEF MigrateRouteAssignment
  <2>2. PICK point : point = [New("point", r, x.id) EXCEPT !.site = p[2], !.ref = x.id]
    OBVIOUS
  <2>3. IsPoint(P, r, x, p[2], point)
    BY <2>2 DEF New, IsRow, RowFields, Tables, IsPoint
  <2>4. PICK S : S = {point}
    OBVIOUS
  <2>5. /\ n.routes = l.routes /\ n.placed = l.placed \cup {x.id} /\ n.wrote = Over(q.wrote, S)
        /\ DOMAIN n = DOMAIN Fresh /\ n.pc = q.pc /\ n.legacy = q.legacy /\ n.client = q.client /\ n.i = q.i
        /\ n.seen = q.seen /\ n.sites = q.sites /\ n.groups = q.groups
    BY <1>5, <2>1, <2>2, <2>4 DEF Fresh
  <2>6. p \in l.routes /\ n.routes # {}
    BY <1>2, <2>5
  <2>7. OneEach(S) /\ \A y \in S : TourRow(P, r, q, x, p[2], y)
    BY <2>3, <2>4 DEF OneEach, TourRow
  <2>8. Tours(D, r, q, n, P, V, x, l, p[2], S)
    BY <1>1, <1>8, <2>3, <2>4, <2>5, <2>6, <2>7 DEF Tours
  <2> QED
    BY <2>8
<1> QED
  BY <1>6, <1>7, <1>8

(* The rows of a point may be written. *)
LEMMA TourWrites ==
    ASSUME NEW D, NEW r, NEW q, NEW n, NEW P, NEW V, NEW x, NEW l, NEW route, NEW S,
           Tours(D, r, q, n, P, V, x, l, route, S), NEW T, Goes(q, n, T), NEW y \in S
    PROVE  /\ Writes(P, r, n, y) /\ y.t \in {"point", "route"}
           /\ y.t = "point" => y.id[1] = r /\ y.ref = x.id /\ y.site = route
<1>1. PICK B : B = Bare(y)
  OBVIOUS
<1>2. CASE IsPoint(P, r, x, route, y)
  <2>1. IsRow(y) /\ y.t = "point" /\ y.id = <<r, "point", x.id>> /\ y.ref = x.id /\ y.site = route
    BY <1>2 DEF IsPoint
  <2>2. B.t = "point" /\ B.id = <<r, "point", x.id>> /\ B.ref = x.id
    BY <1>1, <2>1, BareFields
  <2>3. Own(r, n, B)
    BY <2>2 DEF Own, Numbered, Tours
  <2>4. \A b \in P : b.id # y.id
    <3> SUFFICES ASSUME NEW b \in P, b.id = <<r, "point", x.id>> PROVE FALSE
      BY <2>1
    <3>1. Own(r, q, b) /\ b.t = "point"
      BY OwnOnly, KeyTable DEF Tours, Ground
    <3>2. x.id \in q.placed
      BY <3>1 DEF Own
    <3> QED
      BY <3>2 DEF Tours
  <2> QED
    BY <1>1, <2>1, <2>3, <2>4 DEF Writes, OwnSays
<1>3. CASE IsRow(y) /\ y.t = "route" /\ y.id = <<r, "route", x.site>> /\ y.client = q.client
  <2>1. B.t = "route" /\ B.id = <<r, "route", x.site>> /\ B.client = q.client
    BY <1>1, <1>3, BareFields
  <2>2. Own(r, q, B)
    BY <2>1 DEF Own, Numbered
  <2>3. Bare(y) \in P \/ \A b \in P : b.id # y.id
    BY <1>1, <1>3, <2>2, KeyKept DEF Tours
  <2>4. Writes(P, r, q, y)
    BY <1>1, <1>3, <2>2, <2>3 DEF Writes, OwnSays
  <2> QED
    BY <1>3, <2>4, WritesOn
<1> QED
  BY <1>2, <1>3 DEF Tours, TourRow

(* Where the routes are loaded for the first time, everything that is      *)
(* committed on a tour of the client is known to be placed.                *)
LEMMA ToursPlaced ==
    ASSUME NEW D, NEW r, NEW q, NEW n, NEW P, NEW V, NEW x, NEW l, NEW route, NEW S,
           Tours(D, r, q, n, P, V, x, l, route, S), Touring(D, P, r, q), DOMAIN q = DOMAIN Fresh,
           NEW z \in BareOf(D), NEW w \in BareOf(D), z.t = "point", w.t = "route", w.id = z.site, w.client = q.client
    PROVE  z.ref \in l.placed
<1>1. /\ q.placed \subseteq l.placed
      /\ q.routes = {} => \A e, f \in V : e.t = "route" /\ e.client = q.client /\ f.t = "point" /\ f.site = e.id
                                          => f.ref \in l.placed
  BY RoutesLoaded DEF Tours
<1>2. CASE q.routes # {}
  BY <1>1, <1>2 DEF Touring
<1>3. CASE q.routes = {}
  <2>1. P = BareOf(V) /\ V = Over(D, q.wrote) /\ AllRows(q.wrote) /\ AllRows(D) /\ P = BareOf(D) \cup BareOf(q.wrote)
    BY ViewBare DEF Tours, Ground, Held, Store
  <2>2. PICK f \in D : z = Bare(f)
    BY DEF BareOf
  <2>3. f.t = "point" /\ f.site = z.site /\ f.ref = z.ref
    BY <2>2, BareFields
  <2>4. f \in V
    <3>1. \A y \in q.wrote : y.t # "point"
      BY <1>3 DEF Touring
    <3>2. \A y \in q.wrote : y.id # f.id
      BY <2>1, <2>3, <3>1 DEF AllRows, IsRow
    <3> QED
      BY <2>1, <3>2 DEF Over
  <2>5. PICK e \in V : w = Bare(e)
    <3>1. w \in P
      BY <2>1
    <3> QED
      BY <2>1, <3>1 DEF BareOf
  <2>6. e.t = "route" /\ e.id = w.id /\ e.client = w.client
    BY <2>5, BareFields
  <2> QED
    BY <1>1, <1>3, <2>3, <2>4, <2>6
<1> QED
  BY <1>2, <1>3

(* A route that is there, of the client. *)
RouteAt(Q, q, route) == \E b \in Q : b.t = "route" /\ b.id = route /\ b.client = q.client

(* A point leads to a route of the client. *)
LEMMA ToursRoute ==
    ASSUME NEW D, NEW r, NEW q, NEW n, NEW P, NEW V, NEW x, NEW l, NEW route, NEW S,
           Tours(D, r, q, n, P, V, x, l, route, S), Touring(D, P, r, q), DOMAIN q = DOMAIN Fresh,
           NEW Q, Q = P \cup BareOf(S)
    PROVE  RouteAt(Q, q, route) /\ \A p \in n.routes : RouteAt(Q, q, p[2])
<1> USE DEF RouteAt
<1>1. ASSUME NEW p \in l.routes PROVE \E b \in Q : b.t = "route" /\ b.id = p[2] /\ b.client = q.client
  <2>1. CASE q.routes # {}
    <3>1. p \in q.routes
      BY <2>1, RoutesLoaded DEF Tours
    <3> QED
      BY <3>1 DEF Touring
  <2>2. CASE q.routes = {}
    <3>1. l.routes = {<<e.site, e.id>> : e \in {y \in Table(V, "route") : y.client = q.client}}
      BY <2>2, RoutesLoaded DEF Tours
    <3>2. PICK e \in V : e.t = "route" /\ e.client = q.client /\ p = <<e.site, e.id>>
      BY <3>1 DEF Table
    <3>3. Bare(e) \in P
      BY GroundRows DEF Tours
    <3>4. Bare(e).t = "route" /\ Bare(e).id = p[2] /\ Bare(e).client = q.client
      BY <3>2, BareFields
    <3> QED
      BY <3>3, <3>4
  <2> QED
    BY <2>1, <2>2
<1>2. \E b \in Q : b.t = "route" /\ b.id = route /\ b.client = q.client
  <2>1. CASE \E p \in l.routes : p[2] = route
    BY <1>1, <2>1
  <2>2. ASSUME NEW y \in S, y.t = "route", y.id = route, y.client = q.client
        PROVE  \E b \in Q : b.t = "route" /\ b.id = route /\ b.client = q.client
    <3>1. Bare(y) \in Q
      BY DEF BareOf
    <3>2. Bare(y).t = "route" /\ Bare(y).id = route /\ Bare(y).client = q.client
      BY <2>2, BareFields
    <3> QED
      BY <3>1, <3>2
  <2> QED
    BY <2>1, <2>2 DEF Tours
<1>3. ASSUME NEW p \in n.routes PROVE \E b \in Q : b.t = "route" /\ b.id = p[2] /\ b.client = q.client
  <2>1. p \in l.routes \/ p[2] = route
    BY <1>3 DEF Tours
  <2> QED
    BY <1>1, <1>2, <2>1
<1> QED
  BY <1>2, <1>3

(* Of the points an import makes only one may be for an asset that has one. *)
LEMMA ToursOnce ==
    ASSUME NEW D, NEW r, NEW q, NEW n, NEW P, NEW V, NEW x, NEW l, NEW route, NEW S,
           Tours(D, r, q, n, P, V, x, l, route, S), Touring(D, P, r, q), DOMAIN q = DOMAIN Fresh,
           NEW T, Goes(q, n, T), x.client = q.client,
           \A b \in BareOf(D) : b.t = "point" => OnTour(b, BareOf(D)),
           NEW Q, Q = P \cup BareOf(S)
    PROVE  Touring(D, Q, r, n)
<1>1. \A y \in S : y.t = "point" => y.id[1] = r /\ y.ref = x.id
  BY TourWrites
<1>2. n.client = q.client /\ n.wrote = Over(q.wrote, S) /\ n.routes # {} /\ n.placed = l.placed \cup {x.id}
  BY DEF Tours
<1>3. \A y \in n.wrote : y.t = "point" => y.id[1] = r
  BY <1>1, <1>2 DEF Touring, Over
<1>4. \A p \in n.routes : \E b \in Q : b.t = "route" /\ b.id = p[2] /\ b.client = n.client
  <2>1. \A p \in n.routes : RouteAt(Q, q, p[2])
    BY ToursRoute
  <2> QED
    BY <1>2, <2>1 DEF RouteAt
<1>5. \A z, w \in BareOf(D) :
          z.t = "point" /\ w.t = "route" /\ w.id = z.site /\ w.client = n.client => z.ref \in n.placed
  <2> SUFFICES ASSUME NEW z \in BareOf(D), NEW w \in BareOf(D), z.t = "point", w.t = "route", w.id = z.site,
                      w.client = q.client
               PROVE  z.ref \in l.placed
    BY <1>2
  <2> QED
    BY ToursPlaced
<1>6. \E one : \A y \in n.wrote : y.t = "point" /\ (\E z \in BareOf(D) : z.t = "point" /\ z.ref = y.ref)
                                  => y.ref = one
  <2>1. CASE q.routes = {}
    <3>1. \A y \in n.wrote : y.t = "point" => y.ref = x.id
      BY <1>1, <1>2, <2>1 DEF Touring, Over
    <3> QED
      BY <3>1
  <2>2. CASE q.routes # {}
    <3>1. ~\E z \in BareOf(D) : z.t = "point" /\ z.ref = x.id
      <4> SUFFICES ASSUME NEW z \in BareOf(D), z.t = "point", z.ref = x.id PROVE FALSE
        OBVIOUS
      <4>1. PICK b, a \in BareOf(D) : /\ b.t = "route" /\ b.id = z.site /\ a.t = "asset" /\ a.id = z.ref
                                      /\ b.client = a.client
        BY DEF OnTour
      <4>2. Bare(x).id = x.id /\ Bare(x).client = x.client /\ Bare(x) \in P
        BY BareFields DEF Tours
      <4>3. a = Bare(x)
        <5>1. Coherent(P) /\ BareOf(D) \subseteq P
          BY DEF Tours, Ground, Held, Store
        <5> QED
          BY <4>1, <4>2, <5>1 DEF Coherent
      <4>4. b.client = q.client
        BY <4>1, <4>2, <4>3
      <4>5. x.id \in q.placed
        BY <2>2, <4>1, <4>4 DEF Touring
      <4> QED
        BY <4>5 DEF Tours
    <3>2. PICK one : \A y \in q.wrote : y.t = "point" /\ (\E z \in BareOf(D) : z.t = "point" /\ z.ref = y.ref)
                                        => y.ref = one
      BY DEF Touring
    <3>3. \A y \in n.wrote : y.t = "point" /\ (\E z \in BareOf(D) : z.t = "point" /\ z.ref = y.ref)
                             => y.ref = one
      <4> SUFFICES ASSUME NEW y \in n.wrote, y.t = "point", \E z \in BareOf(D) : z.t = "point" /\ z.ref = y.ref
                   PROVE  y.ref = one
        OBVIOUS
      <4>1. y \in q.wrote \/ y \in S
        BY <1>2 DEF Over
      <4>2. y \notin S
        BY <1>1, <3>1
      <4> QED
        BY <3>2, <4>1, <4>2
    <3> QED
      BY <3>3
  <2> QED
    BY <2>1, <2>2
<1> QED
  BY <1>2, <1>3, <1>4, <1>5, <1>6 DEF Touring

(* An asset that is put on the tour leaves an import as it should be. *)
LEMMA AssetToured ==
    ASSUME NEW D, NEW r \in Runs, NEW q, NEW n, NEW ov, NEW use, RunSound(D, r, q, ov, use), q.pc = "asset",
           NEW P, P = Held(D, q), NEW V, V = Over(D, q.wrote),
           NEW x, Bare(x) \in P, x.t = "asset", BelongsTo(P, x.client, q.legacy),
           DbSound(D, ov), n \in MigrateRouteAssignment(r, q, V, x)
    PROVE  RunSound(D, r, n, ov, use)
<1>1. PICK T, N, L : T = {} /\ N = ProductsOf(V) /\ L = q.legacy
  OBVIOUS
<1>2. /\ RunTyped(q) /\ Store(D, q.wrote) /\ Mine(D, r, q) /\ Refers(P, q) /\ Copied(P, q, use)
      /\ Skeleton(P, N, ov) /\ TagOnce(q.wrote)
      /\ ov \/ (AllSeen(P, q) /\ RowsFit(V) /\ Touring(D, P, r, q))
      /\ L \in LegacyClients /\ DOMAIN q = DOMAIN Fresh
  BY <1>1 DEF RunSound, RunTyped
<1>3. Ground(D, r, q, P, V)
  BY <1>2 DEF Ground
<1>4. CASE n = q
  BY <1>4
<1>5. ASSUME NEW l, NEW route, NEW S, Tours(D, r, q, n, P, V, x, l, route, S) PROVE RunSound(D, r, n, ov, use)
  <2>1. PICK Q : Q = P \cup BareOf(S)
    OBVIOUS
  <2>2. /\ n.wrote = Over(q.wrote, S) /\ n.placed = l.placed \cup {x.id} /\ n.routes # {}
        /\ DOMAIN n = DOMAIN Fresh /\ n.pc = q.pc /\ n.legacy = q.legacy /\ n.client = q.client /\ n.i = q.i
        /\ n.seen = q.seen /\ n.sites = q.sites /\ n.groups = q.groups /\ OneEach(S)
    BY <1>5 DEF Tours
  <2>3. q.placed \subseteq n.placed
    <3>1. q.placed \subseteq l.placed
      BY <1>2, <1>5, RoutesLoaded DEF Tours
    <3> QED
      BY <2>2, <3>1
  <2>4. Handles(q, n, T)
    BY <1>1, <2>2 DEF Handles, Behind
  <2>5. RunTyped(n) /\ n.pc # "client" /\ q.pc # "client" /\ n.pc = "asset"
    BY <1>2, <2>2 DEF RunTyped
  <2>6. Goes(q, n, T)
    BY <1>2, <2>2, <2>3, <2>4, <2>5 DEF Goes
  <2>7. \A y \in S : /\ Writes(P, r, n, y) /\ y.t \in {"point", "route"}
                     /\ y.t = "point" => y.id[1] = r /\ y.ref = x.id /\ y.site = route
    BY <1>5, <2>6, TourWrites
  <2>8. AllRows(S) /\ Fits(P, S)
    BY <2>2, <2>7 DEF AllRows, Fits, Writes
  <2>9. P \subseteq Q /\ AllRows(V) /\ AllRows(q.wrote)
    BY <1>2, <2>1, ViewBare DEF Store
  <2>10. ProductsOf(Over(V, S)) = N /\ TagOnce(n.wrote) /\ (RowsFit(V) => RowsFit(Over(V, S)))
    <3>1. \A y \in S : y.t \notin {"asset", "tag", "product"}
      BY <2>7
    <3> QED
      BY <1>1, <1>2, <2>2, <2>8, <2>9, <3>1, SideRows
  <2>11. ASSUME NEW b \in Q \ P
         PROVE  b.t \in {"point", "route"} /\ (b.t = "point" => b.ref = x.id /\ b.site = route)
    <3>1. PICK y \in S : b = Bare(y)
      BY <2>1 DEF BareOf
    <3> QED
      BY <2>7, <3>1, BareFields
  <2>12. ov \/ x.client = q.client
    <3>1. PICK id, other : id = q.client /\ other = x.client
      OBVIOUS
    <3>2. BelongsTo(P, id, L) /\ BelongsTo(P, other, L)
      BY <1>1, <1>2, <2>5, <3>1 DEF Refers
    <3> QED
      BY <1>2, <3>1, <3>2, ClientIs
  <2>13. Skeleton(Q, N, ov)
    <3>1. ASSUME NEW b \in Q \ P PROVE RowFits(b, Q, N, ov)
      <4>1. CASE b.t = "route"
        BY <4>1 DEF RowFits, Numbered
      <4>2. CASE b.t = "point" /\ ov
        BY <4>2 DEF RowFits, Numbered
      <4>3. CASE b.t = "point" /\ ~ov
        <5>1. PICK e \in Q : e.t = "route" /\ e.id = route /\ e.client = q.client
          BY <1>2, <1>5, <2>1, <4>3, ToursRoute DEF RouteAt
        <5>2. Bare(x) \in Q /\ Bare(x).t = "asset" /\ Bare(x).id = x.id /\ Bare(x).client = x.client
          BY <2>9, BareFields
        <5>3. OnTour(b, Q)
          BY <2>11, <2>12, <4>3, <5>1, <5>2 DEF OnTour
        <5> QED
          BY <4>3, <5>3 DEF RowFits, Numbered
      <4> QED
        BY <2>11, <4>1, <4>2, <4>3
    <3>2. \A b \in Q \ P : b.t \notin Single
      BY <2>11 DEF Single, Numbered
    <3>3. \A b \in P : ~(b.id \in N /\ b.id \notin N)
      OBVIOUS
    <3> QED
      BY <1>2, <2>9, <3>1, <3>2, <3>3, SkeletonGrows
  <2>14. Copied(Q, n, use)
    <3>1. \A j : <<"site", j>> \notin T /\ <<"asset", j>> \notin T
      BY <1>1
    <3>2. q.sites \subseteq n.sites
      BY <2>2
    <3> QED
      BY <1>2, <2>2, <2>4, <2>9, <3>1, <3>2, CopiedOn
  <2>15. AllSeen(P, q) => AllSeen(Q, n)
    <3>1. \A b \in Q \ P : b.t \notin Numbered
      BY <2>11 DEF Numbered
    <3>2. \A u \in Numbered : n.pc \in Reading(u) => q.pc \in Reading(u)
      BY <2>2
    <3> QED
      BY <2>2, <2>4, <2>9, <3>1, <3>2, AllSeenOn
  <2>16. ov \/ Touring(D, Q, r, n)
    <3> SUFFICES ASSUME ~ov PROVE Touring(D, Q, r, n)
      OBVIOUS
    <3>1. \A b \in BareOf(D) : b.t = "point" => OnTour(b, BareOf(D))
      BY DEF DbSound, Skeleton, RowFits
    <3>2. Touring(D, P, r, q) /\ x.client = q.client
      BY <1>2, <2>12
    <3> QED
      BY <1>2, <1>5, <2>1, <2>6, <3>1, <3>2, ToursOnce
  <2>17. \A y \in S : (Bare(y) \in P \/ Own(r, n, Bare(y))) /\ OwnSays(r, n, y)
    BY <2>7 DEF Writes
  <2>18. \A y \in n.seen : y \in q.seen /\ y.t = "asset"
    BY <1>2, <2>2 DEF Refers
  <2>19. MovesWell(D, r, q, n, ov, use, S, P, Q, V, T)
    BY <1>1, <1>2, <2>1, <2>2, <2>6, <2>8, <2>10, <2>13, <2>14, <2>15, <2>16, <2>17, <2>18 DEF MovesWell
  <2> QED
    BY <2>19, Moves
<1>6. n = q \/ \E l, route, S : Tours(D, r, q, n, P, V, x, l, route, S)
  BY <1>2, <1>3, ToursOne
<1> QED
  BY <1>4, <1>5, <1>6

-----------------------------------------------------------------------------
(* The steps of an import.                                                 *)

(* Imports that differ in their socket and their prompt only. *)
Alike(q, n) ==
    /\ DOMAIN n = DOMAIN Fresh /\ n.pc = q.pc /\ n.legacy = q.legacy /\ n.client = q.client /\ n.i = q.i
    /\ n.wrote = q.wrote /\ n.seen = q.seen /\ n.sites = q.sites /\ n.groups = q.groups
    /\ n.routes = q.routes /\ n.placed = q.placed

(* One is as it should be when the other is. *)
LEMMA AlikeSound ==
    ASSUME NEW D, NEW r, NEW q, NEW n, NEW ov, NEW use, Alike(q, n), RunSound(D, r, q, ov, use)
    PROVE  RunSound(D, r, n, ov, use)
<1>1. PICK P, V : P = Held(D, q) /\ V = Over(D, q.wrote)
  OBVIOUS
<1>2. P = Held(D, n) /\ V = Over(D, n.wrote) /\ n.wrote = q.wrote /\ n.pc = q.pc /\ n.legacy = q.legacy
  BY <1>1 DEF Alike, Held
<1>3. \A t, j : Behind(n, t, j) <=> Behind(q, t, j)
  BY DEF Alike, Behind
<1>4. RunTyped(n)
  BY DEF RunSound, RunTyped, Alike
<1>5. Mine(D, r, n)
  <2>1. ASSUME NEW b, Own(r, q, b) PROVE Own(r, n, b)
    <3>1. b.t \in Numbered =>
             \E j \in DOMAIN TableOf(b.t)[n.legacy] : b.id[3] = TableOf(b.t)[n.legacy][j].no /\ Behind(n, b.t, j)
      <4> SUFFICES ASSUME b.t \in Numbered
                   PROVE  \E j \in DOMAIN TableOf(b.t)[n.legacy] :
                             b.id[3] = TableOf(b.t)[n.legacy][j].no /\ Behind(n, b.t, j)
        OBVIOUS
      <4>1. PICK j \in DOMAIN TableOf(b.t)[q.legacy] : b.id[3] = TableOf(b.t)[q.legacy][j].no /\ Behind(q, b.t, j)
        BY <2>1 DEF Own
      <4> QED
        BY <1>2, <1>3, <4>1
    <3> QED
      BY <2>1, <3>1 DEF Own, Alike
  <2>2. \A y : OwnSays(r, q, y) => OwnSays(r, n, y)
    BY DEF OwnSays, Alike
  <2> QED
    BY <1>2, <2>1, <2>2 DEF RunSound, Mine
<1>6. Refers(P, n)
  <2>1. Refers(P, q)
    BY <1>1 DEF RunSound
  <2>2. \A t, x : Leads(P, q, t, x) => Leads(P, n, t, x)
    BY DEF Leads, Alike
  <2>3. \A x : Sees(P, q, x) => Sees(P, n, x)
    BY DEF Sees, Alike
  <2> QED
    BY <2>1, <2>2, <2>3 DEF Refers, Started, Alike
<1>7. Copied(P, n, use)
  BY <1>1, <1>3 DEF RunSound, Copied, Alike
<1>8. AllSeen(P, q) => AllSeen(P, n)
  BY <1>3 DEF AllSeen, Alike
<1>9. Touring(D, P, r, q) => Touring(D, P, r, n)
  BY DEF Touring, Alike
<1> QED
  BY <1>1, <1>2, <1>4, <1>5, <1>6, <1>7, <1>8, <1>9 DEF RunSound

(* What a transaction sees. *)
LEMMA ViewOver ==
    ASSUME NEW r, NEW q, run[r] = q
    PROVE  View(r) = Over(db, q.wrote)
BY DEF View, Over

(* One with more written sees that over what it saw. *)
LEMMA ViewFurther ==
    ASSUME NEW D, NEW U, NEW V, V = Over(D, U), NEW F, NEW A, NEW W, W = Over(Over(U, F), A)
    PROVE  Over(V, W) = Over(D, W)
<1>1. \A x \in U : \E y \in W : y.id = x.id
  BY DEF Over
<1> QED
  BY <1>1, OverGrown

(* The import that goes on to the next asset. *)
LEMMA NextRow ==
    ASSUME NEW q, RunTyped(q), q.pc = "asset", NEW next, next = [q EXCEPT !.i = @ + 1]
    PROVE  NextAsset(q, next) /\ next.wrote = q.wrote /\ Keeps(next, q)
BY DEF RunTyped, NextAsset, Keeps, Fresh

(* It has passed one that is there already, or that it need not copy. *)
LEMMA AssetPasses ==
    ASSUME NEW D, NEW r, NEW q, NEW next, NEW ov, NEW use, RunSound(D, r, q, ov, use), NEW P, P = Held(D, q),
           q.pc = "asset", next = [q EXCEPT !.i = @ + 1],
           q.i \in DOMAIN LegacyAssets[q.legacy]
              /\ Used(LegacyAssets[q.legacy][q.i], use) /\ Located(LegacyAssets[q.legacy][q.i], q.legacy)
              => \E b \in P : b.t = "asset" /\ b.legacy = LegacyAssets[q.legacy][q.i].id
    PROVE  RunSound(D, r, next, ov, use)
<1>1. RunTyped(q)
  BY DEF RunSound
<1>2. NextAsset(q, next) /\ Keeps(next, q)
  BY <1>1, NextRow
<1>3. /\ q.pc \in Numbered /\ next.pc = q.pc /\ next.i = q.i + 1 /\ next.seen = q.seen
      /\ next.groups = q.groups /\ next.sites = q.sites /\ q.pc # "site"
  BY <1>2 DEF NextAsset, Numbered
<1> QED
  BY <1>2, <1>3, RowPasses

(* An asset in use that is located has a site, since all of those were made. *)
LEMMA AssetHasSite ==
    ASSUME NEW D, NEW q, NEW use, NEW P, NEW V, P = BareOf(V), Copied(P, q, use), Refers(P, q), q.pc = "asset",
           NEW a, a \in use, Located(a, q.legacy)
    PROVE  \E x \in V : <<a.site, x.id>> \in q.sites
<1>1. PICK j \in DOMAIN LegacySites[q.legacy] : LegacySites[q.legacy][j].no = a.site /\ LegacySites[q.legacy][j].id # None
  BY DEF Located
<1>2. Behind(q, "site", j)
  BY DEF Behind, Later
<1>3. PICK y \in q.sites : y[1] = a.site
  BY <1>1, <1>2 DEF Copied
<1>4. y = <<y[1], y[2]>> /\ \E b \in P : b.t = "site" /\ b.id = y[2]
  BY DEF Refers, Leads
<1>5. PICK b \in P : b.id = y[2]
  BY <1>4
<1>6. PICK x \in V : b = Bare(x)
  BY DEF BareOf
<1>7. x.id = y[2]
  BY <1>5, <1>6, BareFields
<1> QED
  BY <1>3, <1>4, <1>7

(* An import that is done with its rows commits next. *)
LEMMA AssetsDone ==
    ASSUME NEW D, NEW r, NEW q, NEW n, NEW ov, NEW use, RunSound(D, r, q, ov, use),
           q.pc = "asset", q.i > Len(LegacyAssets[q.legacy]), n = [q EXCEPT !.pc = "commit"]
    PROVE  RunSound(D, r, n, ov, use)
<1>1. RunTyped(q)
  BY DEF RunSound
<1>2. /\ Keeps(n, q) /\ n.pc = "commit" /\ n.i = q.i /\ n.sites = q.sites /\ n.groups = q.groups
      /\ n.seen = q.seen
  BY <1>1 DEF RunTyped, Keeps, Fresh
<1>3. Follows(q, n) /\ q.pc \in Numbered /\ n.i \in Nat /\ n.i >= 1
  BY <1>1, <1>2 DEF Follows, Numbered, RunTyped
<1> QED
  BY <1>2, <1>3, PhaseEnds

(* A legacy asset is handled. *)
LEMMA AssetHandled ==
    ASSUME NEW r \in Runs, NEW q, Now(r, q), RunSound(db, r, q, overlapped, inUse), DbSound(db, overlapped),
           MigrateAsset(r)
    PROVE  \E n : Proceed(r, n) /\ RunSound(db, r, n, overlapped, inUse) /\ UNCHANGED overlapped
<1>1. PICK D, V, P, ov, use : /\ D = db /\ V = Over(D, q.wrote) /\ P = Held(D, q) /\ ov = overlapped /\ use = inUse
  OBVIOUS
<1>2. PICK j, a : j = q.i /\ a = LegacyAssets[q.legacy][j]
  OBVIOUS
<1>3. PICK next : next = [q EXCEPT !.i = @ + 1]
  OBVIOUS
<1>4. PICK found, sites : found = {x \in q.seen : x.legacy = a.id} /\ sites = {x \in V : <<a.site, x.id>> \in q.sites}
  OBVIOUS
<1>5. View(r) = V
  BY <1>1, ViewOver DEF Now
<1>6. /\ q.pc = "asset" /\ UNCHANGED overlapped
      /\ IF q.i > Len(LegacyAssets[q.legacy])
           THEN Proceed(r, [q EXCEPT !.pc = "commit"])
           ELSE \/ (a.id = None \/ a \notin inUse) /\ Proceed(r, next)
                \/ /\ a.id # None /\ a \in inUse
                   /\ \E x \in found : \E n \in Toured(r, next, V, a, x) : Proceed(r, n)
                \/ a.id # None /\ a \in inUse /\ found = {} /\ sites = {} /\ Proceed(r, next)
                \/ /\ a.id # None /\ a \in inUse /\ found = {}
                   /\ \E s \in sites : MigrateNewAsset(r, next, a, s)
  BY <1>2, <1>3, <1>4, <1>5 DEF MigrateAsset, Now
<1>7. RunSound(D, r, q, ov, use) /\ DbSound(D, ov)
  BY <1>1
<1>8. /\ RunTyped(q) /\ Store(D, q.wrote) /\ Refers(P, q) /\ Copied(P, q, use) /\ P = BareOf(V)
  BY <1>1, <1>7, ViewBare DEF RunSound, Held
<1>9. NextAsset(q, next) /\ next.wrote = q.wrote /\ q.pc = "asset"
  BY <1>3, <1>6, <1>8, NextRow
<1>10. CASE q.i > Len(LegacyAssets[q.legacy])
  <2>1. PICK n : n = [q EXCEPT !.pc = "commit"]
    OBVIOUS
  <2>2. RunSound(D, r, n, ov, use)
    BY <1>6, <1>7, <1>10, <2>1, AssetsDone
  <2> QED
    BY <1>1, <1>6, <1>10, <2>1, <2>2
<1>11. CASE ~(q.i > Len(LegacyAssets[q.legacy]))
  <2>1. j \in DOMAIN LegacyAssets[q.legacy]
    <3>1. PICK t : t = "asset"
      OBVIOUS
    <3>2. t \in Numbered /\ TableOf(t) = LegacyAssets /\ q.legacy \in LegacyClients /\ q.i \in Nat /\ q.i >= 1
      BY <1>8, <3>1 DEF Numbered, TableOf, RunTyped
    <3>3. Len(LegacyAssets[q.legacy]) \in Nat /\ DOMAIN LegacyAssets[q.legacy] = 1 .. Len(LegacyAssets[q.legacy])
      BY <3>2, TablePlaces
    <3> QED
      BY <1>2, <1>11, <3>2, <3>3
  <2>2. CASE (a.id = None \/ a \notin inUse) /\ Proceed(r, next)
    <3>1. ~Used(a, use)
      BY <1>1, <2>2 DEF Used
    <3>2. RunSound(D, r, next, ov, use)
      BY <1>1, <1>2, <1>3, <1>7, <1>9, <3>1, AssetPasses
    <3> QED
      BY <1>1, <1>6, <2>2, <3>2
  <2>3. ASSUME a.id # None, NEW x \in found, NEW n \in Toured(r, next, V, a, x), Proceed(r, n)
        PROVE  \E m : Proceed(r, m) /\ RunSound(db, r, m, overlapped, inUse) /\ UNCHANGED overlapped
    <3>1. x.legacy = a.id /\ x.t = "asset" /\ Sees(P, q, x)
      BY <1>4, <1>8, <1>9 DEF Refers
    <3>2. Bare(x) \in P /\ Bare(x).t = "asset" /\ Bare(x).legacy = a.id /\ BelongsTo(P, x.client, q.legacy)
      BY <3>1, BareFields DEF Sees
    <3>3. RunSound(D, r, next, ov, use)
      BY <1>1, <1>2, <1>3, <1>7, <1>9, <3>2, AssetPasses
    <3>4. CASE ~a.sort
      <4>1. n = next
        BY <2>3, <3>4 DEF Toured
      <4> QED
        BY <1>1, <1>6, <2>3, <3>3, <4>1
    <3>5. CASE a.sort
      <4>1. n \in MigrateRouteAssignment(r, next, V, x)
        BY <2>3, <3>5 DEF Toured
      <4>2. next.pc = "asset" /\ P = Held(D, next) /\ V = Over(D, next.wrote) /\ BelongsTo(P, x.client, next.legacy)
        BY <1>1, <1>9, <3>2 DEF NextAsset, Held
      <4>3. RunSound(D, r, n, ov, use)
        BY <1>7, <3>1, <3>2, <3>3, <4>1, <4>2, AssetToured
      <4> QED
        BY <1>1, <1>6, <2>3, <4>3
    <3> QED
      BY <3>4, <3>5
  <2>4. CASE a.id # None /\ a \in inUse /\ sites = {} /\ Proceed(r, next)
    <3>1. ~Located(a, q.legacy)
      <4> SUFFICES ASSUME Located(a, q.legacy) PROVE FALSE
        OBVIOUS
      <4>1. \E x \in V : <<a.site, x.id>> \in q.sites
        BY <1>1, <1>8, <1>9, <2>4, AssetHasSite
      <4> QED
        BY <1>4, <2>4, <4>1
    <3>2. RunSound(D, r, next, ov, use)
      BY <1>1, <1>2, <1>3, <1>7, <1>9, <3>1, AssetPasses
    <3> QED
      BY <1>1, <1>6, <2>4, <3>2
  <2>5. ASSUME a.id # None, found = {}, NEW s \in sites, MigrateNewAsset(r, next, a, s)
        PROVE  \E m : Proceed(r, m) /\ RunSound(db, r, m, overlapped, inUse) /\ UNCHANGED overlapped
    <3>1. PICK o \in GetOrMigrateProduct(r, V, a), g \in GetOrMigrateTag(r, V, a.tag, s) :
            LET tag == IF g = NoRow THEN None ELSE g.id
                fnd == (o.rows \cup ({g} \ {NoRow})) \ V
                made == [New("asset", r, a.no) EXCEPT !.legacy = a.id, !.client = s.client,
                         !.site = s.id, !.ref = o.product.id, !.tag = tag]
                W == Over(Over(next.wrote, fnd), Released(V, tag) \cup {made})
            IN  IF o.product = NoRow
                THEN Proceed(r, [next EXCEPT !.wrote = Over(@, fnd)])
                ELSE \E n \in Toured(r, [next EXCEPT !.wrote = W], Over(V, W), a, made) : Proceed(r, n)
      BY <1>5, <2>5 DEF MigrateNewAsset
    <3>2. PICK tag : tag = IF g = NoRow THEN None ELSE g.id
      OBVIOUS
    <3>3. PICK fnd : fnd = (o.rows \cup ({g} \ {NoRow})) \ V
      OBVIOUS
    <3>4. PICK made : made = [New("asset", r, a.no) EXCEPT !.legacy = a.id, !.client = s.client,
                                !.site = s.id, !.ref = o.product.id, !.tag = tag]
      OBVIOUS
    <3>5. PICK W : W = IF o.product = NoRow THEN Over(next.wrote, fnd)
                       ELSE Over(Over(next.wrote, fnd), Released(V, tag) \cup {made})
      OBVIOUS
    <3>6. PICK m : m = [next EXCEPT !.wrote = W]
      OBVIOUS
    <3>7. IF o.product = NoRow THEN Proceed(r, m)
          ELSE \E n \in Toured(r, m, Over(V, W), a, made) : Proceed(r, n)
      BY <3>1, <3>2, <3>3, <3>4, <3>5, <3>6
    <3>8. Handed(r, V, a, s, o, g, tag, fnd, made)
      BY <3>2, <3>3, <3>4 DEF Handed
    <3>9. NextAsset(q, m) /\ m.wrote = W
      BY <1>9, <3>6 DEF NextAsset, Fresh
    <3>10. WroteOf(q, m, V, o, tag, fnd, made)
      BY <1>9, <3>5, <3>9 DEF WroteOf
    <3>11. s \in V /\ <<a.site, s.id>> \in q.sites /\ \A x \in q.seen : x.legacy # a.id
      BY <1>4, <2>5
    <3>12. /\ RunSound(D, r, m, ov, use)
           /\ o.product # NoRow => /\ Bare(made) \in Held(D, m) /\ made.t = "asset"
                                   /\ BelongsTo(Held(D, m), made.client, q.legacy)
      <4>1. V = Over(D, q.wrote) /\ a = LegacyAssets[q.legacy][j] /\ j = q.i
        BY <1>1, <1>2
      <4>2. Placing(D, r, q, ov, use, j, a, V, s)
        BY <1>7, <1>9, <2>1, <3>11, <4>1 DEF Placing
      <4>3. Choosing(r, V, a, s, o, g)
        BY <3>1 DEF Choosing
      <4> QED
        BY <3>8, <3>9, <3>10, <4>2, <4>3, AssetMade
    <3>13. CASE o.product = NoRow
      BY <1>1, <1>6, <3>7, <3>12, <3>13
    <3>14. CASE o.product # NoRow
      <4>1. PICK n \in Toured(r, m, Over(V, W), a, made) : Proceed(r, n)
        BY <3>7, <3>14
      <4>2. CASE ~a.sort
        <5>1. n = m
          BY <4>1, <4>2 DEF Toured
        <5> QED
          BY <1>1, <1>6, <3>12, <4>1, <5>1
      <4>3. CASE a.sort
        <5>1. PICK V1, P1 : V1 = Over(D, m.wrote) /\ P1 = Held(D, m)
          OBVIOUS
        <5>2. Over(V, W) = V1
          <6>1. PICK U, A : U = q.wrote /\ A = Released(V, tag) \cup {made}
            OBVIOUS
          <6>2. W = Over(Over(U, fnd), A) /\ V = Over(D, U)
            BY <1>1, <1>9, <3>5, <3>14, <6>1
          <6> QED
            BY <3>9, <5>1, <6>2, ViewFurther
        <5>3. n \in MigrateRouteAssignment(r, m, V1, made)
          BY <4>1, <4>3, <5>2 DEF Toured
        <5>4. m.pc = "asset" /\ m.legacy = q.legacy
          BY <3>9 DEF NextAsset
        <5>5. Bare(made) \in P1 /\ made.t = "asset" /\ BelongsTo(P1, made.client, m.legacy)
          BY <3>12, <3>14, <5>1, <5>4
        <5>6. RunSound(D, r, n, ov, use)
          BY <1>7, <3>12, <5>1, <5>3, <5>4, <5>5, AssetToured
        <5> QED
          BY <1>1, <1>6, <4>1, <5>6
      <4> QED
        BY <4>2, <4>3
    <3> QED
      BY <3>13, <3>14
  <2> QED
    BY <1>6, <1>11, <2>2, <2>3, <2>4, <2>5
<1> QED
  BY <1>10, <1>11

-----------------------------------------------------------------------------
(* The commit of an import.                                                *)

(* The assets a commit takes the tag from, without it. *)
Stripped(D, W) ==
    {[x EXCEPT !.tag = None] : x \in {z \in D : /\ z.t = "asset" /\ z.tag # None /\ \A y \in W : y.id # z.id
                                                /\ \E w \in W : w.t = "asset" /\ w.tag = z.tag}}

(* They are what they were but for the tag. *)
LEMMA StrippedRows ==
    ASSUME NEW D, NEW W, AllRows(D), NEW y \in Stripped(D, W)
    PROVE  /\ IsRow(y) /\ y.t = "asset" /\ y.tag = None
           /\ \A w \in W : w.id # y.id
           /\ \E z \in D : Bare(z) = Bare(y) /\ z.id = y.id /\ y = [z EXCEPT !.tag = None]
<1>1. PICK z \in D : /\ y = [z EXCEPT !.tag = None] /\ z.t = "asset" /\ \A w \in W : w.id # z.id
  BY DEF Stripped
<1>2. IsRow(z)
  BY DEF AllRows
<1>3. /\ DOMAIN y = RowFields /\ y.tag = None /\ y.t = z.t /\ y.id = z.id /\ y.legacy = z.legacy
      /\ y.client = z.client /\ y.site = z.site /\ y.ref = z.ref
  BY <1>1, <1>2 DEF IsRow, RowFields
<1>4. Bare(z) = Bare(y)
  BY <1>3 DEF Bare
<1> QED
  BY <1>1, <1>2, <1>3, <1>4 DEF IsRow

(* Committing keeps the constant parts, and one asset at each tag. *)
LEMMA CommitRows ==
    ASSUME NEW D, NEW W, Store(D, W), TagOnce(D), TagOnce(W), NEW R, R = W \cup Stripped(D, W), NEW E, E = Over(D, R)
    PROVE  /\ AllRows(E) /\ OneEach(E) /\ BareOf(E) = BareOf(D) \cup BareOf(W) /\ TagOnce(E)
           /\ ProductsOf(E) = ProductsOf(Over(D, W))
           /\ TagOnce(Over(D, W)) => E = Over(D, W)
<1>1. PICK A, V : A = Stripped(D, W) /\ V = Over(D, W)
  OBVIOUS
<1>2. AllRows(D) /\ AllRows(W) /\ OneEach(D) /\ OneEach(W)
  BY DEF Store
<1>3. \A y \in A : /\ IsRow(y) /\ y.t = "asset" /\ y.tag = None
                   /\ \A w \in W : w.id # y.id
                   /\ \E z \in D : Bare(z) = Bare(y) /\ z.id = y.id /\ y = [z EXCEPT !.tag = None]
  BY <1>1, <1>2, StrippedRows
<1>4. AllRows(A) /\ OneEach(A)
  <2>1. ASSUME NEW x \in A, NEW y \in A, x.id = y.id PROVE x = y
    <3>1. PICK v \in D, z \in D : v.id = x.id /\ x = [v EXCEPT !.tag = None] /\ z.id = y.id /\ y = [z EXCEPT !.tag = None]
      BY <1>3
    <3>2. v = z
      BY <1>2, <2>1, <3>1 DEF OneEach
    <3> QED
      BY <3>1, <3>2
  <2> QED
    BY <1>3, <2>1 DEF AllRows, OneEach
<1>5. R = W \cup A /\ AllRows(R) /\ OneEach(R)
  BY <1>1, <1>2, <1>3, <1>4 DEF AllRows, OneEach
<1>6. BareOf(A) \subseteq BareOf(D)
  BY <1>3 DEF BareOf
<1>7. BareOf(R) = BareOf(W) \cup BareOf(A)
  BY <1>5 DEF BareOf
<1>8. BareOf(D) \cup BareOf(R) = BareOf(D) \cup BareOf(W)
  BY <1>6, <1>7
<1>9. Store(D, R)
  BY <1>2, <1>5, <1>8 DEF Store
<1>10. AllRows(E) /\ OneEach(E) /\ BareOf(E) = BareOf(D) \cup BareOf(W)
  BY <1>8, <1>9, ViewBare
<1>11. R = Over(W, A)
  BY <1>3, <1>5 DEF Over
<1>12. E = Over(V, A)
  <2>1. Over(D, Over(W, A)) = Over(Over(D, W), A)
    BY OverOver
  <2> QED
    BY <1>1, <1>11, <2>1
<1>13. ProductsOf(E) = ProductsOf(V)
  <2>1. AllRows(V)
    BY <1>1, ViewBare
  <2>2. PICK t : t = "product"
    OBVIOUS
  <2>3. \A y \in A : y.t # t
    BY <1>3, <2>2
  <2>4. \A x : x \in E /\ x.t = t <=> x \in V /\ x.t = t
    BY <1>4, <1>12, <2>1, <2>3, OtherTables
  <2> QED
    BY <2>2, <2>4 DEF ProductsOf
<1>14. ASSUME NEW x \in D, x.t = "asset", x.tag # None, \A y \in R : y.id # x.id,
              NEW w \in W, w.t = "asset", w.tag = x.tag
       PROVE  FALSE
  <2>1. PICK y : y = [x EXCEPT !.tag = None]
    OBVIOUS
  <2>2. y \in A
    BY <1>1, <1>5, <1>14, <2>1 DEF Stripped
  <2>3. y.id = x.id
    BY <1>2, <2>1 DEF AllRows, IsRow, RowFields
  <2> QED
    BY <1>5, <1>14, <2>2, <2>3
<1>15. TagOnce(E)
  <2> SUFFICES ASSUME NEW a \in E, NEW b \in E, a.t = "asset", b.t = "asset", a.tag = b.tag, a.tag # None
               PROVE  a = b
    BY DEF TagOnce
  <2>1. \A x \in {a, b} : x \in W \/ (x \in D /\ \A y \in R : y.id # x.id)
    BY <1>3, <1>5 DEF Over
  <2>2. CASE a \in W /\ b \in W
    BY <2>2 DEF TagOnce
  <2>3. CASE a \in D /\ b \in D
    BY <2>3 DEF TagOnce
  <2>4. CASE a \in W /\ b \notin W
    BY <1>14, <2>1, <2>4
  <2>5. CASE b \in W /\ a \notin W
    BY <1>14, <2>1, <2>5
  <2> QED
    BY <2>1, <2>2, <2>3, <2>4, <2>5
<1>16. ASSUME TagOnce(V) PROVE E = V
  <2>1. ASSUME NEW y \in A PROVE FALSE
    <3>1. PICK z \in D : /\ z.t = "asset" /\ z.tag # None /\ \A w \in W : w.id # z.id
                         /\ \E w \in W : w.t = "asset" /\ w.tag = z.tag
      BY <1>1, <2>1 DEF Stripped
    <3>2. PICK w \in W : w.t = "asset" /\ w.tag = z.tag
      BY <3>1
    <3>3. z \in V /\ w \in V
      BY <1>1, <3>1 DEF Over
    <3> QED
      BY <1>16, <3>1, <3>2, <3>3 DEF TagOnce
  <2>2. Over(V, A) = V
    BY <2>1 DEF Over
  <2> QED
    BY <1>12, <2>2
<1> QED
  BY <1>1, <1>10, <1>13, <1>15, <1>16

(* The database is as it should be after it. *)
LEMMA CommitSound ==
    ASSUME NEW D, NEW r, NEW q, NEW ov, NEW use, RunSound(D, r, q, ov, use), DbSound(D, ov),
           NEW E, E = Over(D, q.wrote \cup Stripped(D, q.wrote))
    PROVE  DbSound(E, ov) /\ BareOf(E) = Held(D, q)
<1>1. PICK W, R, V : W = q.wrote /\ R = W \cup Stripped(D, W) /\ V = Over(D, W)
  OBVIOUS
<1>2. Store(D, W) /\ TagOnce(W) /\ TagOnce(D) /\ E = Over(D, R)
  BY <1>1 DEF RunSound, DbSound
<1>3. /\ AllRows(E) /\ OneEach(E) /\ BareOf(E) = BareOf(D) \cup BareOf(W) /\ TagOnce(E)
      /\ ProductsOf(E) = ProductsOf(V)
      /\ TagOnce(V) => E = V
  BY <1>1, <1>2, CommitRows
<1>4. BareOf(E) = Held(D, q)
  BY <1>1, <1>3 DEF Held
<1>5. Skeleton(BareOf(E), ProductsOf(E), ov)
  BY <1>1, <1>3, <1>4 DEF RunSound
<1>6. ov \/ RowsFit(E)
  <2>1. ov \/ RowsFit(V)
    BY <1>1 DEF RunSound
  <2>2. RowsFit(V) => E = V
    BY <1>3 DEF RowsFit
  <2> QED
    BY <2>1, <2>2
<1> QED
  BY <1>3, <1>4, <1>5, <1>6 DEF DbSound

(* What an import refers to is there in more rows too. *)
LEMMA RefersMore ==
    ASSUME NEW P, NEW Q, P \subseteq Q, NEW q
    PROVE  Refers(P, q) => Refers(Q, q)
<1> SUFFICES ASSUME Refers(P, q) PROVE Refers(Q, q)
  OBVIOUS
<1>1. \A t, x : Leads(P, q, t, x) => Leads(Q, q, t, x)
  BY LeadsOn
<1>2. \A id, c : BelongsTo(P, id, c) => BelongsTo(Q, id, c)
  BY MoreBelong
<1>3. \A x : Sees(P, q, x) => Sees(Q, q, x)
  BY <1>2 DEF Sees
<1> QED
  BY <1>1, <1>2, <1>3 DEF Refers

(* As RefersMore, of what it has copied. *)
LEMMA CopiedMore ==
    ASSUME NEW P, NEW Q, P \subseteq Q, NEW q, NEW use, Copied(P, q, use)
    PROVE  Copied(Q, q, use)
BY DEF Copied

(* Once imports have overlapped the products do not matter. *)
LEMMA SkeletonAny ==
    ASSUME NEW P, NEW N, NEW M, Skeleton(P, N, TRUE)
    PROVE  Skeleton(P, M, TRUE)
BY DEF Skeleton, RowFits

(* One of several that are open commits. *)
Commits(D, r, q, ov, use, E) ==
    /\ RunSound(D, r, q, ov, use) /\ DbSound(D, ov) /\ ov = TRUE
    /\ E = Over(D, q.wrote \cup Stripped(D, q.wrote))

(* Another import that is open goes on as it should over what one commits. *)
LEMMA CommitOthers ==
    ASSUME NEW D, NEW r, NEW q, NEW ov, NEW use, NEW E, Commits(D, r, q, ov, use, E),
           NEW s, s # r, NEW n, RunSound(D, s, n, ov, use)
    PROVE  RunSound(E, s, n, ov, use)
<1> SUFFICES ASSUME RunSound(D, r, q, ov, use), DbSound(D, ov), ov = TRUE,
                    E = Over(D, q.wrote \cup Stripped(D, q.wrote))
             PROVE  RunSound(E, s, n, ov, use)
  BY DEF Commits
<1>1. PICK P, Q, H : P = Held(D, q) /\ Q = Held(D, n) /\ H = Held(E, n)
  OBVIOUS
<1>2. BareOf(E) = P /\ AllRows(E) /\ OneEach(E)
  <2>1. DbSound(E, ov) /\ BareOf(E) = P
    BY <1>1, CommitSound
  <2> QED
    BY <2>1 DEF DbSound
<1>3. H = P \cup Q /\ P = BareOf(D) \cup BareOf(q.wrote) /\ Q = BareOf(D) \cup BareOf(n.wrote)
  BY <1>1, <1>2 DEF Held
<1>4. /\ Store(D, q.wrote) /\ Store(D, n.wrote) /\ Mine(D, r, q) /\ Mine(D, s, n)
  BY DEF RunSound
<1>5. \A b \in P : b \in BareOf(D) \/ b.id[1] = r
  <2>1. \A b \in P : b \in BareOf(D) \/ Own(r, q, b)
    BY <1>3, <1>4 DEF Mine
  <2>2. \A b : Own(r, q, b) => b.id[1] = r
    BY DEF Own
  <2> QED
    BY <2>1, <2>2
<1>6. \A b \in Q : b \in BareOf(D) \/ b.id[1] = s
  <2>1. \A b \in Q : b \in BareOf(D) \/ Own(s, n, b)
    BY <1>3, <1>4 DEF Mine
  <2>2. \A b : Own(s, n, b) => b.id[1] = s
    BY DEF Own
  <2> QED
    BY <2>1, <2>2
<1>7. Store(E, n.wrote)
  <2>1. Coherent(P) /\ Coherent(Q)
    BY <1>3, <1>4 DEF Store
  <2>2. Coherent(P \cup Q)
    BY <1>3, <1>5, <1>6, <2>1 DEF Coherent
  <2>3. BareOf(E) \cup BareOf(n.wrote) = P \cup Q
    BY <1>2, <1>3
  <2> QED
    BY <1>2, <1>4, <2>2, <2>3 DEF Store
<1>8. Mine(E, s, n)
  <2>1. ASSUME NEW x \in E PROVE x.id[1] # s
    <3>1. Bare(x) \in P /\ Bare(x).id = x.id
      BY <1>2, BareFields DEF BareOf
    <3>2. CASE Bare(x) \in BareOf(D)
      <4>1. PICK z \in D : Bare(x) = Bare(z)
        BY <3>2 DEF BareOf
      <4>2. z.id = x.id
        BY <3>1, <4>1, BareFields
      <4> QED
        BY <1>4, <4>2 DEF Mine
    <3> QED
      BY <1>5, <3>1, <3>2
  <2>2. BareOf(D) \subseteq BareOf(E)
    BY <1>2, <1>3
  <2> QED
    BY <1>4, <2>1, <2>2 DEF Mine
<1>9. Skeleton(H, ProductsOf(Over(E, n.wrote)), ov)
  <2>1. PICK N, M : N = ProductsOf(Over(D, q.wrote)) /\ M = ProductsOf(Over(D, n.wrote))
    OBVIOUS
  <2>2. Skeleton(P, N, TRUE) /\ Skeleton(Q, M, TRUE)
    BY <1>1, <2>1 DEF RunSound
  <2>3. Skeleton(P \cup Q, N \cup M, TRUE)
    BY <2>2, SkeletonsJoin
  <2> QED
    BY <1>1, <1>3, <2>3, SkeletonAny
<1>10. Refers(H, n) /\ Copied(H, n, use)
  BY <1>1, <1>3, RefersMore, CopiedMore DEF RunSound
<1> QED
  BY <1>1, <1>7, <1>8, <1>9, <1>10 DEF RunSound

-----------------------------------------------------------------------------
(* The invariant is kept.                                                  *)

(* An import that begins, over a database that is as it should be. *)
LEMMA ClientOpens ==
    ASSUME NEW D, NEW r, NEW q, NEW ov, NEW use, DbSound(D, ov), Started(q), q.pc = "client",
           q.legacy \in LegacyClients, DOMAIN q = DOMAIN Fresh, \A x \in D : x.id[1] # r
    PROVE  RunSound(D, r, q, ov, use)
<1>1. PICK W, P : W = q.wrote /\ P = Held(D, q)
  OBVIOUS
<1>2. W = {} /\ BareOf(W) = {} /\ P = BareOf(D) /\ Over(D, W) = D /\ BareOf(D) \cup BareOf(W) = BareOf(D)
  BY <1>1 DEF Started, BareOf, Held, Over
<1>3. AllRows(D) /\ OneEach(D) /\ Skeleton(P, ProductsOf(D), ov) /\ (ov \/ RowsFit(D))
  BY <1>2 DEF DbSound
<1>4. RunTyped(q)
  BY DEF RunTyped, Phases, Started
<1>5. Coherent(BareOf(D))
  <2> SUFFICES ASSUME NEW b \in BareOf(D), NEW c \in BareOf(D), b.id = c.id PROVE b = c
    BY DEF Coherent
  <2>1. PICK x \in D, y \in D : b = Bare(x) /\ c = Bare(y)
    BY DEF BareOf
  <2>2. x.id = y.id
    BY <2>1, BareFields
  <2> QED
    BY <1>3, <2>1, <2>2 DEF OneEach
<1>6. Store(D, W)
  BY <1>2, <1>3, <1>5 DEF Store, AllRows, OneEach
<1>7. Mine(D, r, q)
  BY <1>1, <1>2 DEF Mine
<1>8. Refers(P, q)
  BY DEF Refers, Started
<1>9. \A t, j : ~Behind(q, t, j) \/ t = "client"
  BY DEF Behind, Later
<1>10. Copied(P, q, use)
  BY <1>9 DEF Copied
<1>11. AllSeen(P, q)
  BY DEF AllSeen, Reading
<1>12. Touring(D, P, r, q)
  BY DEF Touring, Started
<1> QED
  BY <1>1, <1>2, <1>3, <1>4, <1>6, <1>7, <1>8, <1>10, <1>11, <1>12 DEF RunSound, TagOnce

(* One that is as it should be stays so when imports come to overlap. *)
LEMMA RunRelaxes ==
    ASSUME NEW D, NEW r, NEW q, NEW ov, NEW on, NEW use, ov => on, on \in BOOLEAN, ov \in BOOLEAN,
           RunSound(D, r, q, ov, use)
    PROVE  RunSound(D, r, q, on, use)
<1>1. PICK P, N : P = Held(D, q) /\ N = ProductsOf(Over(D, q.wrote))
  OBVIOUS
<1>2. Skeleton(P, N, on)
  BY <1>1, SkeletonRelaxes DEF RunSound
<1> QED
  BY <1>1, <1>2 DEF RunSound

(* So does the database. *)
LEMMA DbRelaxes ==
    ASSUME NEW D, NEW ov, NEW on, ov => on, on \in BOOLEAN, ov \in BOOLEAN, DbSound(D, ov)
    PROVE  DbSound(D, on)
<1>1. PICK P, N : P = BareOf(D) /\ N = ProductsOf(D)
  OBVIOUS
<1>2. Skeleton(P, N, on)
  BY <1>1, SkeletonRelaxes DEF DbSound
<1> QED
  BY <1>1, <1>2 DEF DbSound

(* The imports an open one may be among. *)
OpenApart(R, ov) == \A r, s \in Runs : IsOpen(R[r]) /\ IsOpen(R[s]) => r = s \/ ov
RunsOf(R, ov) ==
    /\ DOMAIN R = Runs
    /\ \A r \in Runs : /\ DOMAIN R[r] = DOMAIN Fresh
                       /\ R[r].pc \in {"new", "select"} => Started(R[r])
    /\ OpenApart(R, ov)
Ended(D, R) == \A x \in D : x.id[1] \in Runs => R[x.id[1]].pc = "ended"
OpenSound(D, R, ov, use) == \A r \in Runs : IsOpen(R[r]) => RunSound(D, r, R[r], ov, use)

(* The invariant in parts. *)
LEMMA InvParts ==
    ImportInv <=> /\ DbSound(db, overlapped) /\ overlapped \in BOOLEAN /\ RunsOf(run, overlapped)
                  /\ Ended(db, run) /\ OpenSound(db, run, overlapped, inUse)
BY DEF ImportInv, RunsOf, OpenApart, Ended, OpenSound

(* As InvParts, after a step. *)
LEMMA InvPartsNext ==
    ImportInv' <=> /\ DbSound(db', overlapped') /\ overlapped' \in BOOLEAN /\ RunsOf(run', overlapped')
                   /\ Ended(db', run') /\ OpenSound(db', run', overlapped', inUse')
BY DEF ImportInv, RunsOf, OpenApart, Ended, OpenSound

(* An import goes on in its transaction. *)
LEMMA ProceedSound ==
    ASSUME ImportInv, NEW r \in Runs, IsOpen(run[r]), NEW n, Proceed(r, n), UNCHANGED overlapped,
           RunSound(db, r, n, overlapped, inUse)
    PROVE  ImportInv'
<1>1. PICK D, ov, use, R, m, Z : /\ D = db /\ ov = overlapped /\ use = inUse /\ R = run
                                 /\ m = [n EXCEPT !.asked = "no"] /\ Z = run'
  OBVIOUS
<1>2. /\ DbSound(D, ov) /\ ov \in BOOLEAN /\ RunsOf(R, ov) /\ Ended(D, R) /\ OpenSound(D, R, ov, use)
  BY <1>1, InvParts
<1>3. /\ db' = D /\ overlapped' = ov /\ inUse' = use /\ Z = [R EXCEPT ![r] = m] /\ DOMAIN R = Runs
  BY <1>1, <1>2 DEF Proceed, RunsOf
<1>4. RunSound(D, r, n, ov, use) /\ RunTyped(n)
  BY <1>1 DEF RunSound
<1>5. Alike(n, m)
  BY <1>1, <1>4 DEF Alike, RunTyped, Fresh
<1>6. RunSound(D, r, m, ov, use) /\ RunTyped(m)
  <2>1. RunSound(D, r, m, ov, use)
    BY <1>4, <1>5, AlikeSound
  <2> QED
    BY <2>1 DEF RunSound
<1>7. IsOpen(m) /\ m.pc \notin {"new", "select", "ended"} /\ DOMAIN m = DOMAIN Fresh
  BY <1>6 DEF RunTyped, Phases, IsOpen
<1>8. DOMAIN Z = Runs /\ Z[r] = m /\ \A s \in Runs \ {r} : Z[s] = R[s]
  BY <1>3
<1>9. RunsOf(Z, ov)
  BY <1>1, <1>2, <1>7, <1>8 DEF RunsOf, OpenApart
<1>10. Ended(D, Z)
  BY <1>1, <1>2, <1>8 DEF Ended, IsOpen
<1>11. OpenSound(D, Z, ov, use)
  BY <1>2, <1>6, <1>8 DEF OpenSound
<1> QED
  BY <1>1, <1>2, <1>3, <1>9, <1>10, <1>11, InvPartsNext

(* Imports wait, are answered, begin or end. *)
Rests(q, n) ==
    \/ n = q \/ Alike(q, n)
    \/ DOMAIN n = DOMAIN Fresh /\ n.pc = "ended"
    \/ DOMAIN n = DOMAIN Fresh /\ n.pc = "select" /\ Started(n) /\ q.pc \in {"new", "select"}

(* The invariant is kept then. *)
LEMMA RestsSound ==
    ASSUME ImportInv, UNCHANGED <<db, inUse, overlapped>>, DOMAIN run' = Runs,
           \A r \in Runs : Rests(run[r], run'[r])
    PROVE  ImportInv'
<1>1. PICK D, ov, use, R, Z : D = db /\ ov = overlapped /\ use = inUse /\ R = run /\ Z = run'
  OBVIOUS
<1>2. /\ DbSound(D, ov) /\ ov \in BOOLEAN /\ RunsOf(R, ov) /\ Ended(D, R) /\ OpenSound(D, R, ov, use)
  BY <1>1, InvParts
<1>3. db' = D /\ overlapped' = ov /\ inUse' = use /\ DOMAIN Z = Runs
  BY <1>1
<1>4. \A r \in Runs : /\ DOMAIN Z[r] = DOMAIN Fresh /\ (IsOpen(Z[r]) => IsOpen(R[r]))
                      /\ Z[r].pc \in {"new", "select"} => Started(Z[r])
                      /\ R[r].pc = "ended" => Z[r].pc = "ended"
  <2> SUFFICES ASSUME NEW r \in Runs
               PROVE  /\ DOMAIN Z[r] = DOMAIN Fresh /\ (IsOpen(Z[r]) => IsOpen(R[r]))
                      /\ Z[r].pc \in {"new", "select"} => Started(Z[r])
                      /\ R[r].pc = "ended" => Z[r].pc = "ended"
    OBVIOUS
  <2>1. Rests(R[r], Z[r]) /\ DOMAIN R[r] = DOMAIN Fresh /\ (R[r].pc \in {"new", "select"} => Started(R[r]))
    BY <1>1, <1>2 DEF RunsOf
  <2>2. Alike(R[r], Z[r]) => /\ DOMAIN Z[r] = DOMAIN Fresh /\ Z[r].pc = R[r].pc
                             /\ Started(R[r]) => Started(Z[r])
    BY DEF Alike, Started
  <2> QED
    BY <2>1, <2>2 DEF Rests, IsOpen
<1>5. RunsOf(Z, ov) /\ Ended(D, Z)
  BY <1>2, <1>3, <1>4 DEF RunsOf, OpenApart, Ended
<1>6. OpenSound(D, Z, ov, use)
  <2> SUFFICES ASSUME NEW r \in Runs, IsOpen(Z[r]) PROVE RunSound(D, r, Z[r], ov, use)
    BY DEF OpenSound
  <2>1. RunSound(D, r, R[r], ov, use)
    BY <1>2, <1>4 DEF OpenSound
  <2>2. Z[r] = R[r] \/ Alike(R[r], Z[r])
    BY <1>1 DEF Rests, IsOpen
  <2> QED
    BY <2>1, <2>2, AlikeSound
<1> QED
  BY <1>1, <1>2, <1>3, <1>5, <1>6, InvPartsNext

-----------------------------------------------------------------------------
(* The steps before the assets.                                            *)

(* What an open import knows of itself. *)
LEMMA RunKnown ==
    ASSUME ImportInv, NEW r \in Runs, IsOpen(run[r])
    PROVE  RunSound(db, r, run[r], overlapped, inUse) /\ RunTyped(run[r]) /\ View(r) = Over(db, run[r].wrote)
<1>1. PICK q : q = run[r]
  OBVIOUS
<1>2. RunSound(db, r, q, overlapped, inUse)
  BY <1>1 DEF ImportInv
<1>3. View(r) = Over(db, q.wrote)
  BY <1>1, ViewOver
<1> QED
  BY <1>1, <1>2, <1>3 DEF RunSound

(* An import asks. *)
LEMMA AskSound ==
    ASSUME ImportInv, NEW r \in Runs, Ask(r), UNCHANGED overlapped
    PROVE  ImportInv'
<1>1. /\ run' = [run EXCEPT ![r].asked = "waiting"] /\ UNCHANGED <<db, inUse, overlapped>>
      /\ DOMAIN run = Runs /\ DOMAIN run[r] = DOMAIN Fresh
  BY DEF Ask, InitPrompt, ImportInv
<1>2. PICK q, n : q = run[r] /\ n = [q EXCEPT !.asked = "waiting"]
  OBVIOUS
<1>3. Alike(q, n)
  BY <1>1, <1>2 DEF Alike, Fresh
<1>4. DOMAIN run' = Runs /\ run'[r] = n /\ \A s \in Runs \ {r} : run'[s] = run[s]
  BY <1>1, <1>2
<1>5. \A s \in Runs : Rests(run[s], run'[s])
  BY <1>2, <1>3, <1>4 DEF Rests
<1> QED
  BY <1>1, <1>4, <1>5, RestsSound

(* Imports end without a commit. *)
LEMMA CloseSound ==
    ASSUME ImportInv, NEW w, NEW S, CloseSocket(w, S)
    PROVE  ImportInv'
<1>1. PICK T : EndRuns(T) /\ UNCHANGED <<db, inUse, overlapped>>
  BY DEF CloseSocket
<1>2. DOMAIN run' = Runs
  BY <1>1 DEF EndRuns
<1>3. ASSUME NEW s \in Runs PROVE Rests(run[s], run'[s])
  <2>1. DOMAIN run[s] = DOMAIN Fresh
    BY DEF ImportInv
  <2>2. PICK q, n : q = run[s] /\ n = [q EXCEPT !.pc = "ended", !.asked = "no", !.wrote = {}]
    OBVIOUS
  <2>3. DOMAIN n = DOMAIN Fresh /\ n.pc = "ended"
    BY <2>1, <2>2 DEF Fresh
  <2>4. run'[s] = n \/ run'[s] = q
    BY <1>1, <2>2 DEF EndRuns
  <2> QED
    BY <2>2, <2>3, <2>4 DEF Rests
<1> QED
  BY <1>1, <1>2, <1>3, RestsSound

(* The operator has chosen, and the transaction opens. *)
LEMMA SelectSound ==
    ASSUME ImportInv, NEW r \in Runs, SelectClient(r)
    PROVE  ImportInv'
<1>1. CASE Ask(r)
  <2>1. UNCHANGED overlapped
    BY <1>1 DEF Ask, InitPrompt
  <2> QED
    BY <1>1, <2>1, AskSound
<1>2. ASSUME NEW c \in LegacyClients, Proceed(r, [run[r] EXCEPT !.pc = "client", !.legacy = c]), run[r].pc = "select",
             overlapped' = (overlapped \/ \E s \in Runs \ {r} : Open(s))
      PROVE  ImportInv'
  <2>1. PICK D, ov, on, use, R, Z, q, n :
            /\ D = db /\ ov = overlapped /\ on = overlapped' /\ use = inUse /\ R = run /\ Z = run' /\ q = run[r]
            /\ n = [[q EXCEPT !.pc = "client", !.legacy = c] EXCEPT !.asked = "no"]
    OBVIOUS
  <2>2. /\ DbSound(D, ov) /\ ov \in BOOLEAN /\ RunsOf(R, ov) /\ Ended(D, R) /\ OpenSound(D, R, ov, use)
    BY <2>1, InvParts
  <2>3. /\ db' = D /\ inUse' = use /\ Z = [R EXCEPT ![r] = n] /\ DOMAIN R = Runs
        /\ DOMAIN q = DOMAIN Fresh /\ Started(q) /\ q.pc = "select"
    BY <1>2, <2>1, <2>2 DEF Proceed, RunsOf
  <2>4. on \in BOOLEAN /\ (ov => on) /\ (~on => \A s \in Runs \ {r} : ~IsOpen(R[s]))
    BY <1>2, <2>1, <2>2 DEF Open, IsOpen
  <2>5. DOMAIN Z = Runs /\ Z[r] = n /\ \A s \in Runs \ {r} : Z[s] = R[s]
    BY <2>3
  <2>6. DOMAIN n = DOMAIN Fresh /\ n.pc = "client" /\ n.legacy = c /\ Started(n)
    BY <2>1, <2>3 DEF Fresh, Started
  <2>7. DbSound(D, on)
    BY <2>2, <2>4, DbRelaxes
  <2>8. \A x \in D : x.id[1] # r
    BY <2>1, <2>2, <2>3 DEF Ended
  <2>9. RunSound(D, r, n, on, use)
    BY <2>6, <2>7, <2>8, ClientOpens
  <2>10. RunsOf(Z, on)
    BY <2>2, <2>4, <2>5, <2>6 DEF RunsOf, OpenApart
  <2>11. Ended(D, Z)
    BY <2>1, <2>2, <2>3, <2>5 DEF Ended
  <2>12. OpenSound(D, Z, on, use)
    <3> SUFFICES ASSUME NEW s \in Runs, IsOpen(Z[s]) PROVE RunSound(D, s, Z[s], on, use)
      BY DEF OpenSound
    <3>1. CASE s = r
      BY <2>5, <2>9, <3>1
    <3>2. CASE s # r
      <4>1. Z[s] = R[s] /\ RunSound(D, s, R[s], ov, use)
        BY <2>2, <2>5, <3>2 DEF OpenSound
      <4>2. RunSound(D, s, R[s], on, use)
        BY <2>2, <2>4, <4>1, RunRelaxes
      <4> QED
        BY <4>1, <4>2
    <3> QED
      BY <3>1, <3>2
  <2> QED
    BY <2>1, <2>3, <2>4, <2>7, <2>10, <2>11, <2>12, InvPartsNext
<1> QED
  BY <1>1, <1>2 DEF SelectClient

(* The client is found or made. *)
LEMMA ClientSound ==
    ASSUME ImportInv, NEW r \in Runs, MigrateClient(r)
    PROVE  ImportInv'
<1>1. PICK q, D, c : q = run[r] /\ D = db /\ c = q.legacy
  OBVIOUS
<1>2. q.pc = "client" /\ IsOpen(run[r])
  BY <1>1 DEF MigrateClient, IsOpen
<1>3. RunSound(D, r, q, overlapped, inUse) /\ RunTyped(q) /\ View(r) = Over(D, q.wrote)
  BY <1>1, <1>2, RunKnown
<1>4. Started(q)
  BY <1>2, <1>3 DEF RunSound, Refers
<1>5. View(r) = D
  BY <1>3, <1>4 DEF Started, Over
<1>6. PICK found, made : found = {x \in Table(D, "client") : x.legacy = c} /\ made = [New("client", r, c) EXCEPT !.legacy = c]
  OBVIOUS
<1>7. \/ Ask(r) /\ UNCHANGED overlapped
      \/ /\ found = {} /\ UNCHANGED overlapped
         /\ Proceed(r, [q EXCEPT !.pc = "sites", !.client = made.id, !.wrote = Over(@, {made})])
      \/ /\ found # {} /\ UNCHANGED overlapped
         /\ \E x \in found : Proceed(r, [q EXCEPT !.pc = "sites", !.client = x.id])
      \/ CloseSocket(run[r].socket, {r})
  BY <1>1, <1>5, <1>6 DEF MigrateClient, Ask, InitPrompt
<1>8. DOMAIN q = DOMAIN Fresh /\ q.i = 1 /\ q.wrote = {} /\ q.seen = {} /\ q.sites = {} /\ q.groups = {}
      /\ q.routes = {} /\ q.placed = {}
  BY <1>3, <1>4 DEF RunTyped, Started
<1>9. CASE found = {} /\ UNCHANGED overlapped /\ Proceed(r, [q EXCEPT !.pc = "sites", !.client = made.id, !.wrote = Over(@, {made})])
  <2>1. PICK n, S : n = [q EXCEPT !.pc = "sites", !.client = made.id, !.wrote = Over(@, {made})] /\ S = {made}
    OBVIOUS
  <2>2. IsRow(made) /\ made.t = "client" /\ made.id = <<r, "client", c>> /\ made.legacy = c
    BY <1>6 DEF IsRow, RowFields, New, Tables
  <2>3. /\ DOMAIN n = DOMAIN Fresh /\ n.pc = "sites" /\ n.legacy = q.legacy /\ n.i = 1 /\ n.seen = {} /\ n.sites = {}
        /\ n.groups = {} /\ n.routes = {} /\ n.placed = {} /\ n.client = made.id /\ n.wrote = Over(q.wrote, S)
    BY <1>8, <2>1 DEF Fresh
  <2>4. n.wrote = S
    BY <1>8, <2>3 DEF Over
  <2>5. \A x \in D : ~(x.t = "client" /\ x.legacy = q.legacy)
    BY <1>1, <1>6, <1>9 DEF Table
  <2>6. \E m : /\ S = {m} /\ IsRow(m) /\ m.t = "client" /\ m.id = <<r, "client", q.legacy>>
               /\ m.legacy = q.legacy /\ n.client = m.id
    BY <1>1, <2>1, <2>2, <2>3
  <2>7. RunSound(D, r, n, overlapped, inUse)
    BY <1>2, <1>3, <2>3, <2>4, <2>5, <2>6, ClientChosen
  <2> QED
    BY <1>1, <1>2, <1>9, <2>1, <2>7, ProceedSound
<1>10. ASSUME NEW x \in found, UNCHANGED overlapped, Proceed(r, [q EXCEPT !.pc = "sites", !.client = x.id])
       PROVE  ImportInv'
  <2>1. PICK n, S : n = [q EXCEPT !.pc = "sites", !.client = x.id] /\ S = {}
    OBVIOUS
  <2>2. /\ DOMAIN n = DOMAIN Fresh /\ n.pc = "sites" /\ n.legacy = q.legacy /\ n.i = 1 /\ n.seen = {} /\ n.sites = {}
        /\ n.groups = {} /\ n.routes = {} /\ n.placed = {} /\ n.client = x.id /\ n.wrote = S
    BY <1>8, <2>1 DEF Fresh
  <2>3. x \in D /\ x.t = "client" /\ x.legacy = q.legacy
    BY <1>1, <1>6, <1>10 DEF Table
  <2>4. S = {} /\ \E y \in D : y.t = "client" /\ y.legacy = q.legacy /\ y.id = n.client
    BY <2>1, <2>2, <2>3
  <2>5. RunSound(D, r, n, overlapped, inUse)
    BY <1>2, <1>3, <2>2, <2>4, ClientChosen
  <2> QED
    BY <1>1, <1>2, <1>10, <2>1, <2>5, ProceedSound
<1> QED
  BY <1>7, <1>9, <1>10, AskSound, CloseSound

(* The rows of the legacy client are read. *)
LEMMA ReadsSound ==
    ASSUME ImportInv, NEW r \in Runs, MigrateSites(r) \/ MigrateAssets(r)
    PROVE  ImportInv'
<1>1. PICK q, D, ov, use : q = run[r] /\ D = db /\ ov = overlapped /\ use = inUse
  OBVIOUS
<1>2. q.pc \in {"sites", "assets"} /\ IsOpen(run[r]) /\ UNCHANGED overlapped
  BY <1>1 DEF MigrateSites, MigrateAssets, IsOpen
<1>3. RunSound(D, r, q, ov, use) /\ RunTyped(q) /\ View(r) = Over(D, q.wrote)
  BY <1>1, <1>2, RunKnown
<1>4. PICK tables, t : /\ Proceed(r, [q EXCEPT !.pc = t, !.i = 1, !.seen = Migrated(r, tables)])
                       /\ \/ q.pc = "sites" /\ t = "group" /\ tables = {"site", "group"}
                          \/ q.pc = "assets" /\ t = "asset" /\ tables = {"asset"}
  BY <1>1 DEF MigrateSites, MigrateAssets
<1>5. PICK n : n = [q EXCEPT !.pc = t, !.i = 1, !.seen = Migrated(r, tables)]
  OBVIOUS
<1>6. Migrated(r, tables) = Finds(Over(D, q.wrote), q.legacy, tables)
  BY <1>1, <1>3 DEF Migrated, Finds
<1>7. Keeps(n, q) /\ n.i = 1 /\ n.sites = q.sites /\ n.groups = q.groups /\ n.pc = t /\ n.seen = Finds(Over(D, q.wrote), q.legacy, tables)
  BY <1>3, <1>5, <1>6 DEF RunTyped, Keeps, Fresh
<1>8. \/ q.pc = "sites" /\ n.pc = "group" /\ tables = {"site", "group"}
      \/ q.pc = "assets" /\ n.pc = "asset" /\ tables = {"asset"}
  BY <1>4, <1>7
<1>9. RunSound(D, r, n, ov, use)
  BY <1>3, <1>7, <1>8, PhaseReads
<1> QED
  BY <1>1, <1>2, <1>4, <1>5, <1>9, ProceedSound

(* A legacy group is handled. *)
LEMMA GroupSound ==
    ASSUME ImportInv, NEW r \in Runs, MigrateGroup(r)
    PROVE  ImportInv'
<1>1. PICK q, D, ov, use, j, t : q = run[r] /\ D = db /\ ov = overlapped /\ use = inUse /\ j = q.i /\ t = "group"
  OBVIOUS
<1>2. q.pc = t /\ IsOpen(run[r]) /\ t \in Numbered /\ TableOf(t) = LegacyGroups /\ t \in {"group", "site"}
      /\ q.pc # "site" /\ q.pc # "asset"
  BY <1>1 DEF MigrateGroup, IsOpen, Numbered, TableOf
<1>3. RunSound(D, r, q, ov, use) /\ RunTyped(q) /\ View(r) = Over(D, q.wrote)
  BY <1>1, <1>2, RunKnown
<1>4. PICK g, next, found, made, P :
          /\ g = LegacyGroups[q.legacy][j] /\ next = [q EXCEPT !.i = @ + 1] /\ P = Held(D, q)
          /\ found = {x \in q.seen : x.t = "group" /\ x.legacy = g.id}
          /\ made = [New("group", r, g.no) EXCEPT !.legacy = g.id, !.client = q.client]
  OBVIOUS
<1>5. IF q.i > Len(LegacyGroups[q.legacy])
           THEN Proceed(r, [q EXCEPT !.pc = "site", !.i = 1]) /\ UNCHANGED overlapped
           ELSE \/ g.id = None /\ Proceed(r, next) /\ UNCHANGED overlapped
                \/ /\ g.id # None
                   /\ \E x \in found : Proceed(r, [next EXCEPT !.groups = @ \cup {<<g.no, x.id>>}])
                   /\ UNCHANGED overlapped
                \/ g.id # None /\ found = {} /\ Ask(r)
                \/ /\ g.id # None /\ found = {} /\ Answered(r)
                   /\ Proceed(r, [next EXCEPT !.groups = @ \cup {<<g.no, made.id>>},
                                              !.wrote = Over(@, {made})])
                   /\ UNCHANGED overlapped
  BY <1>1, <1>4 DEF MigrateGroup
<1>6. UNCHANGED overlapped
  BY <1>5 DEF Ask, InitPrompt
<1>7. \A n : Proceed(r, n) /\ RunSound(D, r, n, ov, use) => ImportInv'
  BY <1>1, <1>2, <1>6, ProceedSound
<1>8. /\ DOMAIN next = DOMAIN Fresh /\ next.pc = t /\ next.legacy = q.legacy /\ next.client = q.client /\ next.i = q.i + 1
      /\ next.wrote = q.wrote /\ next.seen = q.seen /\ next.routes = q.routes /\ next.placed = q.placed
      /\ next.groups = q.groups /\ next.sites = q.sites
  BY <1>2, <1>3, <1>4 DEF RunTyped, Fresh
<1>9. CASE q.i > Len(LegacyGroups[q.legacy])
  <2>1. PICK n : n = [q EXCEPT !.pc = "site", !.i = 1]
    OBVIOUS
  <2>2. Keeps(n, q) /\ n.pc = "site" /\ n.i = 1 /\ n.sites = q.sites /\ n.groups = q.groups /\ n.seen = q.seen
    BY <1>3, <2>1 DEF RunTyped, Keeps, Fresh
  <2>3. Follows(q, n) /\ n.i \in Nat /\ n.i >= 1 /\ q.pc \in Numbered
    BY <1>1, <1>2, <1>9, <2>2 DEF Follows
  <2>4. RunSound(D, r, n, ov, use)
    BY <1>3, <2>2, <2>3, PhaseEnds
  <2> QED
    BY <1>5, <1>7, <1>9, <2>1, <2>4
<1>10. CASE ~(q.i > Len(LegacyGroups[q.legacy]))
  <2>1. j \in DOMAIN TableOf(t)[q.legacy]
    <3>1. Len(TableOf(t)[q.legacy]) \in Nat /\ DOMAIN TableOf(t)[q.legacy] = 1 .. Len(TableOf(t)[q.legacy])
      BY <1>2, <1>3, TablePlaces DEF RunTyped
    <3> QED
      BY <1>1, <1>2, <1>3, <1>10, <3>1 DEF RunTyped
  <2>2. CASE g.id = None /\ Proceed(r, next)
    <3>1. Keeps(next, q) /\ next.pc = q.pc
      BY <1>2, <1>8 DEF Keeps
    <3>2. RunSound(D, r, next, ov, use)
      BY <1>2, <1>3, <1>4, <1>8, <3>1, RowPasses
    <3> QED
      BY <1>7, <2>2, <3>2
  <2>3. ASSUME NEW x \in found, Proceed(r, [next EXCEPT !.groups = @ \cup {<<g.no, x.id>>}])
        PROVE  ImportInv'
    <3>1. PICK n, e : n = [next EXCEPT !.groups = @ \cup {<<g.no, x.id>>}] /\ e = <<g.no, x.id>>
      OBVIOUS
    <3>2. Keeps(n, q) /\ n.pc = q.pc /\ n.i = q.i + 1 /\ n.seen = q.seen /\ n.sites = q.sites /\ n.groups = q.groups \cup {e}
      BY <1>2, <1>8, <3>1 DEF Keeps, Fresh
    <3>3. Sees(P, q, x) /\ x.t = "group" /\ x \in q.seen
      BY <1>3, <1>4 DEF RunSound, Refers
    <3>4. Leads(P, q, "group", e)
      BY <3>1, <3>3, BareFields DEF Sees, Leads
    <3>5. RunSound(D, r, n, ov, use)
      BY <1>2, <1>3, <1>4, <3>2, <3>4, RowPasses
    <3> QED
      BY <1>7, <2>3, <3>1, <3>5
  <2>4. CASE Ask(r)
    BY <1>6, <2>4, AskSound
  <2>5. CASE /\ g.id # None /\ found = {}
             /\ Proceed(r, [next EXCEPT !.groups = @ \cup {<<g.no, made.id>>}, !.wrote = Over(@, {made})])
    <3>1. PICK n : n = [next EXCEPT !.groups = @ \cup {<<g.no, made.id>>}, !.wrote = Over(@, {made})]
      OBVIOUS
    <3>2. IsRow(made) /\ made.t = t /\ made.id = <<r, t, g.no>> /\ made.legacy = g.id /\ made.client = q.client
      BY <1>1, <1>4 DEF IsRow, RowFields, New, Tables
    <3>3. /\ DOMAIN n = DOMAIN Fresh /\ n.pc = t /\ n.legacy = q.legacy /\ n.client = q.client /\ n.i = q.i + 1
          /\ n.wrote = Over(q.wrote, {made}) /\ n.seen = q.seen /\ n.routes = q.routes /\ n.placed = q.placed
          /\ n.groups = q.groups \cup {<<g.no, made.id>>} /\ n.sites = q.sites
      BY <1>8, <3>1 DEF Fresh
    <3>4. \A x \in q.seen : ~(x.t = t /\ x.legacy = g.id)
      BY <1>1, <1>4, <2>5
    <3>5. /\ n.groups = IF t = "group" THEN q.groups \cup {<<g.no, made.id>>} ELSE q.groups
          /\ n.sites = IF t = "site" THEN q.sites \cup {<<g.no, made.id>>} ELSE q.sites
          /\ t # "site" /\ g = TableOf(t)[q.legacy][j]
      BY <1>1, <1>2, <1>4, <3>3
    <3>6. Place(D, r, q, ov, use, t, j, g)
      BY <1>1, <1>2, <1>3, <2>1, <2>5, <3>4, <3>5 DEF Place
    <3>7. RowOf(r, q, t, g, made)
      BY <3>2, <3>5 DEF RowOf
    <3>8. AfterPlace(q, n, t, g, made)
      BY <3>3, <3>5 DEF AfterPlace
    <3>9. RunSound(D, r, n, ov, use)
      BY <1>2, <3>6, <3>7, <3>8, PlaceMade
    <3> QED
      BY <1>7, <2>5, <3>1, <3>9
  <2> QED
    BY <1>5, <1>10, <2>2, <2>3, <2>4, <2>5
<1> QED
  BY <1>9, <1>10

(* The parent of a site is one of the groups the import knows. *)
LEMMA ParentKnown ==
    ASSUME NEW r, NEW s, ParentOf(r, s) # None
    PROVE  \E x \in run[r].groups : ParentOf(r, s) = x[2]
BY DEF ParentOf

(* A legacy location is handled. *)
LEMMA SiteSound ==
    ASSUME ImportInv, NEW r \in Runs, MigrateSite(r)
    PROVE  ImportInv'
<1>1. PICK q, D, ov, use, j, t : q = run[r] /\ D = db /\ ov = overlapped /\ use = inUse /\ j = q.i /\ t = "site"
  OBVIOUS
<1>2. q.pc = t /\ IsOpen(run[r]) /\ t \in Numbered /\ TableOf(t) = LegacySites /\ t \in {"group", "site"}
      /\ q.pc # "asset"
  BY <1>1 DEF MigrateSite, IsOpen, Numbered, TableOf
<1>3. RunSound(D, r, q, ov, use) /\ RunTyped(q) /\ View(r) = Over(D, q.wrote)
  BY <1>1, <1>2, RunKnown
<1>4. PICK s, next, found, made, P, parent :
          /\ s = LegacySites[q.legacy][j] /\ next = [q EXCEPT !.i = @ + 1] /\ P = Held(D, q) /\ parent = ParentOf(r, s)
          /\ found = {x \in q.seen : x.t = "site" /\ x.legacy = s.id}
          /\ made = [New("site", r, s.no) EXCEPT !.legacy = s.id, !.client = q.client, !.ref = parent]
  OBVIOUS
<1>5. IF q.i > Len(LegacySites[q.legacy])
           THEN Proceed(r, [q EXCEPT !.pc = "assets", !.i = 1]) /\ UNCHANGED overlapped
           ELSE \/ /\ s.id # None
                   /\ \E x \in found : Proceed(r, Recall(next, s, x))
                   /\ UNCHANGED overlapped
                \/ found = {} /\ Skipped(r, s) /\ Proceed(r, next) /\ UNCHANGED overlapped
                \/ found = {} /\ ~Skipped(r, s) /\ s.data # "full" /\ Ask(r)
                \/ /\ found = {} /\ ~Skipped(r, s) /\ (s.data = "full" \/ Answered(r))
                   /\ Proceed(r, [next EXCEPT !.sites = @ \cup {<<s.no, made.id>>},
                                              !.wrote = Over(@, {made})])
                   /\ UNCHANGED overlapped
  BY <1>1, <1>4 DEF MigrateSite
<1>6. UNCHANGED overlapped
  BY <1>5 DEF Ask, InitPrompt
<1>7. \A n : Proceed(r, n) /\ RunSound(D, r, n, ov, use) => ImportInv'
  BY <1>1, <1>2, <1>6, ProceedSound
<1>8. /\ DOMAIN next = DOMAIN Fresh /\ next.pc = t /\ next.legacy = q.legacy /\ next.client = q.client /\ next.i = q.i + 1
      /\ next.wrote = q.wrote /\ next.seen = q.seen /\ next.routes = q.routes /\ next.placed = q.placed
      /\ next.groups = q.groups /\ next.sites = q.sites
  BY <1>2, <1>3, <1>4 DEF RunTyped, Fresh
<1>9. CASE q.i > Len(LegacySites[q.legacy])
  <2>1. PICK n : n = [q EXCEPT !.pc = "assets", !.i = 1]
    OBVIOUS
  <2>2. Keeps(n, q) /\ n.pc = "assets" /\ n.i = 1 /\ n.sites = q.sites /\ n.groups = q.groups /\ n.seen = q.seen
    BY <1>3, <2>1 DEF RunTyped, Keeps, Fresh
  <2>3. Follows(q, n) /\ n.i \in Nat /\ n.i >= 1 /\ q.pc \in Numbered
    BY <1>1, <1>2, <1>9, <2>2 DEF Follows
  <2>4. RunSound(D, r, n, ov, use)
    BY <1>3, <2>2, <2>3, PhaseEnds
  <2> QED
    BY <1>5, <1>7, <1>9, <2>1, <2>4
<1>10. CASE ~(q.i > Len(LegacySites[q.legacy]))
  <2>1. j \in DOMAIN TableOf(t)[q.legacy]
    <3>1. Len(TableOf(t)[q.legacy]) \in Nat /\ DOMAIN TableOf(t)[q.legacy] = 1 .. Len(TableOf(t)[q.legacy])
      BY <1>2, <1>3, TablePlaces DEF RunTyped
    <3> QED
      BY <1>1, <1>2, <1>3, <1>10, <3>1 DEF RunTyped
  <2>2. CASE Skipped(r, s) /\ Proceed(r, next)
    <3>1. Keeps(next, q) /\ next.pc = q.pc
      BY <1>2, <1>8 DEF Keeps
    <3>2. s.id = None \/ \A a \in use : a.site # s.no
      BY <1>1, <2>2 DEF Skipped
    <3>3. /\ LegacySites[q.legacy][q.i].id # None
               /\ (\E a \in use : a.site = LegacySites[q.legacy][q.i].no)
             => FALSE
      BY <1>1, <1>4, <3>2
    <3>4. \A e : e \in next.groups => e \in q.groups
      BY <1>8
    <3>5. (\A e : e \in next.sites => e \in q.sites) /\ q.sites \subseteq next.sites
      BY <1>8
    <3>6. RunSound(D, r, next, ov, use)
      BY <1>2, <1>3, <1>4, <1>8, <3>1, <3>3, <3>4, <3>5, RowPasses
    <3> QED
      BY <1>7, <2>2, <3>6
  <2>3. ASSUME NEW x \in found, Proceed(r, Recall(next, s, x))
        PROVE  ImportInv'
    <3>1. PICK n, e : n = Recall(next, s, x) /\ e = <<s.no, x.id>>
      OBVIOUS
    <3>2. Keeps(n, q) /\ n.pc = q.pc /\ n.i = q.i + 1 /\ n.seen = q.seen /\ n.groups = q.groups /\ n.sites = q.sites \cup {e}
      BY <1>2, <1>8, <3>1 DEF Keeps, Fresh, Recall
    <3>3. Sees(P, q, x) /\ x.t = "site" /\ x \in q.seen
      BY <1>3, <1>4 DEF RunSound, Refers
    <3>4. Leads(P, q, "site", e) /\ e[1] = s.no /\ e \in n.sites
      BY <3>1, <3>2, <3>3, BareFields DEF Sees, Leads
    <3>5. RunSound(D, r, n, ov, use)
      BY <1>1, <1>2, <1>3, <1>4, <3>2, <3>4, RowPasses
    <3> QED
      BY <1>7, <2>3, <3>1, <3>5
  <2>4. CASE Ask(r)
    BY <1>6, <2>4, AskSound
  <2>5. CASE /\ found = {} /\ ~Skipped(r, s)
             /\ Proceed(r, [next EXCEPT !.sites = @ \cup {<<s.no, made.id>>}, !.wrote = Over(@, {made})])
    <3>1. PICK n : n = [next EXCEPT !.sites = @ \cup {<<s.no, made.id>>}, !.wrote = Over(@, {made})]
      OBVIOUS
    <3>2. /\ IsRow(made) /\ made.t = t /\ made.id = <<r, t, s.no>> /\ made.legacy = s.id /\ made.client = q.client
          /\ made.ref = parent
      BY <1>1, <1>4 DEF IsRow, RowFields, New, Tables
    <3>3. /\ DOMAIN n = DOMAIN Fresh /\ n.pc = t /\ n.legacy = q.legacy /\ n.client = q.client /\ n.i = q.i + 1
          /\ n.wrote = Over(q.wrote, {made}) /\ n.seen = q.seen /\ n.routes = q.routes /\ n.placed = q.placed
          /\ n.sites = q.sites \cup {<<s.no, made.id>>} /\ n.groups = q.groups
      BY <1>8, <3>1 DEF Fresh
    <3>4. (\A x \in q.seen : ~(x.t = t /\ x.legacy = s.id)) /\ s.id # None
      BY <1>1, <1>4, <2>5 DEF Skipped
    <3>5. /\ n.groups = IF t = "group" THEN q.groups \cup {<<s.no, made.id>>} ELSE q.groups
          /\ n.sites = IF t = "site" THEN q.sites \cup {<<s.no, made.id>>} ELSE q.sites
          /\ s = TableOf(t)[q.legacy][j]
      BY <1>1, <1>2, <1>4, <3>3
    <3>6. made.ref # None => \E x \in q.groups : made.ref = x[2]
      <4>1. ParentOf(r, s) # None => \E x \in run[r].groups : ParentOf(r, s) = x[2]
        BY ParentKnown
      <4> QED
        BY <1>1, <1>4, <3>2, <4>1
    <3>7. Place(D, r, q, ov, use, t, j, s)
      BY <1>1, <1>2, <1>3, <2>1, <3>4, <3>5 DEF Place
    <3>8. RowOf(r, q, t, s, made)
      BY <3>2, <3>6 DEF RowOf
    <3>9. AfterPlace(q, n, t, s, made)
      BY <3>3, <3>5 DEF AfterPlace
    <3>10. RunSound(D, r, n, ov, use)
      BY <1>2, <3>7, <3>8, <3>9, PlaceMade
    <3> QED
      BY <1>7, <2>5, <3>1, <3>10
  <2> QED
    BY <1>5, <1>10, <2>2, <2>3, <2>4, <2>5
<1> QED
  BY <1>9, <1>10

(* A legacy asset is handled. *)
LEMMA AssetSound ==
    ASSUME ImportInv, NEW r \in Runs, MigrateAsset(r)
    PROVE  ImportInv'
<1>1. PICK q : q = run[r]
  OBVIOUS
<1>2. IsOpen(run[r]) /\ Now(r, q)
  BY <1>1 DEF MigrateAsset, IsOpen, Now
<1>3. RunSound(db, r, q, overlapped, inUse) /\ DbSound(db, overlapped)
  BY <1>1, <1>2, RunKnown DEF ImportInv
<1>4. PICK n : Proceed(r, n) /\ RunSound(db, r, n, overlapped, inUse) /\ UNCHANGED overlapped
  BY <1>2, <1>3, AssetHandled
<1> QED
  BY <1>2, <1>4, ProceedSound

(* What the commit writes. *)
LEMMA CommitWrites ==
    ASSUME NEW r \in Runs, Commit(r)
    PROVE  db' = Over(db, run[r].wrote \cup Stripped(db, run[r].wrote))
<1>1. PICK W, D : W = run[r].wrote /\ D = db
  OBVIOUS
<1>2. PICK tags, taken : /\ tags = {x.tag : x \in Table(W, "asset")} \ {None}
                         /\ taken = {x \in Table(D, "asset") : x.tag \in tags /\ \A y \in W : y.id # x.id}
  OBVIOUS
<1>3. db' = Over(D, W \cup {[x EXCEPT !.tag = None] : x \in taken})
  BY <1>1, <1>2 DEF Commit
<1>4. PICK bare : bare = {z \in D : /\ z.t = "asset" /\ z.tag # None /\ \A y \in W : y.id # z.id
                                    /\ \E w \in W : w.t = "asset" /\ w.tag = z.tag}
  OBVIOUS
<1>5. taken = bare
  <2>1. \A x : x \in tags <=> x # None /\ \E w \in W : w.t = "asset" /\ w.tag = x
    BY <1>2 DEF Table
  <2> QED
    BY <1>2, <1>4, <2>1 DEF Table
<1>6. Stripped(D, W) = {[x EXCEPT !.tag = None] : x \in bare}
  BY <1>4 DEF Stripped
<1> QED
  BY <1>1, <1>3, <1>5, <1>6

(* An import commits. *)
LEMMA CommitKeeps ==
    ASSUME ImportInv, NEW r \in Runs, Commit(r)
    PROVE  ImportInv'
<1>1. PICK q, D, ov, use, R, Z, E, n :
          /\ q = run[r] /\ D = db /\ ov = overlapped /\ use = inUse /\ R = run /\ Z = run' /\ E = db'
          /\ n = [Fresh EXCEPT !.pc = "ended", !.socket = q.socket, !.legacy = q.legacy]
  OBVIOUS
<1>2. q.pc = "commit" /\ IsOpen(q) /\ Z = [R EXCEPT ![r] = n] /\ overlapped' = ov /\ inUse' = use
  BY <1>1 DEF Commit, IsOpen
<1>3. E = Over(D, q.wrote \cup Stripped(D, q.wrote))
  BY <1>1, CommitWrites
<1>4. /\ DbSound(D, ov) /\ ov \in BOOLEAN /\ RunsOf(R, ov) /\ Ended(D, R) /\ OpenSound(D, R, ov, use)
  BY <1>1, InvParts
<1>5. RunSound(D, r, q, ov, use)
  BY <1>1, <1>2, <1>4 DEF OpenSound
<1>6. DbSound(E, ov) /\ BareOf(E) = Held(D, q)
  BY <1>3, <1>4, <1>5, CommitSound
<1>7. n.pc = "ended" /\ DOMAIN n = DOMAIN Fresh
  BY <1>1 DEF Fresh
<1>8. DOMAIN Z = Runs /\ Z[r] = n /\ \A s \in Runs \ {r} : Z[s] = R[s]
  BY <1>2, <1>4 DEF RunsOf
<1>9. RunsOf(Z, ov)
  BY <1>4, <1>7, <1>8 DEF RunsOf, OpenApart, IsOpen
<1>10. Ended(E, Z)
  <2> SUFFICES ASSUME NEW x \in E, x.id[1] \in Runs PROVE Z[x.id[1]].pc = "ended"
    BY DEF Ended
  <2>1. PICK b : b = Bare(x)
    OBVIOUS
  <2>2. b \in BareOf(D) \cup BareOf(q.wrote) /\ b.id = x.id
    BY <1>6, <2>1, BareFields DEF BareOf, Held
  <2>3. CASE b \in BareOf(D)
    <3>1. PICK z \in D : b = Bare(z)
      BY <2>3 DEF BareOf
    <3>2. z.id = x.id
      BY <2>2, <3>1, BareFields
    <3>3. R[x.id[1]].pc = "ended"
      BY <1>4, <3>2 DEF Ended
    <3> QED
      BY <1>7, <1>8, <3>3
  <2>4. CASE b \notin BareOf(D)
    <3>1. Own(r, q, b)
      BY <1>5, <2>2, <2>4 DEF RunSound, Mine
    <3>2. x.id[1] = r
      BY <2>2, <3>1 DEF Own
    <3> QED
      BY <1>7, <1>8, <3>2
  <2> QED
    BY <2>3, <2>4
<1>11. OpenSound(E, Z, ov, use)
  <2> SUFFICES ASSUME NEW s \in Runs, IsOpen(Z[s]) PROVE RunSound(E, s, Z[s], ov, use)
    BY DEF OpenSound
  <2>1. s # r /\ Z[s] = R[s]
    BY <1>7, <1>8 DEF IsOpen
  <2>2. RunSound(D, s, R[s], ov, use) /\ IsOpen(R[s])
    BY <1>4, <2>1 DEF OpenSound
  <2>3. ov = TRUE
    BY <1>1, <1>2, <1>4, <2>1, <2>2 DEF RunsOf, OpenApart
  <2>4. PICK m : m = R[s]
    OBVIOUS
  <2>5. RunSound(D, s, m, ov, use)
    BY <2>2, <2>4
  <2>6. Commits(D, r, q, ov, use, E)
    BY <1>3, <1>4, <1>5, <2>3 DEF Commits
  <2>7. RunSound(E, s, m, ov, use)
    BY <2>1, <2>5, <2>6, CommitOthers
  <2> QED
    BY <2>1, <2>4, <2>7
<1> QED
  BY <1>1, <1>2, <1>4, <1>6, <1>9, <1>10, <1>11, InvPartsNext

(* The gateway starts an import, or hears an answer. *)
LEMMA GatewaySound ==
    ASSUME ImportInv, NEW w \in Sockets, PromptResponse(w) \/ \E r \in Runs : ProcessMigration(r, w)
    PROVE  ImportInv'
<1>1. DOMAIN run = Runs /\ \A s \in Runs : /\ DOMAIN run[s] = DOMAIN Fresh
                                           /\ run[s].pc \in {"new", "select"} => Started(run[s])
  BY DEF ImportInv
<1>2. CASE PromptResponse(w)
  <2>1. PICK p : p = pending[w]
    OBVIOUS
  <2>2. run' = [run EXCEPT ![p].asked = "answered"] /\ UNCHANGED <<db, inUse, overlapped>>
    BY <1>2, <2>1 DEF PromptResponse
  <2>3. DOMAIN run' = Runs
    BY <1>1, <2>2
  <2>4. ASSUME NEW s \in Runs PROVE Rests(run[s], run'[s])
    <3>1. PICK q, n : q = run[s] /\ n = [q EXCEPT !.asked = "answered"]
      OBVIOUS
    <3>2. Alike(q, n)
      BY <1>1, <3>1 DEF Alike, Fresh
    <3>3. run'[s] = n \/ run'[s] = q
      BY <1>1, <2>2, <3>1
    <3> QED
      BY <3>1, <3>2, <3>3 DEF Rests
  <2> QED
    BY <2>2, <2>3, <2>4, RestsSound
<1>3. ASSUME NEW r \in Runs, ProcessMigration(r, w) PROVE ImportInv'
  <2>1. run[r].pc = "new" /\ run' = [run EXCEPT ![r].pc = "select", ![r].socket = w] /\ UNCHANGED <<db, inUse, overlapped>>
    BY <1>3 DEF ProcessMigration
  <2>2. DOMAIN run' = Runs
    BY <1>1, <2>1
  <2>3. ASSUME NEW s \in Runs PROVE Rests(run[s], run'[s])
    <3>1. CASE s # r
      BY <1>1, <2>1, <3>1 DEF Rests
    <3>2. CASE s = r
      <4>1. PICK q, n : q = run[r] /\ n = [q EXCEPT !.pc = "select", !.socket = w]
        OBVIOUS
      <4>2. run'[r] = n
        BY <1>1, <2>1, <4>1
      <4>3. Started(q) /\ DOMAIN q = DOMAIN Fresh /\ q.pc = "new"
        BY <1>1, <2>1, <4>1
      <4>4. DOMAIN n = DOMAIN Fresh /\ n.pc = "select" /\ Started(n)
        BY <4>1, <4>3 DEF Started, Fresh
      <4> QED
        BY <3>2, <4>1, <4>2, <4>3, <4>4 DEF Rests
    <3> QED
      BY <3>1, <3>2
  <2> QED
    BY <2>1, <2>2, <2>3, RestsSound
<1> QED
  BY <1>2, <1>3

(* The legacy system goes on while no import is open. *)
LEMMA EntrySound ==
    ASSUME ImportInv, LegacyEntry
    PROVE  ImportInv'
<1>1. PICK D, ov, use, R, Z : D = db /\ ov = overlapped /\ use = inUse /\ R = run /\ Z = inUse'
  OBVIOUS
<1>2. /\ DbSound(D, ov) /\ ov \in BOOLEAN /\ RunsOf(R, ov) /\ Ended(D, R)
  BY <1>1, InvParts
<1>3. db' = D /\ overlapped' = ov /\ run' = R
  BY <1>1 DEF LegacyEntry
<1>4. OpenSound(D, R, ov, Z)
  BY <1>1 DEF LegacyEntry, OpenSound, Open, IsOpen
<1> QED
  BY <1>1, <1>2, <1>3, <1>4, InvPartsNext

(* Every step keeps the invariant. *)
LEMMA ImportSteps ==
    ASSUME ImportInv, [MigrationSteps]_migrationVars
    PROVE  ImportInv'
<1>1. CASE UNCHANGED migrationVars
  <2>1. UNCHANGED <<db, inUse, run, overlapped>>
    BY <1>1 DEF migrationVars
  <2>2. DOMAIN run' = Runs /\ \A r \in Runs : Rests(run[r], run'[r])
    BY <2>1 DEF Rests, ImportInv
  <2> QED
    BY <2>1, <2>2, RestsSound
<1>2. ASSUME NEW r \in Runs, Step(r) PROVE ImportInv'
  BY <1>2, SelectSound, ClientSound, ReadsSound, GroupSound, SiteSound, AssetSound, CommitKeeps DEF Step
<1>3. ASSUME NEW r \in Runs, Fail(r) PROVE ImportInv'
  <2>1. CloseSocket(run[r].socket, {r})
    BY <1>3 DEF Fail
  <2> QED
    BY <2>1, CloseSound
<1>4. ASSUME NEW w \in Sockets, HandleDisconnect(w) PROVE ImportInv'
  BY <1>4, CloseSound DEF HandleDisconnect
<1> QED
  BY <1>1, <1>2, <1>3, <1>4, GatewaySound, EntrySound DEF MigrationSteps

(* The invariant holds at the start. *)
LEMMA ImportStarts ==
    ASSUME MigrationInit
    PROVE  ImportInv
<1>1. PICK D, P, N, ov : D = Existing /\ P = BareOf(D) /\ N = ProductsOf(D) /\ ov = FALSE
  OBVIOUS
<1>2. NoLegacy(D)
  BY <1>1, MigrationAssumption
<1>3. /\ db = D /\ overlapped = ov /\ DOMAIN run = Runs
      /\ \A r \in Runs : run[r] = Fresh
  BY <1>1 DEF MigrationInit
<1>4. Started(Fresh) /\ Fresh.pc = "new"
  BY DEF Started, Fresh
<1>5. \A x \in D : /\ IsRow(x) /\ x.id[1] \notin Runs /\ x.id # None /\ x.legacy = None
                   /\ \A y \in D : x.id = y.id => x = y
  BY <1>2 DEF NoLegacy, IsRow, RowFields
<1>6. AllRows(D) /\ OneEach(D) /\ N = {} /\ ProductOnce(D)
  BY <1>1, <1>5 DEF AllRows, OneEach, ProductsOf, ProductOnce
<1>7. TagOnce(D) /\ TagsFit(D)
  <2>1. \A a \in D : a.t = "asset" /\ a.tag # None =>
                /\ \E x \in D : x.t = "tag" /\ x.id = a.tag /\ x.client = a.client /\ x.site = a.site
                /\ \A b \in D : b.t = "asset" /\ b.tag = a.tag => b = a
    BY <1>2 DEF NoLegacy, Table
  <2> QED
    BY <2>1 DEF TagOnce, TagsFit
<1>8. \A s \in D : s.t = "site" =>
          /\ s.client # None
          /\ s.ref # None => \E g \in D : g.t \in {"group", "site"} /\ g.id = s.ref /\ g.client = s.client
  BY <1>2 DEF NoLegacy, Table
<1>9. \A a \in D : a.t = "asset" =>
          /\ \E s \in D : s.t = "site" /\ s.id = a.site /\ s.client = a.client
          /\ \E p, c \in D : /\ p.t = "product" /\ c.t = "category" /\ p.id = a.ref /\ c.id = p.ref
                             /\ c.client \in {None, a.client}
  BY <1>2 DEF NoLegacy, Table
<1>10. \A p \in D : p.t = "point" =>
          \E z, a \in D : z.t = "route" /\ a.t = "asset" /\ z.id = p.site /\ a.id = p.ref /\ z.client = a.client
  BY <1>2 DEF NoLegacy, Table
<1>11. \A b \in P : \E x \in D : b = Bare(x)
  BY <1>1 DEF BareOf
<1>12. \A x \in D : Bare(x) \in P
  BY <1>1 DEF BareOf
<1>13. \A b \in P : b.legacy = None
  BY <1>5, <1>11 DEF Bare
<1>14. ASSUME NEW b \in P PROVE RowFits(b, P, N, ov)
  <2>1. PICK x \in D : b = Bare(x)
    BY <1>11
  <2>2. b.t = x.t /\ b.id = x.id
    BY <2>1, BareFields
  <2>3. ASSUME b.t = "site" PROVE b.client # None /\ (b.ref # None => Parented(b, P, ov))
    <3>1. b.client = x.client /\ b.ref = x.ref
      BY <2>1, <2>2, <2>3, BareFields
    <3>2. x.client # None /\ (x.ref # None => \E g \in D : g.t \in {"group", "site"} /\ g.id = x.ref /\ g.client = x.client)
      BY <1>8, <2>2, <2>3
    <3>3. ASSUME NEW g \in D, g.t \in {"group", "site"}, g.id = x.ref, g.client = x.client PROVE Parented(b, P, ov)
      <4>1. Bare(g) \in P /\ Bare(g).t = g.t /\ Bare(g).id = g.id /\ Bare(g).client = g.client
        BY <1>12, <3>3, BareFields
      <4> QED
        BY <3>1, <3>3, <4>1 DEF Parented
    <3> QED
      BY <3>1, <3>2, <3>3
  <2>4. ASSUME b.t = "asset" PROVE Housed(b, P) /\ Catalogued(b, P, N)
    <3>1. b.client = x.client /\ b.ref = x.ref /\ b.site = x.site
      BY <2>1, <2>2, <2>4, BareFields
    <3>2. /\ \E s \in D : s.t = "site" /\ s.id = x.site /\ s.client = x.client
          /\ \E p, c \in D : /\ p.t = "product" /\ c.t = "category" /\ p.id = x.ref /\ c.id = p.ref
                             /\ c.client \in {None, x.client}
      BY <1>9, <2>2, <2>4
    <3>3. PICK s \in D : s.t = "site" /\ s.id = x.site /\ s.client = x.client
      BY <3>2
    <3>4. PICK p \in D, c \in D : /\ p.t = "product" /\ c.t = "category" /\ p.id = x.ref /\ c.id = p.ref
                                  /\ c.client \in {None, x.client}
      BY <3>2
    <3>5. Bare(s) \in P /\ Bare(s).t = "site" /\ Bare(s).id = s.id /\ Bare(s).client = s.client
      BY <1>12, <3>3, BareFields
    <3>6. Bare(p) \in P /\ Bare(p).t = "product" /\ Bare(p).id = p.id /\ Bare(p).ref = p.ref
      BY <1>12, <3>4, BareFields
    <3>7. Bare(c) \in P /\ Bare(c).t = "category" /\ Bare(c).id = c.id /\ Bare(c).client = c.client
      BY <1>12, <3>4, BareFields
    <3>8. Housed(b, P)
      BY <3>1, <3>3, <3>5 DEF Housed
    <3>9. Catalogued(b, P, N)
      BY <3>1, <3>4, <3>6, <3>7 DEF Catalogued
    <3> QED
      BY <3>8, <3>9
  <2>5. ASSUME b.t = "point" PROVE OnTour(b, P)
    <3>1. b.site = x.site /\ b.ref = x.ref
      BY <2>1, <2>2, <2>5, BareFields
    <3>2. \E z, a \in D : z.t = "route" /\ a.t = "asset" /\ z.id = x.site /\ a.id = x.ref /\ z.client = a.client
      BY <1>10, <2>2, <2>5
    <3>3. PICK z \in D, a \in D : z.t = "route" /\ a.t = "asset" /\ z.id = x.site /\ a.id = x.ref /\ z.client = a.client
      BY <3>2
    <3>4. Bare(z) \in P /\ Bare(z).t = "route" /\ Bare(z).id = z.id /\ Bare(z).client = z.client
      BY <1>12, <3>3, BareFields
    <3>5. Bare(a) \in P /\ Bare(a).t = "asset" /\ Bare(a).id = a.id /\ Bare(a).client = a.client
      BY <1>12, <3>3, BareFields
    <3> QED
      BY <3>1, <3>3, <3>4, <3>5 DEF OnTour
  <2> QED
    BY <1>5, <1>6, <1>13, <2>2, <2>3, <2>4, <2>5 DEF RowFits
<1>15. Skeleton(P, N, ov)
  BY <1>13, <1>14 DEF Skeleton, Distinct
<1>16. DbSound(D, ov)
  BY <1>1, <1>6, <1>7, <1>15 DEF DbSound, RowsFit
<1>17. RunsOf(run, ov) /\ OpenSound(D, run, ov, inUse)
  BY <1>3, <1>4 DEF RunsOf, OpenApart, OpenSound, IsOpen
<1>18. Ended(D, run)
  BY <1>5 DEF Ended
<1> QED
  BY <1>1, <1>3, <1>16, <1>17, <1>18, InvParts

(* The invariant of the imports: what is committed and what every open     *)
(* transaction has written fit together at all times, whatever imports     *)
(* overlap, fail or are repeated.                                          *)
THEOREM ImportInvariant == MigrationSpec => []ImportInv
<1>1. MigrationInit => ImportInv
  BY ImportStarts
<1>2. ImportInv /\ [MigrationSteps]_migrationVars => ImportInv'
  BY ImportSteps
<1> QED
  BY <1>1, <1>2, PTL DEF MigrationSpec

-----------------------------------------------------------------------------
(* The prompts.                                                            *)

(* What a step of an import is, apart from its data. *)
Kept(q, n) == DOMAIN n = DOMAIN Fresh /\ n.socket = q.socket /\ n.pc \in Phases

(* A tour keeps the socket. *)
LEMMA TouredKept ==
    ASSUME NEW r, NEW q, NEW m, Kept(q, m), NEW V, NEW a, NEW x, NEW n \in Toured(r, m, V, a, x)
    PROVE  Kept(q, n)
<1>1. CASE n = m
  BY <1>1
<1>2. CASE n \in MigrateRouteAssignment(r, m, V, x) /\ n # m
  <2>1. PICK l : l = LoadRoutes(m, V)
    OBVIOUS
  <2>2. Kept(q, l)
    BY <2>1 DEF LoadRoutes, Kept, Fresh
  <2>3. \/ \E R, P, W : n = [l EXCEPT !.routes = R, !.placed = P, !.wrote = W]
        \/ \E P, W : n = [l EXCEPT !.placed = P, !.wrote = W]
    BY <1>2, <2>1 DEF MigrateRouteAssignment
  <2>4. ASSUME NEW R, NEW P, NEW W, n = [l EXCEPT !.routes = R, !.placed = P, !.wrote = W] PROVE Kept(q, n)
    BY <2>2, <2>4 DEF Kept, Fresh
  <2>5. ASSUME NEW P, NEW W, n = [l EXCEPT !.placed = P, !.wrote = W] PROVE Kept(q, n)
    BY <2>2, <2>5 DEF Kept, Fresh
  <2> QED
    BY <2>3, <2>4, <2>5
<1> QED
  BY <1>1, <1>2 DEF Toured

(* A step of an import asks, ends it, or goes on with the same socket. *)
LEMMA StepKinds ==
    ASSUME ImportInv, NEW r \in Runs, Step(r)
    PROVE  \/ Ask(r) /\ run[r].pc # "new" /\ run[r].pc # "ended"
           \/ CloseSocket(run[r].socket, {r})
           \/ \E n : Proceed(r, n) /\ Kept(run[r], n)
           \/ Commit(r)
<1>1. PICK q : q = run[r]
  OBVIOUS
<1>2. DOMAIN q = DOMAIN Fresh
  BY <1>1 DEF ImportInv
<1>3. CASE SelectClient(r)
  <2>1. \A c : Kept(q, [q EXCEPT !.pc = "client", !.legacy = c])
    BY <1>2 DEF Kept, Fresh, Phases
  <2> QED
    BY <1>1, <1>3, <2>1 DEF SelectClient
<1>4. CASE MigrateClient(r)
  <2>1. \A c : Kept(q, [q EXCEPT !.pc = "sites", !.client = c])
    BY <1>2 DEF Kept, Fresh, Phases
  <2>2. \A c, W : Kept(q, [q EXCEPT !.pc = "sites", !.client = c, !.wrote = W])
    BY <1>2 DEF Kept, Fresh, Phases
  <2> QED
    BY <1>1, <1>4, <2>1, <2>2 DEF MigrateClient
<1>5. CASE MigrateSites(r) \/ MigrateAssets(r)
  <2>1. \A t \in Phases : \A S : Kept(q, [q EXCEPT !.pc = t, !.i = 1, !.seen = S])
    BY <1>2 DEF Kept, Fresh
  <2>2. "group" \in Phases /\ "asset" \in Phases
    BY DEF Phases
  <2> QED
    BY <1>1, <1>5, <2>1, <2>2 DEF MigrateSites, MigrateAssets
<1>6. PICK next : next = [q EXCEPT !.i = @ + 1]
  OBVIOUS
<1>7. CASE MigrateGroup(r)
  <2>1. q.pc = "group"
    BY <1>1, <1>7 DEF MigrateGroup
  <2>2. Kept(q, next) /\ Kept(q, [q EXCEPT !.pc = "site", !.i = 1])
    BY <1>2, <1>6, <2>1 DEF Kept, Fresh, Phases
  <2>3. \A e, m : /\ Kept(q, [next EXCEPT !.groups = @ \cup {e}])
                  /\ Kept(q, [next EXCEPT !.groups = @ \cup {e}, !.wrote = Over(@, {m})])
    BY <2>2 DEF Kept, Fresh
  <2> QED
    BY <1>1, <1>6, <1>7, <2>1, <2>2, <2>3 DEF MigrateGroup
<1>8. CASE MigrateSite(r)
  <2>1. q.pc = "site"
    BY <1>1, <1>8 DEF MigrateSite
  <2>2. Kept(q, next) /\ Kept(q, [q EXCEPT !.pc = "assets", !.i = 1])
    BY <1>2, <1>6, <2>1 DEF Kept, Fresh, Phases
  <2>3. \A e, m : /\ Kept(q, [next EXCEPT !.sites = @ \cup {e}])
                  /\ Kept(q, [next EXCEPT !.sites = @ \cup {e}, !.wrote = Over(@, {m})])
    BY <2>2 DEF Kept, Fresh
  <2>4. \A s, x : Kept(q, Recall(next, s, x))
    BY <2>3 DEF Recall
  <2> QED
    BY <1>1, <1>6, <1>8, <2>1, <2>2, <2>3, <2>4 DEF MigrateSite
<1>9. CASE MigrateAsset(r)
  <2>1. q.pc = "asset"
    BY <1>1, <1>9 DEF MigrateAsset
  <2>2. Kept(q, next) /\ Kept(q, [q EXCEPT !.pc = "commit"])
    BY <1>2, <1>6, <2>1 DEF Kept, Fresh, Phases
  <2>3. PICK a : a = LegacyAssets[q.legacy][q.i]
    OBVIOUS
  <2>4. \/ Proceed(r, [q EXCEPT !.pc = "commit"])
        \/ Proceed(r, next)
        \/ \E x : \E n \in Toured(r, next, View(r), a, x) : Proceed(r, n)
        \/ \E s : MigrateNewAsset(r, next, a, s)
    BY <1>1, <1>6, <1>9, <2>3 DEF MigrateAsset
  <2>5. ASSUME NEW x, NEW n \in Toured(r, next, View(r), a, x), Proceed(r, n)
        PROVE  \E m : Proceed(r, m) /\ Kept(q, m)
    <3>1. PICK V : V = View(r)
      OBVIOUS
    <3>2. Kept(q, n)
      BY <2>2, <2>5, <3>1, TouredKept
    <3> QED
      BY <2>5, <3>2
  <2>6. ASSUME NEW s, MigrateNewAsset(r, next, a, s) PROVE \E m : Proceed(r, m) /\ Kept(q, m)
    <3>1. \A W : Kept(q, [next EXCEPT !.wrote = W])
      BY <2>2 DEF Kept, Fresh
    <3>2. \/ \E W : Proceed(r, [next EXCEPT !.wrote = W])
          \/ \E W, V, m : \E n \in Toured(r, [next EXCEPT !.wrote = W], V, a, m) : Proceed(r, n)
      BY <2>6 DEF MigrateNewAsset
    <3>3. ASSUME NEW W, NEW V, NEW m, NEW n \in Toured(r, [next EXCEPT !.wrote = W], V, a, m), Proceed(r, n)
          PROVE  \E e : Proceed(r, e) /\ Kept(q, e)
      <4>1. PICK e : e = [next EXCEPT !.wrote = W]
        OBVIOUS
      <4>2. Kept(q, e) /\ n \in Toured(r, e, V, a, m)
        BY <3>1, <3>3, <4>1
      <4>3. Kept(q, n)
        BY <4>2, TouredKept
      <4> QED
        BY <3>3, <4>3
    <3> QED
      BY <3>1, <3>2, <3>3
  <2> QED
    BY <1>1, <2>2, <2>4, <2>5, <2>6
<1> QED
  BY <1>3, <1>4, <1>5, <1>7, <1>8, <1>9 DEF Step

(* A prompt that is pending is that of an import that waits for it; where  *)
(* an import waits and another prompt is pending, a later import asked it. *)
Shares(R, r) == \E s \in Runs \ {r} : R[s].pc # "new" /\ R[s].socket = R[r].socket
Prompts(R, sock, pend) ==
    /\ DOMAIN R = Runs /\ DOMAIN sock = Sockets /\ DOMAIN pend = Sockets
    /\ \A r \in Runs : DOMAIN R[r] = DOMAIN Fresh /\ (R[r].pc # "new" => R[r].socket \in Sockets)
    /\ \A w \in Sockets : pend[w] # None =>
          pend[w] \in Runs /\ R[pend[w]].socket = w /\ R[pend[w]].pc # "new" /\ sock[w] = "open"
    /\ \A r \in Runs : R[r].asked = "waiting" =>
          R[r].pc # "new" /\ (pend[R[r].socket] = r \/ Shares(R, r))
HeardInv == Prompts(run, socket, pending)

(* Imports keep their sockets, and one that has begun stays so. *)
SocketsKept(R, Z) ==
    /\ DOMAIN Z = Runs
    /\ \A r \in Runs : /\ DOMAIN Z[r] = DOMAIN Fresh
                       /\ R[r].pc # "new" => Z[r].pc # "new" /\ Z[r].socket = R[r].socket

(* Then nothing about the prompts changes but for the imports that wait. *)
LEMMA PromptsKept ==
    ASSUME NEW R, NEW Z, NEW sock, NEW pend, NEW on, NEW next, Prompts(R, sock, pend), SocketsKept(R, Z),
           DOMAIN on = Sockets, DOMAIN next = Sockets,
           \A r \in Runs : R[r].pc = "new" => (Z[r].pc # "new" => Z[r].socket \in Sockets),
           \A w \in Sockets : next[w] # None =>
              \/ next[w] = pend[w] /\ on[w] = sock[w]
              \/ next[w] \in Runs /\ Z[next[w]].socket = w /\ Z[next[w]].pc # "new" /\ on[w] = "open",
           \A r \in Runs : Z[r].asked = "waiting" =>
              \/ Z[r].pc # "new" /\ next[Z[r].socket] = r
              \/ Z[r].pc # "new" /\ Shares(Z, r)
              \/ /\ R[r].asked = "waiting"
                 /\ pend[R[r].socket] = r => next[R[r].socket] = r \/ Shares(Z, r)
    PROVE  Prompts(Z, on, next)
<1>1. \A r \in Runs : R[r].pc # "new" /\ Shares(R, r) => Shares(Z, r)
  BY DEF Shares, SocketsKept
<1>2. \A r \in Runs : Z[r].pc # "new" => Z[r].socket \in Sockets
  BY DEF Prompts, SocketsKept
<1>3. ASSUME NEW w \in Sockets, next[w] # None
      PROVE  next[w] \in Runs /\ Z[next[w]].socket = w /\ Z[next[w]].pc # "new" /\ on[w] = "open"
  BY <1>3 DEF Prompts, SocketsKept
<1>4. ASSUME NEW r \in Runs, Z[r].asked = "waiting"
      PROVE  Z[r].pc # "new" /\ (next[Z[r].socket] = r \/ Shares(Z, r))
  <2>1. CASE /\ R[r].asked = "waiting"
             /\ pend[R[r].socket] = r => next[R[r].socket] = r \/ Shares(Z, r)
    <3>1. R[r].pc # "new" /\ (pend[R[r].socket] = r \/ Shares(R, r))
      BY <2>1 DEF Prompts
    <3>2. Z[r].pc # "new" /\ Z[r].socket = R[r].socket
      BY <3>1 DEF SocketsKept
    <3> QED
      BY <1>1, <2>1, <3>1, <3>2
  <2> QED
    BY <1>4, <2>1
<1> QED
  BY <1>2, <1>3, <1>4 DEF Prompts, SocketsKept

(* An import asks. *)
LEMMA AskHeard ==
    ASSUME HeardInv, NEW r \in Runs, Ask(r), run[r].pc # "new"
    PROVE  HeardInv'
<1>1. PICK R, Z, sock, pend, next, w : /\ R = run /\ Z = run' /\ sock = socket /\ pend = pending /\ next = pending'
                                       /\ w = run[r].socket
  OBVIOUS
<1>2. /\ sock[w] = "open" /\ Z = [R EXCEPT ![r].asked = "waiting"] /\ next = [pend EXCEPT ![w] = r]
      /\ socket' = sock /\ R[r].asked = "no" /\ R[r].socket = w
  BY <1>1 DEF Ask, InitPrompt
<1>3. Prompts(R, sock, pend)
  BY <1>1 DEF HeardInv
<1>4. /\ DOMAIN R = Runs /\ DOMAIN sock = Sockets /\ DOMAIN pend = Sockets /\ w \in Sockets
      /\ \A s \in Runs : DOMAIN R[s] = DOMAIN Fresh
  BY <1>1, <1>3 DEF Prompts
<1>5. /\ DOMAIN Z = Runs /\ DOMAIN next = Sockets /\ next[w] = r
      /\ \A v \in Sockets \ {w} : next[v] = pend[v]
      /\ \A s \in Runs \ {r} : Z[s] = R[s]
      /\ Z[r] = [R[r] EXCEPT !.asked = "waiting"]
  BY <1>2, <1>4
<1>6. DOMAIN Z[r] = DOMAIN Fresh /\ Z[r].pc = R[r].pc /\ Z[r].socket = w
  BY <1>2, <1>4, <1>5 DEF Fresh
<1>7. SocketsKept(R, Z) /\ \A s \in Runs : R[s].pc = "new" => Z[s].pc = "new"
  BY <1>2, <1>4, <1>5, <1>6 DEF SocketsKept
<1>8. R[r].pc # "new" /\ Z[r].pc # "new"
  BY <1>1, <1>6
<1>9. \A v \in Sockets : next[v] # None =>
         \/ next[v] = pend[v] /\ sock[v] = sock[v]
         \/ next[v] \in Runs /\ Z[next[v]].socket = v /\ Z[next[v]].pc # "new" /\ sock[v] = "open"
  BY <1>2, <1>5, <1>6, <1>8
<1>10. ASSUME NEW s \in Runs, Z[s].asked = "waiting"
       PROVE  \/ Z[s].pc # "new" /\ next[Z[s].socket] = s
              \/ Z[s].pc # "new" /\ Shares(Z, s)
              \/ /\ R[s].asked = "waiting"
                 /\ pend[R[s].socket] = s => next[R[s].socket] = s \/ Shares(Z, s)
  <2>1. CASE s = r
    BY <1>5, <1>6, <1>8, <2>1
  <2>2. CASE s # r /\ R[s].socket # w
    <3>1. R[s].asked = "waiting" /\ R[s].pc # "new" /\ R[s].socket \in Sockets
      BY <1>3, <1>5, <1>10, <2>2 DEF Prompts
    <3> QED
      BY <1>5, <2>2, <3>1
  <2>3. CASE s # r /\ R[s].socket = w
    <3>1. R[s].asked = "waiting" /\ Z[s] = R[s]
      BY <1>5, <1>10, <2>3
    <3>2. Shares(Z, s)
      BY <1>6, <1>8, <2>3, <3>1 DEF Shares
    <3> QED
      BY <3>1, <3>2
  <2> QED
    BY <2>1, <2>2, <2>3
<1>11. Prompts(Z, sock, next)
  BY <1>3, <1>4, <1>5, <1>7, <1>9, <1>10, PromptsKept
<1> QED
  BY <1>1, <1>2, <1>11 DEF HeardInv

(* A socket closes. *)
LEMMA CloseHeard ==
    ASSUME HeardInv, NEW w \in Sockets, NEW S, CloseSocket(w, S), \A s \in S : run[s].socket = w
    PROVE  HeardInv'
<1>1. PICK R, Z, sock, on, pend, next, T :
          /\ R = run /\ Z = run' /\ sock = socket /\ on = socket' /\ pend = pending /\ next = pending'
          /\ T = S \cup ({pending[w]} \cap Runs)
  OBVIOUS
<1>2. /\ on = [sock EXCEPT ![w] = "closed"] /\ next = [pend EXCEPT ![w] = None] /\ EndRuns(T)
  BY <1>1 DEF CloseSocket
<1>3. Prompts(R, sock, pend)
  BY <1>1 DEF HeardInv
<1>4. /\ DOMAIN R = Runs /\ DOMAIN sock = Sockets /\ DOMAIN pend = Sockets
      /\ \A s \in Runs : DOMAIN R[s] = DOMAIN Fresh
  BY <1>3 DEF Prompts
<1>5. /\ DOMAIN on = Sockets /\ DOMAIN next = Sockets /\ next[w] = None
      /\ \A v \in Sockets \ {w} : next[v] = pend[v] /\ on[v] = sock[v]
  BY <1>2, <1>4
<1>6. Z = [s \in Runs |-> IF s \in T THEN [R[s] EXCEPT !.pc = "ended", !.asked = "no", !.wrote = {}] ELSE R[s]]
  BY <1>1, <1>2 DEF EndRuns
<1>7. ASSUME NEW s \in Runs
      PROVE  /\ DOMAIN Z[s] = DOMAIN Fresh /\ Z[s].socket = R[s].socket
             /\ Z[s] = R[s] \/ (s \in T /\ Z[s].pc = "ended" /\ Z[s].asked = "no")
  <2>1. PICK q, n : q = R[s] /\ n = [q EXCEPT !.pc = "ended", !.asked = "no", !.wrote = {}]
    OBVIOUS
  <2>2. DOMAIN n = DOMAIN Fresh /\ n.socket = q.socket /\ n.pc = "ended" /\ n.asked = "no" /\ DOMAIN q = DOMAIN Fresh
    BY <1>4, <2>1 DEF Fresh
  <2>3. Z[s] = IF s \in T THEN n ELSE q
    BY <1>6, <2>1
  <2> QED
    BY <2>1, <2>2, <2>3
<1>8. \A s \in T : s \in Runs => R[s].socket = w
  <2> SUFFICES ASSUME NEW s \in T, s \in Runs PROVE R[s].socket = w
    OBVIOUS
  <2>1. CASE s \in S
    BY <1>1, <2>1
  <2>2. CASE s = pend[w]
    <3>1. pend[w] # None
      BY <2>2, MigrationAssumption
    <3> QED
      BY <1>3, <2>2, <3>1 DEF Prompts
  <2> QED
    BY <1>1, <2>1, <2>2
<1>9. SocketsKept(R, Z) /\ \A s \in Runs : R[s].pc = "new" => (Z[s].pc # "new" => Z[s].socket \in Sockets)
  BY <1>6, <1>7, <1>8 DEF SocketsKept
<1>10. \A v \in Sockets : next[v] # None => next[v] = pend[v] /\ on[v] = sock[v]
  BY <1>5
<1>11. ASSUME NEW s \in Runs, Z[s].asked = "waiting"
       PROVE  /\ R[s].asked = "waiting"
              /\ pend[R[s].socket] = s => next[R[s].socket] = s \/ Shares(Z, s)
  <2>1. Z[s] = R[s] /\ R[s].asked = "waiting"
    BY <1>7, <1>11
  <2>2. R[s].pc # "new" /\ R[s].socket \in Sockets
    BY <1>3, <2>1 DEF Prompts
  <2>3. CASE R[s].socket = w
    <3>1. pend[w] # s
      <4> SUFFICES ASSUME pend[w] = s PROVE FALSE
        OBVIOUS
      <4>1. s \in T
        BY <1>1
      <4>2. PICK q, n : q = R[s] /\ n = [q EXCEPT !.pc = "ended", !.asked = "no", !.wrote = {}]
        OBVIOUS
      <4>3. n.asked = "no"
        BY <1>4, <4>2 DEF Fresh
      <4>4. Z[s] = n
        BY <1>6, <4>1, <4>2
      <4> QED
        BY <1>11, <4>3, <4>4
    <3> QED
      BY <2>1, <2>3, <3>1
  <2>4. CASE R[s].socket # w
    BY <1>5, <2>1, <2>2, <2>4
  <2> QED
    BY <2>3, <2>4
<1>12. Prompts(Z, on, next)
  BY <1>3, <1>5, <1>9, <1>10, <1>11, PromptsKept
<1> QED
  BY <1>1, <1>12 DEF HeardInv

(* An import that has begun goes on, ends or is answered: it waits no more. *)
LEMMA MoveHeard ==
    ASSUME HeardInv, NEW r \in Runs, NEW m, run' = [run EXCEPT ![r] = m], UNCHANGED socket,
           DOMAIN m = DOMAIN Fresh, m.pc # "new", m.asked # "waiting",
           \/ run[r].pc # "new" /\ m.socket = run[r].socket
           \/ run[r].pc = "new" /\ m.socket \in Sockets,
           \/ pending' = pending
           \/ pending[run[r].socket] = r /\ pending' = [pending EXCEPT ![run[r].socket] = None]
    PROVE  HeardInv'
<1>1. PICK R, Z, sock, pend, next : R = run /\ Z = run' /\ sock = socket /\ pend = pending /\ next = pending'
  OBVIOUS
<1>2. Prompts(R, sock, pend) /\ socket' = sock
  BY <1>1 DEF HeardInv
<1>3. /\ DOMAIN R = Runs /\ DOMAIN sock = Sockets /\ DOMAIN pend = Sockets
      /\ \A s \in Runs : DOMAIN R[s] = DOMAIN Fresh
  BY <1>2 DEF Prompts
<1>4. DOMAIN Z = Runs /\ Z[r] = m /\ \A s \in Runs \ {r} : Z[s] = R[s]
  BY <1>1, <1>3
<1>5. DOMAIN next = Sockets /\ \A v \in Sockets : next[v] = pend[v] \/ (next[v] = None /\ pend[v] = r)
  BY <1>1, <1>3
<1>6. SocketsKept(R, Z) /\ \A s \in Runs : R[s].pc = "new" => (Z[s].pc # "new" => Z[s].socket \in Sockets)
  BY <1>1, <1>3, <1>4 DEF SocketsKept
<1>7. \A v \in Sockets : next[v] # None => next[v] = pend[v] /\ sock[v] = sock[v]
  BY <1>5
<1>8. ASSUME NEW s \in Runs, Z[s].asked = "waiting"
      PROVE  /\ R[s].asked = "waiting"
             /\ pend[R[s].socket] = s => next[R[s].socket] = s \/ Shares(Z, s)
  <2>1. s # r /\ Z[s] = R[s] /\ R[s].asked = "waiting"
    BY <1>4, <1>8
  <2>2. R[s].socket \in Sockets
    BY <1>2, <2>1 DEF Prompts
  <2> QED
    BY <1>5, <2>1, <2>2
<1>9. Prompts(Z, sock, next)
  BY <1>2, <1>3, <1>5, <1>6, <1>7, <1>8, PromptsKept
<1> QED
  BY <1>1, <1>2, <1>9 DEF HeardInv

(* Every step keeps the prompts as they should be. *)
LEMMA HeardSteps ==
    ASSUME ImportInv, HeardInv, [MigrationSteps]_migrationVars
    PROVE  HeardInv'
<1>1. /\ DOMAIN run = Runs /\ DOMAIN pending = Sockets
      /\ \A r \in Runs : DOMAIN run[r] = DOMAIN Fresh /\ (run[r].pc # "new" => run[r].socket \in Sockets)
      /\ \A r \in Runs : run[r].asked = "waiting" => run[r].pc # "new"
      /\ \A w \in Sockets : pending[w] # None =>
            pending[w] \in Runs /\ run[pending[w]].socket = w /\ run[pending[w]].pc # "new"
  BY DEF HeardInv, Prompts
<1>2. CASE UNCHANGED migrationVars \/ LegacyEntry
  BY <1>2 DEF migrationVars, LegacyEntry, HeardInv
<1>3. ASSUME NEW r \in Runs, Step(r) PROVE HeardInv'
  <2>1. run[r].pc # "new"
    BY <1>3 DEF Step, SelectClient, MigrateClient, MigrateSites, MigrateGroup, MigrateSite, MigrateAssets,
                MigrateAsset, Commit
  <2>2. CASE Ask(r)
    BY <2>1, <2>2, AskHeard
  <2>3. CASE CloseSocket(run[r].socket, {r})
    BY <1>1, <2>1, <2>3, CloseHeard
  <2>4. ASSUME NEW n, Proceed(r, n), Kept(run[r], n) PROVE HeardInv'
    <3>1. PICK m : m = [n EXCEPT !.asked = "no"]
      OBVIOUS
    <3>2. DOMAIN m = DOMAIN Fresh /\ m.pc # "new" /\ m.asked # "waiting" /\ m.socket = run[r].socket
      BY <2>4, <3>1 DEF Kept, Fresh, Phases
    <3>3. run' = [run EXCEPT ![r] = m] /\ UNCHANGED <<socket, pending>>
      BY <2>4, <3>1 DEF Proceed
    <3> QED
      BY <2>1, <3>2, <3>3, MoveHeard
  <2>5. CASE Commit(r)
    <3>1. PICK m : m = [Fresh EXCEPT !.pc = "ended", !.socket = run[r].socket, !.legacy = run[r].legacy]
      OBVIOUS
    <3>2. DOMAIN m = DOMAIN Fresh /\ m.pc # "new" /\ m.asked # "waiting" /\ m.socket = run[r].socket
      BY <3>1 DEF Fresh
    <3>3. run' = [run EXCEPT ![r] = m] /\ UNCHANGED <<socket, pending>>
      BY <2>5, <3>1 DEF Commit
    <3> QED
      BY <2>1, <3>2, <3>3, MoveHeard
  <2> QED
    BY <1>3, <2>2, <2>3, <2>4, <2>5, StepKinds
<1>4. ASSUME NEW r \in Runs, Fail(r) PROVE HeardInv'
  BY <1>1, <1>4, CloseHeard DEF Fail
<1>5. ASSUME NEW w \in Sockets, HandleDisconnect(w) PROVE HeardInv'
  BY <1>5, CloseHeard DEF HandleDisconnect
<1>6. ASSUME NEW w \in Sockets, PromptResponse(w) PROVE HeardInv'
  <2>1. PICK p : p = pending[w]
    OBVIOUS
  <2>2. p \in Runs /\ run[p].socket = w /\ run[p].pc # "new"
    BY <1>1, <1>6, <2>1 DEF PromptResponse
  <2>3. PICK m : m = [run[p] EXCEPT !.asked = "answered"]
    OBVIOUS
  <2>4. DOMAIN m = DOMAIN Fresh /\ m.pc # "new" /\ m.asked # "waiting" /\ m.socket = run[p].socket
    BY <1>1, <2>2, <2>3 DEF Fresh
  <2>5. run' = [run EXCEPT ![p] = m] /\ UNCHANGED socket /\ pending' = [pending EXCEPT ![w] = None]
    BY <1>1, <1>6, <2>1, <2>3 DEF PromptResponse
  <2> QED
    BY <2>1, <2>2, <2>4, <2>5, MoveHeard
<1>7. ASSUME NEW w \in Sockets, NEW r \in Runs, ProcessMigration(r, w) PROVE HeardInv'
  <2>1. PICK m : m = [run[r] EXCEPT !.pc = "select", !.socket = w]
    OBVIOUS
  <2>2. run[r].pc = "new" /\ run[r].asked # "waiting"
    BY <1>1, <1>7 DEF ProcessMigration
  <2>3. DOMAIN m = DOMAIN Fresh /\ m.pc # "new" /\ m.asked # "waiting" /\ m.socket \in Sockets
    BY <1>1, <2>1, <2>2 DEF Fresh
  <2>4. run' = [run EXCEPT ![r] = m] /\ UNCHANGED <<socket, pending>>
    BY <1>1, <1>7, <2>1 DEF ProcessMigration
  <2> QED
    BY <2>2, <2>3, <2>4, MoveHeard
<1> QED
  BY <1>2, <1>3, <1>4, <1>5, <1>6, <1>7 DEF MigrationSteps

(* The prompts are as they should be at the start. *)
LEMMA HeardStarts ==
    ASSUME MigrationInit
    PROVE  HeardInv
BY DEF MigrationInit, HeardInv, Prompts, Fresh

(* An import that waits for an answer has the pending prompt of an open    *)
(* socket, unless a later import was started on its socket.                *)
THEOREM ImportsHeard == MigrationSpec => []WaitingHeard
<1>1. MigrationInit => ImportInv /\ HeardInv
  BY ImportStarts, HeardStarts
<1>2. ImportInv /\ HeardInv /\ [MigrationSteps]_migrationVars => (ImportInv /\ HeardInv)'
  BY ImportSteps, HeardSteps
<1>3. HeardInv => WaitingHeard
  <2> SUFFICES ASSUME HeardInv, NEW r \in Runs, Waiting(r)
               PROVE  \/ socket[run[r].socket] = "open" /\ pending[run[r].socket] = r
                      \/ \E q \in Runs \ {r} : run[q].pc # "new" /\ run[q].socket = run[r].socket
    BY DEF WaitingHeard
  <2>1. run[r].pc # "new" /\ run[r].socket \in Sockets /\ (pending[run[r].socket] = r \/ Shares(run, r))
    BY DEF HeardInv, Prompts, Waiting
  <2>2. CASE pending[run[r].socket] = r
    BY <2>1, <2>2, MigrationAssumption DEF HeardInv, Prompts
  <2> QED
    BY <2>1, <2>2 DEF Shares
<1> QED
  BY <1>1, <1>2, <1>3, PTL DEF MigrationSpec

-----------------------------------------------------------------------------
(* What imports leave behind.                                                *)

(* The row of a key. *)
LEMMA NamedRow ==
    ASSUME OneEach(db), NEW b \in BareOf(db), NEW id, id = b.id
    PROVE  Named(id) \in db /\ Bare(Named(id)) = b
<1>1. PICK x \in db : b = Bare(x)
  BY DEF BareOf
<1>2. x.id = id
  BY <1>1, BareFields
<1>3. \A y \in db : y.id = id => y = x
  BY <1>2 DEF OneEach
<1>4. Named(id) = x
  BY <1>2, <1>3 DEF Named
<1> QED
  BY <1>1, <1>4

(* Each legacy row is there once. *)
LEMMA OnceMigrated ==
    ASSUME ImportInv
    PROVE  MigratedOnce
<1> SUFFICES ASSUME ~overlapped, NEW x \in db, NEW y \in db,
                    x.t \in {"client", "group", "site", "asset", "product"}, x.t = y.t, x.legacy = y.legacy,
                    x.legacy # None
             PROVE  x = y
  BY DEF MigratedOnce, Once
<1>1. OneEach(db) /\ ProductOnce(db) /\ Distinct(BareOf(db))
  BY DEF ImportInv, DbSound, RowsFit, Skeleton
<1>2. CASE x.t = "product"
  BY <1>1, <1>2 DEF ProductOnce
<1>3. CASE x.t # "product"
  <2>1. PICK b, c : b = Bare(x) /\ c = Bare(y)
    OBVIOUS
  <2>2. b \in BareOf(db) /\ c \in BareOf(db)
    BY <2>1 DEF BareOf
  <2>3. b.t = x.t /\ c.t = y.t /\ b.id = x.id /\ c.id = y.id /\ b.legacy = x.legacy /\ c.legacy = y.legacy
    BY <1>3, <2>1, BareFields
  <2>4. b.t \in Single
    BY <1>3, <2>3 DEF Single, Numbered
  <2>5. b = c
    BY <1>1, <2>2, <2>3, <2>4 DEF Distinct
  <2> QED
    BY <1>1, <2>3, <2>5 DEF OneEach
<1> QED
  BY <1>2, <1>3

(* What is connected is of one client. *)
LEMMA ClientWithin ==
    ASSUME ImportInv
    PROVE  WithinClient
<1>1. PICK P, N, ov : P = BareOf(db) /\ N = ProductsOf(db) /\ ov = overlapped
  OBVIOUS
<1>2. OneEach(db) /\ TagOnce(db) /\ (ov \/ TagsFit(db)) /\ \A b \in P : RowFits(b, P, N, ov)
  BY <1>1 DEF ImportInv, DbSound, RowsFit, Skeleton
<1>3. \A x \in db : Bare(x) \in P
  BY <1>1 DEF BareOf
<1>4. ASSUME NEW a \in db, a.t = "asset" PROVE Named(a.site).client = a.client
  <2>1. PICK b : b = Bare(a)
    OBVIOUS
  <2>2. b \in P /\ b.t = "asset" /\ b.client = a.client /\ b.site = a.site
    BY <1>3, <1>4, <2>1, BareFields
  <2>3. PICK s \in P : s.t = "site" /\ s.id = a.site /\ s.client = a.client
    BY <1>2, <2>2 DEF RowFits, Housed
  <2>4. Bare(Named(a.site)) = s
    BY <1>1, <1>2, <2>3, NamedRow
  <2> QED
    BY <2>3, <2>4, BareFields
<1>5. ASSUME NEW a \in db, a.t = "asset", a.tag # None
      PROVE  /\ ov \/ (Named(a.tag).client = a.client /\ Named(a.tag).site = a.site)
             /\ \A b \in db : b.t = "asset" /\ b.tag = a.tag => b = a
  <2>1. \A b \in db : b.t = "asset" /\ b.tag = a.tag => b = a
    BY <1>2, <1>5 DEF TagOnce
  <2>2. ASSUME ~ov PROVE Named(a.tag).client = a.client /\ Named(a.tag).site = a.site
    <3>1. PICK x \in db : x.t = "tag" /\ x.id = a.tag /\ x.client = a.client /\ x.site = a.site
      BY <1>2, <1>5, <2>2 DEF TagsFit
    <3>2. \A y \in db : y.id = a.tag => y = x
      BY <1>2, <3>1 DEF OneEach
    <3>3. Named(a.tag) = x
      BY <3>1, <3>2 DEF Named
    <3> QED
      BY <3>1, <3>3
  <2> QED
    BY <2>1, <2>2
<1>6. ASSUME NEW s \in db, s.t = "site", s.ref # None
      PROVE  LET owner == Named(s.ref).client IN
             \/ owner = s.client
             \/ ov /\ Named(owner).legacy = Named(s.client).legacy
  <2>1. PICK b : b = Bare(s)
    OBVIOUS
  <2>2. b \in P /\ b.t = "site" /\ b.client = s.client /\ b.ref = s.ref
    BY <1>3, <1>6, <2>1, BareFields
  <2>3. Parented(b, P, ov)
    BY <1>2, <1>6, <2>2 DEF RowFits
  <2>4. PICK g \in P : /\ g.t \in {"group", "site"} /\ g.id = s.ref
                       /\ (g.client = s.client \/ (ov /\ SameOwner(P, g.client, s.client)))
    BY <2>2, <2>3 DEF Parented
  <2>5. PICK w : w = Named(s.ref)
    OBVIOUS
  <2>6. Bare(w) = g
    BY <1>1, <1>2, <2>4, <2>5, NamedRow
  <2>7. w.client = g.client
    BY <2>4, <2>6, BareFields
  <2>8. CASE ov /\ SameOwner(P, g.client, s.client)
    <3>1. PICK c : BelongsTo(P, g.client, c) /\ BelongsTo(P, s.client, c)
      BY <2>8 DEF SameOwner
    <3>2. ASSUME NEW id, BelongsTo(P, id, c) PROVE Named(id).legacy = c
      <4>1. PICK y \in P : y.t = "client" /\ y.id = id /\ y.legacy = c
        BY <3>2 DEF BelongsTo
      <4>2. Bare(Named(id)) = y
        BY <1>1, <1>2, <4>1, NamedRow
      <4> QED
        BY <4>1, <4>2, BareFields
    <3> QED
      BY <2>5, <2>7, <2>8, <3>1, <3>2
  <2> QED
    BY <2>4, <2>5, <2>7, <2>8
<1> QED
  BY <1>1, <1>4, <1>5, <1>6 DEF WithinClient, Table

(* The category of an asset is visible to its client, or shared with it. *)
LEMMA VisibleCategory ==
    ASSUME ImportInv
    PROVE  CategoryVisible
<1> SUFFICES ASSUME ~overlapped, NEW a \in db, a.t = "asset"
             PROVE  LET product == Named(a.ref)
                        owner == Named(product.ref).client
                    IN  \/ owner \in {None, a.client}
                        \/ product.legacy # None /\ \E b \in Table(db, "asset") : b.ref = a.ref /\ b.client = owner
  BY DEF CategoryVisible, Table
<1>1. PICK P, N, ov : P = BareOf(db) /\ N = ProductsOf(db) /\ ov = overlapped
  OBVIOUS
<1>2. ~ov /\ OneEach(db) /\ \A b \in P : RowFits(b, P, N, ov)
  BY <1>1 DEF ImportInv, DbSound, Skeleton
<1>3. PICK d : d = Bare(a)
  OBVIOUS
<1>4. d \in P /\ d.t = "asset" /\ d.client = a.client /\ d.ref = a.ref
  BY <1>1, <1>3, BareFields DEF BareOf
<1>5. Catalogued(d, P, N)
  BY <1>2, <1>4 DEF RowFits
<1>6. PICK p \in P, c \in P : /\ p.t = "product" /\ p.id = a.ref /\ c.t = "category" /\ c.id = p.ref
                              /\ (c.client \in {None, a.client} \/ p.id \in N)
  BY <1>4, <1>5 DEF Catalogued
<1>7. PICK product, owner : product = Named(a.ref) /\ owner = Named(product.ref).client
  OBVIOUS
<1>8. product \in db /\ Bare(product) = p
  BY <1>1, <1>2, <1>6, <1>7, NamedRow
<1>9. product.t = "product" /\ product.id = a.ref /\ product.ref = p.ref
  BY <1>6, <1>8, BareFields
<1>10. PICK category : category = Named(product.ref)
  OBVIOUS
<1>11. category \in db /\ Bare(category) = c
  BY <1>1, <1>2, <1>6, <1>9, <1>10, NamedRow
<1>12. owner = c.client
  BY <1>6, <1>7, <1>10, <1>11, BareFields
<1>13. ASSUME p.id \in N
       PROVE  owner = None \/ (product.legacy # None /\ \E b \in db : b.t = "asset" /\ b.ref = a.ref /\ b.client = owner)
  <2>1. PICK x \in db : x.t = "product" /\ x.legacy # None /\ x.id = p.id
    BY <1>1, <1>13 DEF ProductsOf
  <2>2. x = product
    BY <1>2, <1>6, <1>8, <1>9, <2>1 DEF OneEach
  <2>3. Shared(p, P)
    BY <1>2, <1>6, <1>13 DEF RowFits
  <2>4. PICK e \in P : /\ e.t = "category" /\ e.id = p.ref
                       /\ (e.client = None \/ \E f \in P : f.t = "asset" /\ f.ref = p.id /\ f.client = e.client)
    BY <2>3 DEF Shared
  <2>5. Bare(category) = e
    BY <1>1, <1>2, <1>9, <1>10, <2>4, NamedRow
  <2>6. e = c
    BY <1>11, <2>5
  <2>7. ASSUME NEW f \in P, f.t = "asset", f.ref = p.id, f.client = e.client
        PROVE  \E b \in db : b.t = "asset" /\ b.ref = a.ref /\ b.client = owner
    <3>1. PICK b \in db : f = Bare(b)
      BY <1>1 DEF BareOf
    <3>2. b.t = "asset" /\ b.ref = f.ref /\ b.client = f.client
      BY <2>7, <3>1, BareFields
    <3> QED
      BY <1>6, <1>12, <2>6, <2>7, <3>2
  <2> QED
    BY <1>12, <2>1, <2>2, <2>4, <2>6, <2>7
<1> QED
  BY <1>6, <1>7, <1>12, <1>13 DEF Table

(* What imports leave behind is sound, whatever failed, overlapped or was  *)
(* repeated: each legacy row once, connections within the client,          *)
(* categories the client sees or shares, and prompts that can be answered. *)
THEOREM ImportsSound == MigrationSpec => []ImportSound
<1>1. ImportInv => MigratedOnce /\ WithinClient /\ CategoryVisible
  BY OnceMigrated, ClientWithin, VisibleCategory
<1>2. MigratedOnce /\ WithinClient /\ CategoryVisible /\ WaitingHeard => ImportSound
  BY DEF ImportSound
<1> QED
  BY <1>1, <1>2, ImportInvariant, ImportsHeard, PTL

-----------------------------------------------------------------------------
(* What a commit adds.                                                     *)

(* The database changes by commits alone. *)
LEMMA OnlyCommits ==
    ASSUME ImportInv, [MigrationSteps]_migrationVars, db' # db
    PROVE  \E r \in Runs : Commit(r)
<1>1. ASSUME NEW r \in Runs, Step(r) PROVE Commit(r)
  BY <1>1, StepKinds DEF Ask, InitPrompt, CloseSocket, Proceed
<1>2. ~UNCHANGED migrationVars
  BY DEF migrationVars
<1>3. ASSUME NEW r \in Runs, Fail(r) PROVE FALSE
  BY <1>3 DEF Fail, CloseSocket
<1>4. ASSUME NEW w \in Sockets, HandleDisconnect(w) \/ PromptResponse(w) PROVE FALSE
  BY <1>4 DEF HandleDisconnect, CloseSocket, PromptResponse
<1>5. ASSUME NEW w \in Sockets, NEW r \in Runs, ProcessMigration(r, w) PROVE FALSE
  BY <1>5 DEF ProcessMigration
<1>6. ~LegacyEntry
  BY DEF LegacyEntry
<1> QED
  BY <1>1, <1>2, <1>3, <1>4, <1>5, <1>6 DEF MigrationSteps

(* A commit leaves the constant parts of both. *)
LEMMA CommitHolds ==
    ASSUME ImportInv, NEW r \in Runs, Commit(r)
    PROVE  /\ RunSound(db, r, run[r], overlapped, inUse)
           /\ BareOf(db') = Held(db, run[r])
<1>1. PICK q, E : q = run[r] /\ E = db'
  OBVIOUS
<1>2. IsOpen(run[r])
  BY DEF Commit, IsOpen
<1>3. RunSound(db, r, q, overlapped, inUse) /\ DbSound(db, overlapped)
  BY <1>1, <1>2, RunKnown DEF ImportInv
<1>4. E = Over(db, q.wrote \cup Stripped(db, q.wrote))
  BY <1>1, CommitWrites
<1>5. BareOf(E) = Held(db, q)
  BY <1>3, <1>4, CommitSound
<1> QED
  BY <1>1, <1>3, <1>5

(* It has copied what can be imported. *)
LEMMA CommitCopies ==
    ASSUME ImportInv, [MigrationSteps]_migrationVars
    PROVE  CopiesAll
<1> SUFFICES ASSUME NEW r \in Runs, run[r].pc = "commit", run'[r].pc = "ended", db' # db,
                    NEW i \in DOMAIN LegacyAssets[run[r].legacy], NEW a, a = LegacyAssets[run[r].legacy][i],
                    Importable(a),
                    \E j \in DOMAIN LegacySites[run[r].legacy] :
                       LegacySites[run[r].legacy][j].no = a.site /\ LegacySites[run[r].legacy][j].id # None
             PROVE  \E x \in Table(db', "asset") : x.legacy = a.id
  BY DEF CopiesAll
<1>1. PICK s \in Runs : Commit(s)
  BY OnlyCommits
<1>2. s = r
  <2>1. DOMAIN run = Runs
    BY DEF ImportInv
  <2> QED
    BY <1>1, <2>1 DEF Commit
<1>3. PICK q, P : q = run[r] /\ P = Held(db, run[r])
  OBVIOUS
<1>4. RunSound(db, r, q, overlapped, inUse) /\ BareOf(db') = P
  BY <1>1, <1>2, <1>3, CommitHolds
<1>5. Copied(P, q, inUse)
  BY <1>3, <1>4 DEF RunSound
<1>6. Used(a, inUse) /\ Located(a, q.legacy)
  BY <1>3 DEF Importable, Used, Located
<1>7. Behind(q, "asset", i)
  BY <1>3 DEF Behind, Later
<1>8. PICK b \in P : b.t = "asset" /\ b.legacy = a.id
  BY <1>3, <1>5, <1>6, <1>7 DEF Copied
<1>9. PICK x \in db' : b = Bare(x)
  BY <1>4 DEF BareOf
<1>10. x.t = "asset" /\ x.legacy = a.id
  BY <1>8, <1>9, BareFields
<1> QED
  BY <1>10 DEF Table

(* It gives one asset a second point at most. *)
LEMMA CommitPoints ==
    ASSUME ImportInv, [MigrationSteps]_migrationVars
    PROVE  OneSecondPoint
<1> SUFFICES ASSUME db' # db, ~overlapped,
                    NEW x \in db' \ db, x.t = "point", NEW y \in db' \ db, y.t = "point", Twice(x.ref), Twice(y.ref)
             PROVE  x.ref = y.ref
  BY DEF OneSecondPoint, Table
<1>1. PICK r \in Runs : Commit(r)
  BY OnlyCommits
<1>2. PICK q, D, P : q = run[r] /\ D = db /\ P = Held(db, run[r])
  OBVIOUS
<1>3. RunSound(D, r, q, overlapped, inUse) /\ AllRows(D)
  BY <1>1, <1>2, CommitHolds DEF ImportInv, DbSound
<1>4. Touring(D, P, r, q)
  BY <1>2, <1>3 DEF RunSound
<1>5. PICK one : \A z \in q.wrote : z.t = "point" /\ (\E b \in BareOf(D) : b.t = "point" /\ b.ref = z.ref) => z.ref = one
  BY <1>4 DEF Touring
<1>6. db' = Over(D, q.wrote \cup Stripped(D, q.wrote))
  BY <1>1, <1>2, CommitWrites
<1>7. ASSUME NEW z \in db' \ D, z.t = "point" PROVE z \in q.wrote
  <2>1. z \in q.wrote \cup Stripped(D, q.wrote)
    BY <1>6, <1>7 DEF Over
  <2>2. \A v \in Stripped(D, q.wrote) : v.t = "asset"
    BY <1>3, StrippedRows
  <2> QED
    BY <1>7, <2>1, <2>2
<1>8. ASSUME NEW a, Twice(a) PROVE \E b \in BareOf(D) : b.t = "point" /\ b.ref = a
  <2>1. PICK v \in D : v.t = "point" /\ v.ref = a
    BY <1>2, <1>8 DEF Twice, Table
  <2> QED
    BY <2>1, BareFields DEF BareOf
<1> QED
  BY <1>2, <1>5, <1>7, <1>8

(* A committed import is complete: it has copied every legacy asset in use *)
(* that has a product and a location, and one that is repeated puts at     *)
(* most one asset on a second route point.                                 *)
THEOREM ImportsComplete == MigrationSpec => ImportComplete
<1>1. ImportInv /\ [MigrationSteps]_migrationVars => CopiesAll /\ OneSecondPoint
  BY CommitCopies, CommitPoints
<1>2. MigrationSpec => CommitComplete /\ RepeatsOnePoint
  BY <1>1, ImportInvariant, PTL DEF MigrationSpec, CommitComplete, RepeatsOnePoint
<1> QED
  BY <1>2 DEF ImportComplete
=============================================================================
