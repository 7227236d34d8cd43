---------------------- MODULE InspectionSessionsProofs ----------------------
(* Proofs that the invariant of InspectionSessions is inductive, for any   *)
(* number of requests, routes, points and sessions, and of the two action  *)
(* properties that rest on it.                                             *)
EXTENDS InspectionSessions, TLAPS

USE InspectionSessionsAssumption

(* What the statements a request waits behind do to the sessions: none     *)
(* disappears and none changes its route.                                  *)
Grows == Opened \subseteq Opened' /\ \A s \in Opened : route'[s] = route[s]

(* A request that takes no step keeps what it knows, or is overtaken. *)
LEMMA Waiting ==
    ASSUME TypeOK, NEW x \in Reqs, RequestSound(x), req'[x] = req[x], Overtake, Grows
    PROVE  RequestSound(x)'
<1> DEFINE q == req[x]
<1>1. q \in Request
  BY DEF TypeOK
<1>2. /\ q.pc \in {"complete", "assets", "expire"} => q.session \in Opened'
      /\ q.session # None => q.session \in Opened'
      /\ q.pc = "point" => q.routeId # None
      /\ q.routeId = None /\ q.session # None /\ q.point # None =>
            PointRoute[q.point] = route'[q.session]
  BY DEF RequestSound, Grows
<1>3. CASE q.pc = "idle"
  BY <1>2, <1>3 DEF RequestSound, Opened
<1>4. CASE q.pc # "idle" /\ x \in overtaken'
  BY <1>2, <1>4 DEF RequestSound, Opened
<1>5. CASE q.pc # "idle" /\ x \notin overtaken'
  <2>1. x \notin overtaken /\ data' = data
    BY <1>5 DEF Overtake, At
  <2>2. UNCHANGED <<assetOf, status, route, done>>
    BY <2>1 DEF data
  <2> QED
    BY <1>2, <1>5, <2>1, <2>2
    DEF RequestSound, Opened, AllDone, PointsOf, Existing, Completed
<1> QED
  BY <1>3, <1>4, <1>5

(* A request whose own step changes none of the tables it has read, but    *)
(* perhaps the one it owns.                                                *)
LEMMA TablesKept ==
    ASSUME Inv, UNCHANGED <<assetOf, status, route, done, clock>>,
           inspector' \in [Sessions -> Reqs \cup {None}],
           req' \in [Reqs -> Request], overtaken' \in SUBSET Reqs
    PROVE  TypeOK' /\ References' /\ SessionSound' /\ Grows
BY DEF Inv, TypeOK, References, SessionSound, Grows, Existing, Opened

(* The request of a create is well formed whatever is left to do. *)
LEMMA ProceedType ==
    ASSUME NEW q \in Request
    PROVE  /\ Proceed(q) \in Request
           /\ Proceed(q) = Idle \/ (/\ Proceed(q).session = q.session
                                    /\ Proceed(q).routeId = q.routeId
                                    /\ Proceed(q).point = q.point
                                    /\ Proceed(q).pc \in {"insert", "point"}
                                    /\ Proceed(q).pc = "point" => q.routeId # None)
BY DEF Proceed, Request, Idle, PCs

(* A request that has ended knows nothing, so nothing can contradict it. *)
LEMMA IdleSound ==
    ASSUME NEW r \in Reqs, req'[r] = Idle
    PROVE  RequestSound(r)'
BY DEF RequestSound, Idle

(* The record of an ended request is well formed. *)
LEMMA IdleType == Idle \in Request
BY DEF Request, Idle, PCs

(* The history variable stays a set of requests. *)
LEMMA OvertakenType ==
    ASSUME Overtake
    PROVE  overtaken' \in SUBSET Reqs
BY DEF Overtake
-----------------------------------------------------------------------------
(* create *)

(* The reads of create keep the invariant: the point it finds through the
   session is one of the route of the session. *)
LEMMA CreateInv ==
    ASSUME Inv, NEW r \in Reqs, Create(r), Overtake
    PROVE  Inv'
<1>1. PICK a \in Assets, s \in Opened \cup {None}, rt \in Routes \cup {None} :
         \E p \in IF s = None THEN {None} ELSE FirstOf(PointsFor(route[s], a)) :
             Begin(r, [pc |-> "own", session |-> s, asset |-> a, point |-> p,
                       routeId |-> IF p = None THEN rt ELSE None])
  BY DEF Create
<1>2. PICK p \in IF s = None THEN {None} ELSE FirstOf(PointsFor(route[s], a)) :
             Begin(r, [pc |-> "own", session |-> s, asset |-> a, point |-> p,
                       routeId |-> IF p = None THEN rt ELSE None])
  BY <1>1
<1> DEFINE q == [pc |-> "own", session |-> s, asset |-> a, point |-> p,
                 routeId |-> IF p = None THEN rt ELSE None]
<1>3. /\ p \in Points \cup {None}
      /\ s # None /\ p # None => PointRoute[p] = route[s]
      /\ s # None => s \in Opened /\ s \in Sessions
  BY DEF FirstOf, PointsFor, PointsOf, Existing, Opened
<1>4. q \in Request
  BY <1>3 DEF Request, PCs, Opened
<1>5. req' = [req EXCEPT ![r] = IF s # None /\ inspector[s] # r THEN q ELSE Proceed(q)]
  BY <1>2, <1>4 DEF Begin, Become, Request
<1>6. req \in [Reqs -> Request]
  BY DEF Inv, TypeOK
<1>7. req' \in [Reqs -> Request]
  BY <1>4, <1>5, <1>6, ProceedType
<1>8. UNCHANGED <<assetOf, status, route, inspector, done, clock>>
  BY DEF Create, session
<1>9. TypeOK' /\ References' /\ SessionSound' /\ Grows
  BY <1>7, <1>8, TablesKept, OvertakenType DEF Inv, TypeOK
<1>10. RequestSound(r)'
  <2>1. req'[r] = q \/ req'[r] = Proceed(q)
    BY <1>5, <1>6
  <2>2. /\ q.session = s /\ q.point = p /\ q.pc = "own"
        /\ q.routeId = None /\ s # None /\ p # None => PointRoute[p] = route[s]
    BY <1>3
  <2> HIDE DEF q
  <2>3. Opened' = Opened /\ route' = route
    BY <1>8 DEF Opened
  <2>4. CASE req'[r] = q
    BY <1>3, <2>2, <2>3, <2>4 DEF RequestSound
  <2>5. CASE req'[r] = Proceed(q)
    <3>1. CASE Proceed(q) = Idle
      BY <2>5, <3>1, IdleSound
    <3>2. CASE Proceed(q) # Idle
      BY <1>3, <1>4, <2>2, <2>3, <2>5, <3>2, ProceedType DEF RequestSound
    <3> QED BY <3>1, <3>2
  <2> QED BY <2>1, <2>4, <2>5
<1>11. \A x \in Reqs \ {r} : RequestSound(x)'
  BY <1>5, <1>6, <1>9, Waiting DEF Inv
<1> QED
  BY <1>9, <1>10, <1>11 DEF Inv

(* Taking over the session keeps the invariant: only lastInspectorId changes. *)
LEMMA CreateOwnInv ==
    ASSUME Inv, NEW r \in Reqs, CreateOwn(r), Overtake
    PROVE  Inv'
<1> DEFINE q == req[r]
<1>1. req \in [Reqs -> Request] /\ q \in Request /\ RequestSound(r)
  BY DEF Inv, TypeOK
<1>2. req' = [req EXCEPT ![r] = Proceed(q)]
  BY DEF CreateOwn, Become
<1>3. req' \in [Reqs -> Request]
  BY <1>1, <1>2, ProceedType
<1>4. UNCHANGED <<assetOf, status, route, done, clock>>
      /\ inspector' \in [Sessions -> Reqs \cup {None}]
  BY DEF CreateOwn, Inv, TypeOK
<1>5. TypeOK' /\ References' /\ SessionSound' /\ Grows
  BY <1>3, <1>4, TablesKept, OvertakenType
<1>6. RequestSound(r)'
  <2>1. Opened' = Opened /\ route' = route /\ req'[r] = Proceed(q)
    BY <1>1, <1>2, <1>4 DEF Opened
  <2>2. CASE Proceed(q) = Idle
    BY <2>1, <2>2, IdleSound
  <2>3. CASE Proceed(q) # Idle
    <3>1. /\ q.session # None => q.session \in Opened
          /\ q.routeId = None /\ q.session # None /\ q.point # None =>
               PointRoute[q.point] = route[q.session]
      BY <1>1 DEF RequestSound
    <3> HIDE DEF q
    <3> QED BY <1>1, <2>1, <2>3, <3>1, ProceedType DEF RequestSound
  <2> QED BY <2>2, <2>3
<1>7. \A x \in Reqs \ {r} : RequestSound(x)'
  BY <1>1, <1>2, <1>5, Waiting DEF Inv
<1> QED
  BY <1>5, <1>6, <1>7 DEF Inv

(* Looking for the point of the named route keeps the invariant. *)
LEMMA CreatePointInv ==
    ASSUME Inv, NEW r \in Reqs, CreatePoint(r), Overtake
    PROVE  Inv'
<1> DEFINE q == req[r]
<1>1. req \in [Reqs -> Request] /\ q \in Request /\ RequestSound(r) /\ q.pc = "point"
  BY DEF Inv, TypeOK, CreatePoint, At
<1>2. PICK p \in FirstOf(PointsFor(q.routeId, q.asset)) :
         req' = [req EXCEPT ![r] = IF p = None THEN Idle ELSE Proceed([q EXCEPT !.point = p])]
  BY DEF CreatePoint, Become
<1> DEFINE n == [q EXCEPT !.point = p]
<1>3. p \in Points \cup {None}
  BY DEF FirstOf, PointsFor, PointsOf, Existing
<1>4. n \in Request /\ n.session = q.session /\ n.routeId = q.routeId
  BY <1>1, <1>3 DEF Request
<1>5. q.routeId # None /\ (q.session # None => q.session \in Opened)
  BY <1>1 DEF RequestSound
<1>6. req' \in [Reqs -> Request]
  BY <1>1, <1>2, <1>4, ProceedType, IdleType
<1>7. UNCHANGED <<assetOf, status, route, inspector, done, clock>>
  BY DEF CreatePoint, session
<1>8. TypeOK' /\ References' /\ SessionSound' /\ Grows
  BY <1>6, <1>7, TablesKept, OvertakenType DEF Inv, TypeOK
<1>9. RequestSound(r)'
  <2>1. Opened' = Opened /\ (req'[r] = Idle \/ req'[r] = Proceed(n))
    BY <1>1, <1>2, <1>7 DEF Opened
  <2>2. CASE req'[r] = Idle
    BY <2>2, IdleSound
  <2>3. CASE req'[r] # Idle
    <3> HIDE DEF n, q
    <3> QED BY <1>4, <1>5, <2>1, <2>3, ProceedType DEF RequestSound
  <2> QED BY <2>2, <2>3
<1>10. \A x \in Reqs \ {r} : RequestSound(x)'
  BY <1>1, <1>2, <1>8, Waiting DEF Inv
<1> QED
  BY <1>8, <1>9, <1>10 DEF Inv

(* The transaction of create keeps the invariant: it connects rows that exist. *)
LEMMA CreateInsertInv ==
    ASSUME Inv, NEW r \in Reqs, CreateInsert(r), Overtake
    PROVE  Inv'
<1> DEFINE q == req[r]
<1>1. req \in [Reqs -> Request] /\ q \in Request /\ RequestSound(r) /\ TypeOK
  BY DEF Inv, TypeOK
<1>2. req' = [req EXCEPT ![r] = Idle] /\ q.point \in Existing /\ UNCHANGED <<assetOf, clock>>
  BY DEF CreateInsert, Record, Return, Become
<1>3. PICK s \in Sessions :
        /\ done' = done \cup {[session |-> s, point |-> q.point, on |-> clock]}
        /\ \/ s = q.session /\ s # None /\ UNCHANGED session
           \/ /\ s \notin Opened
              /\ status' = [status EXCEPT ![s] = "PENDING"]
              /\ route' = [route EXCEPT ![s] = PointRoute[q.point]]
              /\ inspector' = [inspector EXCEPT ![s] = r]
  <2>1. CASE q.session # None
    BY <1>1, <2>1 DEF CreateInsert, Record, Request
  <2>2. CASE q.session = None
    <3>1. PICK s \in Sessions :
            /\ Opened = 1 .. (s - 1)
            /\ Record(r, s)
            /\ status' = [status EXCEPT ![s] = "PENDING"]
            /\ route' = [route EXCEPT ![s] = PointRoute[q.point]]
            /\ inspector' = [inspector EXCEPT ![s] = r]
      BY <2>2 DEF CreateInsert
    <3>2. s \notin Opened
      BY <3>1 DEF Sessions
    <3> QED BY <3>1, <3>2 DEF Record
  <2> QED BY <2>1, <2>2
<1>4. Grows /\ s \in Opened'
  <2>1. CASE s = q.session /\ s # None /\ UNCHANGED session
    BY <1>1, <2>1 DEF Grows, Opened, session, RequestSound
  <2>2. CASE /\ s \notin Opened
             /\ status' = [status EXCEPT ![s] = "PENDING"]
             /\ route' = [route EXCEPT ![s] = PointRoute[q.point]]
    BY <1>1, <2>2 DEF Grows, Opened, TypeOK, Status
  <2> QED BY <1>3, <2>1, <2>2
<1>5. TypeOK'
  <2>1. q.point \in Points /\ PointRoute[q.point] \in Routes
    BY <1>2 DEF Existing
  <2>2. /\ status' \in [Sessions -> Status \cup {None}]
        /\ route' \in [Sessions -> Routes \cup {None}]
        /\ inspector' \in [Sessions -> Reqs \cup {None}]
    BY <1>1, <1>3, <2>1 DEF TypeOK, session, Status
  <2>3. done' \in SUBSET [session : Sessions, point : Points, on : Nat]
    BY <1>1, <1>3, <2>1 DEF TypeOK
  <2> QED BY <1>1, <1>2, <2>2, <2>3, IdleType, OvertakenType DEF TypeOK
<1>6. References'
  BY <1>2, <1>3, <1>4 DEF References, Inv, Existing, Grows
<1>7. SessionSound'
  <2>1. PointRoute[q.point] \in Routes
    BY <1>2 DEF Existing
  <2> QED BY <1>1, <1>3, <2>1 DEF SessionSound, Inv, Opened, session, TypeOK
<1>8. RequestSound(r)'
  BY <1>1, <1>2, IdleSound
<1>9. \A x \in Reqs \ {r} : RequestSound(x)'
  BY <1>1, <1>2, <1>4, Waiting DEF Inv
<1> QED
  BY <1>5, <1>6, <1>7, <1>8, <1>9 DEF Inv
-----------------------------------------------------------------------------
(* findInspectionSession and cancelInspectionSession *)

(* The read of findInspectionSession keeps the invariant. *)
LEMMA FindInv ==
    ASSUME Inv, NEW r \in Reqs, Find(r), Overtake
    PROVE  Inv'
<1>1. PICK s \in Opened :
         /\ status[s] = "PENDING"
         /\ req' = [req EXCEPT ![r] = [Idle EXCEPT !.session = s,
                                   !.pc = IF AllDone(s) THEN "complete" ELSE "assets"]]
  BY DEF Find, Become
<1> DEFINE q == [Idle EXCEPT !.session = s,
                             !.pc = IF AllDone(s) THEN "complete" ELSE "assets"]
<1>2. q \in Request /\ s \in Sessions
  BY DEF Request, Idle, PCs, Opened
<1>3. req \in [Reqs -> Request] /\ req' \in [Reqs -> Request]
  BY <1>1, <1>2 DEF Inv, TypeOK
<1>4. UNCHANGED <<assetOf, status, route, inspector, done, clock>>
  BY DEF Find, session
<1>5. TypeOK' /\ References' /\ SessionSound' /\ Grows
  BY <1>3, <1>4, TablesKept, OvertakenType DEF Inv, TypeOK
<1>6. RequestSound(r)'
  <2>1. /\ req'[r] = q /\ Opened' = Opened /\ (AllDone(s)' <=> AllDone(s))
        /\ status'[s] = "PENDING"
    BY <1>1, <1>3, <1>4 DEF Opened, AllDone, PointsOf, Existing, Completed
  <2>2. q.session = s /\ q.point = None /\ q.pc = (IF AllDone(s) THEN "complete" ELSE "assets")
    BY DEF Idle
  <2> HIDE DEF q
  <2>3. req'[r].session = s /\ req'[r].point = None
        /\ req'[r].pc = (IF AllDone(s) THEN "complete" ELSE "assets")
    BY <2>1, <2>2
  <2> QED BY <1>1, <2>1, <2>3 DEF RequestSound, AllDone
<1>7. \A x \in Reqs \ {r} : RequestSound(x)'
  BY <1>1, <1>3, <1>5, Waiting DEF Inv
<1> QED
  BY <1>5, <1>6, <1>7 DEF Inv

(* The asset query and the decision to expire keep the invariant. *)
LEMMA FindAssetsInv ==
    ASSUME Inv, NEW r \in Reqs, FindAssets(r), Overtake
    PROVE  Inv'
<1> DEFINE q == req[r]
<1>1. req \in [Reqs -> Request] /\ q \in Request /\ RequestSound(r) /\ q.pc = "assets"
  BY DEF Inv, TypeOK, FindAssets, At
<1>2. \/ req' = [req EXCEPT ![r] = Idle]
      \/ /\ req' = [req EXCEPT ![r] = [q EXCEPT !.pc = "expire"]]
         /\ MayExpire(q.session)
  BY DEF FindAssets, Return, Goto, Become
<1>3. req' \in [Reqs -> Request]
  <2>1. [q EXCEPT !.pc = "expire"] \in Request
    BY <1>1 DEF Request, PCs
  <2> QED BY <1>1, <1>2, <2>1, IdleType
<1>4. UNCHANGED <<assetOf, status, route, inspector, done, clock>>
  BY DEF FindAssets, session
<1>5. TypeOK' /\ References' /\ SessionSound' /\ Grows
  BY <1>3, <1>4, TablesKept, OvertakenType DEF Inv, TypeOK
<1>6. RequestSound(r)'
  <2>1. CASE req' = [req EXCEPT ![r] = Idle]
    BY <1>1, <2>1, IdleSound
  <2>2. CASE /\ req' = [req EXCEPT ![r] = [q EXCEPT !.pc = "expire"]]
             /\ MayExpire(q.session)
    <3>1. PICK s \in Sessions : s = q.session
      BY <1>1 DEF RequestSound, Opened
    <3>2. Completed(s) # {}
      BY <2>2, <3>1 DEF MayExpire, Inspected
    <3>3. r \notin overtaken' => r \notin overtaken
      BY <1>1, <2>2 DEF Overtake, At, Request
    <3>4. /\ req'[r].pc = "expire" /\ req'[r].session = s
          /\ req'[r].routeId = q.routeId /\ req'[r].point = q.point
      BY <1>1, <2>2, <3>1 DEF Request
    <3>5. /\ s \in Opened
          /\ q.routeId = None /\ q.point # None => PointRoute[q.point] = route[s]
          /\ r \notin overtaken => status[s] = "PENDING" /\ ~AllDone(s)
      BY <1>1, <3>1 DEF RequestSound, Sessions
    <3> HIDE DEF q
    <3>6. /\ Opened' = Opened
          /\ AllDone(req[r].session)' <=> AllDone(s)
          /\ Completed(req[r].session)' = Completed(s)
      BY <1>4, <3>4 DEF Opened, AllDone, PointsOf, Existing, Completed
    <3> QED
      BY <1>4, <3>2, <3>3, <3>4, <3>5, <3>6 DEF RequestSound
  <2> QED BY <1>2, <2>1, <2>2
<1>7. \A x \in Reqs \ {r} : RequestSound(x)'
  BY <1>1, <1>2, <1>5, Waiting DEF Inv
<1> QED
  BY <1>5, <1>6, <1>7 DEF Inv

(* Marking a session that exists, whatever its status. *)
LEMMA MarkInv ==
    ASSUME Inv, NEW s \in Opened, NEW st \in Status, Mark(s, st),
           UNCHANGED <<assetOf, route, inspector, done, clock>>,
           req' \in [Reqs -> Request], Overtake
    PROVE  TypeOK' /\ References' /\ SessionSound' /\ Grows
<1>1. /\ status' = [status EXCEPT ![s] = st] /\ s \in Sessions
      /\ status \in [Sessions -> Status \cup {None}]
  BY DEF Mark, Opened, Inv, TypeOK
<1>3. Opened' = Opened
  BY <1>1 DEF Opened, Status
<1> QED
  BY <1>1, <1>3, OvertakenType
  DEF Inv, TypeOK, References, SessionSound, Grows, Existing

(* Marking a session COMPLETE or EXPIRED keeps the invariant. *)
LEMMA MarksInv ==
    ASSUME Inv, NEW r \in Reqs, MarkComplete(r) \/ MarkExpired(r), Overtake
    PROVE  Inv'
<1>1. req \in [Reqs -> Request] /\ RequestSound(r)
  BY DEF Inv, TypeOK
<1>2. req[r].session \in Opened
  BY <1>1 DEF RequestSound, MarkComplete, MarkExpired, At
<1>3. req' = [req EXCEPT ![r] = Idle]
  BY DEF MarkComplete, MarkExpired, Return, Become
<1>4. req' \in [Reqs -> Request] /\ req'[r] = Idle
  BY <1>1, <1>3, IdleType
<1>5. TypeOK' /\ References' /\ SessionSound' /\ Grows
  <2>1. CASE MarkComplete(r)
    BY <1>2, <1>4, <2>1, MarkInv DEF MarkComplete, Status
  <2>2. CASE MarkExpired(r)
    BY <1>2, <1>4, <2>2, MarkInv DEF MarkExpired, Status
  <2> QED BY <2>1, <2>2
<1>6. RequestSound(r)'
  BY <1>4, IdleSound
<1>7. \A x \in Reqs \ {r} : RequestSound(x)'
  BY <1>1, <1>3, <1>5, Waiting DEF Inv
<1> QED
  BY <1>5, <1>6, <1>7 DEF Inv

(* The requests of others are all that has to be looked at when no request *)
(* takes a step.                                                           *)
LEMMA OnlyWaiting ==
    ASSUME Inv, UNCHANGED req, Overtake, TypeOK', References', SessionSound', Grows
    PROVE  Inv'
BY Waiting DEF Inv

(* cancelInspectionSession keeps the invariant. *)
LEMMA CancelInv ==
    ASSUME Inv, NEW r \in Reqs, CancelInspectionSession(r), Overtake
    PROVE  Inv'
<1>1. PICK s \in Opened : Mark(s, "CANCELLED")
  BY DEF CancelInspectionSession
<1>2. UNCHANGED <<assetOf, route, inspector, done, clock, req>> /\ req' \in [Reqs -> Request]
  BY DEF CancelInspectionSession, Inv, TypeOK
<1>3. TypeOK' /\ References' /\ SessionSound' /\ Grows
  BY <1>1, <1>2, MarkInv DEF Status
<1> QED
  BY <1>2, <1>3, OnlyWaiting

(* A transaction that is rolled back keeps the invariant. *)
LEMMA FailInv ==
    ASSUME Inv, NEW r \in Reqs, Fail(r), Overtake
    PROVE  Inv'
<1>1. req \in [Reqs -> Request] /\ req' = [req EXCEPT ![r] = Idle]
  BY DEF Inv, TypeOK, Fail, Return, Become
<1>2. req' \in [Reqs -> Request] /\ req'[r] = Idle
  BY <1>1, IdleType
<1>3. UNCHANGED <<assetOf, status, route, inspector, done, clock>>
  BY DEF Fail, session
<1>4. TypeOK' /\ References' /\ SessionSound' /\ Grows
  BY <1>2, <1>3, TablesKept, OvertakenType DEF Inv, TypeOK
<1> QED
  BY <1>1, <1>2, <1>4, IdleSound, Waiting DEF Inv
-----------------------------------------------------------------------------
(* Edits of the route, and the clock *)

(* Edits of routes and points keep the invariant: they delete by cascade. *)
LEMMA EditInv ==
    ASSUME Inv, Edit, Overtake
    PROVE  Inv'
<1>1. UNCHANGED <<status, route, inspector, clock, req>>
  BY DEF Edit, CreateRoutePoint, UpdatePoint, RemovePoint, RemoveRoute, RemoveInspection,
         SetPoint, session
<1>2. assetOf' \in [Points -> Assets \cup {None}]
  BY DEF Inv, TypeOK, Edit, CreateRoutePoint, UpdatePoint, RemovePoint, RemoveRoute,
         RemoveInspection, SetPoint, Existing
<1>3. done' \subseteq done
  BY DEF Edit, CreateRoutePoint, UpdatePoint, RemovePoint, RemoveRoute, RemoveInspection
<1>4. \A d \in done' : d.point \in Existing'
  <2>1. \A d \in done : d.point \in Existing
    BY DEF Inv, References
  <2>2. assetOf \in [Points -> Assets \cup {None}]
    BY DEF Inv, TypeOK
  <2>3. CASE CreateRoutePoint \/ UpdatePoint
    BY <2>1, <2>2, <2>3 DEF CreateRoutePoint, UpdatePoint, SetPoint, Existing
  <2>4. CASE RemovePoint
    BY <2>1, <2>2, <2>4 DEF RemovePoint, SetPoint, Existing
  <2>5. CASE RemoveRoute
    BY <2>1, <2>2, <2>5 DEF RemoveRoute, Existing
  <2>6. CASE RemoveInspection
    BY <2>1, <2>6 DEF RemoveInspection, Existing
  <2> QED BY <2>3, <2>4, <2>5, <2>6 DEF Edit
<1>5. TypeOK' /\ References' /\ SessionSound' /\ Grows
  BY <1>1, <1>2, <1>3, <1>4, OvertakenType
  DEF Inv, TypeOK, References, SessionSound, Grows, Opened
<1> QED
  BY <1>1, <1>5, OnlyWaiting

(* The passing of time keeps the invariant. *)
LEMMA TickInv ==
    ASSUME Inv, Tick, Overtake
    PROVE  Inv'
<1>1. UNCHANGED <<assetOf, status, route, inspector, done, req>> /\ clock' \in Nat
  BY DEF Tick, session, Inv, TypeOK
<1>2. TypeOK' /\ References' /\ SessionSound' /\ Grows
  BY <1>1, OvertakenType DEF Inv, TypeOK, References, SessionSound, Grows, Opened, Existing
<1> QED
  BY <1>1, <1>2, OnlyWaiting
-----------------------------------------------------------------------------

(* The invariant holds at the start. *)
LEMMA InitInv == Init => Inv
<1> SUFFICES ASSUME Init PROVE Inv
  OBVIOUS
<1>1. TypeOK
  BY IdleType DEF Init, TypeOK
<1>2. Opened = {} /\ References /\ SessionSound
  BY DEF Init, Opened, References, SessionSound
<1>3. \A r \in Reqs : RequestSound(r)
  BY DEF Init, RequestSound, Idle
<1> QED
  BY <1>1, <1>2, <1>3 DEF Inv

(* Every step keeps the invariant. *)
LEMMA NextInv == Inv /\ [Next]_vars => Inv'
<1> SUFFICES ASSUME Inv, [Next]_vars PROVE Inv'
  OBVIOUS
<1>1. CASE UNCHANGED vars
  BY <1>1 DEF vars, Inv, TypeOK, References, SessionSound, RequestSound, Existing, Opened,
              AllDone, PointsOf, Completed
<1>2. CASE Next
  <2>1. Overtake
    BY <1>2 DEF Next
  <2>2. ASSUME NEW r \in Reqs, Step(r) PROVE Inv'
    BY <2>1, <2>2, CreateInv, CreateOwnInv, CreatePointInv, CreateInsertInv, FindInv,
       FindAssetsInv, MarksInv, CancelInv, FailInv DEF Step
  <2> QED BY <1>2, <2>1, <2>2, EditInv, TickInv DEF Next
<1> QED
  BY <1>1, <1>2

(* The invariant of sessions, route points and requests in flight holds    *)
(* whatever interleaves: in particular completed points never refer to a   *)
(* point or a session that is gone.                                        *)
THEOREM SessionSafety == Spec => []Inv
BY InitInv, NextInv, PTL DEF Spec

(* A step of a request leaves the others where they are. *)
LEMMA OnlyOwn ==
    ASSUME Inv, NEW r \in Reqs, NEW x \in Reqs, Step(x), req'[r] # req[r]
    PROVE  x = r
<1> SUFFICES ASSUME x # r PROVE req'[r] = req[r]
  OBVIOUS
<1>1. req \in [Reqs -> Request]
  BY DEF Inv, TypeOK
<1>2. req' = req \/ \E q : req' = [req EXCEPT ![x] = q]
  BY DEF Step, Create, CreateOwn, CreatePoint, CreateInsert, Record, Find, MarkComplete,
         FindAssets, MarkExpired, CancelInspectionSession, Fail, Begin, Become, Goto, Return
<1> QED
  BY <1>1, <1>2

(* findInspectionSession marks a session it has read as PENDING, and marks *)
(* it COMPLETE or EXPIRED as its points tell, unless it was overtaken by   *)
(* another request between reading and writing.                            *)
THEOREM MarksJustified == Spec => MarksSound
<1>1. Inv /\ [Next]_vars =>
        [\A r \in Reqs \ overtaken :
          LET s == req[r].session IN
          req'[r] # req[r] /\ status' # status /\ s # None =>
              /\ status[s] = "PENDING"
              /\ status'[s] = "COMPLETE" => AllDone(s)
              /\ status'[s] = "EXPIRED" => ~AllDone(s) /\ Completed(s) # {}]_vars
  <2> SUFFICES ASSUME Inv, Next, NEW r \in Reqs \ overtaken,
                      req'[r] # req[r], status' # status, req[r].session # None
               PROVE  LET s == req[r].session IN
                      /\ status[s] = "PENDING"
                      /\ status'[s] = "COMPLETE" => AllDone(s)
                      /\ status'[s] = "EXPIRED" => ~AllDone(s) /\ Completed(s) # {}
    BY Zenon
  <2>1. Step(r)
    BY OnlyOwn DEF Next, Edit, Tick, CreateRoutePoint, UpdatePoint, RemovePoint, RemoveRoute,
                   RemoveInspection, SetPoint
  <2>2. MarkComplete(r) \/ MarkExpired(r)
    BY <2>1 DEF Step, Create, CreateOwn, CreatePoint, CreateInsert, Find, FindAssets,
                CancelInspectionSession, Fail, session
  <2>3. RequestSound(r) /\ req[r].session \in Sessions /\ status \in [Sessions -> Status \cup {None}]
    BY DEF Inv, TypeOK, Request
  <2>4. CASE MarkComplete(r)
    BY <2>3, <2>4 DEF MarkComplete, Mark, At, RequestSound
  <2>5. CASE MarkExpired(r)
    BY <2>3, <2>5 DEF MarkExpired, Mark, At, RequestSound
  <2> QED BY <2>2, <2>4, <2>5
<1> QED
  BY <1>1, SessionSafety, PTL DEF Spec, MarksSound

(* A point that create found through the session is a point of the         *)
(* session's route, and is recorded as such, whatever the route's editors  *)
(* do meanwhile.                                                           *)
THEOREM PointsTied == Spec => TiedTogether
<1>1. Inv /\ [Next]_vars =>
        [\A r \in Reqs : req'[r] # req[r] /\ req[r].session # None /\ req[r].routeId = None =>
          \A d \in done' \ done : PointRoute[d.point] = route[d.session]]_vars
  <2> SUFFICES ASSUME Inv, Next, NEW r \in Reqs, req'[r] # req[r],
                      req[r].session # None, req[r].routeId = None,
                      NEW d \in done' \ done
               PROVE  PointRoute[d.point] = route[d.session]
    BY Zenon
  <2>1. Step(r)
    BY OnlyOwn DEF Next, Edit, Tick, CreateRoutePoint, UpdatePoint, RemovePoint, RemoveRoute,
                   RemoveInspection, SetPoint
  <2>2. CreateInsert(r)
    BY <2>1 DEF Step, Create, CreateOwn, CreatePoint, Find, FindAssets, MarkComplete,
                MarkExpired, CancelInspectionSession, Fail
  <2>3. d = [session |-> req[r].session, point |-> req[r].point, on |-> clock]
        /\ req[r].point \in Existing
    BY <2>2 DEF CreateInsert, Record
  <2>4. RequestSound(r)
    BY DEF Inv
  <2> QED BY <2>3, <2>4 DEF RequestSound, Existing
<1> QED
  BY <1>1, SessionSafety, PTL DEF Spec, TiedTogether
=============================================================================
