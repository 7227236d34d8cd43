------------------------- MODULE InspectionSessions -------------------------
(***************************************************************************)
(* Inspection sessions: the progress of an inspector along a route.        *)
(* InspectionsService.create records an inspection and the route point it  *)
(* completes, findInspectionSession reads a session and, on the way, marks *)
(* it COMPLETE or EXPIRED, cancelInspectionSession cancels it, and         *)
(* InspectionRoutesService edits the points while sessions are open.       *)
(*                                                                         *)
(* Every query is a step.  The points of a route keep their route; what an *)
(* edit changes is their asset, None for a point that does not exist.  The *)
(* queries that take a first row have no order: any row may come first.    *)
(***************************************************************************)
EXTENDS Naturals, FiniteSets

CONSTANTS
    Reqs,           \* slots for concurrent requests, each of its own person
    Routes, Points, Assets,
    PointRoute,     \* the route of a point
    InspectionCycle,\* asset -> its cycle in days, or None for the client's default
    MaxSessions,    \* bound on the sessions ever created
    MaxDone,        \* bound on the completed route points kept
    MaxClock,       \* bound on the days that pass
    None

Sessions == 1 .. MaxSessions
Status == {"PENDING", "COMPLETE", "EXPIRED", "CANCELLED"}

ASSUME InspectionSessionsAssumption ==
    /\ PointRoute \in [Points -> Routes]
    /\ InspectionCycle \in [Assets -> Nat \cup {None}]
    /\ MaxSessions \in Nat /\ MaxDone \in Nat /\ MaxClock \in Nat
    /\ None \notin Routes \cup Points \cup Assets \cup Reqs \cup Nat \cup Status

VARIABLES
    assetOf,    \* point -> its asset, None when there is no such point
    status,     \* session -> its status, None when there is no such session
    route,      \* session -> its route
    inspector,  \* session -> lastInspector
    done,       \* the completed route points: session, point and day
    clock,      \* today
    req,        \* slot -> the request being served there
    overtaken   \* requests that others' writes have overtaken (history)

session == <<status, route, inspector>>
data == <<assetOf, status, route, done>>
vars == <<assetOf, status, route, inspector, done, clock, req, overtaken>>

Existing == {p \in Points : assetOf[p] # None}
PointsOf(rt) == {p \in Existing : PointRoute[p] = rt}
PointsFor(rt, a) == {p \in PointsOf(rt) : assetOf[p] = a}
Opened == {s \in Sessions : status[s] # None}
Completed(s) == {d.point : d \in {e \in done : e.session = s}}

PCs == {"idle", "own", "point", "insert", "complete", "assets", "expire"}
Request == [pc : PCs, session : Sessions \cup {None}, asset : Assets \cup {None},
            routeId : Routes \cup {None}, point : Points \cup {None}]
Idle == [pc |-> "idle", session |-> None, asset |-> None, routeId |-> None, point |-> None]

At(r, l) == req[r].pc = l
Become(r, q) == req' = [req EXCEPT ![r] = q]
Goto(r, l) == Become(r, [req[r] EXCEPT !.pc = l])
Return(r) == Become(r, Idle)

(* findFirst, or the first element of an array read without an order. *)
FirstOf(S) == IF S = {} THEN {None} ELSE S

Init ==
    /\ assetOf \in [Points -> Assets \cup {None}]
    /\ status = [s \in Sessions |-> None]
    /\ route = [s \in Sessions |-> None]
    /\ inspector = [s \in Sessions |-> None]
    /\ done = {}
    /\ clock = 0
    /\ req = [r \in Reqs |-> Idle]
    /\ overtaken = {}

(* Any await may reject: the request ends and its transaction is undone. *)
Fail(r) ==
    /\ ~At(r, "idle")
    /\ Return(r)
    /\ UNCHANGED <<assetOf, session, done, clock>>

-----------------------------------------------------------------------------
(* create                                                                  *)

(* What is left to do: insert with the point that was found, look for one  *)
(* on the named route, or insert the inspection alone, which touches none  *)
(* of these tables.  The asset and the route are kept while they may still *)
(* be needed, the route also to tell which way the point was found.        *)
Proceed(q) ==
    IF q.point # None THEN [q EXCEPT !.pc = "insert", !.asset = None]
    ELSE IF q.routeId # None THEN [q EXCEPT !.pc = "point"]
    ELSE Idle

(* A session of another inspector changes hands first. *)
Begin(r, q) ==
    Become(r, IF q.session # None /\ inspector[q.session] # r THEN q ELSE Proceed(q))

(* Faulty variant: the points of the session's route are not asked for. *)
CreateUnfiltered(r) ==
    /\ At(r, "idle")
    /\ \E a \in Assets, s \in Opened \cup {None}, rt \in Routes \cup {None} :
         \E p \in IF s = None THEN {None} ELSE FirstOf({q \in Existing : assetOf[q] = a}) :
             Begin(r, [pc |-> "own", session |-> s, asset |-> a, point |-> p,
                       routeId |-> IF p = None THEN rt ELSE None])
    /\ UNCHANGED <<assetOf, session, done, clock>>

(* The token is valid: the session, if one is named, is read whatever its  *)
(* status, with the point of its route for the asset.                      *)
Create(r) ==
    /\ At(r, "idle")
    /\ \E a \in Assets, s \in Opened \cup {None}, rt \in Routes \cup {None} :
         \E p \in IF s = None THEN {None} ELSE FirstOf(PointsFor(route[s], a)) :
             Begin(r, [pc |-> "own", session |-> s, asset |-> a, point |-> p,
                       routeId |-> IF p = None THEN rt ELSE None])
    /\ UNCHANGED <<assetOf, session, done, clock>>

CreateOwn(r) ==
    /\ At(r, "own")
    /\ inspector' = [inspector EXCEPT ![req[r].session] = r]
    /\ Become(r, Proceed(req[r]))
    /\ UNCHANGED <<assetOf, status, route, done, clock>>

(* The point of the named route, if it has one for the asset. *)
CreatePoint(r) ==
    LET q == req[r] IN
    /\ At(r, "point")
    /\ \E p \in FirstOf(PointsFor(q.routeId, q.asset)) :
           Become(r, IF p = None THEN Idle ELSE Proceed([q EXCEPT !.point = p]))
    /\ UNCHANGED <<assetOf, session, done, clock>>

(* Faulty variant: the point is not looked up again by the database. *)
RecordUnchecked(r, s) ==
    /\ done' = done \cup {[session |-> s, point |-> req[r].point, on |-> clock]}
    /\ Return(r)

(* The completed point is connected to a point that must still exist. *)
Record(r, s) ==
    /\ req[r].point \in Existing
    /\ done' = done \cup {[session |-> s, point |-> req[r].point, on |-> clock]}
    /\ Return(r)

(* The transaction: the inspection and its completed point, in the session *)
(* that was named or in a new one.                                         *)
CreateInsert(r) ==
    LET q == req[r] IN
    /\ At(r, "insert")
    /\ Cardinality(done) < MaxDone
    /\ \/ q.session # None /\ Record(r, q.session) /\ UNCHANGED session
       \/ /\ q.session = None
          /\ \E s \in Sessions :
               /\ Opened = 1 .. (s - 1)
               /\ Record(r, s)
               /\ status' = [status EXCEPT ![s] = "PENDING"]
               /\ route' = [route EXCEPT ![s] = PointRoute[q.point]]
               /\ inspector' = [inspector EXCEPT ![s] = r]
    /\ UNCHANGED <<assetOf, clock>>

-----------------------------------------------------------------------------
(* findInspectionSession, and each of the sessions of                      *)
(* findActiveInspectionSessionsForAsset; cancelInspectionSession           *)

AllDone(s) == PointsOf(route[s]) \subseteq Completed(s)

(* Faulty variant: the status of the session is not looked at. *)
FindAnyStatus(r) ==
    /\ At(r, "idle")
    /\ \E s \in Opened :
           Become(r, [Idle EXCEPT !.session = s,
                                  !.pc = IF AllDone(s) THEN "complete" ELSE "assets"])
    /\ UNCHANGED <<assetOf, session, done, clock>>

(* A session that is not PENDING is returned as it is. *)
Find(r) ==
    /\ At(r, "idle")
    /\ \E s \in Opened :
         /\ status[s] = "PENDING"
         /\ Become(r, [Idle EXCEPT !.session = s,
                                   !.pc = IF AllDone(s) THEN "complete" ELSE "assets"])
    /\ UNCHANGED <<assetOf, session, done, clock>>

Mark(s, st) == status' = [status EXCEPT ![s] = st]

MarkComplete(r) ==
    /\ At(r, "complete")
    /\ Mark(req[r].session, "COMPLETE")
    /\ Return(r)
    /\ UNCHANGED <<assetOf, route, inspector, done, clock>>

(* isBefore(inspectionDate, subDays(new Date(), inspectionCycle)) *)
Overdue(a, d) == d.on + InspectionCycle[a] < clock

(* The assets with a cycle of their own that the session has inspected. *)
Inspected(s) == {a \in Assets : InspectionCycle[a] # None
                                /\ \E p \in Completed(s) : assetOf[p] = a}

(* The completed points of a point, in every session. *)
DoneAt(p) == {d \in done : d.point = p}

(* For each asset the first of its points, on any route, and of that the   *)
(* first completion, in any session, are looked at.                        *)
MayExpire(s) ==
    \E a \in Inspected(s) :
        \E p \in Existing : assetOf[p] = a /\ \E d \in DoneAt(p) : Overdue(a, d)
MayStay(s) ==
    \A a \in Inspected(s) :
        \E p \in Existing : assetOf[p] = a
                            /\ (DoneAt(p) = {} \/ \E d \in DoneAt(p) : ~Overdue(a, d))

FindAssets(r) ==
    /\ At(r, "assets")
    /\ \/ MayStay(req[r].session) /\ Return(r)
       \/ MayExpire(req[r].session) /\ Goto(r, "expire")
    /\ UNCHANGED <<assetOf, session, done, clock>>

MarkExpired(r) ==
    /\ At(r, "expire")
    /\ Mark(req[r].session, "EXPIRED")
    /\ Return(r)
    /\ UNCHANGED <<assetOf, route, inspector, done, clock>>

(* Whatever the status. *)
CancelInspectionSession(r) ==
    /\ At(r, "idle")
    /\ \E s \in Opened : Mark(s, "CANCELLED")
    /\ UNCHANGED <<assetOf, route, inspector, done, clock, req>>

-----------------------------------------------------------------------------
(* InspectionRoutesService, and the deletion of an inspection: one         *)
(* statement each.  Completed points go with their point or inspection.    *)

SetPoint(p, a) ==
    /\ assetOf' = [assetOf EXCEPT ![p] = a]
    /\ UNCHANGED <<session, clock, req>>

CreateRoutePoint == \E p \in Points \ Existing, a \in Assets : SetPoint(p, a) /\ UNCHANGED done
UpdatePoint == \E p \in Existing, a \in Assets : SetPoint(p, a) /\ UNCHANGED done

(* Faulty variant: the completed points are not deleted with the point. *)
RemovePointOnly == \E p \in Existing : SetPoint(p, None) /\ UNCHANGED done

RemovePoint ==
    \E p \in Existing : SetPoint(p, None) /\ done' = {d \in done : d.point # p}

(* A route with sessions cannot be deleted; its points go with it. *)
RemoveRoute ==
    \E rt \in Routes :
        /\ \A s \in Opened : route[s] # rt
        /\ PointsOf(rt) # {}
        /\ assetOf' = [p \in Points |-> IF PointRoute[p] = rt THEN None ELSE assetOf[p]]
        /\ done' = {d \in done : PointRoute[d.point] # rt}
        /\ UNCHANGED <<session, clock, req>>

RemoveInspection ==
    /\ \E d \in done : done' = done \ {d}
    /\ UNCHANGED <<assetOf, session, clock, req>>

Tick ==
    /\ clock < MaxClock
    /\ clock' = clock + 1
    /\ UNCHANGED <<assetOf, session, done, req>>

-----------------------------------------------------------------------------

Step(r) ==
    \/ Create(r) \/ CreateOwn(r) \/ CreatePoint(r) \/ CreateInsert(r)
    \/ Find(r) \/ MarkComplete(r) \/ FindAssets(r) \/ MarkExpired(r)
    \/ CancelInspectionSession(r)
    \/ Fail(r)

Edit == CreateRoutePoint \/ UpdatePoint \/ RemovePoint \/ RemoveRoute \/ RemoveInspection

(* A request is overtaken once another's step has changed what it may have *)
(* read.                                                                   *)
Overtake ==
    overtaken' = {r \in Reqs : /\ req'[r].pc # "idle" /\ ~At(r, "idle")
                               /\ r \in overtaken \/ (req'[r] = req[r] /\ data' # data)}

Next == ((\E r \in Reqs : Step(r)) \/ Edit \/ Tick) /\ Overtake

Spec == Init /\ [][Next]_vars

-----------------------------------------------------------------------------
(* What is checked.                                                        *)

(* Type invariant of the tables and the requests. *)
TypeOK ==
    /\ assetOf \in [Points -> Assets \cup {None}]
    /\ status \in [Sessions -> Status \cup {None}]
    /\ route \in [Sessions -> Routes \cup {None}]
    /\ inspector \in [Sessions -> Reqs \cup {None}]
    /\ done \in SUBSET [session : Sessions, point : Points, on : Nat]
    /\ clock \in Nat
    /\ req \in [Reqs -> Request]
    /\ overtaken \in SUBSET Reqs

(* A completed point refers to a point and a session that exist, although  *)
(* points come and go between the steps that find and connect them.        *)
References == \A d \in done : d.point \in Existing /\ d.session \in Opened

(* What a request that was not overtaken has read is still so. *)
RequestSound(r) ==
    LET q == req[r] IN
    /\ q.pc \in {"complete", "assets", "expire"} => q.session \in Opened
    /\ q.session # None => q.session \in Opened
    /\ q.pc = "point" => q.routeId # None
    /\ q.routeId = None /\ q.session # None /\ q.point # None =>
         PointRoute[q.point] = route[q.session]
    /\ r \notin overtaken /\ q.pc = "complete" => status[q.session] = "PENDING" /\ AllDone(q.session)
    /\ r \notin overtaken /\ q.pc \in {"assets", "expire"} =>
         status[q.session] = "PENDING" /\ ~AllDone(q.session)
    /\ r \notin overtaken /\ q.pc = "expire" => Completed(q.session) # {}

(* A session that exists has a route. *)
SessionSound == \A s \in Opened : route[s] \in Routes

(* The inductive invariant. *)
Inv == TypeOK /\ References /\ SessionSound /\ \A r \in Reqs : RequestSound(r)

(* Only a session that is still PENDING is marked, COMPLETE when all the   *)
(* points of its route are done and EXPIRED when some are not and some     *)
(* are, unless another request overtook the one that marks it.             *)
MarksSound ==
    [][\A r \in Reqs \ overtaken :
          LET s == req[r].session IN
          req'[r] # req[r] /\ status' # status /\ s # None =>
              /\ status[s] = "PENDING"
              /\ status'[s] = "COMPLETE" => AllDone(s)
              /\ status'[s] = "EXPIRED" => ~AllDone(s) /\ Completed(s) # {}]_vars

(* "This ensures that the session and route point are tied together": a    *)
(* request that finds its point through the session, and does not fall     *)
(* back on a route it names besides, completes a point of the session's    *)
(* route, whatever is edited meanwhile.                                    *)
TiedTogether ==
    [][\A r \in Reqs : req'[r] # req[r] /\ req[r].session # None /\ req[r].routeId = None =>
          \A d \in done' \ done : PointRoute[d.point] = route[d.session]]_vars
=============================================================================
