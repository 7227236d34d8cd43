----------------------------- MODULE RouteOrder -----------------------------
(***************************************************************************)
(* InspectionRoutesService.reorderPoints for one route: the points are     *)
(* read, the new order is worked out in memory and written back in one     *)
(* statement, while points are added, edited and removed.                  *)
(***************************************************************************)
EXTENDS Integers, Sequences, FiniteSets, SequencesExt

CONSTANTS
    NoOrder,
    Points,
    Orders,         \* the orders clients send
    Movers          \* reorders in flight at once

ASSUME RouteAssumption == IsFiniteSet(Points) /\ NoOrder \notin Int /\ Orders \subseteq Int

VARIABLES
    order,          \* point |-> its order, or NoOrder if it is not on the route
    move            \* the reorders in flight

routeVars == <<order, move>>

NoMove == [point |-> NoOrder]
OnRoute(o) == {p \in Points : o[p] # NoOrder}

RouteInit ==
    /\ order \in {o \in [Points -> {0, 1, 2, NoOrder}] : OnRoute(o) # {}}
    /\ move = [m \in Movers |-> NoMove]

(* Sorted by order; points of one order come as they come. *)
Sorted(o) == {s \in SetToSeqs(OnRoute(o)) : \A i, k \in DOMAIN s : i < k => o[s[i]] <= o[s[k]]}

ReadPoints(m, p, to, all) ==
    /\ move[m] = NoMove
    /\ OnRoute(order) # {}
    /\ all \in Sorted(order)
    /\ move' = [move EXCEPT ![m] = [point |-> p, to |-> to, all |-> all, seen |-> order]]
    /\ UNCHANGED order

(* A point that is not among them has the index -1, and splice takes the   *)
(* last one.                                                               *)
Taken(v) == IF \E i \in DOMAIN v.all : v.all[i] = v.point
            THEN CHOOSE i \in DOMAIN v.all : v.all[i] = v.point ELSE Len(v.all)

(* Faulty variant: inserted first and then removed at its old place. *)
NewListInserted(v) ==
    LET moved == v.all[Taken(v)]
        before == Cardinality({i \in DOMAIN v.all : v.seen[v.all[i]] < v.to})
    IN  RemoveAt(InsertAt(v.all, before + 1, moved), Taken(v))

(* Moving forward the point goes behind those of its new order, moving     *)
(* back before them.                                                       *)
NewList(v) ==
    LET moved == v.all[Taken(v)]
        rest == RemoveAt(v.all, Taken(v))
        forward == v.to > v.seen[moved]
        before == Cardinality({i \in DOMAIN rest : \/ forward /\ v.seen[rest[i]] = v.to
                                                   \/ v.seen[rest[i]] < v.to})
    IN  InsertAt(rest, before + 1, moved)

(* The points whose order is not their index are updated, by id: the ones  *)
(* that are gone are not.                                                  *)
WriteOrders(m) ==
    LET v == move[m]
        list == NewList(v)
        index(p) == (CHOOSE i \in DOMAIN list : list[i] = p) - 1
    IN  /\ v # NoMove
        /\ order' = [p \in Points |->
              IF order[p] # NoOrder /\ (\E i \in DOMAIN list : list[i] = p) /\ v.seen[p] # index(p)
              THEN index(p) ELSE order[p]]
        /\ move' = [move EXCEPT ![m] = NoMove]

CreatePoint(p, o) == order[p] = NoOrder /\ order' = [order EXCEPT ![p] = o] /\ UNCHANGED move
UpdatePoint(p, o) == order[p] # NoOrder /\ order' = [order EXCEPT ![p] = o] /\ UNCHANGED move
RemovePoint(p) == order[p] # NoOrder /\ order' = [order EXCEPT ![p] = NoOrder] /\ UNCHANGED move

RouteSteps ==
    \/ \E m \in Movers :
          \/ \E p \in Points, to \in Orders : \E all \in Sorted(order) : ReadPoints(m, p, to, all)
          \/ WriteOrders(m)
    \/ \E p \in Points :
          \/ \E o \in Orders : CreatePoint(p, o) \/ UpdatePoint(p, o)
          \/ RemovePoint(p)

RouteSpec == RouteInit /\ [][RouteSteps]_routeVars

(***************************************************************************)
(* Properties.                                                             *)
(***************************************************************************)
(* A reorder that nobody overtook leaves the points numbered from 0        *)
(* without a gap, and has moved the point asked for alone: every two       *)
(* others keep their order, and those with a smaller order than the one    *)
(* asked for are before it, those with a greater one behind it.  If the    *)
(* point is not on the route the last one moves instead.                   *)
MovesOnePoint ==
    [][\A m \in Movers :
          LET v == move[m]
              asked == IF v.point \in OnRoute(order) THEN v.point ELSE v.all[Len(v.all)]
              others == OnRoute(order) \ {asked}
          IN  move[m] # NoMove /\ move'[m] = NoMove /\ v.seen = order =>
                /\ {order'[p] : p \in OnRoute(order)} = 0 .. Cardinality(OnRoute(order)) - 1
                /\ \A p, q \in others : order[p] < order[q] => order'[p] < order'[q]
                /\ \A p \in others : /\ order[p] < v.to => order'[p] < order'[asked]
                                     /\ order[p] > v.to => order'[asked] < order'[p]]_routeVars
=============================================================================
