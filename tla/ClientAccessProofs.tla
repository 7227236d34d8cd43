------------------------- MODULE ClientAccessProofs -------------------------
(***************************************************************************)
(* Proofs about ClientAccess, for any requests, clients, places and roles. *)
(* Inv is inductive; that a request keeps to its client follows from it.   *)
(* That there is one primary site, and that removals leave a role and a    *)
(* primary row, is proved for one request at a time and without the intent *)
(* 'system', from SequentialInv and RemovalsInv.                           *)
(***************************************************************************)
EXTENDS ClientAccess, FiniteSetTheorems, TLAPS

(* An idle slot is a sound request. *)
LEMMA IdleRequest == Idle \in Request /\ RequestSound(Idle)
BY DEF Idle, Request, RequestSound, Ops, PCs

(* Inserting rows keeps the table sound. *)
LEMMA InsertRows ==
    ASSUME TypeOK, TableSound, NEW S \in SUBSET Keys,
           rows' = rows \cup S, older' = OlderWith(S),
           primary' \subseteq rows \cup S
    PROVE  /\ TableSound'
           /\ rows' \in SUBSET Keys /\ primary' \in SUBSET Keys
           /\ older' \in SUBSET (Keys \X Keys)
<1>1. \A i, j : <<i, j>> \in older' <=>
                  <<i, j>> \in older \/ (i \in rows /\ j \in S /\ j \notin rows)
  BY DEF OlderWith
<1>2. older' \subseteq rows' \X rows'
  BY DEF OlderWith, TableSound
<1>3. \A i, j : <<i, j>> \in older => i \in rows /\ j \in rows
  BY DEF TableSound
<1>4. \A k \in rows' : <<k, k>> \notin older'
  BY <1>1, <1>3 DEF TableSound
<1>5. \A i, j, k \in rows' :
        <<i, j>> \in older' /\ <<j, k>> \in older' => <<i, k>> \in older'
  BY <1>1, <1>3 DEF TableSound
<1> QED
  BY <1>2, <1>4, <1>5 DEF TypeOK, TableSound

(* Deleting rows keeps the table sound. *)
LEMMA DeleteRows ==
    ASSUME TypeOK, TableSound, NEW S \in SUBSET rows,
           rows' = S, older' = OlderAmong(S), primary' \subseteq S
    PROVE  /\ TableSound'
           /\ rows' \in SUBSET Keys /\ primary' \in SUBSET Keys
           /\ older' \in SUBSET (Keys \X Keys)
<1>1. \A i, j : <<i, j>> \in older' <=> <<i, j>> \in older /\ i \in S /\ j \in S
  BY DEF OlderAmong
<1>2. older' \subseteq S \X S
  BY DEF OlderAmong
<1> QED
  BY <1>1, <1>2 DEF TypeOK, TableSound, OlderAmong

(* A sound request in its slot and a sound table are all Inv asks for. *)
LEMMA SlotStep ==
    ASSUME Inv, NEW r \in Reqs, NEW q \in Request, RequestSound(q), Become(r, q),
           TableSound',
           rows' \in SUBSET Keys, primary' \in SUBSET Keys,
           older' \in SUBSET (Keys \X Keys)
    PROVE  Inv'
<1>1. TypeOK'
  BY DEF Inv, TypeOK, Become
<1>2. \A s \in Reqs : req'[s] = IF s = r THEN q ELSE req[s]
  BY DEF Inv, TypeOK, Become
<1>3. \A s \in Reqs : RequestSound(req'[s])
  BY <1>2 DEF Inv
<1> QED
  BY <1>1, <1>3 DEF Inv, RequestSound

(* A step that only reads needs a sound request. *)
LEMMA ReadStep ==
    ASSUME Inv, NEW r \in Reqs, NEW q \in Request, RequestSound(q), Become(r, q),
           UNCHANGED table
    PROVE  Inv'
<1>1. /\ TableSound'
      /\ rows' \in SUBSET Keys /\ primary' \in SUBSET Keys
      /\ older' \in SUBSET (Keys \X Keys)
  BY DEF Inv, TypeOK, TableSound, table
<1> QED
  BY <1>1, SlotStep

(* The commit of a removal keeps the invariant. *)
LEMMA RemovalStep ==
    ASSUME Inv, NEW r \in Reqs, NEW S, CommitRemoval(r, S)
    PROVE  Inv'
<1>1. Become(r, Idle)
  BY DEF CommitRemoval, Return
<1>2. CASE UNCHANGED table
  BY <1>1, <1>2, ReadStep, IdleRequest
<1>3. CASE /\ rows' = rows \ req[r].set
           /\ primary' = (primary \cup (rows \cap S)) \ req[r].set
           /\ older' = OlderAmong(rows \ req[r].set)
  <2>1. primary' \subseteq rows \ req[r].set
    BY <1>3 DEF Inv, TableSound
  <2>2. /\ TableSound'
        /\ rows' \in SUBSET Keys /\ primary' \in SUBSET Keys
        /\ older' \in SUBSET (Keys \X Keys)
    BY <1>3, <2>1, DeleteRows DEF Inv
  <2> QED
    BY <1>1, <2>2, SlotStep, IdleRequest
<1> QED
  BY <1>2, <1>3 DEF CommitRemoval

(* An insertion that ends its request keeps the invariant. *)
LEMMA InsertionStep ==
    ASSUME Inv, NEW r \in Reqs, NEW S \in SUBSET Keys, Return(r),
           rows' = rows \cup S, older' = OlderWith(S), primary' \subseteq rows \cup S
    PROVE  Inv'
BY InsertRows, SlotStep, IdleRequest DEF Inv, Return

(* The initial table is empty and every slot idle. *)
LEMMA AccessInit == Init => Inv
BY IdleRequest DEF Init, Inv, TypeOK, TableSound

(* Every step of every handler preserves the invariant. *)
LEMMA AccessStep == ASSUME Inv, NEW r \in Reqs, Step(r) PROVE Inv'
<1>q. req[r] \in Request /\ RequestSound(req[r])
  BY DEF Inv, TypeOK
<1>f. \A S : Found(S) \in {"none", "some"}
  BY DEF Found
<1>k. \A k \in Keys : k[1] \in Places /\ ClientOf[k[1]] \in Clients /\ k # None
  BY ClientAccessAssumption DEF Keys
<1>1. CASE AddRole(r)
  <2>1. PICK i \in Intents, k \in Keys :
          Become(r, [[Idle EXCEPT !.op = "addRole", !.pc = "create",
                                  !.client = ClientOf[k[1]], !.intent = i, !.key = k]
                      EXCEPT !.found = Found(primary \cap AtPlace(k[1]))])
    BY <1>1 DEF AddRole
  <2> DEFINE q == [[Idle EXCEPT !.op = "addRole", !.pc = "create",
                                  !.client = ClientOf[k[1]], !.intent = i, !.key = k]
                      EXCEPT !.found = Found(primary \cap AtPlace(k[1]))]
  <2>2. /\ q \in Request /\ q.op = "addRole" /\ q.pc = "create" /\ q.key = k
        /\ q.client = ClientOf[k[1]] /\ q.intent = i
    BY <1>f, <1>k, ClientAccessAssumption DEF Idle, Request, Ops, PCs
  <2> HIDE DEF q
  <2>3. RequestSound(q)
    BY <2>2, <1>k DEF RequestSound, OfClient
  <2> QED
    BY <1>1, <2>1, <2>2, <2>3, ReadStep DEF AddRole, q
<1>2. CASE AddRoleCreate(r)
  <2>1. req[r].key \in Keys /\ Return(r)
    BY <1>2, <1>q DEF AddRoleCreate, RequestSound, At
  <2>2. CASE UNCHANGED table
    BY <2>1, <2>2, ReadStep, IdleRequest DEF Return
  <2>3. CASE /\ rows' = rows \cup {req[r].key}
             /\ primary' = IF req[r].found = "some" THEN primary \cup {req[r].key} ELSE primary
             /\ older' = OlderWith({req[r].key})
    <3>1. primary' \subseteq rows \cup {req[r].key}
      BY <2>3 DEF Inv, TableSound
    <3> QED
      BY <2>1, <2>3, <3>1, InsertionStep
  <2> QED
    BY <1>2, <2>2, <2>3 DEF AddRoleCreate
<1>3. ASSUME NEW k \in Keys, NEW S \in SUBSET Keys, k \in S, ReadPrimary(r, k, S),
             UNCHANGED table
      PROVE  Inv'
  <2>1. PICK p \in PrimaryPlaces :
          Become(r, [Idle EXCEPT !.op = "upsert", !.pc = "upsert", !.key = k,
                                 !.place = p, !.set = S])
    BY <1>3 DEF ReadPrimary
  <2>2. p \in Places \cup {None}
    BY <1>k DEF PrimaryPlaces, Inv, TypeOK
  <2> DEFINE q == [Idle EXCEPT !.op = "upsert", !.pc = "upsert", !.key = k,
                               !.place = p, !.set = S]
  <2>3. /\ q \in Request /\ q.op = "upsert" /\ q.pc = "upsert" /\ q.key = k
        /\ q.set = S /\ q.intent = "system"
    BY <2>2 DEF Idle, Request, Ops, PCs
  <2> HIDE DEF q
  <2>4. RequestSound(q)
    BY <2>3, <1>3 DEF RequestSound
  <2> QED
    BY <1>3, <2>1, <2>3, <2>4, ReadStep DEF q
<1>4. CASE UserAddRole(r) \/ Accept(r)
  BY <1>3, <1>4 DEF UserAddRole, Accept
<1>5. CASE Upsert(r)
  <2>1. req[r].set \in SUBSET Keys /\ req[r].key \in req[r].set
    BY <1>5, <1>q DEF Upsert, RequestSound, Request, At
  <2>2. primary' \subseteq rows \cup req[r].set
    BY <1>5, <2>1 DEF Upsert, Inv, TableSound
  <2> QED
    BY <1>5, <2>1, <2>2, InsertionStep DEF Upsert
<1>6. CASE SyncUser(r)
  <2>0. PICK p \in Places : \E S \in SUBSET AtPlace(p) :
          Become(r, [Idle EXCEPT !.op = "sync", !.pc = "sync", !.set = S,
                                 !.found = Found(rows)])
    BY <1>6 DEF SyncUser
  <2>1. PICK S \in SUBSET AtPlace(p) :
          Become(r, [Idle EXCEPT !.op = "sync", !.pc = "sync", !.set = S,
                                 !.found = Found(rows)])
    BY <2>0
  <2> DEFINE q == [Idle EXCEPT !.op = "sync", !.pc = "sync", !.set = S,
                               !.found = Found(rows)]
  <2>2. /\ q \in Request /\ q.op = "sync" /\ q.pc = "sync" /\ q.set = S
        /\ q.intent = "system"
    BY <1>f DEF Idle, Request, Ops, PCs, AtPlace
  <2> HIDE DEF q
  <2>3. RequestSound(q)
    BY <2>2 DEF RequestSound, AtPlace
  <2> QED
    BY <1>6, <2>1, <2>2, <2>3, ReadStep DEF SyncUser, q
<1>7. CASE SyncUpsert(r)
  <2>1. req[r].set \in SUBSET Keys
    BY <1>q DEF Request
  <2>2. primary' \subseteq rows \cup req[r].set
    BY <1>7 DEF SyncUpsert, Inv, TableSound
  <2> QED
    BY <1>7, <2>1, <2>2, InsertionStep DEF SyncUpsert
<1>8. CASE RemoveRole(r)
  <2>1. PICK i \in Intents, k \in Keys :
          FindRow(r, [Idle EXCEPT !.op = "removeRole", !.pc = "count", !.intent = i,
                                  !.client = ClientOf[k[1]], !.key = k])
    BY <1>8 DEF RemoveRole
  <2> DEFINE p == [Idle EXCEPT !.op = "removeRole", !.pc = "count", !.intent = i,
                               !.client = ClientOf[k[1]], !.key = k]
             q == [p EXCEPT !.found = Found(primary \cap {p.key}), !.set = {p.key}]
  <2>2. p \in Request /\ p.op = "removeRole" /\ p.pc = "count" /\ p.key = k
        /\ p.client = ClientOf[k[1]] /\ p.intent = i
    BY <1>k, ClientAccessAssumption DEF Idle, Request, Ops, PCs
  <2>3. Become(r, q)
    BY <2>1 DEF FindRow
  <2> HIDE DEF p
  <2>4. q \in Request /\ q.op = "removeRole" /\ q.pc = "count" /\ q.key = k
        /\ q.client = ClientOf[k[1]] /\ q.set = {k} /\ q.intent = i
    BY <2>2, <1>f DEF Request
  <2> HIDE DEF q
  <2>5. RequestSound(q)
    BY <2>4, <1>k DEF RequestSound, OfClient
  <2> QED
    BY <1>8, <2>3, <2>4, <2>5, ReadStep DEF RemoveRole
<1>9. CASE UserRemoveRole(r)
  <2>1. PICK k \in Keys :
          FindRow(r, [Idle EXCEPT !.op = "userRemoveRole", !.pc = "delete", !.key = k])
    BY <1>9 DEF UserRemoveRole
  <2> DEFINE p == [Idle EXCEPT !.op = "userRemoveRole", !.pc = "delete", !.key = k]
             q == [p EXCEPT !.found = Found(primary \cap {p.key}), !.set = {p.key}]
  <2>2. p \in Request /\ p.op = "userRemoveRole" /\ p.pc = "delete" /\ p.key = k
        /\ p.intent = "system"
    BY <1>k DEF Idle, Request, Ops, PCs
  <2>3. Become(r, q)
    BY <2>1 DEF FindRow
  <2> HIDE DEF p
  <2>4. q \in Request /\ q.op = "userRemoveRole" /\ q.pc = "delete" /\ q.key = k
        /\ q.intent = "system" /\ q.set = {k}
    BY <2>2, <1>f DEF Request
  <2> HIDE DEF q
  <2>5. RequestSound(q)
    BY <2>4, <1>k DEF RequestSound, OfClient
  <2> QED
    BY <1>9, <2>3, <2>4, <2>5, ReadStep DEF UserRemoveRole
<1>10. ASSUME NEW l \in {"delete", "remaining", "oldest"}, Goto(r, l), UNCHANGED table,
              req[r].pc \in {"count", "delete", "remaining"},
              l # "oldest" => req[r].op # "remove"
       PROVE  Inv'
  <2> DEFINE q == [req[r] EXCEPT !.pc = l]
  <2>1. /\ q \in Request /\ q.pc = l /\ q.op = req[r].op /\ q.key = req[r].key
        /\ q.set = req[r].set /\ q.client = req[r].client /\ q.intent = req[r].intent
    BY <1>q, <1>10 DEF Request, PCs
  <2>2. Become(r, q)
    BY <1>10 DEF Goto
  <2> HIDE DEF q
  <2>3. RequestSound(q)
    BY <2>1, <1>q, <1>10 DEF RequestSound
  <2> QED
    BY <2>1, <2>2, <2>3, <1>10, ReadStep
<1>11. CASE RemoveRoleCount(r)
  <2>1. req[r].pc = "count" /\ req[r].op # "remove"
    BY <1>11, <1>q DEF RemoveRoleCount, RequestSound, At
  <2> QED
    BY <2>1, <1>11, <1>10, ReadStep, IdleRequest DEF RemoveRoleCount, Return
<1>12. CASE DeleteRow(r)
  BY <1>12, <1>10, RemovalStep DEF DeleteRow, At
<1>13. CASE RemainingPrimary(r)
  BY <1>13, <1>10, RemovalStep DEF RemainingPrimary, At
<1>14. CASE Remove(r)
  <2> DEFINE P(i, c) == [Idle EXCEPT !.op = "remove", !.pc = "delete", !.client = c,
                                     !.intent = i]
  <2>1. PICK i \in Intents, c \in Clients :
          Become(r, [P(i, c) EXCEPT !.found = Found(primary \cap Visible(P(i, c)))])
    BY <1>14 DEF Remove
  <2> DEFINE p == P(i, c)
             q == [p EXCEPT !.found = Found(primary \cap Visible(p))]
  <2>2. /\ p \in Request /\ p.op = "remove" /\ p.pc = "delete" /\ p.key = None
        /\ p.client = c /\ p.set = {} /\ p.intent = i
    BY ClientAccessAssumption DEF Idle, Request, Ops, PCs
  <2>3. Become(r, q)
    BY <2>1
  <2> HIDE DEF p
  <2>4. /\ q \in Request /\ q.op = "remove" /\ q.pc = "delete" /\ q.key = None
        /\ q.client = c /\ q.set = {} /\ q.intent = i
    BY <2>2, <1>f DEF Request
  <2> HIDE DEF q
  <2>5. RequestSound(q)
    BY <2>4 DEF RequestSound
  <2> QED
    BY <1>14, <2>3, <2>4, <2>5, ReadStep DEF Remove
<1>15. CASE RemoveDelete(r)
  <2> DEFINE S == rows \cap OfClient(req[r].client)
  <2>1. CASE /\ rows' = rows \ S /\ primary' = primary \ S
             /\ older' = OlderAmong(rows \ S) /\ Return(r)
    <3>1. primary' \subseteq rows \ S
      BY <2>1 DEF Inv, TableSound
    <3> QED
      BY <2>1, <3>1, DeleteRows, SlotStep, IdleRequest DEF Inv, Return
  <2>2. CASE /\ Become(r, [req[r] EXCEPT !.pc = "oldest", !.set = S])
             /\ UNCHANGED table
    <3> DEFINE q == [req[r] EXCEPT !.pc = "oldest", !.set = S]
    <3>1. /\ q \in Request /\ q.pc = "oldest" /\ q.op = req[r].op /\ q.key = req[r].key
          /\ q.set = S /\ q.client = req[r].client /\ q.intent = req[r].intent
      BY <1>q DEF Request, PCs, OfClient
    <3>2. req[r].op = "remove" /\ S \subseteq OfClient(req[r].client)
      BY <1>15 DEF RemoveDelete
    <3> HIDE DEF q, S
    <3>3. RequestSound(q)
      BY <3>1, <3>2, <1>q DEF RequestSound
    <3> QED
      BY <2>2, <3>1, <3>3, ReadStep DEF q
  <2> QED
    BY <1>15, <2>1, <2>2 DEF RemoveDelete
<1>16. CASE OldestRemaining(r)
  <2>1. CASE CommitRemoval(r, {})
    BY <2>1, RemovalStep
  <2>2. ASSUME NEW k \in Oldest(Visible(req[r]) \ req[r].set),
               Become(r, [req[r] EXCEPT !.pc = "promote", !.place = k[1]]),
               UNCHANGED table
        PROVE  Inv'
    <3> DEFINE q == [req[r] EXCEPT !.pc = "promote", !.place = k[1]]
    <3>1. k \in Keys /\ k[1] \in Places
      BY <2>2, <1>k DEF Oldest, Visible, Inv, TypeOK
    <3>2. req[r].intent = "user" => ClientOf[k[1]] = req[r].client
      BY <2>2 DEF Oldest, Visible, OfClient
    <3>3. /\ q \in Request /\ q.pc = "promote" /\ q.op = req[r].op /\ q.key = req[r].key
          /\ q.set = req[r].set /\ q.client = req[r].client /\ q.intent = req[r].intent
          /\ q.place = k[1]
      BY <1>q, <3>1 DEF Request, PCs
    <3>4. req[r].pc = "oldest"
      BY <1>16 DEF OldestRemaining, At
    <3> HIDE DEF q
    <3>5. RequestSound(q)
      BY <3>1, <3>2, <3>3, <3>4, <1>q DEF RequestSound
    <3> QED
      BY <2>2, <3>3, <3>5, ReadStep DEF q
  <2> QED
    BY <1>16, <2>1, <2>2 DEF OldestRemaining
<1>17. CASE Promote(r)
  BY <1>17, RemovalStep DEF Promote
<1>18. CASE Fail(r)
  BY <1>18, ReadStep, IdleRequest DEF Fail, Return
<1> QED
  BY <1>1, <1>2, <1>4, <1>5, <1>6, <1>7, <1>8, <1>9, <1>11, <1>12, <1>13, <1>14,
     <1>15, <1>16, <1>17, <1>18 DEF Step

(* The inductive invariant of the access table, with any number of        *)
(* concurrent requests.                                                    *)
THEOREM AccessSafety == Spec => []Inv
<1>1. Inv /\ [Next]_vars => Inv'
  <2>1. CASE UNCHANGED vars
    BY <2>1 DEF vars, Inv, TypeOK, TableSound
  <2> QED
    BY <2>1, AccessStep DEF Next
<1> QED
  BY <1>1, AccessInit, PTL DEF Spec

-----------------------------------------------------------------------------

(* What the commit of a removal may change: the rows it deletes and those  *)
(* of S.                                                                   *)
LEMMA RemovalReach ==
    ASSUME NEW r \in Reqs, NEW S, CommitRemoval(r, S), NEW k,
           k \notin req[r].set, k \notin S
    PROVE  /\ (k \in rows') <=> (k \in rows)
           /\ (k \in primary') <=> (k \in primary)
BY DEF CommitRemoval, table

(* A request served for a user of a client changes rows of that client     *)
(* only.                                                                   *)
LEMMA StepIsolated ==
    ASSUME Inv, NEW r \in Reqs, Step(r), req[r].intent = "user",
           NEW k \in Keys \ OfClient(req[r].client)
    PROVE  /\ (k \in rows') <=> (k \in rows)
           /\ (k \in primary') <=> (k \in primary)
<1>q. req[r] \in Request /\ RequestSound(req[r])
  BY DEF Inv, TypeOK
<1>1. CASE UNCHANGED table
  BY <1>1 DEF table
<1>2. req[r].pc \notin {"idle", "upsert", "sync"}
  BY <1>q DEF RequestSound, Idle
<1>3. CASE AddRoleCreate(r)
  <2>1. req[r].key \in OfClient(req[r].client) /\ k # req[r].key
    BY <1>3, <1>q, ClientAccessAssumption DEF AddRoleCreate, RequestSound, At, Keys
  <2> QED
    BY <1>3, <2>1 DEF AddRoleCreate, table
<1>4. CASE RemoveDelete(r)
  BY <1>4 DEF RemoveDelete, table
<1>5. ASSUME NEW S, CommitRemoval(r, S), S \subseteq OfClient(req[r].client),
             req[r].pc \in {"delete", "remaining", "oldest", "promote"}
      PROVE  /\ (k \in rows') <=> (k \in rows)
             /\ (k \in primary') <=> (k \in primary)
  <2>1. req[r].set \subseteq OfClient(req[r].client)
    BY <1>5, <1>q, ClientAccessAssumption DEF RequestSound, Keys
  <2> QED
    BY <1>5, <2>1, RemovalReach
<1>6. CASE DeleteRow(r) \/ RemainingPrimary(r) \/ OldestRemaining(r)
  BY <1>1, <1>5, <1>6 DEF DeleteRow, RemainingPrimary, OldestRemaining, At
<1>7. CASE Promote(r)
  <2>1. AtPlace(req[r].place) \subseteq OfClient(req[r].client)
    BY <1>7, <1>q DEF Promote, RequestSound, AtPlace, OfClient, At
  <2> QED
    BY <1>5, <1>7, <2>1 DEF Promote, At
<1> QED
  BY <1>1, <1>2, <1>3, <1>4, <1>6, <1>7
     DEF Step, AddRole, UserAddRole, Accept, Upsert, SyncUser, SyncUpsert, RemoveRole,
         UserRemoveRole, RemoveRoleCount, Remove, Fail, At

(* A step of one slot leaves the others as they are. *)
LEMMA OneSlot ==
    ASSUME Inv, NEW s \in Reqs, Step(s), NEW r \in Reqs, req'[r] # req[r]
    PROVE  r = s
<1>1. ASSUME NEW q, Become(s, q) PROVE r = s
  BY <1>1 DEF Become, Inv, TypeOK
<1> QED
  BY <1>1 DEF Step, AddRole, AddRoleCreate, UserAddRole, Accept, ReadPrimary, Upsert,
        SyncUser, SyncUpsert, RemoveRole, UserRemoveRole, FindRow, RemoveRoleCount,
        DeleteRow, RemainingPrimary, Remove, RemoveDelete, OldestRemaining, Promote,
        CommitRemoval, Fail, Goto, Return

(* MembersService, called by a user of one client, leaves the access rows  *)
(* of every other client alone, with any number of concurrent requests.    *)
THEOREM MembersIsolated == Spec => ClientIsolation
<1>1. Inv /\ [Next]_vars =>
        [\A r \in Reqs : req[r].intent = "user" /\ req'[r] # req[r] =>
           \A k \in Keys \ OfClient(req[r].client) :
             /\ (k \in rows') <=> (k \in rows)
             /\ (k \in primary') <=> (k \in primary)]_vars
  BY StepIsolated, OneSlot DEF Next
<1> QED
  BY <1>1, AccessSafety, PTL DEF Spec, ClientIsolation

-----------------------------------------------------------------------------

(* With one slot, a step that only reads leaves a current request. *)
LEMMA ReadAlone ==
    ASSUME Inv, SequentialInv, NEW r \in Reqs, Reqs = {r}, NEW q,
           Become(r, q), UNCHANGED table, ReadsCurrent(q)
    PROVE  SequentialInv'
<1>1. req'[r] = q
  BY DEF Inv, TypeOK, Become
<1> QED
  BY <1>1 DEF SequentialInv, SinglePrimarySite, ReadsCurrent, table, Visible, PrimaryPlaces

(* With one slot, a write that ends its request has one primary site to    *)
(* leave behind.                                                           *)
LEMMA WriteAlone ==
    ASSUME Inv, NEW r \in Reqs, Reqs = {r}, Become(r, Idle), SinglePrimarySite'
    PROVE  SequentialInv'
<1>1. req'[r] = Idle
  BY DEF Inv, TypeOK, Become
<1> QED
  BY <1>1 DEF SequentialInv, ReadsCurrent, Idle

(* The commit of a removal, when what it deletes includes every primary    *)
(* row or it promotes nothing.                                             *)
LEMMA RemovalAlone ==
    ASSUME Inv, SequentialInv, NEW r \in Reqs, Reqs = {r}, NEW S,
           CommitRemoval(r, S), SinglePrimarySite,
           \/ S = {}
           \/ primary \subseteq req[r].set /\ \A j, k \in S : j[1] = k[1]
    PROVE  SequentialInv'
<1>1. Become(r, Idle)
  BY DEF CommitRemoval, Return
<1>2. SinglePrimarySite'
  BY DEF CommitRemoval, SinglePrimarySite, table
<1> QED
  BY <1>1, <1>2, WriteAlone

(* One request at a time, without the intent 'system': every step keeps    *)
(* one primary site and what was read current.                             *)
LEMMA StepAlone ==
    ASSUME Inv, SequentialInv, NEW r \in Reqs, Reqs = {r}, Intents \subseteq {"user"},
           Step(r)
    PROVE  SequentialInv'
<1>q. req[r] \in Request /\ RequestSound(req[r]) /\ ReadsCurrent(req[r])
  BY DEF Inv, TypeOK, SequentialInv
<1>s. SinglePrimarySite /\ primary \subseteq rows /\ rows \subseteq Keys
  BY DEF Inv, TypeOK, TableSound, SequentialInv
<1>f. \A S : /\ Found(S) \in {"none", "some"}
             /\ (Found(S) = "some") <=> (S # {})
  BY DEF Found
<1>i. ReadsCurrent(Idle)
  BY DEF ReadsCurrent, Idle
<1>1. CASE AddRole(r)
  <2>1. PICK i \in Intents, k \in Keys :
          Become(r, [[Idle EXCEPT !.op = "addRole", !.pc = "create",
                                  !.client = ClientOf[k[1]], !.intent = i, !.key = k]
                      EXCEPT !.found = Found(primary \cap AtPlace(k[1]))])
    BY <1>1 DEF AddRole
  <2> DEFINE q == [[Idle EXCEPT !.op = "addRole", !.pc = "create",
                                  !.client = ClientOf[k[1]], !.intent = i, !.key = k]
                      EXCEPT !.found = Found(primary \cap AtPlace(k[1]))]
  <2>2. q.pc = "create" /\ q.key = k /\ q.found = Found(primary \cap AtPlace(k[1]))
    BY DEF Idle
  <2> HIDE DEF q
  <2>3. ReadsCurrent(q)
    BY <2>2, <1>f DEF ReadsCurrent
  <2> QED
    BY <1>1, <2>1, <2>3, ReadAlone DEF AddRole, q
<1>2. CASE AddRoleCreate(r)
  <2>1. CASE UNCHANGED table
    BY <1>2, <2>1, <1>i, ReadAlone DEF AddRoleCreate, Return
  <2>2. CASE primary' = IF req[r].found = "some" THEN primary \cup {req[r].key} ELSE primary
    <3>1. req[r].found = "some" => \E j \in primary : j[1] = req[r].key[1]
      BY <1>2, <1>q DEF AddRoleCreate, ReadsCurrent, AtPlace, At
    <3>2. SinglePrimarySite'
      BY <2>2, <3>1, <1>s DEF SinglePrimarySite
    <3> QED
      BY <1>2, <3>2, WriteAlone DEF AddRoleCreate, Return
  <2> QED
    BY <1>2, <2>1, <2>2 DEF AddRoleCreate
<1>3. ASSUME NEW k, NEW S, ReadPrimary(r, k, S), UNCHANGED table
      PROVE  SequentialInv'
  <2>1. PICK p \in PrimaryPlaces :
          Become(r, [Idle EXCEPT !.op = "upsert", !.pc = "upsert", !.key = k,
                                 !.place = p, !.set = S])
    BY <1>3 DEF ReadPrimary
  <2> DEFINE q == [Idle EXCEPT !.op = "upsert", !.pc = "upsert", !.key = k,
                               !.place = p, !.set = S]
  <2>2. q.pc = "upsert" /\ q.place = p
    BY DEF Idle
  <2> HIDE DEF q
  <2>3. ReadsCurrent(q)
    BY <2>1, <2>2 DEF ReadsCurrent
  <2> QED
    BY <1>3, <2>1, <2>3, ReadAlone DEF q
<1>4. CASE UserAddRole(r) \/ Accept(r)
  BY <1>3, <1>4 DEF UserAddRole, Accept
<1>5. CASE Upsert(r)
  <2>1. req[r].place \in PrimaryPlaces
    BY <1>5, <1>q DEF Upsert, ReadsCurrent, At
  <2>2. \/ req[r].place = None /\ primary = {}
        \/ req[r].place # None /\ \E j \in primary : j[1] = req[r].place
    BY <2>1, <1>s, ClientAccessAssumption DEF PrimaryPlaces, Keys
  <2>3. SinglePrimarySite'
    BY <1>5, <2>2, <1>s DEF Upsert, SinglePrimarySite
  <2> QED
    BY <1>5, <2>3, WriteAlone DEF Upsert, Return
<1>6. CASE SyncUser(r)
  <2>1. PICK S : Become(r, [Idle EXCEPT !.op = "sync", !.pc = "sync", !.set = S,
                                        !.found = Found(rows)])
    BY <1>6 DEF SyncUser
  <2> DEFINE q == [Idle EXCEPT !.op = "sync", !.pc = "sync", !.set = S,
                               !.found = Found(rows)]
  <2>2. q.pc = "sync" /\ q.found = Found(rows)
    BY DEF Idle
  <2> HIDE DEF q
  <2>3. ReadsCurrent(q)
    BY <2>2, <1>f DEF ReadsCurrent
  <2> QED
    BY <1>6, <2>1, <2>3, ReadAlone DEF SyncUser, q
<1>7. CASE SyncUpsert(r)
  <2>1. /\ req[r].found = "none" => primary = {}
        /\ \A j, k \in req[r].set : j[1] = k[1]
    BY <1>7, <1>q, <1>s DEF SyncUpsert, ReadsCurrent, RequestSound, At
  <2>2. SinglePrimarySite'
    BY <1>7, <2>1, <1>s DEF SyncUpsert, SinglePrimarySite
  <2> QED
    BY <1>7, <2>2, WriteAlone DEF SyncUpsert, Return
<1>8. ASSUME NEW p \in Request, FindRow(r, p), UNCHANGED table,
             p.pc \in {"count", "delete"}, p.op # "remove"
      PROVE  SequentialInv'
  <2> DEFINE q == [p EXCEPT !.found = Found(primary \cap {p.key}), !.set = {p.key}]
  <2>1. /\ q.pc = p.pc /\ q.op = p.op /\ q.key = p.key
        /\ q.found = Found(primary \cap {p.key})
    BY DEF Request
  <2>2. Become(r, q)
    BY <1>8 DEF FindRow
  <2> HIDE DEF q
  <2>3. ReadsCurrent(q)
    BY <2>1, <1>8, <1>f DEF ReadsCurrent
  <2> QED
    BY <1>8, <2>2, <2>3, ReadAlone
<1>9. CASE RemoveRole(r)
  <2>1. PICK i \in Intents, k \in Keys :
          FindRow(r, [Idle EXCEPT !.op = "removeRole", !.pc = "count", !.intent = i,
                                  !.client = ClientOf[k[1]], !.key = k])
    BY <1>9 DEF RemoveRole
  <2> DEFINE p == [Idle EXCEPT !.op = "removeRole", !.pc = "count", !.intent = i,
                               !.client = ClientOf[k[1]], !.key = k]
  <2>2. p \in Request /\ p.op = "removeRole" /\ p.pc = "count"
    BY ClientAccessAssumption DEF Idle, Request, Ops, PCs, Keys
  <2> HIDE DEF p
  <2> QED
    BY <1>8, <1>9, <2>1, <2>2 DEF RemoveRole, p
<1>10. CASE UserRemoveRole(r)
  <2>1. PICK k \in Keys :
          FindRow(r, [Idle EXCEPT !.op = "userRemoveRole", !.pc = "delete", !.key = k])
    BY <1>10 DEF UserRemoveRole
  <2> DEFINE p == [Idle EXCEPT !.op = "userRemoveRole", !.pc = "delete", !.key = k]
  <2>2. p \in Request /\ p.op = "userRemoveRole" /\ p.pc = "delete"
    BY DEF Idle, Request, Ops, PCs
  <2> HIDE DEF p
  <2> QED
    BY <1>8, <1>10, <2>1, <2>2 DEF UserRemoveRole, p
<1>11. ASSUME NEW l, Goto(r, l), UNCHANGED table,
              \/ l = "delete" /\ req[r].pc = "count" /\ req[r].op # "remove"
              \/ l = "remaining" /\ req[r].pc = "delete" /\ req[r].op # "remove"
                 /\ req[r].found = "some"
              \/ l = "oldest" /\ primary \subseteq req[r].set
       PROVE  SequentialInv'
  <2> DEFINE q == [req[r] EXCEPT !.pc = l]
  <2>1. /\ q.pc = l /\ q.op = req[r].op /\ q.key = req[r].key
        /\ q.found = req[r].found /\ q.set = req[r].set
    BY <1>q DEF Request
  <2>2. Become(r, q)
    BY <1>11 DEF Goto
  <2> HIDE DEF q
  <2>3. ReadsCurrent(q)
    BY <2>1, <1>11, <1>q DEF ReadsCurrent
  <2> QED
    BY <1>11, <2>2, <2>3, ReadAlone
<1>12. CASE RemoveRoleCount(r)
  <2>1. req[r].pc = "count" /\ req[r].op # "remove"
    BY <1>12, <1>q DEF RemoveRoleCount, RequestSound, At
  <2> QED
    BY <1>12, <2>1, <1>11, <1>i, ReadAlone DEF RemoveRoleCount, Return
<1>13. CASE DeleteRow(r)
  BY <1>13, <1>11, <1>s, RemovalAlone DEF DeleteRow, At
<1>14. CASE RemainingPrimary(r)
  <2>1. req[r].pc = "remaining" /\ req[r].key \in primary /\ req[r].set = {req[r].key}
    BY <1>14, <1>q DEF RemainingPrimary, ReadsCurrent, RequestSound, At
  <2>2. \A j \in primary : j[1] = req[r].key[1]
    BY <2>1, <1>s DEF SinglePrimarySite
  <2>3. primary \subseteq Visible(req[r])
    BY <2>1, <2>2, <1>q, <1>s, ClientAccessAssumption
       DEF Visible, RequestSound, Request, OfClient, Keys
  <2>4. CASE CommitRemoval(r, {})
    BY <2>4, <1>s, RemovalAlone
  <2>5. CASE /\ (primary \cap Visible(req[r])) \ req[r].set = {}
             /\ Goto(r, "oldest") /\ UNCHANGED table
    BY <2>3, <2>5, <1>11
  <2> QED
    BY <1>14, <2>4, <2>5 DEF RemainingPrimary
<1>15. CASE Remove(r)
  <2> DEFINE P(i, c) == [Idle EXCEPT !.op = "remove", !.pc = "delete", !.client = c,
                                     !.intent = i]
  <2>1. PICK i \in Intents, c \in Clients :
          Become(r, [P(i, c) EXCEPT !.found = Found(primary \cap Visible(P(i, c)))])
    BY <1>15 DEF Remove
  <2> DEFINE p == P(i, c)
             q == [p EXCEPT !.found = Found(primary \cap Visible(p))]
  <2>2. /\ p \in Request /\ p.op = "remove" /\ p.pc = "delete"
    BY ClientAccessAssumption DEF Idle, Request, Ops, PCs
  <2>3. Become(r, q)
    BY <2>1
  <2> HIDE DEF p
  <2>4. /\ q.op = "remove" /\ q.pc = "delete" /\ q.client = p.client
        /\ q.intent = p.intent /\ q.found = Found(primary \cap Visible(p))
    BY <2>2 DEF Request
  <2> HIDE DEF q
  <2>5. Visible(q) = Visible(p)
    BY <2>4 DEF Visible
  <2>6. ReadsCurrent(q)
    BY <2>4, <2>5, <1>f DEF ReadsCurrent
  <2> QED
    BY <1>15, <2>3, <2>6, ReadAlone DEF Remove
<1>16. CASE RemoveDelete(r)
  <2> DEFINE S == rows \cap OfClient(req[r].client)
  <2>1. CASE primary' = primary \ S /\ Return(r)
    <3>1. SinglePrimarySite'
      BY <2>1, <1>s DEF SinglePrimarySite
    <3> QED
      BY <2>1, <3>1, WriteAlone DEF Return
  <2>2. CASE /\ req[r].found = "some"
             /\ Become(r, [req[r] EXCEPT !.pc = "oldest", !.set = S])
             /\ UNCHANGED table
    <3> DEFINE q == [req[r] EXCEPT !.pc = "oldest", !.set = S]
    <3>1. q.pc = "oldest" /\ q.set = S
      BY <1>q DEF Request
    <3>2. req[r].intent = "user" /\ req[r].pc = "delete" /\ req[r].op = "remove"
      BY <1>16, <1>q DEF RemoveDelete, RequestSound, At
    <3>3. PICK j \in primary : j \in OfClient(req[r].client)
      BY <2>2, <3>2, <1>q DEF ReadsCurrent, Visible
    <3>4. primary \subseteq S
      BY <3>3, <1>s DEF SinglePrimarySite, OfClient
    <3> HIDE DEF q, S
    <3>5. ReadsCurrent(q)
      BY <3>1, <3>4 DEF ReadsCurrent
    <3> QED
      BY <2>2, <3>5, ReadAlone DEF q
  <2> QED
    BY <1>16, <2>1, <2>2 DEF RemoveDelete
<1>17. CASE OldestRemaining(r)
  <2>1. CASE CommitRemoval(r, {})
    BY <2>1, <1>s, RemovalAlone
  <2>2. ASSUME NEW k, Become(r, [req[r] EXCEPT !.pc = "promote", !.place = k[1]]),
               UNCHANGED table
        PROVE  SequentialInv'
    <3> DEFINE q == [req[r] EXCEPT !.pc = "promote", !.place = k[1]]
    <3>1. q.pc = "promote" /\ q.set = req[r].set
      BY <1>q DEF Request
    <3>2. primary \subseteq req[r].set
      BY <1>17, <1>q DEF OldestRemaining, ReadsCurrent, At
    <3> HIDE DEF q
    <3>3. ReadsCurrent(q)
      BY <3>1, <3>2 DEF ReadsCurrent
    <3> QED
      BY <2>2, <3>3, ReadAlone DEF q
  <2> QED
    BY <1>17, <2>1, <2>2 DEF OldestRemaining
<1>18. CASE Promote(r)
  <2>1. /\ primary \subseteq req[r].set
        /\ \A j, k \in AtPlace(req[r].place) : j[1] = k[1]
    BY <1>18, <1>q DEF Promote, ReadsCurrent, At, AtPlace
  <2> QED
    BY <1>18, <2>1, <1>s, RemovalAlone DEF Promote
<1>19. CASE Fail(r)
  BY <1>19, <1>i, ReadAlone DEF Fail, Return
<1> QED
  BY <1>1, <1>2, <1>4, <1>5, <1>6, <1>7, <1>9, <1>10, <1>12, <1>13, <1>14, <1>15,
     <1>16, <1>17, <1>18, <1>19 DEF Step

(* One request at a time, without the intent 'system': SequentialInv is   *)
(* an invariant.                                                           *)
LEMMA SequentialSafety ==
    ASSUME NEW r, Reqs = {r}, Intents \subseteq {"user"}
    PROVE  Spec => []SequentialInv
<1>1. Init => SequentialInv
  BY DEF Init, SequentialInv, SinglePrimarySite, ReadsCurrent, Idle
<1>2. Inv /\ SequentialInv /\ [Next]_vars => SequentialInv'
  <2>1. ASSUME Inv, SequentialInv, Next PROVE SequentialInv'
    BY <2>1, StepAlone DEF Next
  <2>2. ASSUME SequentialInv, UNCHANGED vars PROVE SequentialInv'
    BY <2>2 DEF vars, SequentialInv, SinglePrimarySite, ReadsCurrent, Visible,
                PrimaryPlaces
  <2> QED
    BY <2>1, <2>2
<1> QED
  BY <1>1, <1>2, AccessSafety, PTL DEF Spec

(* A person has one primary site, as long as requests about the person are *)
(* served one at a time and none of them bypasses row level security:      *)
(* whatever the sequence of handlers, failures included.                   *)
THEOREM OnePrimarySite ==
    ASSUME NEW r, Reqs = {r}, Intents \subseteq {"user"}
    PROVE  Spec => []SinglePrimarySite
<1>1. SequentialInv => SinglePrimarySite
  BY DEF SequentialInv
<1> QED
  BY <1>1, SequentialSafety, PTL

-----------------------------------------------------------------------------

(* Where there is more than one row, there is another than any given one.  *)
LEMMA AnotherRow ==
    ASSUME NEW S, NEW x, Cardinality(S) > 1
    PROVE  \E k \in S : k # x
<1>1. CASE S = {}
  BY <1>1, FS_EmptySet
<1>2. CASE S = {x}
  BY <1>2, FS_Singleton
<1> QED
  BY <1>1, <1>2

(* With one slot, a step leaves what a removal needs when it ends its      *)
(* request, or only reads and has found it so.                             *)
LEMMA LeavesAlone ==
    ASSUME Inv, NEW r \in Reqs, Reqs = {r}, NEW q, Become(r, q),
           q = Idle \/ (UNCHANGED table /\ LeavesRows(q))
    PROVE  RemovalsInv'
<1>1. req'[r] = q
  BY DEF Inv, TypeOK, Become
<1> QED
  BY <1>1 DEF RemovalsInv, LeavesRows, table, Idle

(* Every step keeps what the removals need.                                *)
LEMMA StepLeaves ==
    ASSUME Inv, RemovalsInv, NEW r \in Reqs, Reqs = {r}, Step(r)
    PROVE  RemovalsInv'
<1>q. req[r] \in Request /\ RequestSound(req[r]) /\ LeavesRows(req[r])
  BY DEF Inv, TypeOK, RemovalsInv
<1>f. \A S : (Found(S) = "none") <=> (S = {})
  BY DEF Found
<1>e. ASSUME Return(r) PROVE RemovalsInv'
  BY <1>e, LeavesAlone DEF Return
<1>c. ASSUME NEW S, CommitRemoval(r, S) PROVE RemovalsInv'
  BY <1>c, <1>e DEF CommitRemoval
<1>1. CASE AddRole(r)
  <2>1. PICK i \in Intents, k \in Keys :
          Become(r, [[Idle EXCEPT !.op = "addRole", !.pc = "create",
                                  !.client = ClientOf[k[1]], !.intent = i, !.key = k]
                      EXCEPT !.found = Found(primary \cap AtPlace(k[1]))])
    BY <1>1 DEF AddRole
  <2> DEFINE q == [[Idle EXCEPT !.op = "addRole", !.pc = "create",
                                  !.client = ClientOf[k[1]], !.intent = i, !.key = k]
                      EXCEPT !.found = Found(primary \cap AtPlace(k[1]))]
  <2>2. q.pc = "create" /\ q.op = "addRole"
    BY DEF Idle
  <2> HIDE DEF q
  <2>3. LeavesRows(q)
    BY <2>2 DEF LeavesRows
  <2> QED
    BY <1>1, <2>1, <2>3, LeavesAlone DEF AddRole, q
<1>2. ASSUME NEW k, NEW S, ReadPrimary(r, k, S), UNCHANGED table
      PROVE  RemovalsInv'
  <2>1. PICK p \in PrimaryPlaces :
          Become(r, [Idle EXCEPT !.op = "upsert", !.pc = "upsert", !.key = k,
                                 !.place = p, !.set = S])
    BY <1>2 DEF ReadPrimary
  <2> DEFINE q == [Idle EXCEPT !.op = "upsert", !.pc = "upsert", !.key = k,
                               !.place = p, !.set = S]
  <2>2. q.pc = "upsert" /\ q.op = "upsert"
    BY DEF Idle
  <2> HIDE DEF q
  <2>3. LeavesRows(q)
    BY <2>2 DEF LeavesRows
  <2> QED
    BY <1>2, <2>1, <2>3, LeavesAlone DEF q
<1>3. CASE UserAddRole(r) \/ Accept(r)
  BY <1>2, <1>3 DEF UserAddRole, Accept
<1>4. CASE SyncUser(r)
  <2>1. PICK S : Become(r, [Idle EXCEPT !.op = "sync", !.pc = "sync", !.set = S,
                                        !.found = Found(rows)])
    BY <1>4 DEF SyncUser
  <2> DEFINE q == [Idle EXCEPT !.op = "sync", !.pc = "sync", !.set = S,
                               !.found = Found(rows)]
  <2>2. q.pc = "sync" /\ q.op = "sync"
    BY DEF Idle
  <2> HIDE DEF q
  <2>3. LeavesRows(q)
    BY <2>2 DEF LeavesRows
  <2> QED
    BY <1>4, <2>1, <2>3, LeavesAlone DEF SyncUser, q
<1>5. ASSUME NEW p \in Request, FindRow(r, p), UNCHANGED table,
             p.pc = "count" \/ (p.pc = "delete" /\ p.op = "userRemoveRole")
      PROVE  RemovalsInv'
  <2> DEFINE q == [p EXCEPT !.found = Found(primary \cap {p.key}), !.set = {p.key}]
  <2>1. /\ q.pc = p.pc /\ q.op = p.op /\ q.key = p.key
        /\ q.found = Found(primary \cap {p.key})
    BY DEF Request
  <2>2. Become(r, q)
    BY <1>5 DEF FindRow
  <2> HIDE DEF q
  <2>3. LeavesRows(q)
    BY <2>1, <1>5, <1>f DEF LeavesRows
  <2> QED
    BY <1>5, <2>2, <2>3, LeavesAlone
<1>6. CASE RemoveRole(r)
  <2>1. PICK i \in Intents, k \in Keys :
          FindRow(r, [Idle EXCEPT !.op = "removeRole", !.pc = "count", !.intent = i,
                                  !.client = ClientOf[k[1]], !.key = k])
    BY <1>6 DEF RemoveRole
  <2> DEFINE p == [Idle EXCEPT !.op = "removeRole", !.pc = "count", !.intent = i,
                               !.client = ClientOf[k[1]], !.key = k]
  <2>2. p \in Request /\ p.pc = "count"
    BY ClientAccessAssumption DEF Idle, Request, Ops, PCs, Keys
  <2> HIDE DEF p
  <2> QED
    BY <1>5, <1>6, <2>1, <2>2 DEF RemoveRole, p
<1>7. CASE UserRemoveRole(r)
  <2>1. PICK k \in Keys :
          FindRow(r, [Idle EXCEPT !.op = "userRemoveRole", !.pc = "delete", !.key = k])
    BY <1>7 DEF UserRemoveRole
  <2> DEFINE p == [Idle EXCEPT !.op = "userRemoveRole", !.pc = "delete", !.key = k]
  <2>2. p \in Request /\ p.op = "userRemoveRole" /\ p.pc = "delete"
    BY DEF Idle, Request, Ops, PCs
  <2> HIDE DEF p
  <2> QED
    BY <1>5, <1>7, <2>1, <2>2 DEF UserRemoveRole, p
<1>8. ASSUME NEW l, Goto(r, l), UNCHANGED table,
             \/ /\ l = "delete" /\ req[r].pc = "count"
                /\ \E k \in rows \cap OfClient(req[r].client) : k # req[r].key
             \/ l = "remaining" /\ req[r].pc = "delete"
             \/ l = "oldest" /\ req[r].pc = "remaining"
      PROVE  RemovalsInv'
  <2> DEFINE q == [req[r] EXCEPT !.pc = l]
  <2>1. /\ q.pc = l /\ q.op = req[r].op /\ q.key = req[r].key
        /\ q.found = req[r].found /\ q.set = req[r].set /\ q.client = req[r].client
    BY <1>q DEF Request
  <2>2. Become(r, q)
    BY <1>8 DEF Goto
  <2> HIDE DEF q
  <2>3. LeavesRows(q)
    BY <2>1, <1>8, <1>q DEF LeavesRows
  <2> QED
    BY <1>8, <2>2, <2>3, LeavesAlone
<1>9. CASE RemoveRoleCount(r)
  <2>1. Cardinality(rows \cap OfClient(req[r].client)) > 1 =>
          \E k \in rows \cap OfClient(req[r].client) : k # req[r].key
    BY AnotherRow
  <2> QED
    BY <1>9, <2>1, <1>8, <1>e DEF RemoveRoleCount, At
<1>10. CASE DeleteRow(r)
  BY <1>10, <1>8, <1>c DEF DeleteRow, At
<1>11. CASE RemainingPrimary(r)
  BY <1>11, <1>8, <1>c DEF RemainingPrimary, At
<1>12. CASE Remove(r)
  <2> DEFINE P(i, c) == [Idle EXCEPT !.op = "remove", !.pc = "delete", !.client = c,
                                     !.intent = i]
  <2>1. PICK i \in Intents, c \in Clients :
          Become(r, [P(i, c) EXCEPT !.found = Found(primary \cap Visible(P(i, c)))])
    BY <1>12 DEF Remove
  <2> DEFINE q == [P(i, c) EXCEPT !.found = Found(primary \cap Visible(P(i, c)))]
  <2>2. q.op = "remove" /\ q.pc = "delete"
    BY DEF Idle
  <2>3. Become(r, q)
    BY <2>1
  <2> HIDE DEF q
  <2>4. LeavesRows(q)
    BY <2>2 DEF LeavesRows
  <2> QED
    BY <1>12, <2>3, <2>4, LeavesAlone DEF Remove
<1>13. CASE RemoveDelete(r)
  <2> DEFINE q == [req[r] EXCEPT !.pc = "oldest", !.set = rows \cap OfClient(req[r].client)]
  <2>1. CASE Return(r)
    BY <2>1, <1>e
  <2>2. CASE Become(r, q) /\ UNCHANGED table
    <3>1. q.pc = "oldest" /\ q.op = "remove"
      BY <1>13, <1>q DEF Request, RemoveDelete
    <3> HIDE DEF q
    <3>2. LeavesRows(q)
      BY <3>1 DEF LeavesRows
    <3> QED
      BY <2>2, <3>2, LeavesAlone
  <2> QED
    BY <1>13, <2>1, <2>2 DEF RemoveDelete
<1>14. CASE OldestRemaining(r)
  <2>1. ASSUME NEW k \in Oldest(Visible(req[r]) \ req[r].set), UNCHANGED table,
               Become(r, [req[r] EXCEPT !.pc = "promote", !.place = k[1]])
        PROVE  RemovalsInv'
    <3> DEFINE q == [req[r] EXCEPT !.pc = "promote", !.place = k[1]]
    <3>1. /\ q.pc = "promote" /\ q.set = req[r].set /\ q.place = k[1]
          /\ q.op = req[r].op /\ q.client = req[r].client /\ q.key = req[r].key
      BY <1>q DEF Request
    <3>2. k \in rows \ req[r].set
      BY <2>1 DEF Oldest, Visible
    <3>3. req[r].pc = "oldest"
      BY <1>14 DEF OldestRemaining, At
    <3> HIDE DEF q
    <3>4. LeavesRows(q)
      BY <3>1, <3>2, <3>3, <1>q DEF LeavesRows
    <3> QED
      BY <2>1, <3>4, LeavesAlone DEF q
  <2> QED
    BY <1>14, <2>1, <1>c DEF OldestRemaining
<1>15. CASE Promote(r)
  BY <1>15, <1>c DEF Promote
<1>16. CASE AddRoleCreate(r) \/ Upsert(r) \/ SyncUpsert(r) \/ Fail(r)
  BY <1>16, <1>e DEF AddRoleCreate, Upsert, SyncUpsert, Fail
<1> QED
  BY <1>1, <1>3, <1>4, <1>6, <1>7, <1>9, <1>10, <1>11, <1>12, <1>13, <1>14, <1>15,
     <1>16 DEF Step

(* MembersService.removeRole deletes one row, and the client has another.  *)
LEMMA StepKeepsRole ==
    ASSUME Inv, RemovalsInv, NEW r \in Reqs, Step(r),
           req[r].op = "removeRole", rows' # rows
    PROVE  rows' \cap OfClient(req[r].client) # {}
<1>q. req[r] \in Request /\ RequestSound(req[r]) /\ LeavesRows(req[r])
  BY DEF Inv, TypeOK, RemovalsInv
<1>1. req[r].set = {req[r].key}
      /\ req[r].pc \in {"count", "delete", "remaining", "oldest", "promote"}
  BY <1>q DEF RequestSound, Idle, Request, PCs
<1>2. ASSUME NEW S, CommitRemoval(r, S),
             req[r].pc \in {"delete", "remaining", "oldest", "promote"}
      PROVE  rows' \cap OfClient(req[r].client) # {}
  <2>1. PICK k \in rows \cap OfClient(req[r].client) : k # req[r].key
    BY <1>2, <1>q DEF LeavesRows
  <2>2. rows' = rows \ {req[r].key}
    BY <1>1, <1>2 DEF CommitRemoval, table
  <2> QED
    BY <2>1, <2>2
<1>3. CASE DeleteRow(r) \/ RemainingPrimary(r) \/ OldestRemaining(r) \/ Promote(r)
  BY <1>2, <1>3 DEF DeleteRow, RemainingPrimary, OldestRemaining, Promote, At, table
<1>4. CASE RemoveRoleCount(r) \/ Fail(r)
  BY <1>4 DEF RemoveRoleCount, Fail, table
<1> QED
  BY <1>1, <1>3, <1>4 DEF Step, AddRole, AddRoleCreate, UserAddRole, Accept, Upsert,
     SyncUser, SyncUpsert, RemoveRole, UserRemoveRole, Remove, RemoveDelete, At

(* Only remove and the upserts leave a person who has access, and had a    *)
(* primary row, without one.                                               *)
LEMMA StepKeepsPrimary ==
    ASSUME Inv, SequentialInv, RemovalsInv, NEW r \in Reqs, Intents \subseteq {"user"},
           Step(r), primary # {}, rows' # {}, primary' = {}
    PROVE  req[r].op \in {"remove", "upsert"}
<1> SUFFICES ASSUME req[r].op \notin {"remove", "upsert"} PROVE FALSE
  OBVIOUS
<1>q. /\ req[r] \in Request /\ RequestSound(req[r]) /\ LeavesRows(req[r])
      /\ ReadsCurrent(req[r]) /\ rows \subseteq Keys
  BY DEF Inv, TypeOK, RemovalsInv, SequentialInv
<1>1. CASE UNCHANGED table
  BY <1>1 DEF table
<1>2. CASE AddRoleCreate(r) \/ SyncUpsert(r)
  BY <1>2 DEF AddRoleCreate, SyncUpsert, table
<1>3. CASE Upsert(r) \/ RemoveDelete(r)
  BY <1>3, <1>q DEF Upsert, RemoveDelete, RequestSound, At
<1>4. ASSUME NEW S, CommitRemoval(r, S),
             req[r].pc \in {"delete", "remaining", "oldest", "promote"}
      PROVE  /\ req[r].set = {req[r].key}
             /\ rows' = rows \ {req[r].key}
             /\ primary' = (primary \cup (rows \cap S)) \ {req[r].key}
  <2>1. req[r].set = {req[r].key}
    BY <1>4, <1>q DEF RequestSound
  <2> QED
    BY <1>4, <2>1 DEF CommitRemoval, table
<1>5. CASE DeleteRow(r)
  <2>1. req[r].found = "none" /\ CommitRemoval(r, {}) /\ req[r].pc = "delete"
    BY <1>1, <1>5 DEF DeleteRow, At
  <2>2. req[r].key \notin primary
    BY <2>1, <1>q DEF LeavesRows
  <2> QED
    BY <2>1, <2>2, <1>4
<1>6. CASE RemainingPrimary(r)
  BY <1>1, <1>4, <1>6 DEF RemainingPrimary, At
<1>7. CASE OldestRemaining(r)
  <2>1. /\ Visible(req[r]) \ req[r].set = {}
        /\ CommitRemoval(r, {}) /\ req[r].pc = "oldest"
    BY <1>1, <1>7 DEF OldestRemaining, At
  <2>2. req[r].op \in {"removeRole", "userRemoveRole"}
    BY <2>1, <1>q DEF RequestSound
  <2>3. CASE req[r].op = "removeRole"
    <3>1. req[r].intent = "user"
      BY <2>3, <1>q DEF RequestSound
    <3> QED
      BY <2>1, <2>3, <3>1, <1>4, <1>q DEF LeavesRows, Visible
  <2>4. CASE req[r].op = "userRemoveRole"
    <3>1. req[r].intent = "system"
      BY <2>4, <1>q DEF RequestSound, Request
    <3> QED
      BY <2>1, <3>1, <1>4 DEF Visible
  <2> QED
    BY <2>2, <2>3, <2>4
<1>8. CASE Promote(r)
  <2>1. PICK k \in rows \ req[r].set : k[1] = req[r].place
    BY <1>8, <1>q DEF Promote, LeavesRows, At
  <2>2. k \in AtPlace(req[r].place)
    BY <2>1, <1>q DEF AtPlace
  <2> QED
    BY <1>4, <1>8, <2>1, <2>2 DEF Promote, At
<1> QED
  BY <1>1, <1>2, <1>3, <1>5, <1>6, <1>7, <1>8
     DEF Step, AddRole, UserAddRole, Accept, SyncUser, RemoveRole, UserRemoveRole,
         RemoveRoleCount, Remove, Fail

(* With requests about a person served one at a time, and none bypassing   *)
(* row level security, removing a role leaves the member a role for the    *)
(* client, and the person a primary row: the counts, the promotions and    *)
(* the failures in between included.                                       *)
THEOREM RemovalsStayKept ==
    ASSUME NEW slot, Reqs = {slot}, Intents \subseteq {"user"}
    PROVE  Spec => RemovalsKeep
<1>1. Init => RemovalsInv
  BY DEF Init, RemovalsInv, LeavesRows, Idle
<1>2. Inv /\ RemovalsInv /\ [Next]_vars => RemovalsInv'
  <2>1. ASSUME Inv, RemovalsInv, Next PROVE RemovalsInv'
    BY <2>1, StepLeaves DEF Next
  <2>2. ASSUME RemovalsInv, UNCHANGED vars PROVE RemovalsInv'
    BY <2>2 DEF vars, RemovalsInv, LeavesRows
  <2> QED
    BY <2>1, <2>2
<1>3. Inv /\ RemovalsInv /\ [Next]_vars =>
        [\A r \in Reqs : req[r].op = "removeRole" /\ rows' # rows /\ req'[r] # req[r] =>
           rows' \cap OfClient(req[r].client) # {}]_vars
  BY StepKeepsRole, OneSlot DEF Next
<1>4. Inv /\ SequentialInv /\ RemovalsInv /\ [Next]_vars =>
        [primary # {} /\ rows' # {} /\ primary' = {} =>
           \E r \in Reqs : req[r].op \in {"remove", "upsert"}]_vars
  BY StepKeepsPrimary DEF Next
<1>5. Spec => []SequentialInv
  BY SequentialSafety
<1>6. Spec => []RemovalsInv
  BY <1>1, <1>2, AccessSafety, PTL DEF Spec
<1>7. Spec => LastRoleKept
  BY <1>3, <1>6, AccessSafety, PTL DEF Spec, LastRoleKept
<1>8. Spec => PrimaryKept
  BY <1>4, <1>5, <1>6, AccessSafety, PTL DEF Spec, PrimaryKept
<1> QED
  BY <1>7, <1>8 DEF RemovalsKeep
=============================================================================
