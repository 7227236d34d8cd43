------------------------ MODULE AdministrationProofs ------------------------
(* Proofs about what an administrator works with, for any number of         *)
(* requests, rows and names: that invitations are accepted once and within  *)
(* their bounds; that a change of group memberships in Keycloak implements  *)
(* what GroupMembership promises, in any order of the answers and with any  *)
(* number of changes by others; that overlapping requests on roles leave    *)
(* them sound; and that the row of a user and the user in Keycloak agree    *)
(* after any updates, webhooks and tokens.                                  *)
EXTENDS InvitationsAlone, KeycloakGroups, Roles, People, TLAPS
-----------------------------------------------------------------------------
(* Invitations.  Inv is an inductive invariant for every set of requests,   *)
(* rows, people and sites, and the safety properties follow from it.  The   *)
(* steps that only read leave the tables alone and move one request: one    *)
(* lemma, ReadStep, serves them all.  The steps that write have a lemma     *)
(* each.  AloneInv is the inductive invariant of requests that come one     *)
(* after another.                                                           *)

(* A request that starts or ends holds nothing that Inv speaks of. *)
LEMMA IdleSound == Idle \in Request /\ RequestSound(Idle)
  BY DEF Idle, Request, PCs, RequestSound, Fresh

(* A step that changes one request only, to a sound one, preserves Inv. *)
LEMMA ReadStep ==
  ASSUME Inv, NEW r \in Reqs, NEW q \in Request, RequestSound(q),
         Become(r, q), UNCHANGED <<now, data, grants>>
  PROVE  Inv'
<1>1. /\ row' = row /\ status' = status /\ acceptedBy' = acceptedBy
      /\ access' = access /\ primary' = primary /\ now' = now
  BY DEF data, grants
<1>2. req' \in [Reqs -> Request]
  BY DEF Inv, TypeOK, Become
<1>3. TypeOK'
  BY <1>1, <1>2 DEF Inv, TypeOK
<1>4. RequestsSound'
  <2>1. SUFFICES ASSUME NEW s \in Reqs PROVE RequestSound(req[s])'
    BY DEF RequestsSound
  <2>2. req'[s] = IF s = r THEN q ELSE req[s]
    BY DEF Inv, TypeOK, Become
  <2>3. RequestSound(req'[s])
    BY <2>2 DEF Inv, RequestsSound
  <2> QED BY <1>1, <2>3 DEF RequestSound, Fresh, Grouped
<1>5. (RowsDefined /\ GroupsUniform /\ AcceptedByInvitee /\ AccessMatchesAccepts
       /\ PrimaryHeld)'
  BY <1>1 DEF Inv, RowsDefined, GroupsUniform, AcceptedByInvitee,
              AccessMatchesAccepts, PrimaryHeld, Fresh, Grouped, Key
<1> QED BY <1>3, <1>4, <1>5 DEF Inv

(* Rows that exist have all their columns. *)
LEMMA ExistingRow ==
  ASSUME Inv, NEW i \in Ids \ Fresh
  PROVE  row[i] \in Row
  BY DEF Inv, RowsDefined, TypeOK, Fresh

(* Pending rows of a group are rows for the email of any of its members. *)
LEMMA SiblingsSound ==
  ASSUME Inv, NEW i \in Ids \ Fresh, Grouped(i)
  PROVE  /\ PendingSiblings(i) \subseteq Ids \ Fresh
         /\ \A j \in PendingSiblings(i) : row[j].email = row[i].email
  BY DEF Inv, GroupsUniform, PendingSiblings, Pending, Fresh

-----------------------------------------------------------------------------
(* The steps that only read.                                               *)

(* The first read of every handler leaves a sound request. *)
LEMMA StartSound ==
  ASSUME Inv, NEW r \in Reqs, CreateBulk(r) \/ Accept(r) \/ Revoke(r) \/ Renew(r)
  PROVE  Inv'
<1>1. CASE CreateBulk(r)
  <2>1. PICK c \in Clients : \E d \in Bodies(c) :
          Become(r, [Idle EXCEPT !.pc = "dedup", !.entries = d])
    BY <1>1 DEF CreateBulk
  <2>2. PICK d \in Bodies(c) : Become(r, [Idle EXCEPT !.pc = "dedup", !.entries = d])
    BY <2>1
  <2> DEFINE q == [Idle EXCEPT !.pc = "dedup", !.entries = d]
  <2>3. q \in Request /\ RequestSound(q)
    BY DEF Bodies, Idle, Request, PCs, RequestSound, Fresh
  <2> HIDE DEF q
  <2> QED BY <1>1, <2>2, <2>3, ReadStep DEF CreateBulk, q
<1>2. CASE Accept(r)
  <2>1. PICK p \in Persons, i \in Ids :
          /\ status[i] = "PENDING"
          /\ EmailOf[p] = row[i].email
          /\ Become(r, [Idle EXCEPT
                          !.pc = IF Grouped(i) THEN "acceptGroup" ELSE "acceptPrimary",
                          !.person = p, !.target = i,
                          !.todo = IF Grouped(i) THEN {} ELSE {i}])
    BY <1>2 DEF Accept
  <2> DEFINE q == [Idle EXCEPT
                     !.pc = IF Grouped(i) THEN "acceptGroup" ELSE "acceptPrimary",
                     !.person = p, !.target = i,
                     !.todo = IF Grouped(i) THEN {} ELSE {i}]
  <2>2. q \in Request /\ RequestSound(q)
    BY <2>1 DEF Idle, Request, PCs, RequestSound, Fresh
  <2> HIDE DEF q
  <2> QED BY <1>2, <2>1, <2>2, ReadStep DEF Accept, q
<1>3. CASE Revoke(r)
  <2>1. PICK i \in Ids : /\ status[i] # "ABSENT"
                         /\ Become(r, [Idle EXCEPT !.pc = "revoke", !.target = i])
    BY <1>3 DEF Revoke
  <2> DEFINE q == [Idle EXCEPT !.pc = "revoke", !.target = i]
  <2>2. q \in Request /\ RequestSound(q)
    BY <2>1 DEF Idle, Request, PCs, RequestSound, Fresh
  <2> HIDE DEF q
  <2> QED BY <1>3, <2>1, <2>2, ReadStep DEF Revoke, q
<1>4. CASE Renew(r)
  <2>1. PICK i \in Pending :
          Become(r, [Idle EXCEPT
                       !.pc = IF Grouped(i) THEN "renewGroup" ELSE "renewRevoke",
                       !.target = i,
                       !.todo = IF Grouped(i) THEN {} ELSE {i}])
    BY <1>4 DEF Renew
  <2> DEFINE q == [Idle EXCEPT
                     !.pc = IF Grouped(i) THEN "renewGroup" ELSE "renewRevoke",
                     !.target = i,
                     !.todo = IF Grouped(i) THEN {} ELSE {i}]
  <2>2. q \in Request /\ RequestSound(q)
    BY DEF Pending, Idle, Request, PCs, RequestSound, Fresh
  <2> HIDE DEF q
  <2> QED BY <1>4, <2>1, <2>2, ReadStep DEF Renew, q
<1> QED BY <1>1, <1>2, <1>3, <1>4

(* A request that ends, by returning or by failing, leaves nothing behind. *)
LEMMA ReturnSound ==
  ASSUME Inv, NEW r \in Reqs, Return(r), UNCHANGED <<now, data, grants>>
  PROVE  Inv'
  BY IdleSound, ReadStep DEF Return

(* The later reads (the group, the primary access, the duplicate check)    *)
(* leave a sound request.                                                  *)
LEMMA CollectSound ==
  ASSUME Inv, NEW r \in Reqs,
         CreateDedup(r) \/ AcceptGroup(r) \/ AcceptPrimary(r) \/ RenewGroup(r)
  PROVE  Inv'
<1>0. req[r] \in Request /\ RequestSound(req[r])
  BY DEF Inv, TypeOK, RequestsSound
<1>1. CASE CreateDedup(r)
  <2>1. CASE Return(r)
    BY <1>1, <2>1, ReturnSound DEF CreateDedup
  <2>2. ASSUME NEW days \in Days,
               Become(r, [req[r] EXCEPT !.pc = "insert", !.expiresOn = now + days])
        PROVE  Inv'
    <3> DEFINE q == [req[r] EXCEPT !.pc = "insert", !.expiresOn = now + days]
    <3>1. now + days \in Nat
      BY InvitationsAssumption DEF Inv, TypeOK
    <3>2. q \in Request /\ RequestSound(q)
      BY <1>0, <3>1 DEF Request, PCs, RequestSound
    <3> HIDE DEF q
    <3> QED BY <1>1, <2>2, <3>2, ReadStep DEF CreateDedup, q
  <2> QED BY <1>1, <2>1, <2>2 DEF CreateDedup
<1>2. CASE AcceptGroup(r)
  <2> DEFINE q == [req[r] EXCEPT !.pc = "acceptPrimary",
                                 !.todo = PendingSiblings(req[r].target)]
  <2>1. /\ req[r].target \in Ids \ Fresh /\ req[r].person \in Persons
        /\ row[req[r].target].email = EmailOf[req[r].person]
    BY <1>0, <1>2 DEF AcceptGroup, At, RequestSound
  <2>2. Grouped(req[r].target)
    BY <1>0, <1>2 DEF AcceptGroup, At, RequestSound
  <2>3. q \in Request /\ RequestSound(q)
    BY <1>0, <2>1, <2>2, SiblingsSound DEF Request, PCs, RequestSound
  <2> HIDE DEF q
  <2> QED BY <1>2, <2>3, ReadStep DEF AcceptGroup, q
<1>3. CASE AcceptPrimary(r)
  <2>0. /\ req[r].target \in Ids \ Fresh /\ req[r].person \in Persons
        /\ \A i \in req[r].todo \cup {req[r].target} :
             row[i].email = EmailOf[req[r].person]
    BY <1>0, <1>3 DEF AcceptPrimary, At, RequestSound
  <2> DEFINE held == primary[req[r].person]
             sites == IF held = {} THEN {None} ELSE {k[1] : k \in held}
  <2>1. PICK site \in sites :
          Become(r, [req[r] EXCEPT !.pc = "acceptCommit", !.existing = site])
    BY <1>3 DEF AcceptPrimary
  <2>2. site \in Sites \cup {None}
    <3>1. held \in SUBSET (Sites \X Roles)
      BY <2>0 DEF Inv, TypeOK
    <3>2. \A k \in Sites \X Roles : k[1] \in Sites
      OBVIOUS
    <3> QED BY <3>1, <3>2
  <2> DEFINE q == [req[r] EXCEPT !.pc = "acceptCommit", !.existing = site]
  <2>3. q \in Request /\ RequestSound(q)
    BY <1>0, <2>0, <2>2 DEF Request, PCs, RequestSound
  <2> HIDE DEF q
  <2> QED BY <1>3, <2>1, <2>3, ReadStep DEF AcceptPrimary, q
<1>4. CASE RenewGroup(r)
  <2> DEFINE todo == PendingSiblings(req[r].target)
             q == [req[r] EXCEPT !.pc = "renewRevoke", !.todo = todo]
  <2>1. CASE Return(r)
    BY <1>4, <2>1, ReturnSound DEF RenewGroup
  <2>2. CASE Become(r, q)
    <3>1. req[r].target \in Ids \ Fresh
      BY <1>0, <1>4 DEF RenewGroup, At, RequestSound
    <3>2. todo \subseteq Ids \ Fresh
      BY DEF PendingSiblings, Pending, Fresh
    <3>3. q \in Request /\ RequestSound(q)
      BY <1>0, <3>1, <3>2 DEF Request, PCs, RequestSound
    <3> HIDE DEF q
    <3> QED BY <1>4, <2>2, <3>3, ReadStep DEF RenewGroup
  <2> QED BY <1>4, <2>1, <2>2 DEF RenewGroup
<1> QED BY <1>1, <1>2, <1>3, <1>4

-----------------------------------------------------------------------------
(* The steps that write.                                                   *)

(* Marking existing rows REVOKED takes nothing away that Inv needs: a row  *)
(* keeps its columns and the record of who accepted it.                    *)
LEMMA RevokedSound ==
  ASSUME Inv, NEW S \in SUBSET (Ids \ Fresh), MarkRevoked(S),
         NEW r \in Reqs, NEW q \in Request, RequestSound(q),
         req' = req \/ Become(r, q), UNCHANGED <<now, grants>>
  PROVE  Inv'
<1>1. /\ row' = row /\ acceptedBy' = acceptedBy /\ access' = access
      /\ primary' = primary /\ now' = now
      /\ status' = [i \in Ids |-> IF i \in S THEN "REVOKED" ELSE status[i]]
  BY DEF MarkRevoked, grants
<1>2. status' \in [Ids -> Status]
  BY <1>1 DEF Inv, TypeOK, Status
<1>3. Fresh' = Fresh
  BY <1>1 DEF Fresh
<1>4. req' \in [Reqs -> Request] /\ \A s \in Reqs : RequestSound(req'[s])
  BY DEF Inv, TypeOK, RequestsSound, Become
<1>5. TypeOK'
  BY <1>1, <1>2, <1>4 DEF Inv, TypeOK
<1>6. RequestsSound'
  BY <1>1, <1>3, <1>4 DEF RequestsSound, RequestSound, Grouped
<1>7. RowsDefined' /\ GroupsUniform'
  BY <1>1, <1>2, <1>3 DEF Inv, RowsDefined, GroupsUniform, Grouped, Fresh
<1>8. AcceptedByInvitee'
  BY <1>1 DEF Inv, AcceptedByInvitee
<1>9. AccessMatchesAccepts' /\ PrimaryHeld'
  BY <1>1 DEF Inv, AccessMatchesAccepts, PrimaryHeld, Key
<1> QED BY <1>5, <1>6, <1>7, <1>8, <1>9 DEF Inv

(* revoke, renew and expireStale only mark rows that exist. *)
LEMMA RevokeStepsSound ==
  ASSUME Inv, NEW r \in Reqs, RevokeWrite(r) \/ RenewRevoke(r) \/ ExpireStale(r)
  PROVE  Inv'
<1>0. req[r] \in Request /\ RequestSound(req[r])
  BY DEF Inv, TypeOK, RequestsSound
<1>1. CASE RevokeWrite(r)
  <2> DEFINE i == req[r].target
             S == IF Grouped(i) THEN PendingSiblings(i) ELSE {i}
  <2>1. i \in Ids \ Fresh
    BY <1>0, <1>1 DEF RevokeWrite, At, RequestSound
  <2>2. S \in SUBSET (Ids \ Fresh)
    BY <2>1 DEF PendingSiblings, Pending, Fresh
  <2>3. MarkRevoked(S) /\ Become(r, Idle) /\ UNCHANGED <<now, grants>>
    BY <1>1 DEF RevokeWrite, Return
  <2> HIDE DEF S
  <2> QED BY <2>2, <2>3, IdleSound, RevokedSound
<1>2. CASE RenewRevoke(r)
  <2> DEFINE S == req[r].todo
             E == {EntryOf(i) : i \in S}
             q == [req[r] EXCEPT !.pc = "dedup", !.entries = E]
  <2>1. S \in SUBSET (Ids \ Fresh)
    BY <1>0 DEF RequestSound
  <2>2. \A i \in S : EntryOf(i) \in Entry
    <3>1. SUFFICES ASSUME NEW i \in S PROVE EntryOf(i) \in Entry
      OBVIOUS
    <3>2. row[i] \in Row
      BY <2>1, ExistingRow
    <3> QED BY <3>2 DEF EntryOf, Entry, Row
  <2>3. E \in SUBSET Entry
    BY <2>2
  <2>4. MarkRevoked(S) /\ Become(r, q) /\ UNCHANGED <<now, grants>>
    BY <1>2 DEF RenewRevoke
  <2> HIDE DEF E
  <2>5. q \in Request /\ RequestSound(q)
    BY <1>0, <2>3 DEF Request, PCs, RequestSound
  <2> HIDE DEF S, q
  <2> QED BY <2>1, <2>4, <2>5, RevokedSound
<1>3. CASE ExpireStale(r)
  <2>1. PICK c \in Clients :
          MarkRevoked({i \in Pending : ClientOf[row[i].site] = c /\ row[i].expiresOn < now})
    BY <1>3 DEF ExpireStale
  <2> DEFINE S == {i \in Pending : ClientOf[row[i].site] = c /\ row[i].expiresOn < now}
  <2>2. S \in SUBSET (Ids \ Fresh)
    BY DEF Pending, Fresh
  <2>3. req' = req /\ UNCHANGED <<now, grants>>
    BY <1>3 DEF ExpireStale
  <2> HIDE DEF S
  <2> QED BY <2>1, <2>2, <2>3, IdleSound, RevokedSound DEF S
<1> QED BY <1>1, <1>2, <1>3

(* createManyAndReturn writes fresh rows whose groups are uniform. *)
LEMMA InsertSound ==
  ASSUME Inv, NEW r \in Reqs, CreateInsert(r)
  PROVE  Inv'
<1> DEFINE d == req[r].entries
           RowFor(f, e) == [email |-> e.email, site |-> e.site, role |-> e.role,
                            group |-> {f[x] : x \in GroupMates(d, e)},
                            expiresOn |-> req[r].expiresOn]
<1>1. PICK f \in Injection(d, Fresh) :
        /\ row' = [i \in Ids |-> IF \E e \in d : f[e] = i
                                 THEN RowFor(f, CHOOSE e \in d : f[e] = i)
                                 ELSE row[i]]
        /\ status' = [i \in Ids |-> IF \E e \in d : f[e] = i
                                    THEN "PENDING" ELSE status[i]]
  BY Zenon DEF CreateInsert
<1>2. /\ acceptedBy' = acceptedBy /\ access' = access /\ primary' = primary
      /\ now' = now /\ Become(r, Idle)
  BY DEF CreateInsert, grants, Return
<1>3. /\ f \in [d -> Fresh]
      /\ \A a, b \in d : f[a] = f[b] => a = b
  BY DEF Injection, IsInjective
<1>4. d \in SUBSET Entry /\ req[r].expiresOn \in Nat
  BY DEF Inv, TypeOK, Request
<1> DEFINE New == {f[e] : e \in d}
<1>5. New \subseteq Fresh /\ Fresh \subseteq Ids
  BY <1>3 DEF Fresh
<1>6. ASSUME NEW e \in d
      PROVE  row'[f[e]] = RowFor(f, e) /\ status'[f[e]] = "PENDING"
  <2>1. f[e] \in Ids
    BY <1>3, <1>5
  <2>2. (CHOOSE x \in d : f[x] = f[e]) = e
    BY <1>3
  <2> QED BY <1>1, <2>1, <2>2
<1>7. ASSUME NEW i \in Ids, i \notin New
      PROVE  row'[i] = row[i] /\ status'[i] = status[i]
  BY <1>1, <1>7
<1>8. ASSUME NEW e \in d
      PROVE  /\ RowFor(f, e) \in Row
             /\ RowFor(f, e).group \subseteq New
  <2>1. GroupMates(d, e) \subseteq d
    BY DEF GroupMates
  <2>2. {f[x] : x \in GroupMates(d, e)} \subseteq New
    BY <2>1
  <2>3. {f[x] : x \in GroupMates(d, e)} \in SUBSET Ids
    BY <2>2, <1>5
  <2>4. e \in Entry
    BY <1>4
  <2> HIDE DEF d, New
  <2> QED BY <1>4, <2>2, <2>3, <2>4 DEF Row, Entry
<1> HIDE DEF RowFor
<1>9. Fresh' = Fresh \ New
  BY <1>5, <1>6, <1>7 DEF Fresh
<1>10. \A i \in Ids \ Fresh : row'[i] = row[i] /\ status'[i] = status[i]
  BY <1>5, <1>7
<1>11. TypeOK'
  <2>1. row' \in [Ids -> Row \cup {None}] /\ status' \in [Ids -> Status]
    <3>1. \A i \in Ids : row'[i] \in Row \cup {None} /\ status'[i] \in Status
      BY <1>6, <1>7, <1>8 DEF Inv, TypeOK, Status
    <3> QED BY <1>1, <3>1
  <2>2. req' \in [Reqs -> Request]
    BY <1>2, IdleSound DEF Become, Inv, TypeOK
  <2> QED BY <1>2, <2>1, <2>2 DEF Inv, TypeOK
<1>12. RowsDefined'
  BY <1>6, <1>7, <1>8 DEF Inv, RowsDefined
<1>13. GroupsUniform'
  <2> SUFFICES ASSUME NEW i \in Ids \ Fresh', NEW j \in Ids \ Fresh'
               PROVE  /\ row'[i].group \subseteq Ids \ Fresh'
                      /\ row'[i].group # {} /\ row'[j].group = row'[i].group =>
                           /\ row'[j].email = row'[i].email
                           /\ row'[j].expiresOn = row'[i].expiresOn
    BY DEF GroupsUniform, Grouped
  <2>1. ASSUME NEW k \in Ids \ Fresh', k \notin New
        PROVE  k \in Ids \ Fresh /\ row'[k] = row[k]
    BY <1>9, <1>7, <2>1
  <2>2. ASSUME NEW k \in Ids \ Fresh', k \notin New
        PROVE  row'[k].group \subseteq Ids \ Fresh
    BY <2>1, <2>2 DEF Inv, GroupsUniform
  <2>3. ASSUME NEW k \in New
        PROVE  \E e \in d : k = f[e] /\ row'[k] = RowFor(f, e) /\ row'[k].group \subseteq New
    BY <1>6, <1>8
  <2>4. row'[i].group \subseteq Ids \ Fresh'
    BY <1>5, <1>9, <2>2, <2>3
  <2>5. ASSUME row'[i].group # {}, row'[j].group = row'[i].group
        PROVE  /\ row'[j].email = row'[i].email
               /\ row'[j].expiresOn = row'[i].expiresOn
    <3>1. CASE i \notin New /\ j \notin New
      <4>1. /\ i \in Ids \ Fresh /\ row'[i] = row[i]
            /\ j \in Ids \ Fresh /\ row'[j] = row[j]
        BY <3>1, <2>1
      <4> QED BY <4>1, <2>5 DEF Inv, GroupsUniform, Grouped
    <3>2. CASE i \in New /\ j \notin New
      BY <3>2, <2>2, <2>3, <2>5, <1>5
    <3>3. CASE i \notin New /\ j \in New
      BY <3>3, <2>2, <2>3, <2>5, <1>5
    <3>4. CASE i \in New /\ j \in New
      <4>1. PICK a \in d : row'[i] = RowFor(f, a)
        BY <3>4, <2>3
      <4>2. PICK b \in d : row'[j] = RowFor(f, b)
        BY <3>4, <2>3
      <4>3. /\ row'[i].email = a.email /\ row'[i].expiresOn = req[r].expiresOn
            /\ row'[i].group = {f[x] : x \in GroupMates(d, a)}
            /\ row'[j].email = b.email /\ row'[j].expiresOn = req[r].expiresOn
            /\ row'[j].group = {f[x] : x \in GroupMates(d, b)}
        BY <4>1, <4>2 DEF RowFor
      <4>4. PICK x \in GroupMates(d, a), y \in GroupMates(d, b) : f[x] = f[y]
        BY <4>3, <2>5
      <4>5. x \in d /\ y \in d /\ x.email = a.email /\ y.email = b.email
        BY <4>4 DEF GroupMates
      <4>6. x = y
        BY <4>4, <4>5, <1>3
      <4> QED BY <4>3, <4>5, <4>6
    <3> QED BY <3>1, <3>2, <3>3, <3>4
  <2> QED BY <2>4, <2>5
<1>14. RequestsSound'
  <2>1. SUFFICES ASSUME NEW s \in Reqs PROVE RequestSound(req[s])'
    BY DEF RequestsSound
  <2>2. req'[s] = IF s = r THEN Idle ELSE req[s]
    BY <1>2 DEF Become, Inv, TypeOK
  <2>3. RequestSound(req'[s])
    BY <2>2, IdleSound DEF Inv, RequestsSound
  <2>4. Ids \ Fresh \subseteq Ids \ Fresh'
    BY <1>9
  <2> HIDE DEF New
  <2>5. CASE s = r
    BY <2>2, <2>5 DEF RequestSound, Idle
  <2>6. CASE s # r
    BY <2>2, <2>3, <2>4, <2>6, <1>10 DEF RequestSound, Grouped
  <2> QED BY <2>5, <2>6
<1>15. AcceptedByInvitee'
  <2>1. \A i \in Ids : acceptedBy[i] # None => i \in Ids \ Fresh
    BY DEF Inv, AcceptedByInvitee, Fresh
  <2>2. \A i \in Ids : status'[i] = "ACCEPTED" => status[i] = "ACCEPTED"
    BY <1>6, <1>7
  <2> QED BY <1>2, <1>10, <2>1, <2>2 DEF Inv, AcceptedByInvitee
<1>16. AccessMatchesAccepts' /\ PrimaryHeld'
  <2>1. \A i \in Ids : acceptedBy[i] # None => row'[i] = row[i]
    BY <1>10 DEF Inv, AcceptedByInvitee, Fresh
  <2> QED BY <1>2, <2>1 DEF Inv, AccessMatchesAccepts, PrimaryHeld, Key
<1> QED BY <1>11, <1>12, <1>13, <1>14, <1>15, <1>16 DEF Inv

(* The commit of accept writes access and acceptances together, for rows   *)
(* that carry the email of the caller.                                     *)
LEMMA CommitSound ==
  ASSUME Inv, NEW r \in Reqs, AcceptCommit(r)
  PROVE  Inv'
<1> DEFINE p == req[r].person
           todo == req[r].todo
           keys == {Key(i) : i \in todo}
<1>1. /\ p \in Persons /\ todo \subseteq Ids \ Fresh
      /\ \A i \in todo : row[i].email = EmailOf[p]
  BY DEF Inv, RequestsSound, RequestSound, AcceptCommit, At
<1>2. /\ access' = [access EXCEPT ![p] = @ \cup keys]
      /\ status' = [i \in Ids |-> IF i \in todo THEN "ACCEPTED" ELSE status[i]]
      /\ acceptedBy' = [i \in Ids |-> IF i \in todo THEN p ELSE acceptedBy[i]]
      /\ Become(r, Idle) /\ now' = now /\ row' = row
  BY DEF AcceptCommit, Marked, Return
<1>3. \A i \in todo : Key(i) \in Sites \X Roles
  <2>1. \A i \in todo : row[i] \in Row
    BY <1>1, ExistingRow
  <2> QED BY <2>1 DEF Key, Row
<1>4. keys \in SUBSET (Sites \X Roles)
  BY <1>3
<1>5. PICK new \in SUBSET keys : primary' = [primary EXCEPT ![p] = (@ \ keys) \cup new]
  <2>1. ASSUME NEW i \in todo PROVE NewPrimary(r, i) \in SUBSET keys
    BY DEF NewPrimary
  <2>2. Anchors(r) \subseteq todo
    BY DEF Anchors
  <2>3. \A new \in {NewPrimary(r, i) : i \in Anchors(r)} : new \in SUBSET keys
    BY <2>1, <2>2
  <2>4. \E new \in IF todo = {} THEN {{}} ELSE {NewPrimary(r, i) : i \in Anchors(r)} :
          primary' = [primary EXCEPT ![p] = (@ \ keys) \cup new]
    BY DEF AcceptCommit
  <2> QED BY <2>3, <2>4
<1> HIDE DEF keys
<1>6. TypeOK'
  <2>1. status' \in [Ids -> Status] /\ acceptedBy' \in [Ids -> Persons \cup {None}]
    BY <1>1, <1>2 DEF Inv, TypeOK, Status
  <2>2. access' \in [Persons -> SUBSET (Sites \X Roles)]
    BY <1>1, <1>2, <1>4 DEF Inv, TypeOK
  <2>3. primary' \in [Persons -> SUBSET (Sites \X Roles)]
    BY <1>1, <1>4, <1>5 DEF Inv, TypeOK
  <2>4. req' \in [Reqs -> Request]
    BY <1>2, IdleSound DEF Become, Inv, TypeOK
  <2> QED BY <1>2, <2>1, <2>2, <2>3, <2>4 DEF Inv, TypeOK
<1>7. Fresh' = Fresh
  BY <1>1, <1>2 DEF Fresh
<1>8. RowsDefined' /\ GroupsUniform'
  <2>1. RowsDefined'
    BY <1>1, <1>2 DEF Inv, RowsDefined, Fresh
  <2>2. GroupsUniform'
    BY <1>2, <1>7 DEF Inv, GroupsUniform, Grouped
  <2> QED BY <2>1, <2>2
<1>9. RequestsSound'
  <2>1. SUFFICES ASSUME NEW s \in Reqs PROVE RequestSound(req[s])'
    BY DEF RequestsSound
  <2>2. req'[s] = IF s = r THEN Idle ELSE req[s]
    BY <1>2 DEF Become, Inv, TypeOK
  <2>3. RequestSound(req'[s])
    BY <2>2, IdleSound DEF Inv, RequestsSound
  <2> QED BY <1>2, <1>7, <2>3 DEF RequestSound, Grouped
<1>10. AcceptedByInvitee'
  <2> SUFFICES ASSUME NEW i \in Ids
               PROVE  /\ status'[i] = "ACCEPTED" => acceptedBy'[i] # None
                      /\ acceptedBy'[i] # None =>
                           status'[i] # "ABSENT" /\ row'[i].email = EmailOf[acceptedBy'[i]]
    BY DEF AcceptedByInvitee
  <2>1. CASE i \in todo
    <3>1. p # None
      BY <1>1, InvitationsAssumption
    <3> QED BY <1>1, <1>2, <2>1, <3>1
  <2>2. CASE i \notin todo
    BY <1>2, <2>2 DEF Inv, AcceptedByInvitee
  <2> QED BY <2>1, <2>2
<1>11. AccessMatchesAccepts'
  <2>1. \A x \in Persons : access'[x] = IF x = p THEN access[x] \cup keys ELSE access[x]
    BY <1>1, <1>2 DEF Inv, TypeOK
  <2>2. ASSUME NEW i \in Ids, acceptedBy'[i] # None
        PROVE  Key(i) \in access'[acceptedBy'[i]]
    <3>1. CASE i \in todo
      <4>1. acceptedBy'[i] = p /\ Key(i) \in keys
        BY <1>2, <3>1 DEF keys
      <4> QED BY <1>1, <2>1, <4>1
    <3>2. CASE i \notin todo
      <4>1. acceptedBy'[i] = acceptedBy[i] /\ acceptedBy[i] \in Persons
        BY <1>2, <2>2, <3>2 DEF Inv, TypeOK
      <4> QED BY <4>1, <2>1, <2>2 DEF Inv, AccessMatchesAccepts
    <3> QED BY <3>1, <3>2
  <2>3. ASSUME NEW x \in Persons, NEW k \in access'[x]
        PROVE  \E i \in Ids : /\ acceptedBy'[i] # None
                              /\ row[i].email = EmailOf[x]
                              /\ Key(i) = k
    <3>1. \A i \in Ids : acceptedBy[i] # None => acceptedBy'[i] # None
      BY <1>1, <1>2, InvitationsAssumption
    <3>2. CASE k \in access[x]
      BY <3>1, <3>2 DEF Inv, AccessMatchesAccepts
    <3>3. CASE k \notin access[x]
      <4>1. x = p /\ k \in keys
        BY <2>1, <2>3, <3>3
      <4>2. PICK i \in todo : Key(i) = k
        BY <4>1 DEF keys
      <4>3. i \in Ids /\ acceptedBy'[i] = p /\ p # None
        BY <1>1, <1>2, InvitationsAssumption
      <4> QED BY <1>1, <4>1, <4>2, <4>3
    <3> QED BY <3>2, <3>3
  <2> QED BY <1>2, <2>2, <2>3 DEF AccessMatchesAccepts, Key
<1>12. PrimaryHeld'
  BY <1>1, <1>2, <1>5 DEF Inv, TypeOK, PrimaryHeld
<1> QED BY <1>6, <1>8, <1>9, <1>10, <1>11, <1>12 DEF Inv

-----------------------------------------------------------------------------
(* The theorems.                                                           *)

(* Empty tables and idle slots satisfy the invariant. *)
LEMMA InitSound == Init => Inv
<1> SUFFICES ASSUME Init PROVE Inv
  OBVIOUS
<1>1. Fresh = Ids
  BY DEF Init, Fresh
<1>2. TypeOK
  BY IdleSound DEF Init, TypeOK, Status
<1>3. RowsDefined /\ GroupsUniform /\ AcceptedByInvitee /\ AccessMatchesAccepts
      /\ PrimaryHeld
  BY <1>1 DEF Init, RowsDefined, GroupsUniform, AcceptedByInvitee,
              AccessMatchesAccepts, PrimaryHeld
<1>4. RequestsSound
  BY IdleSound DEF Init, RequestsSound
<1> QED BY <1>2, <1>3, <1>4 DEF Inv

(* Every step preserves the invariant. *)
LEMMA NextSound == Inv /\ [Next]_vars => Inv'
<1> SUFFICES ASSUME Inv, [Next]_vars PROVE Inv'
  OBVIOUS
<1>1. CASE Tick
  <2>1. now' \in Nat /\ UNCHANGED <<row, status, acceptedBy, access, primary, req>>
    BY <1>1 DEF Tick, data, grants, Inv, TypeOK
  <2> QED BY <2>1 DEF Inv, TypeOK, RowsDefined, GroupsUniform, RequestsSound,
                      RequestSound, AcceptedByInvitee, AccessMatchesAccepts,
                      PrimaryHeld, Fresh, Grouped, Key
<1>2. CASE UNCHANGED vars
  BY <1>2 DEF vars, Inv, TypeOK, RowsDefined, GroupsUniform, RequestsSound,
              RequestSound, AcceptedByInvitee, AccessMatchesAccepts,
              PrimaryHeld, Fresh, Grouped, Key
<1>3. ASSUME NEW r \in Reqs, CreateBulk(r) \/ Accept(r) \/ Revoke(r) \/ Renew(r)
      PROVE  Inv'
  BY <1>3, StartSound
<1>4. ASSUME NEW r \in Reqs,
             CreateDedup(r) \/ AcceptGroup(r) \/ AcceptPrimary(r) \/ RenewGroup(r)
      PROVE  Inv'
  BY <1>4, CollectSound
<1>5. ASSUME NEW r \in Reqs, CreateInsert(r) PROVE Inv'
  BY <1>5, InsertSound
<1>6. ASSUME NEW r \in Reqs, AcceptCommit(r) PROVE Inv'
  BY <1>6, CommitSound
<1>7. ASSUME NEW r \in Reqs, RevokeWrite(r) \/ RenewRevoke(r) \/ ExpireStale(r)
      PROVE  Inv'
  BY <1>7, RevokeStepsSound
<1>8. ASSUME NEW r \in Reqs, Fail(r) PROVE Inv'
  BY <1>8, ReturnSound DEF Fail
<1> QED BY <1>1, <1>2, <1>3, <1>4, <1>5, <1>6, <1>7, <1>8 DEF Next

(* Whatever requests interleave and fail, the tables and the requests      *)
(* satisfy the inductive invariant.                                        *)
THEOREM Safety == Spec => []Inv
  BY InitSound, NextSound, PTL DEF Spec

(* The tables and the requests keep their types. *)
THEOREM TypeCorrect == Spec => []TypeOK
<1>1. Inv => TypeOK
  BY DEF Inv
<1> QED BY <1>1, Safety, PTL

(* accept hands an invitation, clicked or sibling, to nobody but the       *)
(* person it was sent to.                                                  *)
THEOREM OnlyTheInvitee == Spec => []AcceptedByInvitee
<1>1. Inv => AcceptedByInvitee
  BY DEF Inv
<1> QED BY <1>1, Safety, PTL

(* The access rows that accept writes and the acceptances it records stay  *)
(* in agreement, under every interleaving and every failure.               *)
THEOREM AccessAgrees == Spec => []AccessMatchesAccepts
<1>1. Inv => AccessMatchesAccepts
  BY DEF Inv
<1> QED BY <1>1, Safety, PTL

(* One step keeps the text of every row and reopens none: only             *)
(* createManyAndReturn writes PENDING, and only into rows that are new.    *)
LEMMA StepReopensNothing ==
  ASSUME Inv, Next, NEW i \in Ids, status[i] # "ABSENT"
  PROVE  /\ row'[i] = row[i]
         /\ status'[i] # "ABSENT"
         /\ status'[i] = "PENDING" => status[i] = "PENDING"
<1>1. CASE UNCHANGED data
  BY <1>1 DEF data
<1>2. ASSUME NEW S, MarkRevoked(S)
      PROVE  /\ row'[i] = row[i]
             /\ status'[i] # "ABSENT"
             /\ status'[i] = "PENDING" => status[i] = "PENDING"
  BY <1>2 DEF MarkRevoked
<1>3. ASSUME NEW r \in Reqs, CreateInsert(r)
      PROVE  row'[i] = row[i] /\ status'[i] = status[i]
  <2> DEFINE d == req[r].entries
             RowFor(f, e) == [email |-> e.email, site |-> e.site, role |-> e.role,
                              group |-> {f[x] : x \in GroupMates(d, e)},
                              expiresOn |-> req[r].expiresOn]
  <2>1. PICK f \in Injection(d, Fresh) :
          /\ row' = [j \in Ids |-> IF \E e \in d : f[e] = j
                                   THEN RowFor(f, CHOOSE e \in d : f[e] = j)
                                   ELSE row[j]]
          /\ status' = [j \in Ids |-> IF \E e \in d : f[e] = j
                                      THEN "PENDING" ELSE status[j]]
    BY <1>3, Zenon DEF CreateInsert
  <2>2. ~ \E e \in d : f[e] = i
    BY DEF Injection, Fresh
  <2> HIDE DEF RowFor, d
  <2> QED BY <2>1, <2>2
<1>4. ASSUME NEW r \in Reqs, AcceptCommit(r)
      PROVE  /\ row'[i] = row[i]
             /\ status'[i] # "ABSENT"
             /\ status'[i] = "PENDING" => status[i] = "PENDING"
  BY <1>4 DEF AcceptCommit
<1> QED
  BY <1>1, <1>2, <1>3, <1>4
     DEF Next, Tick, Fail, CreateBulk, CreateDedup, Accept, AcceptGroup, AcceptPrimary,
         Revoke, RevokeWrite, Renew, RenewGroup, RenewRevoke, ExpireStale

(* A used or withdrawn invitation stays used or withdrawn, with the text   *)
(* it was sent with.                                                       *)
THEOREM UsedStaysUsed == Spec => NeverReopened
<1> DEFINE A == \A i \in Ids : status[i] # "ABSENT" =>
                  /\ row'[i] = row[i]
                  /\ status'[i] # "ABSENT"
                  /\ status'[i] = "PENDING" => status[i] = "PENDING"
<1>1. Inv /\ [Next]_vars => [A]_vars
  BY StepReopensNothing
<1>2. Spec => [][A]_vars
  BY <1>1, Safety, PTL DEF Spec
<1> QED BY <1>2 DEF NeverReopened

-----------------------------------------------------------------------------
(* Requests that come one after another.                                   *)

(* A step of one request, while the others rest, to a request that has     *)
(* read what is so.                                                        *)
LEMMA AloneStep ==
  ASSUME Inv, NEW r \in Reqs, NEW q, Become(r, q),
         \A s \in Reqs : s # r => At(s, "idle"),
         NoDuplicatePending', SinglePrimarySite', ReadsCurrent(q)'
  PROVE  AloneInv'
<1>1. \A s \in Reqs : req'[s] = IF s = r THEN q ELSE req[s]
  BY DEF Inv, TypeOK, Become
<1>2. OneUnderWay'
  BY <1>1 DEF OneUnderWay, At
<1>3. ASSUME NEW s \in Reqs PROVE ReadsCurrent(req[s])'
  <2>1. CASE s = r
    BY <1>1, <2>1 DEF ReadsCurrent
  <2>2. CASE s # r
    <3>1. req'[s].pc = "idle"
      BY <1>1, <2>2 DEF At
    <3> QED BY <3>1 DEF ReadsCurrent
  <2> QED BY <2>1, <2>2
<1> QED BY <1>2, <1>3 DEF AloneInv

(* One that only reads. *)
LEMMA AloneRead ==
  ASSUME Inv, AloneInv, alone, NEW r \in Reqs, NEW q, Become(r, q),
         \A s \in Reqs : s # r => At(s, "idle"),
         UNCHANGED <<now, data, grants>>, ReadsCurrent(q)
  PROVE  AloneInv'
<1>1. row' = row /\ status' = status /\ primary' = primary
  BY DEF data, grants
<1>2. NoDuplicatePending' /\ SinglePrimarySite' /\ ReadsCurrent(q)'
  BY <1>1 DEF AloneInv, NoDuplicatePending, SinglePrimarySite, ReadsCurrent, Pending,
              EntryOf, Conflicts
<1> QED BY <1>2, AloneStep

(* One that ends its request. *)
LEMMA AloneReturn ==
  ASSUME Inv, NEW r \in Reqs, Return(r), \A s \in Reqs : s # r => At(s, "idle"),
         NoDuplicatePending', SinglePrimarySite'
  PROVE  AloneInv'
<1>1. ReadsCurrent(Idle)'
  BY DEF ReadsCurrent, Idle
<1> QED BY <1>1, AloneStep DEF Return

(* Withdrawing open rows opens none, and leaves the primary rows.          *)
LEMMA RevokedAlone ==
  ASSUME AloneInv, alone, NEW S, MarkRevoked(S), UNCHANGED grants
  PROVE  /\ NoDuplicatePending' /\ SinglePrimarySite'
         /\ Pending' = Pending \ S /\ row' = row
<1>1. row' = row /\ primary' = primary
      /\ status' = [i \in Ids |-> IF i \in S THEN "REVOKED" ELSE status[i]]
  BY DEF MarkRevoked, grants
<1>2. Pending' = Pending \ S
  BY <1>1 DEF Pending
<1> QED
  BY <1>1, <1>2 DEF AloneInv, NoDuplicatePending, SinglePrimarySite, EntryOf

(* The rows that createMany writes are the entries, which nothing open     *)
(* conflicts with.                                                         *)
LEMMA InsertAlone ==
  ASSUME Inv, AloneInv, alone, NEW r \in Reqs, CreateInsert(r)
  PROVE  NoDuplicatePending' /\ SinglePrimarySite'
<1> DEFINE d == req[r].entries
           RowFor(f, e) == [email |-> e.email, site |-> e.site, role |-> e.role,
                            group |-> {f[x] : x \in GroupMates(d, e)},
                            expiresOn |-> req[r].expiresOn]
<1>1. PICK f \in Injection(d, Fresh) :
        /\ row' = [i \in Ids |-> IF \E e \in d : f[e] = i
                                 THEN RowFor(f, CHOOSE e \in d : f[e] = i)
                                 ELSE row[i]]
        /\ status' = [i \in Ids |-> IF \E e \in d : f[e] = i
                                    THEN "PENDING" ELSE status[i]]
  BY Zenon DEF CreateInsert
<1>2. primary' = primary
  BY DEF CreateInsert, grants
<1>3. /\ f \in [d -> Fresh]
      /\ \A a, b \in d : f[a] = f[b] => a = b
  BY DEF Injection, IsInjective
<1>4. d \subseteq Entry /\ Conflicts(d) = {}
  BY DEF Inv, TypeOK, Request, AloneInv, ReadsCurrent, CreateInsert, At
<1>5. ASSUME NEW i \in Ids, NEW e \in d, f[e] = i
      PROVE  /\ row'[i].email = e.email /\ row'[i].site = e.site /\ row'[i].role = e.role
             /\ i \notin Pending
  <2>1. (CHOOSE x \in d : f[x] = i) = e
    BY <1>3, <1>5
  <2>2. row'[i] = RowFor(f, e)
    BY <1>1, <1>5, <2>1
  <2>3. f[e] \in Fresh
    BY <1>3
  <2> QED BY <1>5, <2>2, <2>3 DEF Fresh, Pending
<1>6. ASSUME NEW i \in Pending' PROVE i \in Ids /\ (i \in Pending \/ \E e \in d : f[e] = i)
  BY <1>1 DEF Pending
<1>7. ASSUME NEW i \in Ids, ~ \E e \in d : f[e] = i PROVE row'[i] = row[i]
  BY <1>1, <1>7
<1> DEFINE Same(i, j) == /\ row'[i].email = row'[j].email
                         /\ row'[i].site = row'[j].site /\ row'[i].role = row'[j].role
<1>8. ASSUME NEW i \in Pending', NEW j \in Pending', Same(i, j) PROVE i = j
  <2>1. CASE (\E e \in d : f[e] = i) /\ (\E e \in d : f[e] = j)
    <3>1. PICK a \in d, b \in d : f[a] = i /\ f[b] = j
      BY <2>1
    <3>2. a = b
      <4>1. a.email = b.email /\ a.site = b.site /\ a.role = b.role
        BY <1>5, <1>6, <1>8, <3>1
      <4>2. a \in Entry /\ b \in Entry
        BY <1>4
      <4> QED BY <4>1, <4>2 DEF Entry
    <3> QED BY <3>1, <3>2
  <2>2. ASSUME NEW k \in Pending', NEW l \in Pending', Same(k, l),
               \E e \in d : f[e] = k, ~ \E e \in d : f[e] = l
        PROVE  FALSE
    <3>1. PICK a \in d : f[a] = k
      BY <2>2
    <3>2. l \in Pending /\ row'[l] = row[l]
      BY <1>6, <1>7, <2>2
    <3>3. a.email = row[l].email /\ a.site = row[l].site /\ a.role = row[l].role
      BY <1>5, <1>6, <2>2, <3>1, <3>2
    <3>4. EntryOf(l) = a
      BY <1>4, <3>3 DEF Entry, EntryOf
    <3> QED BY <1>4, <3>2, <3>4 DEF Conflicts
  <2>3. CASE (~ \E e \in d : f[e] = i) /\ (~ \E e \in d : f[e] = j)
    <3>1. i \in Pending /\ j \in Pending /\ row'[i] = row[i] /\ row'[j] = row[j]
      BY <1>6, <1>7, <2>3
    <3> QED BY <1>8, <3>1 DEF AloneInv, NoDuplicatePending, EntryOf
  <2> QED BY <1>8, <2>1, <2>2, <2>3
<1> HIDE DEF d
<1>9. NoDuplicatePending'
  <2>1. \A i, j \in Pending' : EntryOf(i)' = EntryOf(j)' => Same(i, j)
    BY DEF EntryOf
  <2> QED BY <1>8, <2>1 DEF NoDuplicatePending
<1> QED BY <1>2, <1>9 DEF AloneInv, SinglePrimarySite

(* accept looks for a primary row first, and the site it found is still    *)
(* the one.                                                                *)
LEMMA CommitAlone ==
  ASSUME Inv, AloneInv, alone, NEW r \in Reqs, AcceptCommit(r)
  PROVE  NoDuplicatePending' /\ SinglePrimarySite'
<1> DEFINE p == req[r].person
           todo == req[r].todo
           keys == {Key(i) : i \in todo}
<1>1. /\ p \in Persons /\ todo \subseteq Ids
      /\ req[r].existing \in IF primary[p] = {} THEN {None}
                             ELSE {k[1] : k \in primary[p]}
  BY DEF Inv, RequestsSound, RequestSound, AcceptCommit, At, AloneInv, ReadsCurrent
<1>2. NoDuplicatePending'
  <2>1. row' = row /\ Pending' \subseteq Pending
    BY DEF AcceptCommit, Marked, Pending
  <2> QED BY <2>1 DEF AloneInv, NoDuplicatePending, EntryOf
<1>3. PICK new : /\ new = {} \/ \E i \in todo : new = NewPrimary(r, i)
                 /\ primary' = [primary EXCEPT ![p] = (@ \ keys) \cup new]
  <2>1. Anchors(r) \subseteq todo
    BY DEF Anchors
  <2>2. \E new \in IF todo = {} THEN {{}} ELSE {NewPrimary(r, i) : i \in Anchors(r)} :
          primary' = [primary EXCEPT ![p] = (@ \ keys) \cup new]
    BY DEF AcceptCommit
  <2> QED BY <2>1, <2>2
<1>4. \A k \in primary[p] : k[1] \in Sites
  BY <1>1 DEF Inv, TypeOK
<1>5. \A k \in new : primary[p] # {} => \E l \in primary[p] : k[1] = l[1]
  <2>1. CASE new = {}
    BY <2>1
  <2>2. ASSUME NEW i \in todo, new = NewPrimary(r, i), primary[p] # {}
        PROVE  \A k \in new : \E l \in primary[p] : k[1] = l[1]
    <3>1. PICK l \in primary[p] : req[r].existing = l[1]
      BY <1>1, <2>2
    <3>2. req[r].existing # None
      BY <1>4, <3>1, InvitationsAssumption
    <3> QED BY <2>2, <3>1, <3>2 DEF NewPrimary, Key
  <2> QED BY <1>3, <2>1, <2>2
<1>6. \A k, l \in new : k = l
  BY <1>3 DEF NewPrimary
<1>7. \A k, l \in primary[p] : k[1] = l[1]
  BY <1>1 DEF AloneInv, SinglePrimarySite
<1>8. primary'[p] \subseteq primary[p] \cup new
      /\ \A o \in Persons : o # p => primary'[o] = primary[o]
  BY <1>1, <1>3 DEF Inv, TypeOK
<1>9. \A k, l \in primary'[p] : k[1] = l[1]
  BY <1>5, <1>6, <1>7, <1>8
<1> HIDE DEF keys, todo, p
<1>10. SinglePrimarySite'
  BY <1>8, <1>9 DEF AloneInv, SinglePrimarySite
<1> QED BY <1>2, <1>10

(* Every step of the request that is under way keeps what it has read      *)
(* current.                                                                *)
LEMMA StepAlone ==
  ASSUME Inv, AloneInv, alone, NEW r \in Reqs, \A s \in Reqs : s # r => At(s, "idle"),
         \/ CreateBulk(r) \/ CreateDedup(r) \/ CreateInsert(r)
         \/ Accept(r) \/ AcceptGroup(r) \/ AcceptPrimary(r) \/ AcceptCommit(r)
         \/ Revoke(r) \/ RevokeWrite(r)
         \/ Renew(r) \/ RenewGroup(r) \/ RenewRevoke(r)
         \/ Fail(r)
  PROVE  AloneInv'
<1>q. req[r] \in Request /\ RequestSound(req[r]) /\ ReadsCurrent(req[r])
      /\ NoDuplicatePending /\ SinglePrimarySite
  BY DEF Inv, TypeOK, RequestsSound, AloneInv
<1>e. ASSUME Return(r), UNCHANGED <<now, data, grants>> PROVE AloneInv'
  <2>1. ReadsCurrent(Idle)
    BY DEF ReadsCurrent, Idle
  <2> QED BY <1>e, <2>1, AloneRead DEF Return
<1>1. CASE CreateBulk(r)
  <2>1. PICK d : Become(r, [Idle EXCEPT !.pc = "dedup", !.entries = d])
    BY <1>1 DEF CreateBulk
  <2> DEFINE q == [Idle EXCEPT !.pc = "dedup", !.entries = d]
  <2>2. q.pc = "dedup" /\ q.todo = {}
    BY DEF Idle
  <2> HIDE DEF q
  <2>3. ReadsCurrent(q)
    BY <2>2 DEF ReadsCurrent
  <2> QED BY <1>1, <2>1, <2>3, AloneRead DEF CreateBulk, q
<1>2. CASE CreateDedup(r)
  <2>1. ASSUME NEW days \in Days, Conflicts(req[r].entries) = {},
               Become(r, [req[r] EXCEPT !.pc = "insert", !.expiresOn = now + days])
        PROVE  AloneInv'
    <3> DEFINE q == [req[r] EXCEPT !.pc = "insert", !.expiresOn = now + days]
    <3>1. q.pc = "insert" /\ q.entries = req[r].entries
      BY <1>q DEF Request
    <3> HIDE DEF q
    <3>2. ReadsCurrent(q)
      BY <2>1, <3>1 DEF ReadsCurrent
    <3> QED BY <1>2, <2>1, <3>2, AloneRead DEF CreateDedup, q
  <2> QED BY <1>2, <2>1, <1>e DEF CreateDedup
<1>3. CASE CreateInsert(r)
  BY <1>3, InsertAlone, AloneReturn DEF CreateInsert
<1>4. CASE Accept(r)
  <2>1. PICK x \in Persons, i \in Ids :
          /\ status[i] = "PENDING"
          /\ Become(r, [Idle EXCEPT
                          !.pc = IF Grouped(i) THEN "acceptGroup" ELSE "acceptPrimary",
                          !.person = x, !.target = i,
                          !.todo = IF Grouped(i) THEN {} ELSE {i}])
    BY <1>4 DEF Accept
  <2> DEFINE q == [Idle EXCEPT
                     !.pc = IF Grouped(i) THEN "acceptGroup" ELSE "acceptPrimary",
                     !.person = x, !.target = i,
                     !.todo = IF Grouped(i) THEN {} ELSE {i}]
  <2>2. q.pc \in {"acceptGroup", "acceptPrimary"} /\ q.todo \subseteq {i}
    BY DEF Idle
  <2> HIDE DEF q
  <2>3. ReadsCurrent(q)
    BY <2>1, <2>2 DEF ReadsCurrent, Pending
  <2> QED BY <1>4, <2>1, <2>3, AloneRead DEF Accept, q
<1>5. CASE AcceptGroup(r)
  <2> DEFINE q == [req[r] EXCEPT !.pc = "acceptPrimary",
                                 !.todo = PendingSiblings(req[r].target)]
  <2>1. q.pc = "acceptPrimary" /\ q.todo = PendingSiblings(req[r].target)
    BY <1>q DEF Request
  <2>2. Become(r, q)
    BY <1>5 DEF AcceptGroup
  <2> HIDE DEF q
  <2>3. ReadsCurrent(q)
    BY <2>1 DEF ReadsCurrent, PendingSiblings
  <2> QED BY <1>5, <2>2, <2>3, AloneRead DEF AcceptGroup
<1>6. CASE AcceptPrimary(r)
  <2>1. PICK site \in IF primary[req[r].person] = {} THEN {None}
                      ELSE {k[1] : k \in primary[req[r].person]} :
          Become(r, [req[r] EXCEPT !.pc = "acceptCommit", !.existing = site])
    BY <1>6 DEF AcceptPrimary
  <2> DEFINE q == [req[r] EXCEPT !.pc = "acceptCommit", !.existing = site]
  <2>2. /\ q.pc = "acceptCommit" /\ q.existing = site
        /\ q.todo = req[r].todo /\ q.person = req[r].person
    BY <1>q DEF Request
  <2> HIDE DEF q
  <2>3. ReadsCurrent(q)
    BY <1>6, <1>q, <2>1, <2>2 DEF ReadsCurrent, AcceptPrimary, At
  <2> QED BY <1>6, <2>1, <2>3, AloneRead DEF AcceptPrimary, q
<1>7. CASE AcceptCommit(r)
  BY <1>7, CommitAlone, AloneReturn DEF AcceptCommit
<1>8. CASE Revoke(r)
  <2>1. PICK i \in Ids : /\ status[i] \notin {"ABSENT", "ACCEPTED"}
                         /\ Become(r, [Idle EXCEPT !.pc = "revoke", !.target = i])
    BY <1>8 DEF Revoke
  <2> DEFINE q == [Idle EXCEPT !.pc = "revoke", !.target = i]
  <2>2. q.pc = "revoke" /\ q.target = i
    BY DEF Idle
  <2> HIDE DEF q
  <2>3. ReadsCurrent(q)
    BY <2>1, <2>2 DEF ReadsCurrent
  <2> QED BY <1>8, <2>1, <2>3, AloneRead DEF Revoke, q
<1>9. CASE RevokeWrite(r)
  BY <1>9, RevokedAlone, AloneReturn DEF RevokeWrite
<1>10. CASE Renew(r)
  <2>1. PICK i \in Pending :
          Become(r, [Idle EXCEPT
                       !.pc = IF Grouped(i) THEN "renewGroup" ELSE "renewRevoke",
                       !.target = i,
                       !.todo = IF Grouped(i) THEN {} ELSE {i}])
    BY <1>10 DEF Renew
  <2> DEFINE q == [Idle EXCEPT
                     !.pc = IF Grouped(i) THEN "renewGroup" ELSE "renewRevoke",
                     !.target = i,
                     !.todo = IF Grouped(i) THEN {} ELSE {i}]
  <2>2. q.pc \in {"renewGroup", "renewRevoke"} /\ q.todo \subseteq {i}
    BY DEF Idle
  <2> HIDE DEF q
  <2>3. ReadsCurrent(q)
    BY <2>1, <2>2 DEF ReadsCurrent
  <2> QED BY <1>10, <2>1, <2>3, AloneRead DEF Renew, q
<1>11. CASE RenewGroup(r)
  <2> DEFINE q == [req[r] EXCEPT !.pc = "renewRevoke",
                                 !.todo = PendingSiblings(req[r].target)]
  <2>1. CASE Become(r, q)
    <3>1. q.pc = "renewRevoke" /\ q.todo = PendingSiblings(req[r].target)
      BY <1>q DEF Request
    <3> HIDE DEF q
    <3>2. ReadsCurrent(q)
      BY <3>1 DEF ReadsCurrent, PendingSiblings
    <3> QED BY <1>11, <2>1, <3>2, AloneRead DEF RenewGroup
  <2> QED BY <1>11, <2>1, <1>e DEF RenewGroup
<1>12. CASE RenewRevoke(r)
  <2> DEFINE todo == req[r].todo
  <2>0. PICK q : q = [req[r] EXCEPT !.pc = "dedup",
                                    !.entries = {EntryOf(i) : i \in todo}]
    OBVIOUS
  <2>1. /\ todo \subseteq Pending /\ MarkRevoked(todo) /\ UNCHANGED grants
        /\ Become(r, q)
    BY <1>12, <1>q, <2>0 DEF RenewRevoke, ReadsCurrent, At
  <2>2. /\ NoDuplicatePending' /\ SinglePrimarySite'
        /\ Pending' = Pending \ todo /\ row' = row
    BY <2>1, RevokedAlone
  <2>3. q.pc = "dedup" /\ q.entries = {EntryOf(i) : i \in todo}
    BY <1>q, <2>0 DEF Request
  <2> HIDE DEF todo
  <2>4. Conflicts(q.entries)' = {}
    <3>1. ASSUME NEW j \in Pending', EntryOf(j)' \in q.entries PROVE FALSE
      <4>1. j \in Pending \ todo /\ EntryOf(j)' = EntryOf(j)
        BY <2>2, <3>1 DEF EntryOf
      <4>2. PICK i \in todo : EntryOf(j) = EntryOf(i)
        BY <2>3, <3>1, <4>1
      <4> QED BY <1>q, <2>1, <4>1, <4>2 DEF NoDuplicatePending
    <3> QED BY <3>1 DEF Conflicts
  <2>5. ReadsCurrent(q)'
    BY <2>3, <2>4 DEF ReadsCurrent
  <2> QED BY <2>1, <2>2, <2>5, AloneStep
<1>13. CASE Fail(r)
  BY <1>13, <1>e DEF Fail
<1> QED BY <1>1, <1>2, <1>3, <1>4, <1>5, <1>6, <1>7, <1>8, <1>9, <1>10, <1>11, <1>12,
           <1>13

(* A step of one request leaves the other slots as they are.               *)
LEMMA OthersRest ==
  ASSUME Inv, NEW r \in Reqs,
         \/ CreateBulk(r) \/ CreateDedup(r) \/ CreateInsert(r)
         \/ Accept(r) \/ AcceptGroup(r) \/ AcceptPrimary(r) \/ AcceptCommit(r)
         \/ Revoke(r) \/ RevokeWrite(r)
         \/ Renew(r) \/ RenewGroup(r) \/ RenewRevoke(r)
         \/ ExpireStale(r) \/ Fail(r)
  PROVE  now' = now /\ \A s \in Reqs : s # r => req'[s] = req[s]
<1>1. ASSUME NEW q, Become(r, q) PROVE \A s \in Reqs : s # r => req'[s] = req[s]
  BY <1>1 DEF Become, Inv, TypeOK
<1> QED
  BY <1>1 DEF CreateBulk, CreateDedup, CreateInsert, Accept, AcceptGroup, AcceptPrimary,
     AcceptCommit, Revoke, RevokeWrite, Renew, RenewGroup, RenewRevoke, ExpireStale, Fail,
     Return

(* AloneInv is inductive.                                                  *)
LEMMA NextAlone == Inv /\ AloneInv /\ [AloneNext]_<<alone, vars>> => AloneInv'
<1> SUFFICES ASSUME Inv, AloneInv, [AloneNext]_<<alone, vars>>, alone' PROVE AloneInv'
  BY DEF AloneInv
<1>1. CASE UNCHANGED <<alone, vars>>
  BY <1>1 DEF vars, AloneInv, OneUnderWay, NoDuplicatePending, SinglePrimarySite, ReadsCurrent,
     At, Pending, EntryOf, Conflicts
<1>2. CASE AloneNext
  <2>1. alone
    BY <1>2 DEF AloneNext
  <2>2. CASE Tick
    BY <2>1, <2>2 DEF Tick, data, grants, AloneInv, OneUnderWay, NoDuplicatePending,
       SinglePrimarySite, ReadsCurrent, At, Pending, EntryOf, Conflicts
  <2>3. ASSUME NEW r \in Reqs, ExpireStale(r) PROVE AloneInv'
    <3>1. PICK S : MarkRevoked(S)
      BY <2>3 DEF ExpireStale
    <3>2. UNCHANGED grants /\ req' = req
      BY <2>3 DEF ExpireStale
    <3>3. \A s \in Reqs : At(s, "idle")
      BY <1>2, <2>1, <2>3, <3>2 DEF AloneNext, ExpireStale
    <3>4. NoDuplicatePending' /\ SinglePrimarySite'
      BY <2>1, <3>1, <3>2, RevokedAlone
    <3> QED BY <3>2, <3>3, <3>4 DEF AloneInv, OneUnderWay, ReadsCurrent, At
  <2>4. ASSUME NEW r \in Reqs,
               \/ CreateBulk(r) \/ CreateDedup(r) \/ CreateInsert(r)
               \/ Accept(r) \/ AcceptGroup(r) \/ AcceptPrimary(r) \/ AcceptCommit(r)
               \/ Revoke(r) \/ RevokeWrite(r)
               \/ Renew(r) \/ RenewGroup(r) \/ RenewRevoke(r)
               \/ Fail(r)
        PROVE  AloneInv'
    <3>1. \A s \in Reqs : s # r => At(s, "idle")
      BY <1>2, <2>1, <2>4, OthersRest DEF AloneNext, Inv, TypeOK
    <3> QED BY <2>1, <2>4, <3>1, StepAlone
  <2> QED BY <1>2, <2>2, <2>3, <2>4 DEF AloneNext, Next
<1> QED BY <1>1, <1>2

(* While requests come one after another, what was checked is written: a   *)
(* used or withdrawn invitation keeps its status.                          *)
LEMMA FinalAlone ==
  ASSUME Inv, AloneInv, alone, [Next]_vars
  PROVE  KeepsFinal
<1> SUFFICES ASSUME NEW i \in Ids, status[i] \in {"ACCEPTED", "REVOKED"}
             PROVE  status'[i] = status[i]
  BY DEF KeepsFinal
<1>1. CASE status' = status
  BY <1>1
<1>2. ASSUME NEW S, MarkRevoked(S), i \in S => status[i] # "ACCEPTED"
      PROVE  status'[i] = status[i]
  BY <1>2 DEF MarkRevoked
<1>q. \A r \in Reqs : ReadsCurrent(req[r])
  BY DEF AloneInv
<1>3. ASSUME NEW r \in Reqs, CreateInsert(r)
      PROVE  status'[i] = status[i]
  <2>1. PICK f \in Injection(req[r].entries, Fresh) :
          status' = [j \in Ids |-> IF \E e \in req[r].entries : f[e] = j
                                  THEN "PENDING" ELSE status[j]]
    BY <1>3, Zenon DEF CreateInsert
  <2>2. ~ \E e \in req[r].entries : f[e] = i
    BY DEF Injection, Fresh
  <2> QED BY <2>1, <2>2
<1>4. ASSUME NEW r \in Reqs, AcceptCommit(r)
      PROVE  status'[i] = status[i]
  <2>1. req[r].todo \subseteq Pending
    BY <1>4, <1>q DEF AcceptCommit, ReadsCurrent, At
  <2> QED BY <1>4, <2>1 DEF AcceptCommit, Marked, Pending
<1>5. ASSUME NEW r \in Reqs, RevokeWrite(r)
      PROVE  status'[i] = status[i]
  <2>1. status[req[r].target] # "ACCEPTED"
    BY <1>5, <1>q DEF RevokeWrite, ReadsCurrent, At
  <2> QED BY <1>5, <2>1, <1>2 DEF RevokeWrite, PendingSiblings, Pending
<1>6. ASSUME NEW r \in Reqs, RenewRevoke(r)
      PROVE  status'[i] = status[i]
  <2>1. req[r].todo \subseteq Pending
    BY <1>6, <1>q DEF RenewRevoke, ReadsCurrent, At
  <2> QED BY <1>6, <2>1, <1>2 DEF RenewRevoke, Pending
<1>7. ASSUME NEW r \in Reqs, ExpireStale(r)
      PROVE  status'[i] = status[i]
  BY <1>7, <1>2 DEF ExpireStale, Pending
<1> QED
  BY <1>1, <1>3, <1>4, <1>5, <1>6, <1>7
     DEF Next, Tick, Fail, CreateBulk, CreateDedup, Accept, AcceptGroup, AcceptPrimary,
         Revoke, Renew, RenewGroup, vars, data

(* What the checks of createBulk, accept, revoke and renew are for holds   *)
(* when requests come one after another, for any number of rows, people    *)
(* and days, and wherever a request fails.                                 *)
THEOREM AloneSound == AloneOrNot => OneAtATime
<1>1. AloneOrNot => Spec
  <2>1. AloneInit => Init
    BY DEF AloneInit
  <2>2. [AloneNext]_<<alone, vars>> => [Next]_vars
    BY DEF AloneNext
  <2> QED BY <2>1, <2>2, PTL DEF AloneOrNot, Spec
<1>2. AloneInit => AloneInv
  <2>1. AloneInit => \A r \in Reqs : req[r] = Idle
    BY DEF AloneInit, Init
  <2>2. AloneInit => NoDuplicatePending /\ SinglePrimarySite
    BY DEF AloneInit, Init, NoDuplicatePending, SinglePrimarySite, Pending
  <2> QED BY <2>1, <2>2 DEF AloneInv, OneUnderWay, ReadsCurrent, At, Idle
<1>3. AloneOrNot => []AloneInv
  BY <1>1, <1>2, NextAlone, Safety, PTL DEF AloneOrNot
<1>4. Inv /\ AloneInv => (alone => NoDuplicatePending /\ SinglePrimarySite /\ RenewNotRefused)
  BY DEF AloneInv, RenewNotRefused, ReadsCurrent, At
<1>5. Inv /\ AloneInv /\ [Next]_vars => [alone => KeepsFinal]_vars
  BY FinalAlone
<1> QED BY <1>1, <1>3, <1>4, <1>5, Safety, PTL DEF Spec, OneAtATime
-----------------------------------------------------------------------------
(* Groups *)

GroupOp == [kind : {"none", "add", "remove"}, pc : {"idle", "calls", "rollback"},
            groups : SUBSET Groups, todo : SUBSET Groups, ok : SUBSET Groups,
            failed : SUBSET Groups, before : SUBSET Groups]

GroupsTyped == member \in SUBSET Groups /\ groupOp \in GroupOp

(* A change that is not under way concerns no group; one that is concerns  *)
(* some, and each of its groups has yet to be answered or was answered.    *)
GroupsCounted ==
    LET o == groupOp IN
    /\ o.pc = "idle" => o = NoGroupOp
    /\ o.pc # "idle" =>
          /\ o.kind # "none" /\ o.groups # {}
          /\ o.todo \cup o.ok \cup o.failed = o.groups
    /\ o.pc = "calls" => o.todo \cap o.ok = {}
    /\ o.pc = "rollback" => o.failed # {} /\ o.todo \subseteq o.ok

(* A call that was answered did what it was asked; once the calls are      *)
(* being undone, what is neither undone nor reported is still to be undone. *)
AnswersTrue ==
    LET o == groupOp IN
    /\ o.pc = "calls" /\ o.kind = "add" => o.ok \subseteq member
    /\ o.pc = "calls" /\ o.kind = "remove" => o.ok \cap member = {}
    /\ o.pc = "rollback" /\ o.kind = "add" =>
          member \cap o.groups \subseteq o.before \cup o.todo \cup o.failed
    /\ o.pc = "rollback" /\ o.kind = "remove" =>
          o.before \cap o.groups \subseteq member \cup o.todo \cup o.failed

GroupsInv == GroupsTyped /\ GroupsCounted /\ AnswersTrue

(* Before any change the invariant holds. *)
LEMMA GroupsInvInit == GroupsInit => GroupsInv
BY StartGroupsAssumption
DEF GroupsInit, GroupsInv, GroupsTyped, GroupsCounted, AnswersTrue, GroupOp, NoGroupOp

(* Nothing is under way after an action that ends a change. *)
LEMMA GroupsIdle ==
    ASSUME member' \in SUBSET Groups, groupOp' = NoGroupOp
    PROVE  GroupsInv'
BY DEF GroupsInv, GroupsTyped, GroupsCounted, AnswersTrue, GroupOp, NoGroupOp

(* An answer to a call, or to the call that undoes one, keeps the          *)
(* invariant whatever Keycloak did before the answer was lost.             *)
LEMMA CallSettlesInv ==
    ASSUME GroupsInv, NEW g \in Groups, CallSettles(g)
    PROVE  GroupsInv'
<1> DEFINE o == groupOp
           kind == IF o.pc = "calls" THEN o.kind ELSE Opposite(o.kind)
           rest == [o EXCEPT !.todo = @ \ {g}]
<1> USE DEF GroupsInv, GroupsTyped, GroupOp
<1>1. o.pc \in {"calls", "rollback"} /\ g \in o.todo /\ o.kind \in {"add", "remove"}
  BY DEF CallSettles, GroupsCounted
<1>2. CASE /\ member' = Call(kind, g)
           /\ groupOp' = IF o.pc = "calls" THEN [rest EXCEPT !.ok = @ \cup {g}] ELSE rest
  <2>1. CASE o.pc = "calls"
    <3>1. groupOp' = [o EXCEPT !.todo = @ \ {g}, !.ok = @ \cup {g}]
      BY <1>2, <2>1
    <3>2. member' = IF o.kind = "add" THEN member \cup {g} ELSE member \ {g}
      BY <1>2, <2>1 DEF Call
    <3> QED
      BY <1>1, <2>1, <3>1, <3>2 DEF GroupsCounted, AnswersTrue
  <2>2. CASE o.pc = "rollback"
    <3>1. groupOp' = [o EXCEPT !.todo = @ \ {g}]
      BY <1>2, <2>2
    <3>2. member' = IF o.kind = "add" THEN member \ {g} ELSE member \cup {g}
      BY <1>1, <1>2, <2>2 DEF Call, Opposite
    <3> QED
      BY <1>1, <2>2, <3>1, <3>2 DEF GroupsCounted, AnswersTrue
  <2> QED
    BY <1>1, <2>1, <2>2
<1>3. CASE /\ member' \in {member, Call(kind, g)}
           /\ groupOp' = [rest EXCEPT !.failed = @ \cup {g}]
  <2>1. groupOp' = [o EXCEPT !.todo = @ \ {g}, !.failed = @ \cup {g}]
    BY <1>3
  <2>2. member' \in {member, member \cup {g}, member \ {g}}
    BY <1>3 DEF Call
  <2>3. GroupsTyped' /\ GroupsCounted'
    BY <1>1, <2>1, <2>2 DEF GroupsCounted
  <2>4. CASE o.pc = "calls"
    BY <1>1, <2>1, <2>2, <2>3, <2>4 DEF GroupsCounted, AnswersTrue
  <2>5. CASE o.pc = "rollback"
    BY <1>1, <2>1, <2>2, <2>3, <2>5 DEF GroupsCounted, AnswersTrue
  <2> QED
    BY <1>1, <2>4, <2>5
<1> QED
  BY <1>2, <1>3 DEF CallSettles

(* Every step of a change, every crash and every change by somebody else   *)
(* keeps the invariant.                                                    *)
LEMMA GroupsInvNext == GroupsInv /\ [GroupsNext]_groupVars => GroupsInv'
<1> SUFFICES ASSUME GroupsInv, [GroupsNext]_groupVars
             PROVE  GroupsInv'
  OBVIOUS
<1> USE DEF GroupsInv, GroupsTyped, GroupOp
<1>1. ASSUME NEW k \in {"add", "remove"}, NEW S \in SUBSET Groups, StartGroupOp(k, S)
      PROVE  GroupsInv'
  BY <1>1 DEF StartGroupOp, GroupsCounted, AnswersTrue
<1>2. ASSUME NEW g \in Groups, CallSettles(g)
      PROVE  GroupsInv'
  BY <1>2, CallSettlesInv
<1>3. ASSUME NEW g \in Groups, GroupChangedElsewhere(g)
      PROVE  GroupsInv'
  BY <1>3 DEF GroupChangedElsewhere, GroupsCounted, AnswersTrue, NoGroupOp
<1>4. CASE AllFulfilled
  BY <1>4, GroupsIdle DEF AllFulfilled
<1>5. CASE RollBack
  BY <1>5 DEF RollBack, GroupsCounted, AnswersTrue
<1>6. CASE ThrowGroupError
  BY <1>6, GroupsIdle DEF ThrowGroupError
<1>7. CASE GroupCrash
  BY <1>7, GroupsIdle DEF GroupCrash
<1>8. CASE UNCHANGED groupVars
  BY <1>8 DEF groupVars, GroupsCounted, AnswersTrue
<1> QED
  BY <1>1, <1>2, <1>3, <1>4, <1>5, <1>6, <1>7, <1>8 DEF GroupsNext

(* The answers of Keycloak are accounted for at every moment of a change:  *)
(* a fulfilled call is done, and while a change is being undone, whatever  *)
(* is left of it is reported or still to be undone.                        *)
THEOREM GroupsInvariant == GroupsSpec => []GroupsInv
BY GroupsInvInit, GroupsInvNext, PTL DEF GroupsSpec

(* Every step of the change is a step of the abstract one, or hidden. *)
LEMMA GroupsSimulate ==
    GroupsInv /\ [GroupsNext]_groupVars => [Membership!Next]_(Membership!vars)
<1> SUFFICES ASSUME GroupsInv, [GroupsNext]_groupVars
             PROVE  Membership!Next \/ UNCHANGED <<Settled, groupResult, groupError>>
  BY DEF Membership!vars
<1> DEFINE o == groupOp
<1> USE DEF GroupsInv, GroupsTyped, GroupOp
<1>1. ASSUME NEW k \in {"add", "remove"}, NEW S \in SUBSET Groups, StartGroupOp(k, S)
      PROVE  UNCHANGED <<Settled, groupResult, groupError>>
  BY <1>1 DEF StartGroupOp, GroupsCounted, NoGroupOp, Settled
<1>2. ASSUME NEW g \in Groups, CallSettles(g)
      PROVE  UNCHANGED <<Settled, groupResult, groupError>>
  <2>1. g \in o.groups /\ o'.groups = o.groups /\ o'.before = o.before
    BY <1>2 DEF CallSettles, GroupsCounted
  <2>2. member' \in {member, member \cup {g}, member \ {g}}
    BY <1>2 DEF CallSettles, Call
  <2> QED
    BY <1>2, <2>1, <2>2 DEF CallSettles, Settled
<1>3. ASSUME NEW g \in Groups, GroupChangedElsewhere(g)
      PROVE  Membership!Other(g)
  BY <1>3 DEF GroupChangedElsewhere, Membership!Other, Settled
<1>4. CASE AllFulfilled
  <2>1. o.groups \in (SUBSET Groups) \ {{}} /\ o.ok = o.groups /\ Settled' = member
    BY <1>4 DEF AllFulfilled, GroupsCounted, NoGroupOp, Settled
  <2>2. CASE o.kind = "add"
    <3>1. Membership!AllAdded(o.groups)
      BY <1>4, <2>1, <2>2 DEF AllFulfilled, AnswersTrue, Membership!AllAdded, Settled
    <3> QED
      BY <2>1, <3>1 DEF Membership!Next
  <2>3. CASE o.kind = "remove"
    <3>1. Membership!AllRemoved(o.groups)
      BY <1>4, <2>1, <2>3 DEF AllFulfilled, AnswersTrue, Membership!AllRemoved, Settled
    <3> QED
      BY <2>1, <3>1 DEF Membership!Next
  <2> QED
    BY <1>4, <2>2, <2>3 DEF AllFulfilled, GroupsCounted
<1>5. CASE RollBack
  BY <1>5 DEF RollBack, Settled
<1>6. CASE ThrowGroupError
  <2>1. /\ o.groups \in (SUBSET Groups) \ {{}} /\ Settled' = member
        /\ groupError' \in (SUBSET o.groups) \ {{}}
    BY <1>6 DEF ThrowGroupError, GroupsCounted, NoGroupOp, Settled
  <2>2. CASE o.kind = "add"
    <3>1. Membership!AddFailed(o.groups)
      BY <1>6, <2>1, <2>2 DEF ThrowGroupError, AnswersTrue, Membership!AddFailed, Settled
    <3> QED
      BY <2>1, <3>1 DEF Membership!Next
  <2>3. CASE o.kind = "remove"
    <3>1. Membership!RemoveFailed(o.groups)
      BY <1>6, <2>1, <2>3 DEF ThrowGroupError, AnswersTrue, Membership!RemoveFailed, Settled
    <3> QED
      BY <2>1, <3>1 DEF Membership!Next
  <2> QED
    BY <1>6, <2>2, <2>3 DEF ThrowGroupError, GroupsCounted
<1>7. CASE GroupCrash
  <2>1. o.groups \in (SUBSET Groups) \ {{}} /\ Settled' = member
    BY <1>7 DEF GroupCrash, GroupsCounted, NoGroupOp, Settled
  <2>2. member = (Settled \ o.groups) \cup (member \cap o.groups)
    BY DEF Settled
  <2>3. Membership!Interrupted(o.groups)
    BY <1>7, <2>1, <2>2 DEF GroupCrash, Membership!Interrupted
  <2> QED
    BY <2>1, <2>3 DEF Membership!Next
<1>8. CASE UNCHANGED groupVars
  BY <1>8 DEF groupVars, Settled
<1>9. (\E g \in Groups : Membership!Other(g)) => Membership!Next
  BY DEF Membership!Next
<1> QED
  BY <1>1, <1>2, <1>3, <1>4, <1>5, <1>6, <1>7, <1>8, <1>9 DEF GroupsNext

(* addUserToGroupsTransactional and removeUserFromGroupsTransactional      *)
(* implement the all-or-reported change of GroupMembership, for any        *)
(* groups, any order of the answers, lost answers, failed rollbacks and    *)
(* crashes.                                                                *)
THEOREM GroupsImplement == GroupsSpec => GroupsAllOrReported
<1>1. GroupsInit => Membership!Init
  BY StartGroupsAssumption DEF GroupsInit, Membership!Init, Settled, NoGroupOp
<1> QED
  BY <1>1, GroupsInvariant, GroupsSimulate, PTL
  DEF GroupsSpec, GroupsAllOrReported, Membership!Spec
-----------------------------------------------------------------------------
(* Roles *)

USE RolesAssumption

RoleRequest == [op : {"idle", "create", "update", "delete", "add", "remove", "scope"},
                pc : {"idle", "name", "write", "clear"},
                id : {Unset} \cup RoleIds,
                arg : {Unset} \cup RoleDtos \cup BOOLEAN \cup SUBSET Capabilities,
                seen : {Unset, Deleted} \cup RoleRow,
                overtaken : BOOLEAN]
RoleRights == [wide : BOOLEAN, capabilities : SUBSET Capabilities]
CachedRole == [rights : RoleRights, late : BOOLEAN]

RolesTyped ==
    /\ role \in [RoleIds -> {Unset, Deleted} \cup RoleRow]
    /\ roleReq \in [RoleReqs -> RoleRequest]
    /\ roleCache \in [RoleIds -> {Unset} \cup CachedRole]
    /\ roleFill \in [RoleIds -> {Unset} \cup CachedRole]

(* What a request that is about to write has decided: its body is of the   *)
(* kind the operation takes and, with the row it read, gives a role that   *)
(* may be assigned.                                                        *)
DecisionSound(x) ==
    /\ x.op \in {"create", "update", "delete", "add", "remove", "scope"}
    /\ x.op \in {"create", "update"} => x.arg \in RoleDtos
    /\ x.op = "create" => /\ x.arg.name # Unset
                          /\ ScopeAllowed(x.arg.assignable = TRUE, x.arg.wide = TRUE)
    /\ x.op # "create" => x.seen \in RoleRow
    /\ x.op = "update" =>
          ScopeAllowed(Given(x.arg.assignable, x.seen.assignable), Given(x.arg.wide, x.seen.wide))
    /\ x.op = "scope" => x.arg \in BOOLEAN /\ ScopeAllowed(x.seen.assignable, x.arg)
    /\ x.op \in {"add", "remove"} => x.arg \in SUBSET Capabilities

(* A request that was not overtaken writes to the row it read; a new role  *)
(* is written where there is none yet.                                     *)
RoleReqSound(q) ==
    LET x == roleReq[q] IN
    /\ x.pc = "idle" <=> x = NoRoleReq
    /\ x.pc # "idle" => x.id \in RoleIds
    /\ x.pc = "clear" => x.op # "create"
    /\ x.pc \in {"name", "write"} =>
          /\ DecisionSound(x)
          /\ ~x.overtaken => x.seen = role[x.id]
    /\ x.op = "create" => role[x.id] = Unset

RoleReqsSound == \A q \in RoleReqs : RoleReqSound(q)
IdsFresh == \A p, q \in RoleReqs :
               (roleReq[p].op = "create" /\ roleReq[q].op = "create" /\ roleReq[p].id = roleReq[q].id)
               => p = q
UnreadUncached == \A r \in RoleIds : role[r] = Unset => roleCache[r] = Unset /\ roleFill[r] = Unset

(* What a reader is about to cache is what the role is, unless it was      *)
(* written since.                                                          *)
FillsFresh == \A r \in RoleIds : roleFill[r] = Unset \/ roleFill[r].late \/ roleFill[r].rights = Rights(r)

RolesInv == /\ RolesTyped /\ RoleReqsSound /\ IdsFresh /\ UnreadUncached
            /\ AssignableIsNarrow /\ RoleCacheFresh /\ FillsFresh

(* The seeded roles satisfy the invariant. *)
LEMMA RolesInvInit == RolesInit => RolesInv
<1> SUFFICES ASSUME RolesInit PROVE RolesInv
  OBVIOUS
<1> USE DEF RolesInit
<1>1. RolesTyped
  BY DEF RolesTyped, RoleRequest, NoRoleReq
<1>2. RoleReqsSound /\ IdsFresh
  BY DEF RoleReqsSound, RoleReqSound, IdsFresh, NoRoleReq
<1>3. UnreadUncached /\ RoleCacheFresh /\ FillsFresh
  BY DEF UnreadUncached, RoleCacheFresh, FillsFresh
<1>4. AssignableIsNarrow
  BY DEF AssignableIsNarrow, Exists
<1> QED
  BY <1>1, <1>2, <1>3, <1>4 DEF RolesInv

(* A request that has read its role and made a sound decision. *)
LEMMA StartRoleReqInv ==
    ASSUME RolesInv, NEW q \in RoleReqs, NEW x \in RoleRequest,
           roleReq[q].pc = "idle", roleReq' = [roleReq EXCEPT ![q] = x],
           UNCHANGED <<role, roleCache, roleFill, skewed>>,
           x.id \in RoleIds, x.pc \in {"name", "write"}, x.seen = role[x.id],
           DecisionSound(x), x.op = "create" => FreshRole(x.id)
    PROVE  RolesInv'
<1> USE DEF RolesInv
<1>3. RolesTyped'
  BY DEF RolesTyped
<1>4. roleReq'[q] = x /\ \A p \in RoleReqs \ {q} : roleReq'[p] = roleReq[p]
  BY DEF RolesTyped
<1>5. RoleReqSound(q)'
  BY <1>4 DEF RoleReqSound, DecisionSound, ScopeAllowed, Given, NoRoleReq, FreshRole
<1>6. \A p \in RoleReqs \ {q} : RoleReqSound(p)'
  BY <1>4 DEF RoleReqsSound, RoleReqSound, DecisionSound, ScopeAllowed, Given
<1>7. IdsFresh'
  BY <1>4 DEF IdsFresh, FreshRole
<1>8. UnreadUncached' /\ AssignableIsNarrow'
  BY DEF UnreadUncached, AssignableIsNarrow, Exists
<1>9. RoleCacheFresh' /\ FillsFresh'
  BY <1>4 DEF RoleCacheFresh, FillsFresh, Rights, Exists
<1> QED
  BY <1>3, <1>4, <1>5, <1>6, <1>7, <1>8, <1>9 DEF RoleReqsSound

(* Every operation on a role decides on the row it reads. *)
LEMMA RoleRequestsStart ==
    ASSUME RolesInv, NEW q \in RoleReqs, NEW r \in RoleIds,
           \/ \E d \in RoleDtos : CreateRole(q, r, d) \/ UpdateRole(q, r, d)
           \/ DeleteRole(q, r)
           \/ \E C \in (SUBSET Capabilities) \ {{}} : AddCapabilities(q, r, C) \/ RemoveCapabilities(q, r, C)
           \/ \E w \in BOOLEAN : SetScope(q, r, w)
    PROVE  RolesInv'
<1>0. role[r] \in {Unset, Deleted} \cup RoleRow /\ (Exists(r) => role[r] \in RoleRow)
  BY DEF RolesInv, RolesTyped, Exists
<1>1. ASSUME NEW d \in RoleDtos, CreateRole(q, r, d) PROVE RolesInv'
  <2> DEFINE x == [op |-> "create", pc |-> "write", id |-> r, arg |-> d,
                   seen |-> role[r], overtaken |-> FALSE]
  <2>1. /\ roleReq[q].pc = "idle" /\ roleReq' = [roleReq EXCEPT ![q] = x]
        /\ UNCHANGED <<role, roleCache, roleFill, skewed>>
    BY <1>1 DEF CreateRole, StartRoleReq
  <2>2. x \in RoleRequest /\ x.pc \in {"name", "write"} /\ x.id \in RoleIds /\ x.seen = role[x.id]
    BY <1>0 DEF RoleRequest
  <2>3. DecisionSound(x) /\ (x.op = "create" => FreshRole(x.id))
    BY <1>0, <1>1 DEF CreateRole, DecisionSound
  <2> HIDE DEF x
  <2> QED
    BY <2>1, <2>2, <2>3, StartRoleReqInv
<1>2. ASSUME NEW d \in RoleDtos, UpdateRole(q, r, d) PROVE RolesInv'
  <2>0. PICK pc \in {"name", "write"} : StartRoleReq(q, "update", r, d, pc)
    BY <1>2 DEF UpdateRole
  <2> DEFINE x == [op |-> "update", pc |-> pc, id |-> r, arg |-> d,
                   seen |-> role[r], overtaken |-> FALSE]
  <2>1. /\ roleReq[q].pc = "idle" /\ roleReq' = [roleReq EXCEPT ![q] = x]
        /\ UNCHANGED <<role, roleCache, roleFill, skewed>>
    BY <2>0 DEF UpdateRole, StartRoleReq
  <2>2. x \in RoleRequest /\ x.pc \in {"name", "write"} /\ x.id \in RoleIds /\ x.seen = role[x.id]
    BY <1>0 DEF RoleRequest
  <2>3. DecisionSound(x) /\ (x.op = "create" => FreshRole(x.id))
    BY <1>0, <1>2 DEF UpdateRole, DecisionSound
  <2> HIDE DEF x
  <2> QED
    BY <2>1, <2>2, <2>3, StartRoleReqInv
<1>3. ASSUME DeleteRole(q, r) PROVE RolesInv'
  <2> DEFINE x == [op |-> "delete", pc |-> "write", id |-> r, arg |-> Unset,
                   seen |-> role[r], overtaken |-> FALSE]
  <2>1. /\ roleReq[q].pc = "idle" /\ roleReq' = [roleReq EXCEPT ![q] = x]
        /\ UNCHANGED <<role, roleCache, roleFill, skewed>>
    BY <1>3 DEF DeleteRole, StartRoleReq
  <2>2. x \in RoleRequest /\ x.pc \in {"name", "write"} /\ x.id \in RoleIds /\ x.seen = role[x.id]
    BY <1>0 DEF RoleRequest
  <2>3. DecisionSound(x) /\ (x.op = "create" => FreshRole(x.id))
    BY <1>0, <1>3 DEF DeleteRole, DecisionSound
  <2> HIDE DEF x
  <2> QED
    BY <2>1, <2>2, <2>3, StartRoleReqInv
<1>4. ASSUME NEW C \in SUBSET Capabilities, AddCapabilities(q, r, C) PROVE RolesInv'
  <2> DEFINE x == [op |-> "add", pc |-> "write", id |-> r, arg |-> C,
                   seen |-> role[r], overtaken |-> FALSE]
  <2>1. /\ roleReq[q].pc = "idle" /\ roleReq' = [roleReq EXCEPT ![q] = x]
        /\ UNCHANGED <<role, roleCache, roleFill, skewed>>
    BY <1>4 DEF AddCapabilities, StartRoleReq
  <2>2. x \in RoleRequest /\ x.pc \in {"name", "write"} /\ x.id \in RoleIds /\ x.seen = role[x.id]
    BY <1>0 DEF RoleRequest
  <2>3. DecisionSound(x) /\ (x.op = "create" => FreshRole(x.id))
    BY <1>0, <1>4 DEF AddCapabilities, DecisionSound
  <2> HIDE DEF x
  <2> QED
    BY <2>1, <2>2, <2>3, StartRoleReqInv
<1>5. ASSUME NEW C \in SUBSET Capabilities, RemoveCapabilities(q, r, C) PROVE RolesInv'
  <2> DEFINE x == [op |-> "remove", pc |-> "write", id |-> r, arg |-> C,
                   seen |-> role[r], overtaken |-> FALSE]
  <2>1. /\ roleReq[q].pc = "idle" /\ roleReq' = [roleReq EXCEPT ![q] = x]
        /\ UNCHANGED <<role, roleCache, roleFill, skewed>>
    BY <1>5 DEF RemoveCapabilities, StartRoleReq
  <2>2. x \in RoleRequest /\ x.pc \in {"name", "write"} /\ x.id \in RoleIds /\ x.seen = role[x.id]
    BY <1>0 DEF RoleRequest
  <2>3. DecisionSound(x) /\ (x.op = "create" => FreshRole(x.id))
    BY <1>0, <1>5 DEF RemoveCapabilities, DecisionSound
  <2> HIDE DEF x
  <2> QED
    BY <2>1, <2>2, <2>3, StartRoleReqInv
<1>6. ASSUME NEW w \in BOOLEAN, SetScope(q, r, w) PROVE RolesInv'
  <2> DEFINE x == [op |-> "scope", pc |-> "write", id |-> r, arg |-> w,
                   seen |-> role[r], overtaken |-> FALSE]
  <2>1. /\ roleReq[q].pc = "idle" /\ roleReq' = [roleReq EXCEPT ![q] = x]
        /\ UNCHANGED <<role, roleCache, roleFill, skewed>>
    BY <1>6 DEF SetScope, StartRoleReq
  <2>2. x \in RoleRequest /\ x.pc \in {"name", "write"} /\ x.id \in RoleIds /\ x.seen = role[x.id]
    BY <1>0 DEF RoleRequest
  <2>3. DecisionSound(x) /\ (x.op = "create" => FreshRole(x.id))
    BY <1>0, <1>6 DEF SetScope, DecisionSound
  <2> HIDE DEF x
  <2> QED
    BY <2>1, <2>2, <2>3, StartRoleReqInv
<1> QED
  BY <1>1, <1>2, <1>3, <1>4, <1>5, <1>6

(* A row put together from its columns is a row. *)
LEMMA RoleRowMade ==
    ASSUME NEW n \in RoleNames, NEW w \in BOOLEAN, NEW a \in BOOLEAN, NEW C \in SUBSET Capabilities
    PROVE  [name |-> n, wide |-> w, assignable |-> a, capabilities |-> C, system |-> FALSE] \in RoleRow
BY DEF RoleRow

(* The row a request writes: a wide role that clients can assign comes     *)
(* only from one that was so already, or from a request that was overtaken. *)
LEMMA WrittenSound ==
    ASSUME RolesInv, NEW q \in RoleReqs, roleReq[q].pc = "write", Writable(q), roleReq[q].op # "delete"
    PROVE  /\ Written(q) \in RoleRow
           /\ Written(q).assignable /\ Written(q).wide =>
                 roleReq[q].overtaken \/ (/\ Exists(roleReq[q].id)
                                         /\ role[roleReq[q].id].assignable /\ role[roleReq[q].id].wide)
<1> DEFINE x == roleReq[q]
           d == x.arg
           old == role[x.id]
<1>1. x \in RoleRequest /\ x.id \in RoleIds /\ DecisionSound(x) /\ (~x.overtaken => x.seen = old)
  BY DEF RolesInv, RolesTyped, RoleReqsSound, RoleReqSound
<1>2. x.op # "create" => Exists(x.id) /\ old \in RoleRow
  BY <1>1 DEF Writable, RolesInv, RolesTyped, Exists, DecisionSound
<1>3. CASE x.op = "create"
  <2>1. d \in RoleDto /\ d.name # Unset /\ ~(d.assignable = TRUE /\ d.wide = TRUE)
    BY <1>1, <1>3 DEF DecisionSound, ScopeAllowed
  <2>2. Written(q) = [name |-> d.name, wide |-> Given(d.wide, FALSE), assignable |-> Given(d.assignable, FALSE),
               capabilities |-> Given(d.capabilities, {}), system |-> FALSE]
    BY <1>3 DEF Written
  <2> QED
    <3>0. /\ Given(d.wide, FALSE) \in BOOLEAN /\ Given(d.assignable, FALSE) \in BOOLEAN
          /\ Given(d.capabilities, {}) \in SUBSET Capabilities /\ d.name \in RoleNames
      BY <2>1 DEF Given, RoleDto
    <3>1. Written(q) \in RoleRow
      BY <2>2, <3>0, RoleRowMade
    <3>2. Written(q).assignable = Given(d.assignable, FALSE) /\ Written(q).wide = Given(d.wide, FALSE)
      BY <2>2
    <3>3. ~(Given(d.assignable, FALSE) = TRUE /\ Given(d.wide, FALSE) = TRUE)
      BY <2>1 DEF Given
    <3>4. Written(q).assignable \in BOOLEAN /\ Written(q).wide \in BOOLEAN
      BY <3>1 DEF RoleRow
    <3> QED
      BY <3>1, <3>2, <3>3, <3>4
<1>4. CASE x.op = "update"
  <2>1. d \in RoleDto /\ old \in RoleRow
    BY <1>1, <1>2, <1>4 DEF DecisionSound
  <2>2. Written(q) = [name |-> Given(d.name, old.name), wide |-> Given(d.wide, old.wide),
               assignable |-> Given(d.assignable, old.assignable),
               capabilities |-> Given(d.capabilities, old.capabilities), system |-> old.system]
    BY <1>4 DEF Written
  <2>3. x.overtaken \/ ~(Given(d.assignable, old.assignable) /\ Given(d.wide, old.wide))
    BY <1>1, <1>4 DEF DecisionSound, ScopeAllowed
  <2> QED
    BY <2>1, <2>2, <2>3 DEF Given, RoleDto, RoleRow
<1>5. CASE x.op \in {"add", "remove"}
  <2>1. PICK C \in SUBSET Capabilities : Written(q) = [old EXCEPT !.capabilities = C]
    <3>1. x.seen.capabilities \in SUBSET Capabilities /\ d \in SUBSET Capabilities
      BY <1>1, <1>5 DEF DecisionSound, RoleRow
    <3> QED
      BY <1>5, <3>1 DEF Written, CapabilitiesAdded
  <2> QED
    BY <1>2, <1>5, <2>1 DEF RoleRow
<1>6. CASE x.op = "scope"
  <2>1. Written(q) = [old EXCEPT !.wide = d] /\ d \in BOOLEAN
    BY <1>1, <1>6 DEF Written, DecisionSound
  <2>2. x.overtaken \/ ~(old.assignable /\ d)
    BY <1>1, <1>6 DEF DecisionSound, ScopeAllowed
  <2> QED
    BY <1>2, <1>6, <2>1, <2>2 DEF RoleRow
<1> QED
  BY <1>1, <1>3, <1>4, <1>5, <1>6 DEF DecisionSound

(* A request that has ended, or whose cached values are cleared. *)
LEMMA RoleReqEnds ==
    ASSUME RolesInv, NEW q \in RoleReqs, UNCHANGED <<role, roleFill, skewed>>,
           roleReq' = [roleReq EXCEPT ![q] = NoRoleReq],
           \/ roleReq[q].pc # "clear" /\ roleCache' = roleCache
           \/ roleReq[q].pc = "clear" /\ roleCache' = [roleCache EXCEPT ![roleReq[q].id] = Unset]
    PROVE  RolesInv'
<1> USE DEF RolesInv
<1>1. NoRoleReq \in RoleRequest
  BY DEF NoRoleReq, RoleRequest
<1>2. roleReq'[q] = NoRoleReq /\ \A p \in RoleReqs \ {q} : roleReq'[p] = roleReq[p]
  BY DEF RolesTyped
<1>3. RolesTyped'
  BY <1>1 DEF RolesTyped
<1>4. RoleReqSound(q)'
  BY <1>2 DEF RoleReqSound, NoRoleReq
<1>5. \A p \in RoleReqs \ {q} : RoleReqSound(p)'
  BY <1>2 DEF RoleReqsSound, RoleReqSound, DecisionSound, ScopeAllowed, Given
<1>6. IdsFresh'
  BY <1>2 DEF IdsFresh, NoRoleReq
<1>7. UnreadUncached' /\ AssignableIsNarrow'
  BY DEF UnreadUncached, AssignableIsNarrow, Exists, RolesTyped
<1>8. RoleCacheFresh' /\ FillsFresh'
  BY <1>2 DEF RoleCacheFresh, FillsFresh, Rights, Exists, RolesTyped
<1> QED
  BY <1>2, <1>3, <1>4, <1>5, <1>6, <1>7, <1>8 DEF RoleReqsSound

(* The write of a request overtakes those that have read the same role. *)
LEMMA WriteRoleInv ==
    ASSUME RolesInv, NEW q \in RoleReqs, WriteRole(q)
    PROVE  RolesInv'
<1> USE DEF RolesInv
<1> DEFINE x == roleReq[q]
           r == x.id
           new == IF x.op = "delete" THEN Deleted ELSE Written(q)
<1>1. /\ x \in RoleRequest /\ r \in RoleIds /\ DecisionSound(x) /\ x.pc = "write" /\ Writable(q)
      /\ RoleReqSound(q)
  BY DEF WriteRole, RolesTyped, RoleReqsSound, RoleReqSound
<1>2. /\ role' = [role EXCEPT ![r] = new]
      /\ new \in {Deleted} \cup RoleRow /\ (new = Deleted \/ (new = Written(q) /\ x.op # "delete"))
      /\ skewed' = IF x.overtaken THEN skewed \cup {r} ELSE skewed
      /\ roleCache' = roleCache
      /\ roleFill' = IF roleFill[r] = Unset THEN roleFill ELSE [roleFill EXCEPT ![r].late = TRUE]
  BY <1>1, WrittenSound DEF WriteRole
<1>12. /\ roleFill' \in [RoleIds -> {Unset} \cup CachedRole]
       /\ roleFill[r] = Unset => roleFill'[r] = Unset
       /\ roleFill'[r] = Unset \/ roleFill'[r].late
       /\ \A s \in RoleIds \ {r} : roleFill'[s] = roleFill[s]
  BY <1>1, <1>2 DEF RolesTyped, CachedRole
<1>3. /\ roleReq' \in [RoleReqs -> RoleRequest]
      /\ roleReq'[q] = IF x.op = "create" THEN NoRoleReq ELSE [x EXCEPT !.pc = "clear"]
      /\ \A p \in RoleReqs \ {q} :
            \/ roleReq'[p] = roleReq[p] /\ ~(roleReq[p].id = r /\ roleReq[p].pc \in {"name", "write"})
            \/ roleReq'[p] = [roleReq[p] EXCEPT !.overtaken = TRUE] /\ roleReq[p].pc \in {"name", "write"}
  <2>1. Overtake(roleReq, q) \in [RoleReqs -> RoleRequest]
    BY DEF Overtake, RolesTyped, RoleRequest
  <2>2. NoRoleReq \in RoleRequest /\ [x EXCEPT !.pc = "clear"] \in RoleRequest
    BY <1>1 DEF NoRoleReq, RoleRequest
  <2>3. Overtake(roleReq, q)[q] = x
    BY DEF Overtake
  <2>4. roleReq' = [Overtake(roleReq, q) EXCEPT ![q] =
                       IF x.op = "create" THEN NoRoleReq ELSE [x EXCEPT !.pc = "clear"]]
    BY <2>3 DEF WriteRole
  <2> QED
    BY <2>1, <2>2, <2>4 DEF Overtake
<1>4. RolesTyped'
  BY <1>1, <1>2, <1>3, <1>12 DEF RolesTyped
<1>5. x.op # "create" => Exists(r)
  BY <1>1 DEF Writable, DecisionSound
<1>6. RoleReqSound(q)'
  <2>1. CASE x.op = "create"
    BY <1>3, <2>1 DEF RoleReqSound, NoRoleReq
  <2>2. CASE x.op # "create"
    BY <1>1, <1>3, <2>2 DEF RoleReqSound, RoleRequest, NoRoleReq
  <2> QED
    BY <2>1, <2>2
<1>7. ASSUME NEW p \in RoleReqs \ {q} PROVE RoleReqSound(p)'
  <2> DEFINE y == roleReq[p]
  <2>1. y \in RoleRequest /\ RoleReqSound(p)
    BY DEF RolesTyped, RoleReqsSound
  <2>2. y.op = "create" => role'[y.id] = Unset
    BY <1>1, <1>2, <1>5, <2>1 DEF RoleReqSound, IdsFresh, Exists, RolesTyped
  <2>3. CASE roleReq'[p] = y /\ ~(y.id = r /\ y.pc \in {"name", "write"})
    <3>1. y.pc \in {"name", "write"} => role'[y.id] = role[y.id]
      BY <1>1, <1>2, <2>1, <2>3 DEF RoleReqSound, RolesTyped
    <3> QED
      BY <2>1, <2>2, <2>3, <3>1 DEF RoleReqSound, DecisionSound, ScopeAllowed, Given
  <2>4. CASE roleReq'[p] = [y EXCEPT !.overtaken = TRUE] /\ y.pc \in {"name", "write"}
    BY <2>1, <2>2, <2>4 DEF RoleReqSound, RoleRequest, DecisionSound, ScopeAllowed, Given, NoRoleReq
  <2> QED
    BY <1>3, <2>3, <2>4
<1>8. IdsFresh'
  <2>1. \A p \in RoleReqs : roleReq'[p].op = "create" => roleReq[p].op = "create" /\ roleReq'[p].id = roleReq[p].id
    BY <1>1, <1>3 DEF RolesTyped, RoleRequest, NoRoleReq
  <2> QED
    BY <2>1 DEF IdsFresh
<1>9. UnreadUncached'
  <2>1. role'[r] # Unset
    BY <1>1, <1>2 DEF RolesTyped
  <2> QED
    BY <1>1, <1>2, <1>12, <2>1 DEF UnreadUncached, RolesTyped
<1>10. AssignableIsNarrow'
  <2>1. ASSUME NEW s \in RoleIds, Exists(s)', role'[s].assignable, role'[s].wide
        PROVE  s \in skewed'
    <3>1. CASE s # r
      BY <1>1, <1>2, <2>1, <3>1 DEF AssignableIsNarrow, Exists, RolesTyped
    <3>2. CASE s = r
      <4>1. role'[s] = new /\ new = Written(q) /\ x.op # "delete"
        BY <1>1, <1>2, <2>1, <3>2 DEF Exists, RolesTyped
      <4>2. x.overtaken \/ (Exists(r) /\ role[r].assignable /\ role[r].wide)
        BY <1>1, <2>1, <4>1, WrittenSound
      <4> QED
        BY <1>1, <1>2, <3>2, <4>2 DEF AssignableIsNarrow
    <3> QED
      BY <3>1, <3>2
  <2> QED
    BY <2>1 DEF AssignableIsNarrow
<1>11. RoleCacheFresh'
  <2>1. ASSUME NEW s \in RoleIds
        PROVE  \/ roleCache'[s] = Unset \/ roleCache'[s].late \/ roleCache'[s].rights = Rights(s)'
               \/ \E p \in RoleReqs : roleReq'[p].pc = "clear" /\ roleReq'[p].id = s
    <3>1. CASE s = r /\ x.op = "create"
      BY <1>1, <1>2, <3>1 DEF UnreadUncached, RoleReqSound
    <3>2. CASE s = r /\ x.op # "create"
      BY <1>1, <1>3, <3>2 DEF RoleRequest
    <3>3. CASE s # r
      <4>1. Rights(s)' = Rights(s)
        BY <1>1, <1>2, <3>3 DEF Rights, Exists, RolesTyped
      <4>2. \A p \in RoleReqs : roleReq[p].pc = "clear" =>
               roleReq'[p].pc = "clear" /\ roleReq'[p].id = roleReq[p].id
        BY <1>1, <1>3
      <4> QED
        BY <1>2, <4>1, <4>2 DEF RoleCacheFresh
    <3> QED
      BY <3>1, <3>2, <3>3
  <2> QED
    BY <2>1 DEF RoleCacheFresh
<1>13. FillsFresh'
  <2>1. ASSUME NEW s \in RoleIds, s # r
        PROVE  Rights(s)' = Rights(s)
    BY <1>1, <1>2, <2>1 DEF Rights, Exists, RolesTyped
  <2> QED
    BY <1>12, <2>1 DEF FillsFresh
<1> QED
  BY <1>4, <1>6, <1>7, <1>8, <1>9, <1>10, <1>11, <1>13 DEF RoleReqsSound

(* Every step of every request, and of the readers and users of roles,     *)
(* keeps the invariant.                                                    *)
LEMMA RolesInvNext == RolesInv /\ [RolesNext]_rolesVars => RolesInv'
<1> SUFFICES ASSUME RolesInv, [RolesNext]_rolesVars PROVE RolesInv'
  OBVIOUS
<1>1. ASSUME NEW q \in RoleReqs, UpdateRoleName(q) PROVE RolesInv'
  <2> DEFINE x == roleReq[q]
             y == [x EXCEPT !.pc = "write"]
  <2>1. x \in RoleRequest /\ x.pc = "name" /\ RoleReqSound(q) /\ UNCHANGED <<role, roleCache, roleFill, skewed>>
    BY <1>1 DEF UpdateRoleName, RolesInv, RolesTyped, RoleReqsSound
  <2>2. CASE roleReq' = [roleReq EXCEPT ![q] = NoRoleReq]
    BY <2>1, <2>2, RoleReqEnds
  <2>3. CASE roleReq' = [roleReq EXCEPT ![q] = y]
    <3> USE DEF RolesInv
    <3>1. roleReq'[q] = y /\ \A p \in RoleReqs \ {q} : roleReq'[p] = roleReq[p]
      BY <2>3 DEF RolesTyped
    <3>2. y \in RoleRequest /\ y.pc = "write" /\ y.op = x.op /\ y.id = x.id /\ y.arg = x.arg
          /\ y.seen = x.seen /\ y.overtaken = x.overtaken
      BY <2>1 DEF RoleRequest
    <3>3. RolesTyped'
      BY <2>1, <2>3, <3>2 DEF RolesTyped
    <3>4. RoleReqSound(q)'
      <4> HIDE DEF y
      <4> QED
        BY <2>1, <3>1, <3>2 DEF RoleReqSound, DecisionSound, ScopeAllowed, Given, NoRoleReq
    <3>5. \A p \in RoleReqs \ {q} : RoleReqSound(p)'
      BY <2>1, <3>1 DEF RoleReqsSound, RoleReqSound, DecisionSound, ScopeAllowed, Given
    <3>6. IdsFresh'
      <4>1. \A p \in RoleReqs : roleReq'[p].op = roleReq[p].op /\ roleReq'[p].id = roleReq[p].id
        BY <3>1, <3>2
      <4> QED
        BY <4>1 DEF IdsFresh
    <3>8. UnreadUncached' /\ AssignableIsNarrow'
      BY <2>1 DEF UnreadUncached, AssignableIsNarrow, Exists
    <3>7. RoleCacheFresh' /\ FillsFresh'
      BY <2>1, <3>1, <3>2 DEF RoleCacheFresh, FillsFresh, Rights, Exists
    <3> QED
      BY <3>3, <3>4, <3>5, <3>6, <3>7, <3>8 DEF RoleReqsSound
  <2> QED
    BY <1>1, <2>2, <2>3 DEF UpdateRoleName
<1>2. ASSUME NEW q \in RoleReqs, WriteRole(q) PROVE RolesInv'
  BY <1>2, WriteRoleInv
<1>3. ASSUME NEW q \in RoleReqs, WriteRoleFails(q) PROVE RolesInv'
  BY <1>3, RoleReqEnds DEF WriteRoleFails
<1>4. ASSUME NEW q \in RoleReqs, InvalidateRoleCache(q) PROVE RolesInv'
  BY <1>4, RoleReqEnds DEF InvalidateRoleCache
<1>5. ASSUME NEW r \in RoleIds, ReadRole(r) \/ CacheRole(r) \/ ExpireRole(r) PROVE RolesInv'
  <2>1. UNCHANGED <<role, roleReq, skewed>>
    BY <1>5 DEF ReadRole, CacheRole, ExpireRole
  <2>2. Rights(r) \in RoleRights
    BY DEF Rights, Exists, RoleRights, RoleRow, RolesInv, RolesTyped
  <2>3. RolesTyped' /\ UnreadUncached'
    <3>1. CASE ReadRole(r)
      BY <2>1, <2>2, <3>1 DEF RolesInv, RolesTyped, UnreadUncached, ReadRole, CachedRole
    <3>2. CASE CacheRole(r)
      BY <2>1, <3>2 DEF RolesInv, RolesTyped, UnreadUncached, CacheRole
    <3>3. CASE ExpireRole(r)
      BY <2>1, <3>3 DEF RolesInv, RolesTyped, UnreadUncached, ExpireRole
    <3> QED
      BY <1>5, <3>1, <3>2, <3>3
  <2>4. RoleReqsSound' /\ AssignableIsNarrow' /\ IdsFresh'
    BY <2>1 DEF RolesInv, RoleReqsSound, RoleReqSound, DecisionSound, ScopeAllowed, Given,
                AssignableIsNarrow, Exists, IdsFresh
  <2>5. \A s \in RoleIds : Rights(s)' = Rights(s)
    BY <2>1 DEF Rights, Exists
  <2>6. RoleCacheFresh' /\ FillsFresh'
    <3>1. CASE ReadRole(r)
      BY <2>1, <2>5, <3>1 DEF RolesInv, RolesTyped, RoleCacheFresh, FillsFresh, ReadRole
    <3>2. CASE CacheRole(r)
      BY <2>1, <2>5, <3>2 DEF RolesInv, RolesTyped, RoleCacheFresh, FillsFresh, CacheRole
    <3>3. CASE ExpireRole(r)
      BY <2>1, <2>5, <3>3 DEF RolesInv, RolesTyped, RoleCacheFresh, FillsFresh, ExpireRole
    <3> QED
      BY <1>5, <3>1, <3>2, <3>3
  <2> QED
    BY <2>3, <2>4, <2>6 DEF RolesInv
<1>6. ASSUME UNCHANGED <<role, roleReq, roleCache, roleFill, skewed>> PROVE RolesInv'
  BY <1>6 DEF RolesInv, RolesTyped, RoleReqsSound, RoleReqSound, DecisionSound, ScopeAllowed, Given,
              IdsFresh, UnreadUncached, AssignableIsNarrow, RoleCacheFresh, FillsFresh, Rights, Exists
<1>7. ASSUME NEW r \in RoleIds, GetGrant(r) \/ ExpireGrant(r) \/ AssignRole(r) \/ InviteForRole(r)
      PROVE  RolesInv'
  BY <1>6, <1>7 DEF GetGrant, ExpireGrant, AssignRole, InviteForRole
<1>8. CASE UNCHANGED rolesVars
  BY <1>6, <1>8 DEF rolesVars
<1> QED
  BY <1>1, <1>2, <1>3, <1>4, <1>5, <1>7, <1>8, RoleRequestsStart DEF RolesNext, RoleStep

(* Requests that overlap on a role: the invariant of their decisions holds *)
(* at every moment.                                                        *)
THEOREM RolesInvariant == RolesSpec => []RolesInv
BY RolesInvInit, RolesInvNext, PTL DEF RolesSpec

(* A request that changes capabilities and was not overtaken changes those *)
(* it was asked to, and no others.                                         *)
LEMMA CapabilitiesStep ==
    ASSUME RolesInv, [RolesNext]_rolesVars, NEW q \in RoleReqs,
           roleReq[q].pc = "write", roleReq'[q].pc = "clear", ~roleReq[q].overtaken
    PROVE  LET r == roleReq[q].id
               gone == role[r].capabilities \ role'[r].capabilities
               new == role'[r].capabilities \ role[r].capabilities
           IN /\ roleReq[q].op = "add" => gone = {} /\ new \subseteq roleReq[q].arg
              /\ roleReq[q].op = "remove" => new = {} /\ gone \subseteq roleReq[q].arg
<1> DEFINE x == roleReq[q]
<1>1. WriteRole(q)
  <2>1. ASSUME NEW p \in RoleReqs, WriteRole(p), p # q PROVE roleReq'[q].pc = "write"
    BY <2>1 DEF WriteRole, Overtake, RolesInv, RolesTyped, RoleRequest
  <2>2. ASSUME NEW p \in RoleReqs, p # q, UpdateRoleName(p) \/ WriteRoleFails(p) \/ InvalidateRoleCache(p)
        PROVE  roleReq'[q].pc = "write"
    BY <2>2 DEF UpdateRoleName, WriteRoleFails, InvalidateRoleCache, RolesInv, RolesTyped
  <2>3. ~(UpdateRoleName(q) \/ WriteRoleFails(q) \/ InvalidateRoleCache(q))
    BY DEF UpdateRoleName, WriteRoleFails, InvalidateRoleCache, RolesInv, RolesTyped, NoRoleReq
  <2>4. ASSUME NEW p \in RoleReqs, NEW op, NEW s, NEW arg, NEW pc, pc \in {"name", "write"},
               StartRoleReq(p, op, s, arg, pc)
        PROVE  roleReq'[q].pc # "clear"
    BY <2>4 DEF StartRoleReq, RolesInv, RolesTyped
  <2>5. ASSUME roleReq' = roleReq PROVE FALSE
    BY <2>5
  <2> QED
    BY <2>1, <2>2, <2>3, <2>4, <2>5
    DEF RolesNext, RoleStep, rolesVars, CreateRole, UpdateRole, DeleteRole, AddCapabilities, RemoveCapabilities,
        SetScope, ReadRole, CacheRole, ExpireRole, GetGrant, ExpireGrant, AssignRole, InviteForRole
<1>2. x \in RoleRequest /\ x.id \in RoleIds /\ DecisionSound(x) /\ x.seen = role[x.id]
  BY DEF RolesInv, RolesTyped, RoleReqsSound, RoleReqSound
<1>3. x.op \in {"add", "remove"} => /\ role[x.id] \in RoleRow /\ x.arg \in SUBSET Capabilities
                                   /\ role'[x.id] = Written(q)
  BY <1>1, <1>2 DEF WriteRole, DecisionSound, RolesInv, RolesTyped
<1>4. CASE x.op = "add"
  <2>1. Written(q).capabilities = role[x.id].capabilities \cup x.arg
    BY <1>2, <1>3, <1>4 DEF Written, CapabilitiesAdded, RoleRow
  <2> QED
    BY <1>3, <1>4, <2>1
<1>5. CASE x.op = "remove"
  <2>1. Written(q).capabilities = role[x.id].capabilities \ x.arg
    BY <1>2, <1>3, <1>5 DEF Written, RoleRow
  <2> QED
    BY <1>3, <1>5, <2>1
<1> QED
  BY <1>4, <1>5

(* Whatever requests on roles overlap: a role that clients can assign is   *)
(* not wide unless an overtaken request wrote it, the cached rights are    *)
(* those of the row but during a write, and capabilities change as asked   *)
(* (RolesService).                                                         *)
THEOREM RolesStaySound == RolesSpec => RolesSound
<1>1. RolesInv => AssignableIsNarrow /\ RoleCacheFresh
  BY DEF RolesInv
<1>2. RolesInv /\ [RolesNext]_rolesVars =>
        [\A q \in RoleReqs :
           LET r == roleReq[q].id
               gone == role[r].capabilities \ role'[r].capabilities
               new == role'[r].capabilities \ role[r].capabilities
           IN (roleReq[q].pc = "write" /\ roleReq'[q].pc = "clear" /\ ~roleReq[q].overtaken) =>
                 /\ roleReq[q].op = "add" => gone = {} /\ new \subseteq roleReq[q].arg
                 /\ roleReq[q].op = "remove" => new = {} /\ gone \subseteq roleReq[q].arg]_rolesVars
  BY CapabilitiesStep
<1> QED
  BY <1>1, <1>2, RolesInvariant, PTL DEF RolesSpec, RolesSound, CapabilitiesAsAsked
-----------------------------------------------------------------------------
(* People *)

USE PeopleAssumption

KcUsers == [name : PersonNames, enabled : BOOLEAN]
Hooks == [n : Nat, name : PersonNames, enabled : BOOLEAN]
EditTypes == [pc : {"idle", "write", "keycloak", "commit"}, body : {Absent} \cup Edits,
              seen : {Absent} \cup PersonRows, current : BOOLEAN]
LoginTypes == [pc : {"idle", "cache"}, row : {Absent} \cup PersonRows]
SyncTypes == [pc : {"due", "upsert", "done"}, name : {Absent} \cup PersonNames]

PeopleTyped ==
    /\ kc \in KcUsers
    /\ person \in {Absent} \cup PersonRows /\ personCache \in {Absent} \cup PersonRows
    /\ tokens \in SUBSET PersonNames /\ hooks \in SUBSET Hooks
    /\ sent \in Nat /\ handled \in Nat
    /\ edit \in [Editors -> EditTypes]
    /\ login \in [Logins -> LoginTypes]
    /\ sync \in SyncTypes

(* The row that is read for an update stays, and an update is current      *)
(* while Keycloak is as its row says.                                      *)
EditsSound ==
    \A e \in Editors :
       /\ edit[e].pc # "idle" => /\ edit[e].body \in Edits /\ edit[e].seen \in PersonRows
                                 /\ person # Absent
       /\ edit[e].pc # "idle" /\ edit[e].current => edit[e].seen = PersonRow(kc.name, kc.enabled)
       /\ edit[e].pc = "commit" => handled < sent
FillsSound == /\ \A l \in Logins : login[l].pc = "cache" => login[l].row \in PersonRows
              /\ sync.pc = "upsert" => sync.name \in PersonNames

(* Keycloak is as its last webhook says, and before the first as it was.   *)
HooksSound ==
    /\ handled <= sent
    /\ \A h \in hooks : h.n <= sent /\ (h.n = sent => h.enabled = kc.enabled)
    /\ sent = 0 /\ tokens # {} => kc.enabled
    /\ person = Absent => handled = 0

(* As long as nothing happened that sets them apart, the last webhook is   *)
(* on its way, or it was handled and the row is as it said.                *)
RowFollows ==
    doubts = {} => /\ handled = sent \/ \E h \in hooks : h.n = sent
                   /\ handled = sent /\ person # Absent => person.active = kc.enabled

PeopleInv == PeopleTyped /\ EditsSound /\ FillsSound /\ HooksSound /\ RowFollows

(* Before any change the row is absent and nothing is on its way. *)
LEMMA PeopleInvInit == PeopleInit => PeopleInv
<1> SUFFICES ASSUME PeopleInit PROVE PeopleInv
  OBVIOUS
<1> USE DEF PeopleInit, NoEdit, NoLogin
<1>1. PeopleTyped
  BY DEF PeopleTyped, KcUsers, Hooks, EditTypes, LoginTypes, SyncTypes
<1>2. EditsSound /\ FillsSound
  BY DEF EditsSound, FillsSound
<1>3. HooksSound /\ RowFollows
  BY DEF HooksSound, RowFollows
<1> QED
  BY <1>1, <1>2, <1>3 DEF PeopleInv

(* A change of Keycloak that sends a webhook: updates under way are no     *)
(* longer current, and the row follows once the webhook is handled.        *)
LEMMA NotifyInv ==
    ASSUME PeopleInv, NEW u \in KcUsers, Notify(u),
           UNCHANGED <<person, personCache, tokens, handled, login, sync, doubts>>,
           edit' \in [Editors -> EditTypes],
           \A e \in Editors : /\ edit'[e].current = FALSE
                              /\ edit'[e].pc # "idle" => /\ edit[e].pc # "idle"
                                                         /\ edit'[e].body = edit[e].body
                                                         /\ edit'[e].seen = edit[e].seen
    PROVE  PeopleInv'
<1> DEFINE h == [n |-> sent + 1, name |-> u.name, enabled |-> u.enabled]
<1> USE DEF PeopleInv
<1>1. /\ kc' = u /\ sent' = sent + 1 /\ hooks' = hooks \cup {h} /\ h \in Hooks
      /\ sent \in Nat /\ handled \in Nat /\ handled <= sent /\ \A g \in hooks : g.n \in Nat /\ g.n <= sent
  BY DEF Notify, PeopleTyped, KcUsers, Hooks, HooksSound
<1>2. PeopleTyped'
  BY <1>1 DEF PeopleTyped
<1>3. EditsSound' /\ FillsSound'
  BY <1>1 DEF EditsSound, FillsSound
<1>4. HooksSound'
  BY <1>1 DEF HooksSound
<1>5. RowFollows'
  BY <1>1 DEF RowFollows
<1> QED
  BY <1>2, <1>3, <1>4, <1>5

(* A write of the row that leaves active as it is, or creates it for a     *)
(* user who was enabled when nothing had changed.                          *)
LEMMA RowWritten ==
    ASSUME PeopleInv, NEW n \in PersonNames,
           person' = PersonRow(n, IF person = Absent THEN TRUE ELSE person.active),
           UNCHANGED <<kc, personCache, tokens, hooks, sent, handled, edit>>,
           doubts \subseteq doubts', doubts' = doubts \/ doubts' # {},
           (person = Absent /\ doubts' = {}) => tokens # {},
           login' \in [Logins -> LoginTypes], sync' \in SyncTypes, FillsSound'
    PROVE  PeopleInv'
<1> USE DEF PeopleInv
<1>1. person' \in PersonRows /\ person' # Absent
  <2>1. CASE person = Absent
    <3>1. PersonRow(n, TRUE) \in PersonRows
      BY DEF PersonRow, PersonRows
    <3> QED
      BY <2>1, <3>1
  <2>2. CASE person # Absent
    BY <2>2 DEF PersonRow, PersonRows, PeopleTyped
  <2> QED
    BY <2>1, <2>2
<1>2. PeopleTyped'
  BY <1>1 DEF PeopleTyped
<1>3. EditsSound' /\ HooksSound'
  BY <1>1 DEF EditsSound, HooksSound
<1>4. RowFollows'
  <2> SUFFICES ASSUME doubts' = {}
               PROVE  /\ handled = sent \/ \E h \in hooks : h.n = sent
                      /\ handled = sent => person'.active = kc.enabled
    BY DEF RowFollows
  <2>1. doubts = {}
    OBVIOUS
  <2>2. CASE person = Absent
    BY <2>1, <2>2 DEF RowFollows, HooksSound, PersonRow, PeopleTyped, KcUsers
  <2>3. CASE person # Absent
    BY <2>1, <2>3 DEF RowFollows, PersonRow
  <2> QED
    BY <2>2, <2>3
<1> QED
  BY <1>2, <1>3, <1>4

(* Every step of Keycloak, its webhooks, updates, requests of the user and *)
(* the sync keeps the invariant.                                           *)
LEMMA PeopleInvNext == PeopleInv /\ [PeopleNext]_peopleVars => PeopleInv'
<1> SUFFICES ASSUME PeopleInv, [PeopleNext]_peopleVars PROVE PeopleInv'
  OBVIOUS
<1>0. PeopleTyped
  BY DEF PeopleInv
<1>1. ASSUME NEW n \in PersonNames, NEW b \in BOOLEAN, ChangeInKeycloak([name |-> n, enabled |-> b])
      PROVE  PeopleInv'
  <2> DEFINE u == [name |-> n, enabled |-> b]
  <2>1. u \in KcUsers
    BY DEF KcUsers
  <2>2. /\ edit' \in [Editors -> EditTypes]
        /\ \A e \in Editors : edit'[e] = [edit[e] EXCEPT !.current = FALSE]
    BY <1>0, <1>1 DEF ChangeInKeycloak, Outdated, PeopleTyped, EditTypes
  <2>3. \A e \in Editors : /\ edit'[e].current = FALSE /\ edit'[e].pc = edit[e].pc
                           /\ edit'[e].body = edit[e].body /\ edit'[e].seen = edit[e].seen
    BY <1>0, <2>2 DEF PeopleTyped, EditTypes
  <2>4. Notify(u) /\ UNCHANGED <<person, personCache, tokens, handled, login, sync, doubts>>
    BY <1>1 DEF ChangeInKeycloak
  <2> HIDE DEF u
  <2> QED
    BY <2>1, <2>2, <2>3, <2>4, NotifyInv
<1>2. ASSUME NEW n \in PersonNames, ChangeOwnProfile(n) PROVE PeopleInv'
  <2>1. /\ kc' = [kc EXCEPT !.name = n] /\ kc' \in KcUsers /\ kc'.enabled = kc.enabled
        /\ UNCHANGED <<person, personCache, tokens, hooks, sent, handled, login, sync, doubts>>
    BY <1>0, <1>2 DEF ChangeOwnProfile, PeopleTyped, KcUsers
  <2>2. /\ edit' \in [Editors -> EditTypes]
        /\ \A e \in Editors : edit'[e] = [edit[e] EXCEPT !.current = FALSE]
    BY <1>0, <1>2 DEF ChangeOwnProfile, Outdated, PeopleTyped, EditTypes
  <2>3. \A e \in Editors : /\ edit'[e].current = FALSE /\ edit'[e].pc = edit[e].pc
                           /\ edit'[e].body = edit[e].body /\ edit'[e].seen = edit[e].seen
    BY <1>0, <2>2 DEF PeopleTyped, EditTypes
  <2>4. PeopleTyped'
    BY <1>0, <2>1, <2>2 DEF PeopleTyped
  <2> QED
    BY <2>1, <2>3, <2>4 DEF PeopleInv, EditsSound, FillsSound, HooksSound, RowFollows
<1>3. ASSUME NEW h \in hooks, HandleUserEvent(h) PROVE PeopleInv'
  <2>1. /\ person' = PersonRow(h.name, h.enabled) /\ hooks' = hooks \ {h}
        /\ handled' = IF h.n > handled THEN h.n ELSE handled
        /\ doubts' = IF h.n < handled THEN doubts \cup {"order"} ELSE doubts
        /\ UNCHANGED <<kc, personCache, tokens, sent, edit, login, sync>>
        /\ \A e \in Editors : edit[e].pc \notin {"keycloak", "commit"}
    BY <1>3 DEF HandleUserEvent, Unlocked
  <2>2. /\ h \in Hooks /\ h.n \in Nat /\ handled \in Nat /\ sent \in Nat /\ h.n <= sent /\ handled <= sent
        /\ person' \in PersonRows /\ person' # Absent /\ person'.active = h.enabled
        /\ handled' \in Nat /\ handled' <= sent
    BY <1>0, <2>1 DEF PeopleTyped, Hooks, PersonRow, PersonRows, PeopleInv, HooksSound
  <2>3. PeopleTyped'
    BY <1>0, <2>1, <2>2 DEF PeopleTyped
  <2>4. EditsSound' /\ FillsSound' /\ HooksSound'
    BY <2>1, <2>2 DEF PeopleInv, EditsSound, FillsSound, HooksSound
  <2>5. RowFollows'
    <3> SUFFICES ASSUME doubts' = {}
                 PROVE  /\ handled' = sent \/ \E g \in hooks' : g.n = sent
                        /\ handled' = sent => person'.active = kc.enabled
      BY <2>1 DEF RowFollows
    <3>1. doubts = {} /\ ~(h.n < handled)
      BY <2>1
    <3>2. handled' = h.n
      BY <2>1, <2>2, <3>1
    <3>3. h.n = sent => h.enabled = kc.enabled
      BY DEF PeopleInv, HooksSound
    <3>4. h.n # sent => \E g \in hooks \ {h} : g.n = sent
      BY <2>2, <3>1 DEF PeopleInv, RowFollows
    <3> QED
      BY <2>1, <2>2, <3>2, <3>3, <3>4
  <2> QED
    BY <2>3, <2>4, <2>5 DEF PeopleInv
<1>4. ASSUME NEW h \in hooks, LoseEvent(h) PROVE PeopleInv'
  BY <1>4 DEF LoseEvent, PeopleInv, PeopleTyped, EditsSound, FillsSound, HooksSound, RowFollows
<1>5. ASSUME NEW e \in Editors, EditStep(e) PROVE PeopleInv'
  <2>1. CASE WriteInTransaction(e)
    <3>1. /\ edit[e].pc = "write" /\ edit' = [edit EXCEPT ![e].pc = "keycloak"]
          /\ UNCHANGED <<kc, person, personCache, tokens, hooks, sent, handled, login, sync, doubts>>
      BY <2>1 DEF WriteInTransaction
    <3>2. edit' \in [Editors -> EditTypes] /\ PeopleTyped'
      BY <1>0, <3>1 DEF PeopleTyped, EditTypes
    <3>3. \A f \in Editors : \/ edit'[f] = edit[f]
                             \/ /\ edit'[f].pc = "keycloak" /\ edit[f].pc = "write" /\ edit'[f].body = edit[f].body
                                /\ edit'[f].seen = edit[f].seen /\ edit'[f].current = edit[f].current
      BY <1>0, <3>1 DEF PeopleTyped, EditTypes
    <3>4. EditsSound'
      BY <3>1, <3>3 DEF PeopleInv, EditsSound
    <3> QED
      BY <3>1, <3>2, <3>4 DEF PeopleInv, FillsSound, HooksSound, RowFollows
  <2>2. CASE UpdateKeycloak(e)
    <3> DEFINE u == SentToKeycloak(e)
    <3>1. edit[e] \in EditTypes /\ edit[e].pc = "keycloak" /\ edit[e].body \in Edits /\ edit[e].seen \in PersonRows
      BY <1>0, <2>2 DEF UpdateKeycloak, PeopleInv, PeopleTyped, EditsSound
    <3>2. u \in KcUsers
      BY <3>1 DEF SentToKeycloak, OrElse, KcUsers, PersonRows
    <3>3. /\ Notify(u) /\ edit' = [Outdated EXCEPT ![e].pc = "commit"]
          /\ UNCHANGED <<person, personCache, tokens, handled, login, sync, doubts>>
      BY <2>2 DEF UpdateKeycloak
    <3>4. /\ Outdated \in [Editors -> EditTypes]
          /\ \A f \in Editors : /\ Outdated[f].current = FALSE /\ Outdated[f].pc = edit[f].pc
                                 /\ Outdated[f].body = edit[f].body /\ Outdated[f].seen = edit[f].seen
      BY <1>0 DEF Outdated, PeopleTyped, EditTypes
    <3>5. edit' \in [Editors -> EditTypes]
      BY <3>3, <3>4 DEF EditTypes
    <3>6. \A f \in Editors : /\ edit'[f].current = FALSE
                             /\ edit'[f].pc # "idle" => edit[f].pc # "idle"
                             /\ edit'[f].body = edit[f].body /\ edit'[f].seen = edit[f].seen
      BY <3>1, <3>3, <3>4 DEF EditTypes
    <3> HIDE DEF u
    <3> QED
      BY <3>2, <3>3, <3>5, <3>6, NotifyInv
  <2>3. CASE UpdateKeycloakFails(e) \/ CommitFails(e)
    <3>1. /\ edit' = [edit EXCEPT ![e] = NoEdit]
          /\ UNCHANGED <<kc, person, personCache, tokens, hooks, sent, handled, login, sync, doubts>>
      BY <2>3 DEF UpdateKeycloakFails, CommitFails
    <3>2. NoEdit \in EditTypes /\ NoEdit.pc = "idle"
      BY DEF NoEdit, EditTypes
    <3>3. PeopleTyped' /\ EditsSound'
      BY <1>0, <3>1, <3>2 DEF PeopleInv, PeopleTyped, EditsSound
    <3> QED
      BY <3>1, <3>3 DEF PeopleInv, FillsSound, HooksSound, RowFollows
  <2>4. CASE CommitUpdate(e)
    <3> DEFINE b == edit[e].body
    <3>1. /\ edit[e].pc = "commit" /\ edit' = [edit EXCEPT ![e] = NoEdit]
          /\ person' = PersonRow(OrElse(b.name, person.name), OrElse(b.active, person.active))
          /\ UNCHANGED <<kc, personCache, tokens, hooks, sent, handled, login, sync, doubts>>
      BY <2>4 DEF CommitUpdate
    <3>2. b \in Edits /\ person \in PersonRows /\ handled < sent /\ handled \in Nat /\ sent \in Nat
      BY <1>0, <3>1 DEF PeopleInv, PeopleTyped, EditsSound
    <3>3. person' \in PersonRows /\ person' # Absent
      BY <3>1, <3>2 DEF PersonRow, OrElse, PersonRows
    <3>4. NoEdit \in EditTypes /\ NoEdit.pc = "idle"
      BY DEF NoEdit, EditTypes
    <3>5. PeopleTyped' /\ EditsSound'
      BY <1>0, <3>1, <3>3, <3>4 DEF PeopleInv, PeopleTyped, EditsSound
    <3> QED
      BY <3>1, <3>2, <3>3, <3>5 DEF PeopleInv, FillsSound, HooksSound, RowFollows
  <2> QED
    BY <1>5, <2>1, <2>2, <2>3, <2>4 DEF EditStep
<1>6. ASSUME NEW e \in Editors, NEW b \in Edits, ReadForUpdate(e, b) PROVE PeopleInv'
  <2> DEFINE x == [pc |-> "write", body |-> b, seen |-> person,
                   current |-> person = PersonRow(kc.name, kc.enabled)]
  <2>1. /\ edit' = [edit EXCEPT ![e] = x] /\ person # Absent
        /\ UNCHANGED <<kc, person, personCache, tokens, hooks, sent, handled, login, sync, doubts>>
    BY <1>6 DEF ReadForUpdate
  <2>2. x \in EditTypes
    BY <1>0 DEF EditTypes, PeopleTyped
  <2>3. PeopleTyped'
    BY <1>0, <2>1, <2>2 DEF PeopleTyped
  <2>4. EditsSound'
    BY <1>0, <2>1 DEF PeopleInv, EditsSound, PeopleTyped
  <2> QED
    BY <2>1, <2>3, <2>4 DEF PeopleInv, FillsSound, HooksSound, RowFollows
<1>7. CASE GetToken
  BY <1>7 DEF GetToken, PeopleInv, PeopleTyped, KcUsers, EditsSound, FillsSound, HooksSound, RowFollows
<1>8. ASSUME NEW t \in tokens, ExpireToken(t) PROVE PeopleInv'
  BY <1>8 DEF ExpireToken, PeopleInv, PeopleTyped, EditsSound, FillsSound, HooksSound, RowFollows
<1>9. CASE ExpirePerson
  BY <1>9 DEF ExpirePerson, PeopleInv, PeopleTyped, EditsSound, FillsSound, HooksSound, RowFollows
<1>10. ASSUME NEW l \in Logins, CachePerson(l) PROVE PeopleInv'
  BY <1>10 DEF CachePerson, NoLogin, LoginTypes, PeopleInv, PeopleTyped, EditsSound, FillsSound, HooksSound, RowFollows
<1>11. ASSUME NEW l \in Logins, NEW t \in tokens, SavePersonFromUserData(l, t) PROVE PeopleInv'
  <2> DEFINE x == [pc |-> "cache", row |-> person']
  <2>1. /\ t \in PersonNames /\ tokens # {}
        /\ person' = PersonRow(t, IF person = Absent THEN TRUE ELSE person.active)
        /\ login' = [login EXCEPT ![l] = x]
        /\ UNCHANGED <<kc, personCache, tokens, hooks, sent, handled, edit, sync, doubts>>
    BY <1>0, <1>11 DEF SavePersonFromUserData, PeopleTyped
  <2>2. person' \in PersonRows
    BY <1>0, <2>1 DEF PersonRow, PersonRows, PeopleTyped
  <2>3. login' \in [Logins -> LoginTypes] /\ sync' \in SyncTypes /\ FillsSound'
    BY <1>0, <2>1, <2>2 DEF PeopleInv, PeopleTyped, LoginTypes, FillsSound
  <2> QED
    BY <2>1, <2>3, RowWritten
<1>12. CASE SyncPage
  BY <1>0, <1>12 DEF SyncPage, PeopleInv, PeopleTyped, KcUsers, SyncTypes, EditsSound, FillsSound, HooksSound, RowFollows
<1>13. CASE SyncUpsert
  <2> DEFINE n == sync.name
  <2>1. /\ n \in PersonNames
        /\ person' = PersonRow(n, IF person = Absent THEN TRUE ELSE person.active)
        /\ sync' = [pc |-> "done", name |-> Absent]
        /\ doubts' = IF person = Absent THEN doubts \cup {"created"} ELSE doubts
        /\ UNCHANGED <<kc, personCache, tokens, hooks, sent, handled, edit, login>>
    BY <1>13 DEF SyncUpsert, PeopleInv, FillsSound
  <2>2. login' \in [Logins -> LoginTypes] /\ sync' \in SyncTypes /\ FillsSound'
    BY <1>0, <2>1 DEF PeopleInv, PeopleTyped, SyncTypes, FillsSound
  <2> HIDE DEF n
  <2> QED
    BY <2>1, <2>2, RowWritten
<1>14. CASE UNCHANGED peopleVars
  BY <1>14 DEF peopleVars, PeopleInv, PeopleTyped, EditsSound, FillsSound, HooksSound, RowFollows
<1> QED
  BY <1>1, <1>2, <1>3, <1>4, <1>5, <1>6, <1>7, <1>8, <1>9, <1>10, <1>11, <1>12, <1>13, <1>14
  DEF PeopleNext, SyncStep

(* The copies of a user follow Keycloak's webhooks at every moment. *)
THEOREM PeopleInvariant == PeopleSpec => []PeopleInv
BY PeopleInvInit, PeopleInvNext, PTL DEF PeopleSpec

(* Only the step that sends an update to Keycloak takes it to its commit.  *)
LEMMA UpdateStep ==
    ASSUME PeopleInv, [PeopleNext]_peopleVars, NEW e \in Editors,
           edit[e].pc = "keycloak", edit'[e].pc = "commit", edit[e].current
    PROVE  /\ edit[e].body.name = Absent => kc'.name = kc.name
           /\ edit[e].body.active = Absent => kc'.enabled = kc.enabled
<1>1. kc' = SentToKeycloak(e)
  <2>1. ASSUME NEW f \in Editors, UpdateKeycloak(f), f # e PROVE edit'[e].pc = "keycloak"
    BY <2>1 DEF UpdateKeycloak, Outdated, PeopleInv, PeopleTyped, EditTypes
  <2>2. ASSUME NEW f \in Editors,
               \/ WriteInTransaction(f) \/ UpdateKeycloakFails(f) \/ CommitUpdate(f) \/ CommitFails(f)
               \/ \E b \in Edits : ReadForUpdate(f, b)
        PROVE  edit'[e].pc # "commit"
    BY <2>2 DEF WriteInTransaction, UpdateKeycloakFails, CommitUpdate, CommitFails, ReadForUpdate, NoEdit,
                PeopleInv, PeopleTyped, EditTypes
  <2>3. ASSUME edit' = Outdated PROVE FALSE
    BY <2>3 DEF Outdated, PeopleInv, PeopleTyped, EditTypes
  <2>4. ASSUME edit' = edit PROVE FALSE
    BY <2>4
  <2>5. UpdateKeycloak(e)
    BY <2>1, <2>2, <2>3, <2>4
    DEF PeopleNext, peopleVars, EditStep, ChangeInKeycloak, ChangeOwnProfile, HandleUserEvent, LoseEvent, GetToken,
        ExpireToken, ExpirePerson, CachePerson, SavePersonFromUserData, SyncStep, SyncPage, SyncUpsert
  <2> QED
    BY <2>5 DEF UpdateKeycloak, Notify
<1>2. edit[e].seen = PersonRow(kc.name, kc.enabled)
  BY DEF PeopleInv, EditsSound
<1> QED
  BY <1>1, <1>2 DEF SentToKeycloak, OrElse, PersonRow

(* However updates, webhooks, tokens and the sync interleave, and whichever *)
(* commits fail: the row and Keycloak agree on who is active once nothing  *)
(* is on its way, and an update changes what was asked for                 *)
(* (UsersService.update, the webhook controller, savePersonFromUserData).  *)
THEOREM PeopleStaySound == PeopleSpec => PersonSound
<1>1. PeopleInv => ActiveAgrees
  BY DEF PeopleInv, RowFollows, ActiveAgrees
<1>2. PeopleInv /\ [PeopleNext]_peopleVars =>
        [\A e \in Editors :
           (edit[e].pc = "keycloak" /\ edit'[e].pc = "commit" /\ edit[e].current) =>
              /\ edit[e].body.name = Absent => kc'.name = kc.name
              /\ edit[e].body.active = Absent => kc'.enabled = kc.enabled]_peopleVars
  BY UpdateStep
<1> QED
  BY <1>1, <1>2, PeopleInvariant, PTL DEF PeopleSpec, PersonSound, UpdateChangesWhatWasAsked
=============================================================================
